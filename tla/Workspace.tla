------------------------------ MODULE Workspace ------------------------------
(***************************************************************************)
(* Projects, the roles of their members, the lineage of memories and the    *)
(* handoff records.  Several processes (hubs and the command line) share    *)
(* one store.  A save resolves its project and validates the lineage of the *)
(* memory it brings, then looks for a memory of the same session, then      *)
(* stores; a review reads a held memory, writes it back and, when it is     *)
(* approved, saves it again; superseding a handoff checks and then stores.  *)
(* The other requests are one step: the store runs each in one transaction. *)
(* Appends are those of the default configuration, which joins snapshots by *)
(* their imported session only.                                             *)
(***************************************************************************)
EXTENDS Integers, FiniteSets

CONSTANTS
    Processes,
    Users,          \* None is the anonymous caller
    Projects,
    Local,          \* LOCAL_DEFAULT_PROJECT_ID
    DefaultOf,      \* _default_project_id of each user
    Memories, Sessions, Handoffs,
    Legacy,         \* memories of a store that knew no projects, with their owners
    MaxDepth,       \* _MAX_LINEAGE_DEPTH
    MaxValidationDepth, \* _MAX_LINEAGE_VALIDATION_DEPTH
    MaxRequests, MaxAdmin, \* bounds of the exploration
    None            \* absent value

ASSUME WorkspaceAssumption ==
    /\ Local \in Projects /\ DefaultOf \in [Users -> Projects \ {Local}]
    /\ None \notin Users \cup Projects \cup Memories \cup Sessions \cup Handoffs
    /\ DOMAIN Legacy \subseteq Memories
    /\ \A m \in DOMAIN Legacy : Legacy[m] \in Users \cup {None}
    /\ MaxDepth \in Nat /\ MaxValidationDepth \in Nat
    /\ MaxRequests \in Nat /\ MaxAdmin \in Nat

VARIABLES
    projects,   \* projects: owner and whether it is a default, or None
    role,       \* project_memberships: 0 for none
    memory,     \* conversations
    handoff,    \* handoffs
    supersededBy, \* handoff_supersessions
    open,       \* the processes that have opened the store
    job,        \* the request a process serves between its steps, or None
    requests, admin \* counters that bound the exploration

vars == <<projects, role, memory, handoff, supersededBy, open, job, requests, admin>>

(* PROJECT_ROLE_ORDER                                                       *)
Reader == 1
Writer == 2
Admin == 3
Roles == 0 .. 3

ProjectRows == [owner: Users \cup {None}, default: BOOLEAN]
(* A row is stamped with the identity of its session when it was made by    *)
(* ingest_messages; a memory saved for review keeps it in its payload only. *)
MemoryRows == [project: Projects \cup {None}, owner: Users \cup {None},
               session: Sessions \cup {None}, stamped: BOOLEAN,
               parent: Memories \cup {None}, handoff: BOOLEAN,
               status: {"active", "held", "rejected"}, version: Nat]
HandoffRows == [project: Projects, supersedes: Handoffs \cup {None},
                by: {"create_handoff", "supersede_handoff"}]

SaveJobs == [kind: {"lookup", "store"}, user: Users \cup {None}, project: Projects,
             id: Memories, session: Sessions \cup {None}, parent: Memories \cup {None},
             handoff: BOOLEAN, found: Memories \cup {None}, row: MemoryRows \cup {None}]
ReviewJobs == [kind: {"approve", "approved", "reject"}, user: Users \cup {None},
               project: Projects, id: Memories, row: MemoryRows]
SupersedeJobs == [kind: {"supersede"}, project: Projects, previous: Handoffs, id: Handoffs]
Jobs == SaveJobs \cup ReviewJobs \cup SupersedeJobs

ASSUME NoneAssumption == None \notin MemoryRows \cup HandoffRows \cup Jobs

-----------------------------------------------------------------------------
(* Projects and roles.                                                      *)

(* A user may have several defaults; one of them is used.                   *)
DefaultsOf(u) == {p \in Projects : projects[p] # None /\ projects[p].owner = u
                                                     /\ projects[p].default}

(* The projects that ensure_default_project may return for u.               *)
default_project(u) ==
    IF u = None THEN {Local} ELSE IF DefaultsOf(u) # {} THEN DefaultsOf(u) ELSE {DefaultOf[u]}

(* It is created when it is missing, and its user is made its admin.        *)
ensure_default_project(u, p) ==
    /\ projects' = [projects EXCEPT ![p] =
          IF @ = None THEN [owner |-> u, default |-> TRUE] ELSE [@ EXCEPT !.default = TRUE]]
    /\ role' = IF u = None THEN role ELSE [role EXCEPT ![p][u] = Admin]

project_has_role(p, u, required) ==
    IF u = None THEN p = Local ELSE projects[p] # None /\ role[p][u] >= required

(* Resolves the project a request names to p, or its default when asked is  *)
(* None.                                                                    *)
resolve_project(u, asked, required, p) ==
    IF asked = None THEN p \in default_project(u) /\ ensure_default_project(u, p)
    ELSE p = asked /\ project_has_role(p, u, required) /\ UNCHANGED <<projects, role>>

-----------------------------------------------------------------------------
(* Lineage.                                                                 *)

conversation_project_matches(m, p) ==
    memory[m].project = p \/ (memory[m].project = None /\ p = Local)

(* Every request has resolved a project, so the owner is not compared.      *)
conversation_authorized(m, p) == memory[m] # None /\ conversation_project_matches(m, p)

lineage_parent_id(m) == memory[m].parent

(* The walks of n steps from m to its parents, through stored memories and  *)
(* through none of them twice.                                              *)
Lineage(m, n) ==
    {path \in [0 .. n -> Memories] :
        /\ path[0] = m
        /\ \A i \in 0 .. n : memory[path[i]] # None /\ \A k \in 0 .. i - 1 : path[k] # path[i]
        /\ \A i \in 0 .. n - 1 : lineage_parent_id(path[i]) = path[i + 1]}

(* Mutant: only the parent itself is looked at.                             *)
OnlyTheParent(id, parent, p) ==
    parent # None => parent # id /\ conversation_authorized(parent, p)

(* The parent and all its ancestors are stored, in the project, not the     *)
(* memory itself, no cycle, and not too many.                               *)
validate_lineage_parent(id, parent, p) ==
    \/ parent = None
    \/ /\ parent \notin {None, id}
       /\ \E last \in 0 .. MaxValidationDepth - 1 : \E path \in Lineage(parent, last) :
             /\ \A n \in 0 .. last : path[n] # id /\ conversation_authorized(path[n], p)
             /\ lineage_parent_id(path[last]) = None

(* The lineage that is shown with m to readers of p breaks off at a memory  *)
(* that is not stored, or that they may not see.                            *)
missing_history(m, p) ==
    \E last \in 0 .. MaxDepth - 1 : \E path \in Lineage(m, last) :
        /\ lineage_parent_id(path[last]) # None
        /\ ~conversation_authorized(lineage_parent_id(path[last]), p)

-----------------------------------------------------------------------------
Init ==
    /\ projects = [p \in Projects |-> None]
    /\ role = [p \in Projects |-> [u \in Users |-> 0]]
    /\ memory = [m \in Memories |->
                   IF m \in DOMAIN Legacy
                   THEN [project |-> None, owner |-> Legacy[m], session |-> None,
                         stamped |-> FALSE, parent |-> None, handoff |-> FALSE,
                         status |-> "active", version |-> 0]
                   ELSE None]
    /\ handoff = [f \in Handoffs |-> None]
    /\ supersededBy = [f \in Handoffs |-> None]
    /\ open = {}
    /\ job = [h \in Processes |-> None]
    /\ requests = 0 /\ admin = 0

(* A process opens the store: the local default and those of the known      *)
(* users are created, and memories without a project move to the default of *)
(* their owner.                                                             *)
migrate_default_projects(h) ==
    LET owners == {u \in Users :
            \/ \E p \in Projects : \/ role[p][u] > 0
                                   \/ projects[p] # None /\ projects[p].owner = u
            \/ \E m \in Memories : memory[m] # None /\ memory[m].owner = u}
        home(u) == IF u = None THEN Local ELSE CHOOSE p \in default_project(u) : TRUE
    IN  /\ h \notin open
        /\ open' = open \cup {h}
        /\ projects' = [p \in Projects |->
              LET us == {u \in owners \cup {None} : home(u) = p}
              IN  IF us = {} THEN projects[p]
                  ELSE IF projects[p] = None
                  THEN [owner |-> CHOOSE u \in us : TRUE, default |-> TRUE]
                  ELSE [projects[p] EXCEPT !.default = TRUE]]
        /\ role' = [p \in Projects |-> [u \in Users |->
              IF u \in owners /\ home(u) = p THEN Admin ELSE role[p][u]]]
        /\ memory' = [m \in Memories |->
              IF memory[m] # None /\ memory[m].project = None
              THEN [memory[m] EXCEPT !.project = home(memory[m].owner)] ELSE memory[m]]
        /\ UNCHANGED <<handoff, supersededBy, job, requests, admin>>

(* aim admin project create: an existing project changes its owner.         *)
create_project(p, u) ==
    /\ open # {} /\ admin < MaxAdmin
    /\ admin' = admin + 1
    /\ projects' = [projects EXCEPT ![p] = [owner |-> u, default |-> FALSE]]
    /\ role' = [role EXCEPT ![p][u] = Admin]
    /\ UNCHANGED <<memory, handoff, supersededBy, open, job, requests>>

(* aim admin project member add: no check that the project exists.          *)
add_project_member(p, u, r) ==
    /\ open # {} /\ admin < MaxAdmin
    /\ admin' = admin + 1
    /\ role' = [role EXCEPT ![p][u] = r]
    /\ UNCHANGED <<projects, memory, handoff, supersededBy, open, job, requests>>

-----------------------------------------------------------------------------
(* Requests.                                                                *)

Idle(h) == h \in open /\ job[h] = None
Request(h) == Idle(h) /\ requests < MaxRequests /\ requests' = requests + 1

(* retrieve, and project_default_get and the searches alike: the only thing *)
(* a read may store is the caller's default project.                        *)
retrieve(h, u, asked) ==
    /\ Idle(h)
    /\ \E p \in Projects : resolve_project(u, asked, Reader, p)
    /\ UNCHANGED <<memory, handoff, supersededBy, open, job, requests, admin>>

(* The store writes a whole row, and sees to its owner's default project.   *)
StoreMemory(m, row) ==
    /\ memory' = [memory EXCEPT ![m] = row]
    /\ \E p \in default_project(row.owner) : ensure_default_project(row.owner, p)

SaveOf(u, p, id, session, parent, isHandoff) ==
    [kind |-> "lookup", user |-> u, project |-> p, id |-> id, session |-> session,
     parent |-> parent, handoff |-> isHandoff, found |-> None, row |-> None]

(* ingest_messages up to the lookups.  A handoff is a memory that has       *)
(* handoff_at.                                                              *)
Ingest(h, u, asked, id, session, parent, isHandoff) ==
    /\ Request(h)
    /\ memory[id] = None
    /\ \A g \in Processes : job[g] # None => job[g].id # id
    /\ \E p \in Projects :
          /\ resolve_project(u, asked, Writer, p)
          /\ validate_lineage_parent(id, parent, p)
          /\ job' = [job EXCEPT ![h] = SaveOf(u, p, id, session, parent, isHandoff)]
    /\ UNCHANGED <<memory, handoff, supersededBy, open, admin>>

(* aim handoff update: the memory it continues is a handoff the local user  *)
(* can see, and becomes the parent.                                         *)
HandoffUpdate(h, id, session, previous) ==
    /\ memory[previous] # None /\ memory[previous].status = "active"
    /\ conversation_authorized(previous, Local) /\ memory[previous].handoff
    /\ Ingest(h, None, None, id, session, previous, TRUE)

(* Mutant: the session is looked for in every project.                      *)
SameSessionAnywhere(j) ==
    {m \in Memories : /\ memory[m] # None /\ j.session # None
                      /\ memory[m].stamped /\ memory[m].session = j.session
                      /\ memory[m].status = "active"}

same_thread(j) ==
    {m \in Memories : /\ memory[m] # None /\ j.session # None
                      /\ memory[m].stamped /\ memory[m].session = j.session
                      /\ memory[m].status = "active"
                      /\ conversation_authorized(m, j.project)}

(* The memory that is found is read whole.                                  *)
lookup_same_thread(h) ==
    LET j == job[h]
        same == same_thread(j)
    IN  /\ job[h] # None /\ job[h].kind = "lookup"
        /\ \E m \in IF same = {} THEN {None} ELSE same :
              job' = [job EXCEPT ![h].kind = "store", ![h].found = m,
                                 ![h].row = IF m = None THEN None ELSE memory[m]]
        /\ UNCHANGED <<projects, role, memory, handoff, supersededBy, open, requests, admin>>

(* The transcript is known already, or older than the one that is stored,   *)
(* or a check or the store refuses it.                                      *)
NothingNew(h) ==
    /\ job[h] # None /\ job[h].kind \in {"lookup", "store"}
    /\ job' = [job EXCEPT ![h] = None]
    /\ UNCHANGED <<projects, role, memory, handoff, supersededBy, open, requests, admin>>

(* The keys of the conversations: their ids, and the sessions of a project. *)
conversation_is_new(id, p, session, stamped) ==
    /\ memory[id] = None
    /\ stamped /\ session # None =>
         ~\E m \in Memories : /\ memory[m] # None /\ memory[m].stamped
                              /\ memory[m].session = session /\ memory[m].project = p

(* What a save stores of a conversation that is new.                        *)
StoresNew(h, status) ==
    LET j == job[h]
    IN  /\ conversation_is_new(j.id, j.project, j.session, TRUE)
        /\ StoreMemory(j.id,
              [project |-> j.project, owner |-> j.user, session |-> j.session,
               stamped |-> TRUE, parent |-> j.parent, handoff |-> j.handoff,
               status |-> status, version |-> 0])
        /\ job' = [job EXCEPT ![h] = None]
        /\ UNCHANGED <<handoff, supersededBy, open, requests, admin>>

insert_new(h) ==
    /\ job[h] # None /\ job[h].kind = "store" /\ job[h].found = None
    /\ StoresNew(h, "active")

(* A conversation with sensitive content is held before any lookup.         *)
store_quarantined_memory(h) ==
    /\ job[h] # None /\ job[h].kind = "lookup"
    /\ StoresNew(h, "held")

(* Only what the memory does not have is taken from the new snapshot.       *)
merge_thread_metadata(row, j) ==
    [row EXCEPT !.parent = IF @ = None THEN j.parent ELSE @]

(* The memory that was read grows, unless it changed since: then it is      *)
(* looked up again.  A memory saved again has nothing to add to itself.     *)
append_conversation(h) ==
    LET j == job[h]
    IN  /\ j # None /\ j.kind = "store" /\ j.found \notin {None, j.id}
        /\ IF memory[j.found].version = j.row.version
           THEN /\ StoreMemory(j.found, [merge_thread_metadata(j.row, j) EXCEPT !.version = @ + 1])
                /\ job' = [job EXCEPT ![h] = None]
           ELSE /\ job' = [job EXCEPT ![h].kind = "lookup"]
                /\ UNCHANGED <<projects, role, memory>>
        /\ UNCHANGED <<handoff, supersededBy, open, requests, admin>>

(* A transcript that is known, with chunks missing from the index: the      *)
(* memory is written back as it was read.                                   *)
repair_duplicate(h) ==
    LET j == job[h]
    IN  /\ j # None /\ j.kind = "store" /\ j.found # None
        /\ StoreMemory(j.found, j.row)
        /\ job' = [job EXCEPT ![h] = None]
        /\ UNCHANGED <<handoff, supersededBy, open, requests, admin>>

-----------------------------------------------------------------------------
(* Review.                                                                  *)

(* Nothing validates the parent it names, nor stamps the session.           *)
store_pending_review_memory(h, u, asked, id, session, parent) ==
    /\ Request(h)
    /\ \A g \in Processes : job[g] # None => job[g].id # id
    /\ \E p \in Projects :
          /\ resolve_project(u, asked, Writer, p)
          /\ conversation_is_new(id, p, session, FALSE)
          /\ memory' = [memory EXCEPT ![id] =
                [project |-> p, owner |-> u, session |-> session, stamped |-> FALSE,
                 parent |-> parent, handoff |-> FALSE, status |-> "held", version |-> 0]]
    /\ UNCHANGED <<handoff, supersededBy, open, job, admin>>

(* The first halves of approve_pending_memory and reject_pending_memory:    *)
(* a held memory of the project is read.                                    *)
review_pending_memory(h, u, asked, m, decision) ==
    /\ Request(h)
    /\ \E p \in Projects :
          /\ resolve_project(u, asked, Writer, p)
          /\ conversation_authorized(m, p) /\ memory[m].status = "held"
          /\ job' = [job EXCEPT ![h] = [kind |-> decision, user |-> u, project |-> p,
                                        id |-> m, row |-> memory[m]]]
    /\ UNCHANGED <<memory, handoff, supersededBy, open, admin>>

(* What was read is written back with its new status.                       *)
approve_pending_memory(h) ==
    LET j == job[h]
        row == [j.row EXCEPT !.status = "active"]
    IN  /\ j # None /\ j.kind = "approve"
        /\ StoreMemory(j.id, row)
        /\ job' = [job EXCEPT ![h].kind = "approved", ![h].row = row]
        /\ UNCHANGED <<handoff, supersededBy, open, requests, admin>>

reject_pending_memory(h) ==
    LET j == job[h]
    IN  /\ j # None /\ j.kind = "reject"
        /\ StoreMemory(j.id, [j.row EXCEPT !.status = "rejected"])
        /\ job' = [job EXCEPT ![h] = None]
        /\ UNCHANGED <<handoff, supersededBy, open, requests, admin>>

(* An approved memory is saved again.  Its parent is validated only now,    *)
(* when the memory is active already; an error leaves it so.                *)
IngestApproved(h) ==
    LET j == job[h]
        again == SaveOf(j.user, j.project, j.id, j.row.session, j.row.parent, j.row.handoff)
    IN  /\ j # None /\ j.kind = "approved"
        /\ job' = [job EXCEPT ![h] =
              IF /\ project_has_role(j.project, j.user, Writer)
                 /\ validate_lineage_parent(j.id, j.row.parent, j.project)
              THEN again ELSE None]
        /\ UNCHANGED <<projects, role, memory, handoff, supersededBy, open, requests, admin>>

-----------------------------------------------------------------------------
(* Handoff records of the store.                                            *)

(* A record may name a handoff that it supersedes: only its own id is       *)
(* refused, and no supersession is stored.                                  *)
create_handoff(h, f, p, supersedes) ==
    /\ Request(h) /\ handoff[f] = None /\ supersedes # f
    /\ handoff' = [handoff EXCEPT ![f] =
          [project |-> p, supersedes |-> supersedes, by |-> "create_handoff"]]
    /\ UNCHANGED <<projects, role, memory, supersededBy, open, job, admin>>

get_handoff(f, p) ==
    IF handoff[f] = None \/ handoff[f].project # p THEN None
    ELSE [supersedes |-> handoff[f].supersedes, supersededBy |-> supersededBy[f]]

(* The check: the handoff is one of the project and not yet superseded.     *)
supersede_handoff(h, previous, f, p) ==
    /\ Request(h) /\ previous # f
    /\ get_handoff(previous, p) # None
    /\ get_handoff(previous, p).supersededBy = None
    /\ job' = [job EXCEPT ![h] =
          [kind |-> "supersede", project |-> p, previous |-> previous, id |-> f]]
    /\ UNCHANGED <<projects, role, memory, handoff, supersededBy, open, admin>>

(* Mutant: a second replacement overwrites the first one.                   *)
AlwaysAccepted(j) == handoff[j.id] = None

(* The keys of the two tables: a new handoff id, and one replacement for a  *)
(* handoff.                                                                 *)
supersession_accepted(j) == handoff[j.id] = None /\ supersededBy[j.previous] = None

(* Both rows are inserted, or the keys refuse one and neither is.           *)
SupersedeStores(h) ==
    LET j == job[h]
    IN  /\ j # None /\ j.kind = "supersede"
        /\ IF supersession_accepted(j)
           THEN /\ handoff' = [handoff EXCEPT ![j.id] =
                       [project |-> j.project, supersedes |-> j.previous,
                        by |-> "supersede_handoff"]]
                /\ supersededBy' = [supersededBy EXCEPT ![j.previous] = j.id]
           ELSE UNCHANGED <<handoff, supersededBy>>
        /\ job' = [job EXCEPT ![h] = None]
        /\ UNCHANGED <<projects, role, memory, open, requests, admin>>

(* The process dies between two steps of a request.                         *)
Crash(h) ==
    /\ job[h] # None
    /\ job' = [job EXCEPT ![h] = None]
    /\ open' = open \ {h}
    /\ UNCHANGED <<projects, role, memory, handoff, supersededBy, requests, admin>>

-----------------------------------------------------------------------------
Callers == Users \cup {None}

Next ==
    \/ \E p \in Projects, u \in Users :
         create_project(p, u) \/ \E r \in Reader .. Admin : add_project_member(p, u, r)
    \/ \E h \in Processes :
         \/ migrate_default_projects(h)
         \/ \E u \in Callers, asked \in Projects \cup {None} :
              \/ retrieve(h, u, asked)
              \/ \E id \in Memories, s \in Sessions \cup {None},
                    parent \in Memories \cup {None} :
                   \/ Ingest(h, u, asked, id, s, parent, FALSE)
                   \/ store_pending_review_memory(h, u, asked, id, s, parent)
              \/ \E m \in Memories, decision \in {"approve", "reject"} :
                   review_pending_memory(h, u, asked, m, decision)
         \/ \E id, previous \in Memories, s \in Sessions \cup {None} :
              \/ HandoffUpdate(h, id, s, previous)
              \/ Ingest(h, None, None, id, s, None, TRUE)
         \/ lookup_same_thread(h) \/ NothingNew(h) \/ insert_new(h) \/ append_conversation(h)
         \/ store_quarantined_memory(h) \/ repair_duplicate(h)
         \/ approve_pending_memory(h) \/ reject_pending_memory(h) \/ IngestApproved(h)
         \/ \E p \in Projects, f \in Handoffs :
              \/ \E g \in Handoffs \cup {None} : create_handoff(h, f, p, g)
              \/ \E g \in Handoffs : supersede_handoff(h, g, f, p)
         \/ SupersedeStores(h)
         \/ Crash(h)

Spec == Init /\ [][Next]_vars

-----------------------------------------------------------------------------
(* Properties.                                                              *)

(* The memory a save continues, or a review decides on, as it was read: the *)
(* columns that nobody changes still are what they were.                    *)
ReadRowIsCurrent(j) ==
    /\ j # None /\ j.kind \in {"lookup", "store"} /\ j.found # None =>
         /\ memory[j.found] # None /\ memory[j.found].project = j.project
         /\ j.row # None /\ j.row.project = j.project /\ j.row.stamped
         /\ memory[j.found].stamped /\ j.row.session = memory[j.found].session
    /\ j # None /\ j.kind \in {"approve", "approved", "reject"} =>
         /\ memory[j.id] # None /\ memory[j.id].project = j.project
         /\ j.row.project = j.project /\ (j.row.stamped <=> memory[j.id].stamped)
         /\ j.row.session = memory[j.id].session

(* The rows are well typed, no process serves requests before memories      *)
(* without a project were moved, and the memory a save has found, or a      *)
(* review has read, still is in its project and its session when it is      *)
(* written back.                                                            *)
TypeOK ==
    /\ projects \in [Projects -> ProjectRows \cup {None}]
    /\ role \in [Projects -> [Users -> Roles]]
    /\ memory \in [Memories -> MemoryRows \cup {None}]
    /\ handoff \in [Handoffs -> HandoffRows \cup {None}]
    /\ supersededBy \in [Handoffs -> Handoffs \cup {None}]
    /\ open \subseteq Processes
    /\ job \in [Processes -> Jobs \cup {None}]
    /\ requests \in Nat /\ admin \in Nat
    /\ \A h \in Processes : ReadRowIsCurrent(job[h])
    /\ open # {} => \A m \in Memories : memory[m] # None => memory[m].project # None

(* The lineage shown with a memory that a save has stored, to the depth it  *)
(* is shown, leads to no memory that its readers may not see and to none    *)
(* that is missing, whichever saves, appends, repairs, reviews and          *)
(* migrations ran: a parent and its ancestors are checked against the       *)
(* project of the snapshot that names it, one or more steps before it is    *)
(* stored, and an append gives it to another memory than it was checked     *)
(* for.  Memories saved for review are outside the claim: their parents are *)
(* not checked before they are stored, nor before they are active.          *)
LineageStaysInProject ==
    \A m \in Memories : memory[m] # None /\ memory[m].stamped =>
        memory[m].project # None /\ ~missing_history(m, memory[m].project)

(* Handoffs form chains, though two callers may both find one that is not   *)
(* superseded: a replacement names the handoff that it replaced, in its     *)
(* project, and no replacement is left that lost the race.  A record that   *)
(* was created with a predecessor of its own choice replaces nothing.       *)
HandoffsFormChains ==
    /\ \A f \in Handoffs : supersededBy[f] # None =>
         /\ handoff[f] # None /\ handoff[supersededBy[f]] # None
         /\ handoff[supersededBy[f]] = [project |-> handoff[f].project, supersedes |-> f,
                                        by |-> "supersede_handoff"]
    /\ \A f \in Handoffs : handoff[f] # None /\ handoff[f].by = "supersede_handoff" =>
         handoff[f].supersedes # None /\ supersededBy[handoff[f].supersedes] = f

=============================================================================
