-------------------------- MODULE Workspace_proofs --------------------------
(***************************************************************************)
(* Theorems about module Workspace, for any number of processes, users,    *)
(* projects, memories and handoffs.                                        *)
(***************************************************************************)
EXTENDS Workspace, NaturalsInduction, WellFoundedInduction, TLAPS

(* A parent that was validated: one of the memories in G, in the project.   *)
Known(G, parent, p) == parent # None => parent \in G /\ memory[parent].project = p

(* What the requests in flight know.  A save has validated its parent in    *)
(* its project, and the memory it has read had such a parent; a review has  *)
(* read a memory whose parent was validated if it is stamped, and otherwise *)
(* is the parent it still has.                                              *)
JobKnows(G, j) ==
    /\ j # None /\ j.kind \in {"lookup", "store"} =>
         Known(G, j.parent, j.project) /\ (j.found # None => Known(G, j.row.parent, j.project))
    /\ j # None /\ j.kind \in {"approve", "approved", "reject"} =>
         IF j.row.stamped THEN Known(G, j.row.parent, j.project)
         ELSE j.row.parent = memory[j.id].parent

(* The memories of G have their whole lineage in G, in their project, and   *)
(* those stored by saves are among them.  G also has the memories saved for *)
(* review that a validated lineage went through.                            *)
Closed(G) ==
    /\ \A m \in G : /\ memory[m] # None /\ memory[m].project # None
                    /\ Known(G, memory[m].parent, memory[m].project)
    /\ \A m \in Memories : memory[m] # None /\ memory[m].stamped => m \in G
    /\ \A h \in Processes : JobKnows(G, job[h])

LineageClosed == \E G \in SUBSET Memories : Closed(G)

(* A supersession has found a handoff of its project.                       *)
FoundHandoff(j) ==
    j # None /\ j.kind = "supersede" =>
        handoff[j.previous] # None /\ handoff[j.previous].project = j.project

(* The inductive invariant.                                                 *)
IInv ==
    /\ TypeOK
    /\ LineageClosed
    /\ HandoffsFormChains
    /\ \A h \in Processes : FoundHandoff(job[h]) /\ (job[h] # None => h \in open)

-----------------------------------------------------------------------------
(* Induction on the natural numbers, stated with the set of the numbers     *)
(* that have the property.                                                  *)

Below == OpToRel(<, Nat)

LEMMA LeastNumber ==
    ASSUME NEW T \in SUBSET Nat, T # {}
    PROVE  \E n \in T : \A m \in T : n <= m
  <1>1. IsWellFoundedOn(Below, Nat)
    BY NatLessThanWellFounded DEF Below
  <1>2. PICK n \in T : \A m \in T : ~ (<<m, n>> \in Below)
    BY <1>1, WFMin
  <1>3. \A m \in T : <<m, n>> \in Below <=> m < n
    BY DEF Below, OpToRel
  <1>4. \A m \in T : m \in Nat /\ n \in Nat /\ ~(m < n)
    BY <1>2, <1>3
  <1> QED
    BY <1>4

LEMMA SetInduction ==
    ASSUME NEW T, 0 \in T, \A n \in Nat : n \in T => n + 1 \in T
    PROVE  \A n \in Nat : n \in T
  <1> SUFFICES ASSUME NEW k \in Nat, k \notin T PROVE FALSE
    OBVIOUS
  <1>1. PICK n \in Nat \ T : \A m \in Nat \ T : n <= m
    BY LeastNumber
  <1>2. n # 0 /\ n - 1 \in Nat /\ n - 1 \in T
    BY <1>1
  <1> QED
    BY <1>2

-----------------------------------------------------------------------------
(* The kind of a request says what it holds.                                *)
LEMMA JobTypes ==
    ASSUME NEW j \in Jobs
    PROVE  /\ j # None
           /\ j.kind \in {"lookup", "store"} => j \in SaveJobs
           /\ j.kind \in {"approve", "approved", "reject"} => j \in ReviewJobs
           /\ j.kind = "supersede" => j \in SupersedeJobs
           /\ j.kind \in {"lookup", "store", "approve", "approved", "reject", "supersede"}
  BY NoneAssumption DEF Jobs, SaveJobs, ReviewJobs, SupersedeJobs

(* The whole lineage that is shown with a memory of G is in G.              *)
LEMMA ShownIsClosed ==
    ASSUME TypeOK, NEW G \in SUBSET Memories, Closed(G), NEW m \in G
    PROVE  ~missing_history(m, memory[m].project)
  <1> SUFFICES ASSUME NEW last \in 0 .. MaxDepth - 1, NEW path \in Lineage(m, last),
                      lineage_parent_id(path[last]) # None
               PROVE  conversation_authorized(lineage_parent_id(path[last]), memory[m].project)
    BY DEF missing_history
  <1> DEFINE T == {i \in Nat : i <= last =>
                       path[i] \in G /\ memory[path[i]].project = memory[m].project}
  <1>0. last \in Nat
    BY WorkspaceAssumption
  <1>1. 0 \in T
    BY DEF Lineage
  <1>2. ASSUME NEW i \in Nat, i \in T PROVE i + 1 \in T
    <2> SUFFICES ASSUME i + 1 <= last
                 PROVE  path[i + 1] \in G /\ memory[path[i + 1]].project = memory[m].project
      OBVIOUS
    <2>1. path[i] \in G /\ memory[path[i]].project = memory[m].project
      BY <1>0, <1>2
    <2>2. i \in 0 .. last - 1 /\ i + 1 \in 0 .. last
      BY <1>0
    <2>3. lineage_parent_id(path[i]) = path[i + 1] /\ path[i + 1] \in Memories
      BY <2>2 DEF Lineage
    <2>4. path[i + 1] # None /\ memory[path[i]].parent = path[i + 1]
      BY <2>3, WorkspaceAssumption DEF lineage_parent_id
    <2> QED
      BY <2>1, <2>4 DEF Closed, Known
  <1>3. \A i \in Nat : i \in T
    <2> HIDE DEF T
    <2> QED
      BY <1>1, <1>2, SetInduction
  <1>4. path[last] \in G /\ memory[path[last]].project = memory[m].project
    BY <1>0, <1>3
  <1>5. /\ memory[path[last]].parent \in G
        /\ memory[memory[path[last]].parent].project = memory[m].project
    BY <1>4 DEF Closed, Known, lineage_parent_id
  <1> QED
    BY <1>5 DEF Closed, conversation_authorized, conversation_project_matches,
                lineage_parent_id

LEMMA ClosedIsShown == IInv => LineageStaysInProject
  <1> SUFFICES ASSUME IInv, NEW m \in Memories, memory[m] # None, memory[m].stamped
               PROVE  memory[m].project # None /\ ~missing_history(m, memory[m].project)
    BY DEF LineageStaysInProject
  <1>1. PICK G \in SUBSET Memories : Closed(G)
    BY DEF IInv, LineageClosed
  <1>2. m \in G
    BY <1>1 DEF Closed
  <1> QED
    BY <1>1, <1>2, ShownIsClosed DEF IInv, Closed

(* A validated parent brings its lineage with it.                           *)
LEMMA ValidatedIsClosed ==
    ASSUME IInv, open # {}, NEW id \in Memories, NEW parent \in Memories \cup {None},
           NEW p \in Projects, validate_lineage_parent(id, parent, p)
    PROVE  \E G \in SUBSET Memories : Closed(G) /\ Known(G, parent, p)
  <1>1. PICK G \in SUBSET Memories : Closed(G)
    BY DEF IInv, LineageClosed
  <1>2. CASE parent = None
    BY <1>1, <1>2 DEF Known
  <1>3. CASE parent # None
    <2>1. PICK last \in 0 .. MaxValidationDepth - 1 :
            \E path \in Lineage(parent, last) :
              /\ \A n \in 0 .. last : path[n] # id /\ conversation_authorized(path[n], p)
              /\ lineage_parent_id(path[last]) = None
      BY <1>3 DEF validate_lineage_parent
    <2>2. PICK path \in Lineage(parent, last) :
              /\ \A n \in 0 .. last : path[n] # id /\ conversation_authorized(path[n], p)
              /\ lineage_parent_id(path[last]) = None
      BY <2>1
    <2>3. last \in Nat /\ path \in [0 .. last -> Memories] /\ path[0] = parent
      BY WorkspaceAssumption DEF Lineage
    <2>4. \A n \in 0 .. last : memory[path[n]] # None /\ memory[path[n]].project = p
      <3> SUFFICES ASSUME NEW n \in 0 .. last
                   PROVE  memory[path[n]] # None /\ memory[path[n]].project = p
        OBVIOUS
      <3>1. conversation_authorized(path[n], p) /\ path[n] \in Memories
        BY <2>2, <2>3
      <3>2. memory[path[n]].project # None
        BY <3>1 DEF IInv, TypeOK, conversation_authorized
      <3> QED
        BY <3>1, <3>2 DEF conversation_authorized, conversation_project_matches
    <2> DEFINE H == G \cup {path[n] : n \in 0 .. last}
    <2>5. H \in SUBSET Memories /\ G \subseteq H
      BY <2>3
    <2>6. \A n \in 0 .. last : path[n] \in H
      OBVIOUS
    <2>7. \A n \in 0 .. last : Known(H, memory[path[n]].parent, p)
      <3> SUFFICES ASSUME NEW n \in 0 .. last, memory[path[n]].parent # None
                   PROVE  /\ memory[path[n]].parent \in H
                          /\ memory[memory[path[n]].parent].project = p
        BY DEF Known
      <3>1. n # last
        BY <2>2 DEF lineage_parent_id
      <3>2. n \in 0 .. last - 1 /\ n + 1 \in 0 .. last
        BY <2>3, <3>1
      <3>3. memory[path[n]].parent = path[n + 1]
        BY <3>2 DEF Lineage, lineage_parent_id
      <3> HIDE DEF H
      <3> QED
        BY <2>4, <2>6, <3>2, <3>3
    <2>8. \A m \in H : m \in G \/ \E n \in 0 .. last : m = path[n]
      OBVIOUS
    <2> HIDE DEF H
    <2>9. \A q \in Projects, m \in Memories \cup {None} : Known(G, m, q) => Known(H, m, q)
      BY <2>5 DEF Known
    <2>10. ASSUME NEW m \in H
           PROVE  /\ memory[m] # None /\ memory[m].project # None
                  /\ Known(H, memory[m].parent, memory[m].project)
      <3>1. CASE m \in G
        BY <1>1, <2>5, <3>1 DEF Closed, Known
      <3>2. ASSUME NEW n \in 0 .. last, m = path[n] PROVE <2>10!2
        BY <2>4, <2>7, <3>2, WorkspaceAssumption
      <3> QED
        BY <2>8, <3>1, <3>2
    <2>11. \A h \in Processes : JobKnows(H, job[h])
      BY <1>1, <2>5 DEF Closed, JobKnows, Known
    <2>12. Closed(H)
      BY <1>1, <2>5, <2>10, <2>11 DEF Closed
    <2>13. Known(H, parent, p)
      <3>1. 0 \in 0 .. last
        BY <2>3
      <3> QED
        BY <2>3, <2>4, <2>6, <3>1 DEF Known
    <2> QED
      BY <2>5, <2>12, <2>13
  <1> QED
    BY <1>2, <1>3

-----------------------------------------------------------------------------
(* The initial state.                                                       *)
LEMMA InitHolds == Init => IInv
  <1> SUFFICES ASSUME Init PROVE IInv
    OBVIOUS
  <1>0. \A m \in Memories : memory[m] # None =>
           memory[m] \in MemoryRows /\ ~memory[m].stamped
    BY WorkspaceAssumption DEF Init, MemoryRows
  <1>1. TypeOK
    BY <1>0, WorkspaceAssumption
    DEF Init, TypeOK, ReadRowIsCurrent, ProjectRows, HandoffRows, Roles
  <1>2. Closed({})
    BY <1>0 DEF Init, Closed, JobKnows
  <1> QED
    BY <1>1, <1>2 DEF Init, IInv, LineageClosed, HandoffsFormChains, FoundHandoff

(* A default project is created or promoted.                                *)
LEMMA EnsureTypes ==
    ASSUME TypeOK, NEW u \in Users \cup {None}, NEW p \in Projects,
           ensure_default_project(u, p)
    PROVE  /\ projects' \in [Projects -> ProjectRows \cup {None}]
           /\ role' \in [Projects -> [Users -> Roles]]
  <1>1. (IF projects[p] = None THEN [owner |-> u, default |-> TRUE]
         ELSE [projects[p] EXCEPT !.default = TRUE]) \in ProjectRows
    BY DEF TypeOK, ProjectRows
  <1>2. projects' \in [Projects -> ProjectRows \cup {None}]
    BY <1>1 DEF ensure_default_project, TypeOK
  <1>3. CASE u = None
    BY <1>2, <1>3 DEF ensure_default_project, TypeOK
  <1>4. CASE u # None
    BY <1>2, <1>4 DEF ensure_default_project, TypeOK, Roles, Admin
  <1> QED
    BY <1>3, <1>4

LEMMA ResolveTypes ==
    ASSUME TypeOK, NEW u \in Users \cup {None}, NEW asked \in Projects \cup {None},
           NEW r \in Roles, NEW p \in Projects, resolve_project(u, asked, r, p)
    PROVE  /\ projects' \in [Projects -> ProjectRows \cup {None}]
           /\ role' \in [Projects -> [Users -> Roles]]
  <1>1. CASE asked # None
    BY <1>1 DEF resolve_project, TypeOK
  <1>2. CASE asked = None
    BY <1>2, EnsureTypes DEF resolve_project
  <1> QED
    BY <1>1, <1>2

LEMMA StoreTypes ==
    ASSUME TypeOK, NEW m, NEW row \in MemoryRows, StoreMemory(m, row)
    PROVE  /\ projects' \in [Projects -> ProjectRows \cup {None}]
           /\ role' \in [Projects -> [Users -> Roles]]
  <1>1. row.owner \in Users \cup {None}
    BY DEF MemoryRows
  <1>2. default_project(row.owner) \subseteq Projects
    BY <1>1, WorkspaceAssumption DEF default_project, DefaultsOf
  <1>3. PICK p \in Projects : ensure_default_project(row.owner, p)
    BY <1>2 DEF StoreMemory
  <1> QED
    BY <1>1, <1>3, EnsureTypes

(* The rest of the invariant only depends on what it mentions.              *)
LEMMA OnlyRolesChange ==
    ASSUME IInv,
           projects' \in [Projects -> ProjectRows \cup {None}],
           role' \in [Projects -> [Users -> Roles]], admin' \in Nat, requests' \in Nat,
           UNCHANGED <<memory, handoff, supersededBy, open, job>>
    PROVE  IInv'
  <1>1. TypeOK'
    BY DEF IInv, TypeOK, ReadRowIsCurrent
  <1>2. PICK G \in SUBSET Memories : Closed(G)
    BY DEF IInv, LineageClosed
  <1>3. \A g \in Processes : JobKnows(G, job[g])'
    BY <1>2 DEF Closed, JobKnows, Known
  <1>4. Closed(G)'
    BY <1>2, <1>3 DEF Closed, Known
  <1> QED
    BY <1>1, <1>4 DEF IInv, LineageClosed, HandoffsFormChains, FoundHandoff

LEMMA AdminSteps ==
    ASSUME IInv, NEW p \in Projects, NEW u \in Users,
           create_project(p, u) \/ \E r \in Reader .. Admin : add_project_member(p, u, r)
    PROVE  IInv'
  <1>1. admin' \in Nat /\ requests' \in Nat
    BY DEF IInv, TypeOK, create_project, add_project_member
  <1>2. CASE create_project(p, u)
    <2>1. projects' \in [Projects -> ProjectRows \cup {None}]
      BY <1>2 DEF IInv, TypeOK, create_project, ProjectRows
    <2>2. role' \in [Projects -> [Users -> Roles]]
      BY <1>2 DEF IInv, TypeOK, create_project, Roles, Admin
    <2> QED
      BY <1>1, <1>2, <2>1, <2>2, OnlyRolesChange DEF create_project
  <1>3. ASSUME NEW r \in Reader .. Admin, add_project_member(p, u, r) PROVE IInv'
    <2>1. role' \in [Projects -> [Users -> Roles]]
      BY <1>3 DEF IInv, TypeOK, add_project_member, Roles, Admin, Reader
    <2>2. projects' \in [Projects -> ProjectRows \cup {None}]
      BY <1>3 DEF IInv, TypeOK, add_project_member
    <2> QED
      BY <1>1, <1>3, <2>1, <2>2, OnlyRolesChange DEF add_project_member
  <1> QED
    BY <1>2, <1>3

LEMMA RetrieveStep ==
    ASSUME IInv, NEW h \in Processes, NEW u \in Users \cup {None},
           NEW asked \in Projects \cup {None}, retrieve(h, u, asked)
    PROVE  IInv'
  <1> PICK p \in Projects : resolve_project(u, asked, Reader, p)
    BY DEF retrieve
  <1>1. Reader \in Roles
    BY DEF Reader, Roles
  <1>2. TypeOK /\ admin' \in Nat /\ requests' \in Nat
    BY DEF IInv, TypeOK, retrieve
  <1>3. /\ projects' \in [Projects -> ProjectRows \cup {None}]
        /\ role' \in [Projects -> [Users -> Roles]]
    BY <1>1, <1>2, ResolveTypes
  <1> QED
    BY <1>2, <1>3, OnlyRolesChange DEF retrieve

(* Opening the store gives every memory a project and changes none that has *)
(* one, so that what the requests in flight validated stays true.           *)
LEMMA MigrateStep ==
    ASSUME IInv, NEW h \in Processes, migrate_default_projects(h)
    PROVE  IInv'
  <1> DEFINE home(u) == IF u = None THEN Local ELSE CHOOSE p \in default_project(u) : TRUE
  <1>1. \A u \in Users \cup {None} : home(u) \in Projects
    <2> SUFFICES ASSUME NEW u \in Users, u # None PROVE home(u) \in Projects
      BY WorkspaceAssumption
    <2>1. default_project(u) # {} /\ default_project(u) \subseteq Projects
      BY WorkspaceAssumption DEF default_project, DefaultsOf
    <2> QED
      BY <2>1
  <1> DEFINE moved(m) == [memory[m] EXCEPT !.project = home(memory[m].owner)]
  <1>20. \A m \in Memories : memory'[m] =
            IF memory[m] # None /\ memory[m].project = None THEN moved(m) ELSE memory[m]
    BY DEF migrate_default_projects
  <1>21. \A m \in Memories : memory[m] # None /\ memory[m].project = None =>
            /\ moved(m) \in MemoryRows /\ moved(m).project \in Projects
            /\ moved(m).parent = memory[m].parent /\ moved(m).stamped = memory[m].stamped
    <2> SUFFICES ASSUME NEW m \in Memories, memory[m] # None, memory[m].project = None
                 PROVE  /\ moved(m) \in MemoryRows /\ moved(m).project \in Projects
                        /\ moved(m).parent = memory[m].parent
                        /\ moved(m).stamped = memory[m].stamped
      OBVIOUS
    <2>1. memory[m] \in MemoryRows
      BY DEF IInv, TypeOK
    <2>2. home(memory[m].owner) \in Projects
      BY <1>1, <2>1 DEF MemoryRows
    <2> HIDE DEF home
    <2> QED
      BY <2>1, <2>2 DEF MemoryRows
  <1> HIDE DEF moved, home
  <1>22. \A m \in Memories : memory[m] # None => memory[m] \in MemoryRows
    BY DEF IInv, TypeOK
  <1>23. \A m \in Memories : memory[m] # None => memory'[m] \in MemoryRows
    BY <1>20, <1>21, <1>22
  <1>24. \A m \in Memories : memory[m] = None => memory'[m] = None
    BY <1>20
  <1>25. \A m \in Memories : memory[m] # None /\ memory[m].project # None =>
                              memory'[m] = memory[m]
    BY <1>20
  <1>26. \A m \in Memories : memory[m] # None => memory'[m].parent = memory[m].parent
    BY <1>20, <1>21
  <1>27. \A m \in Memories : memory[m] # None => memory'[m].project # None
    BY <1>20, <1>21, WorkspaceAssumption
  <1>3. memory' \in [Memories -> MemoryRows \cup {None}]
    <2>1. memory' = [m \in Memories |-> memory'[m]]
      BY DEF migrate_default_projects
    <2>2. \A m \in Memories : memory'[m] \in MemoryRows \cup {None}
      BY <1>23, <1>24
    <2> QED
      BY <2>1, <2>2
  <1>4. projects' \in [Projects -> ProjectRows \cup {None}]
    <2> SUFFICES ASSUME NEW p \in Projects PROVE projects'[p] \in ProjectRows \cup {None}
      BY DEF migrate_default_projects
    <2>1. projects[p] \in ProjectRows \cup {None}
      BY DEF IInv, TypeOK
    <2>2. PICK us \in SUBSET (Users \cup {None}) :
             projects'[p] = IF us = {} THEN projects[p]
                            ELSE IF projects[p] = None
                            THEN [owner |-> CHOOSE u \in us : TRUE, default |-> TRUE]
                            ELSE [projects[p] EXCEPT !.default = TRUE]
      <3> DEFINE owners == {u \in Users :
              \/ \E q \in Projects : \/ role[q][u] > 0
                                     \/ projects[q] # None /\ projects[q].owner = u
              \/ \E m \in Memories : memory[m] # None /\ memory[m].owner = u}
      <3> WITNESS {u \in owners \cup {None} : home(u) = p} \in SUBSET (Users \cup {None})
      <3> QED
        BY DEF migrate_default_projects, home
    <2> DEFINE chosen == CHOOSE u \in us : TRUE
    <2>3. us # {} => chosen \in Users \cup {None}
      OBVIOUS
    <2> HIDE DEF chosen
    <2>4. us # {} => [owner |-> chosen, default |-> TRUE] \in ProjectRows
      BY <2>3 DEF ProjectRows
    <2>5. projects[p] # None => [projects[p] EXCEPT !.default = TRUE] \in ProjectRows
      BY <2>1 DEF ProjectRows
    <2> QED
      BY <2>1, <2>2, <2>4, <2>5 DEF chosen
  <1>5. role' \in [Projects -> [Users -> Roles]]
    BY DEF migrate_default_projects, IInv, TypeOK, Roles, Admin
  <1>6. \A m \in Memories : memory'[m] # None => memory'[m].project # None
    BY <1>24, <1>27
  <1>7. \A g \in Processes : job'[g] = job[g]
    BY DEF migrate_default_projects
  <1>70. (\E g \in Processes : job[g] # None) => memory' = memory
    <2> SUFFICES ASSUME NEW g \in Processes, job[g] # None PROVE memory' = memory
      OBVIOUS
    <2>1. \A m \in Memories : memory[m] # None => memory[m].project # None
      BY DEF IInv, TypeOK
    <2>2. \A m \in Memories : memory'[m] = memory[m]
      BY <1>24, <1>25, <2>1
    <2> QED
      BY <1>3, <2>2 DEF IInv, TypeOK
  <1>71. \A g \in Processes : ReadRowIsCurrent(job[g])'
    <2> SUFFICES ASSUME NEW g \in Processes, job[g] # None PROVE ReadRowIsCurrent(job[g])'
      BY <1>7 DEF ReadRowIsCurrent
    <2> QED
      BY <1>7, <1>70 DEF IInv, TypeOK, ReadRowIsCurrent
  <1>8. TypeOK'
    BY <1>3, <1>4, <1>5, <1>6, <1>71 DEF migrate_default_projects, IInv, TypeOK
  <1>9. LineageClosed'
    <2>1. PICK G \in SUBSET Memories : Closed(G)
      BY DEF IInv, LineageClosed
    <2>2. \A m \in G : memory'[m] = memory[m]
      BY <1>25, <2>1 DEF Closed
    <2>3. \A m \in G : /\ memory'[m] # None /\ memory'[m].project # None
                       /\ Known(G, memory[m].parent, memory[m].project)'
      <3> SUFFICES ASSUME NEW m \in G
                   PROVE  /\ memory'[m] # None /\ memory'[m].project # None
                          /\ Known(G, memory[m].parent, memory[m].project)'
        OBVIOUS
      <3>1. /\ memory[m] # None /\ memory[m].project # None /\ memory'[m] = memory[m]
            /\ Known(G, memory[m].parent, memory[m].project)
        BY <2>1, <2>2 DEF Closed
      <3> QED
        BY <2>2, <3>1 DEF Known
    <2>4. \A m \in Memories : memory'[m] # None /\ memory'[m].stamped => m \in G
      <3> SUFFICES ASSUME NEW m \in Memories, memory'[m] # None, memory'[m].stamped
                   PROVE  m \in G
        OBVIOUS
      <3>1. memory[m] # None
        BY <1>24
      <3>2. memory'[m].stamped = memory[m].stamped
        BY <1>20, <1>21, <3>1
      <3> QED
        BY <2>1, <3>1, <3>2 DEF Closed
    <2>5. \A g \in Processes : JobKnows(G, job[g])'
      <3> SUFFICES ASSUME NEW g \in Processes, job[g] # None PROVE JobKnows(G, job[g])'
        BY <1>7 DEF JobKnows
      <3>1. JobKnows(G, job[g])
        BY <2>1 DEF Closed
      <3> QED
        BY <1>7, <1>70, <3>1 DEF JobKnows, Known
    <2>6. Closed(G)'
      BY <2>3, <2>4, <2>5 DEF Closed
    <2> QED
      BY <2>6 DEF LineageClosed
  <1>10. \A g \in Processes : job'[g] # None => g \in open'
    BY DEF migrate_default_projects, IInv
  <1> QED
    BY <1>8, <1>9, <1>10 DEF IInv, HandoffsFormChains, FoundHandoff, migrate_default_projects

(* A request that changes nothing but its own job keeps what it does not    *)
(* mention.                                                                 *)
LEMMA OnlyJobChanges ==
    ASSUME IInv, NEW h \in Processes, NEW j \in Jobs \cup {None},
           job' = [job EXCEPT ![h] = j],
           NEW G \in SUBSET Memories, Closed(G), JobKnows(G, j),
           FoundHandoff(j), ReadRowIsCurrent(j), j # None => h \in open,
           projects' \in [Projects -> ProjectRows \cup {None}],
           role' \in [Projects -> [Users -> Roles]], admin' \in Nat, requests' \in Nat,
           open' \in {open, open \ {h}}, open' = open \/ j = None,
           UNCHANGED <<memory, handoff, supersededBy>>
    PROVE  IInv'
  <1>1. \A g \in Processes : job'[g] = IF g = h THEN j ELSE job[g]
    BY DEF IInv, TypeOK
  <1>20. job' \in [Processes -> Jobs \cup {None}]
    BY DEF IInv, TypeOK
  <1>21. open' \subseteq Processes /\ (open' # {} => open # {})
    BY DEF IInv, TypeOK
  <1>22. \A g \in Processes : ReadRowIsCurrent(job[g])'
    <2> SUFFICES ASSUME NEW g \in Processes PROVE ReadRowIsCurrent(job[g])'
      OBVIOUS
    <2>1. ReadRowIsCurrent(job'[g])
      BY <1>1 DEF IInv, TypeOK
    <2> QED
      BY <2>1 DEF ReadRowIsCurrent
  <1>2. TypeOK'
    BY <1>20, <1>21, <1>22 DEF IInv, TypeOK
  <1>3. \A g \in Processes : FoundHandoff(job[g])' /\ (job'[g] # None => g \in open')
    <2> SUFFICES ASSUME NEW g \in Processes
                 PROVE  FoundHandoff(job[g])' /\ (job'[g] # None => g \in open')
      OBVIOUS
    <2>1. FoundHandoff(job'[g]) /\ (job'[g] # None => g \in open')
      BY <1>1 DEF IInv
    <2> QED
      BY <2>1 DEF FoundHandoff
  <1>4. \A g \in Processes : JobKnows(G, job[g])'
    <2> SUFFICES ASSUME NEW g \in Processes PROVE JobKnows(G, job[g])'
      OBVIOUS
    <2>1. JobKnows(G, job'[g])
      BY <1>1 DEF Closed
    <2> QED
      BY <2>1 DEF JobKnows, Known
  <1>5. Closed(G)'
    BY <1>4 DEF Closed, Known
  <1> QED
    BY <1>2, <1>3, <1>5 DEF IInv, LineageClosed, HandoffsFormChains

LEMMA ForgetStep ==
    ASSUME IInv, NEW h \in Processes, NothingNew(h) \/ Crash(h)
    PROVE  IInv'
  <1>1. PICK G \in SUBSET Memories : Closed(G)
    BY DEF IInv, LineageClosed
  <1>2. JobKnows(G, None) /\ FoundHandoff(None) /\ ReadRowIsCurrent(None)
    BY DEF JobKnows, FoundHandoff, ReadRowIsCurrent
  <1>3. /\ UNCHANGED <<projects, role, memory, handoff, supersededBy, requests, admin>>
        /\ job' = [job EXCEPT ![h] = None] /\ open' \in {open, open \ {h}}
    BY DEF NothingNew, Crash
  <1> QED
    BY <1>1, <1>2, <1>3, OnlyJobChanges DEF IInv, TypeOK

(* A save starts with a parent that is validated in its project.            *)
LEMMA SaveStarts ==
    ASSUME NEW G, NEW j \in SaveJobs, j.kind = "lookup", j.found = None,
           Known(G, j.parent, j.project)
    PROVE  j \in Jobs /\ JobKnows(G, j) /\ FoundHandoff(j) /\ ReadRowIsCurrent(j)
  BY DEF Jobs, JobKnows, FoundHandoff, ReadRowIsCurrent

LEMMA IngestStep ==
    ASSUME IInv, NEW h \in Processes, NEW u \in Users \cup {None},
           NEW asked \in Projects \cup {None}, NEW id \in Memories,
           NEW s \in Sessions \cup {None}, NEW parent \in Memories \cup {None},
           NEW isHandoff \in BOOLEAN, Ingest(h, u, asked, id, s, parent, isHandoff)
    PROVE  IInv'
  <1>1. PICK p \in Projects :
           /\ resolve_project(u, asked, Writer, p)
           /\ validate_lineage_parent(id, parent, p)
           /\ job' = [job EXCEPT ![h] = SaveOf(u, p, id, s, parent, isHandoff)]
    BY DEF Ingest
  <1>2. h \in open /\ open # {} /\ requests' \in Nat
    BY DEF Ingest, Request, Idle, IInv, TypeOK
  <1>3. PICK G \in SUBSET Memories : Closed(G) /\ Known(G, parent, p)
    BY <1>1, <1>2, ValidatedIsClosed
  <1>4. PICK j : j = SaveOf(u, p, id, s, parent, isHandoff)
    OBVIOUS
  <1>50. /\ j \in SaveJobs /\ j.kind = "lookup" /\ j.found = None
         /\ j.parent = parent /\ j.project = p
    BY <1>4 DEF SaveOf, SaveJobs
  <1>5. j \in Jobs /\ JobKnows(G, j) /\ FoundHandoff(j) /\ ReadRowIsCurrent(j)
    BY <1>3, <1>50, SaveStarts
  <1>6. /\ projects' \in [Projects -> ProjectRows \cup {None}]
        /\ role' \in [Projects -> [Users -> Roles]]
    <2>1. PICK r \in Roles : r = Writer
      BY DEF Writer, Roles
    <2>2. TypeOK /\ resolve_project(u, asked, r, p)
      BY <1>1, <2>1 DEF IInv
    <2> QED
      BY <2>2, ResolveTypes
  <1>7. UNCHANGED <<memory, handoff, supersededBy, open, admin>> /\ admin' \in Nat
    BY DEF Ingest, IInv, TypeOK
  <1> QED
    BY <1>1, <1>2, <1>3, <1>4, <1>5, <1>6, <1>7, OnlyJobChanges

(* What is found is in the project, and its parent was validated.           *)
LEMMA LookupStep ==
    ASSUME IInv, NEW h \in Processes, lookup_same_thread(h)
    PROVE  IInv'
  <1>1. PICK j : j = job[h]
    OBVIOUS
  <1>2. j \in SaveJobs /\ j # None /\ j.kind = "lookup" /\ h \in open
    BY <1>1, JobTypes DEF lookup_same_thread, IInv, TypeOK
  <1>30. PICK m \in IF same_thread(j) = {} THEN {None} ELSE same_thread(j) :
          job' = [job EXCEPT ![h].kind = "store", ![h].found = m,
                             ![h].row = IF m = None THEN None ELSE memory[m]]
    BY <1>1 DEF lookup_same_thread
  <1>31. m \in Memories \cup {None} /\ (m # None => m \in same_thread(j))
    BY DEF same_thread
  <1>4. m # None => /\ memory[m] \in MemoryRows /\ memory[m].stamped
                    /\ memory[m].project = j.project /\ memory[m] # None
    <2>1. m # None => /\ memory[m] # None /\ memory[m].stamped
                      /\ conversation_project_matches(m, j.project)
      BY <1>31 DEF same_thread, conversation_authorized
    <2>2. m # None => memory[m] \in MemoryRows /\ memory[m].project # None
      BY <1>2, <1>31, <2>1 DEF IInv, TypeOK
    <2> QED
      BY <2>1, <2>2 DEF conversation_project_matches
  <1>5. PICK row : row = IF m = None THEN None ELSE memory[m]
    OBVIOUS
  <1>6. PICK k : k = [j EXCEPT !.kind = "store", !.found = m, !.row = row]
    OBVIOUS
  <1>7. /\ k \in SaveJobs /\ k.kind = "store" /\ k.found = m /\ k.row = row
        /\ k.parent = j.parent /\ k.project = j.project
    BY <1>2, <1>31, <1>4, <1>5, <1>6 DEF SaveJobs
  <1>8. PICK G \in SUBSET Memories : Closed(G)
    BY DEF IInv, LineageClosed
  <1>9. JobKnows(G, k)
    <2>1. Known(G, j.parent, j.project)
      BY <1>1, <1>2, <1>8 DEF Closed, JobKnows
    <2>2. m # None => Known(G, memory[m].parent, memory[m].project)
      BY <1>31, <1>4, <1>8 DEF Closed
    <2> QED
      BY <1>4, <1>5, <1>7, <2>1, <2>2 DEF JobKnows
  <1>10. FoundHandoff(k) /\ ReadRowIsCurrent(k)
    BY <1>4, <1>5, <1>7 DEF FoundHandoff, ReadRowIsCurrent
  <1>11. k \in Jobs /\ job' = [job EXCEPT ![h] = k]
    BY <1>1, <1>30, <1>5, <1>6, <1>7 DEF Jobs
  <1>12. UNCHANGED <<projects, role, memory, handoff, supersededBy, open, requests, admin>>
    BY DEF lookup_same_thread
  <1> QED
    BY <1>2, <1>8, <1>9, <1>10, <1>11, <1>12, OnlyJobChanges DEF IInv, TypeOK

(* The write of a row: a memory keeps its project and its session for ever, *)
(* and takes a parent that was validated in its project; the parent of one  *)
(* saved for review is not validated, and does not change.                  *)
LEMMA RowChanges ==
    ASSUME IInv, NEW h \in Processes, NEW j \in Jobs \cup {None},
           job' = [job EXCEPT ![h] = j],
           NEW m \in Memories, NEW row \in MemoryRows,
           memory' = [memory EXCEPT ![m] = row], row.project # None,
           memory[m] # None => /\ row.project = memory[m].project
                               /\ row.session = memory[m].session
                               /\ (row.stamped <=> memory[m].stamped),
           NEW G \in SUBSET Memories, Closed(G),
           row.stamped => Known(G, row.parent, row.project),
           ~row.stamped /\ memory[m] # None => row.parent = memory[m].parent,
           FoundHandoff(j), ReadRowIsCurrent(j)', JobKnows(G, j)', j # None => h \in open,
           projects' \in [Projects -> ProjectRows \cup {None}],
           role' \in [Projects -> [Users -> Roles]], requests' \in Nat,
           UNCHANGED <<handoff, supersededBy, open, admin>>
    PROVE  IInv'
  <1>0. row # None
    BY NoneAssumption
  <1>1. \A g \in Processes : job'[g] = IF g = h THEN j ELSE job[g]
    BY DEF IInv, TypeOK
  <1>2. \A n \in Memories : memory'[n] = IF n = m THEN row ELSE memory[n]
    BY DEF IInv, TypeOK
  <1>3. \A n \in Memories : memory[n] # None =>
           /\ memory'[n] # None /\ memory'[n].project = memory[n].project
           /\ memory'[n].session = memory[n].session
           /\ (memory'[n].stamped <=> memory[n].stamped)
           /\ ~memory[n].stamped => memory'[n].parent = memory[n].parent
    BY <1>0, <1>2
  <1>4. memory' \in [Memories -> MemoryRows \cup {None}]
    BY DEF IInv, TypeOK
  <1>5. job' \in [Processes -> Jobs \cup {None}]
    BY DEF IInv, TypeOK
  <1>6. \A n \in Memories : open' # {} /\ memory'[n] # None => memory'[n].project # None
    BY <1>2 DEF IInv, TypeOK
  <1>7. ASSUME NEW g \in Processes, g # h PROVE ReadRowIsCurrent(job[g])'
    <2>1. PICK k : k = job[g]
      OBVIOUS
    <2>2. k = job'[g] /\ ReadRowIsCurrent(k) /\ k \in Jobs \cup {None}
      BY <1>1, <1>7, <2>1 DEF IInv, TypeOK
    <2>3. /\ k # None /\ k.kind \in {"lookup", "store"} => k.found \in Memories \cup {None}
          /\ k # None /\ k.kind \in {"approve", "approved", "reject"} => k.id \in Memories
      BY <2>2, JobTypes DEF SaveJobs, ReviewJobs
    <2>4. ReadRowIsCurrent(k)'
      BY <1>3, <2>2, <2>3 DEF ReadRowIsCurrent
    <2> QED
      BY <2>2, <2>4
  <1>8. ReadRowIsCurrent(job[h])'
    BY <1>1
  <1>9. TypeOK'
    BY <1>4, <1>5, <1>6, <1>7, <1>8 DEF IInv, TypeOK
  <1>10. \A g \in Processes : FoundHandoff(job[g])' /\ (job'[g] # None => g \in open')
    <2> SUFFICES ASSUME NEW g \in Processes
                 PROVE  FoundHandoff(job[g])' /\ (job'[g] # None => g \in open')
      OBVIOUS
    <2>1. FoundHandoff(job'[g]) /\ (job'[g] # None => g \in open')
      BY <1>1 DEF IInv
    <2> QED
      BY <2>1 DEF FoundHandoff
  <1>11. PICK H : H = IF row.stamped THEN G \cup {m} ELSE G
    OBVIOUS
  <1>12. H \in SUBSET Memories /\ G \subseteq H
    BY <1>11
  <1>13. \A n \in G : memory[n] # None /\ memory'[n] # None
                     /\ memory'[n].project = memory[n].project
    BY <1>3 DEF Closed
  <1>14. \A x \in Memories \cup {None}, q \in Projects \cup {None} :
            Known(G, x, q) => Known(H, x, q)'
    BY <1>12, <1>13 DEF Known
  <1>15. ASSUME NEW n \in H
         PROVE  /\ memory'[n] # None /\ memory'[n].project # None
                /\ Known(H, memory[n].parent, memory[n].project)'
    <2>1. PICK now : now = memory'[n]
      OBVIOUS
    <2>2. n \in G => /\ memory[n] # None /\ memory[n].project # None
                     /\ Known(G, memory[n].parent, memory[n].project)
      BY DEF Closed
    <2>3. now \in MemoryRows /\ now.project # None /\ Known(G, now.parent, now.project)
      <3>1. CASE n = m
        <4>1. now = row
          BY <1>2, <2>1, <3>1
        <4>2. CASE row.stamped
          BY <4>1, <4>2
        <4>3. CASE ~row.stamped
          <5>1. n \in G
            BY <1>11, <1>15, <4>3
          <5> QED
            BY <2>2, <3>1, <4>1, <4>3, <5>1
        <4> QED
          BY <4>2, <4>3
      <3>2. CASE n # m
        <4>1. n \in G /\ n \in Memories /\ now = memory[n]
          BY <1>2, <1>11, <1>15, <2>1, <3>2
        <4> QED
          BY <2>2, <4>1 DEF IInv, TypeOK
      <3> QED
        BY <3>1, <3>2
    <2>4. now.parent \in Memories \cup {None} /\ now.project \in Projects \cup {None}
      BY <2>3 DEF MemoryRows
    <2>5. Known(H, now.parent, now.project)'
      BY <1>14, <2>3, <2>4
    <2> QED
      BY <2>1, <2>3, <2>5, NoneAssumption
  <1>16. \A n \in Memories : memory'[n] # None /\ memory'[n].stamped => n \in H
    <2> SUFFICES ASSUME NEW n \in Memories, memory'[n] # None, memory'[n].stamped
                 PROVE  n \in H
      OBVIOUS
    <2>1. CASE n = m
      BY <1>2, <1>11, <2>1
    <2>2. CASE n # m
      BY <1>2, <1>12, <2>2 DEF Closed
    <2> QED
      BY <2>1, <2>2
  <1>17. ASSUME NEW g \in Processes PROVE JobKnows(H, job[g])'
    <2>1. CASE g = h
      <3>1. JobKnows(H, j)'
        BY <1>12 DEF JobKnows, Known
      <3> QED
        BY <1>1, <2>1, <3>1
    <2>2. CASE g # h
      <3>1. PICK k : k = job[g]
        OBVIOUS
      <3>2. k = job'[g] /\ JobKnows(G, k) /\ ReadRowIsCurrent(k) /\ k \in Jobs \cup {None}
        BY <1>1, <2>2, <3>1 DEF IInv, TypeOK, Closed
      <3>3. CASE k = None
        BY <3>2, <3>3 DEF JobKnows
      <3>4. CASE k # None /\ k.kind \in {"lookup", "store"}
        <4>1. k \in SaveJobs
          BY <3>2, <3>4, JobTypes
        <4>2. /\ k.parent \in Memories \cup {None}
              /\ k.found # None => k.row \in MemoryRows
          BY <3>2, <3>4, <4>1 DEF SaveJobs, ReadRowIsCurrent
        <4>3. k.found # None => k.row.parent \in Memories \cup {None}
          BY <4>2 DEF MemoryRows
        <4>40. k.project \in Projects
          BY <4>1 DEF SaveJobs
        <4>4. /\ Known(H, k.parent, k.project)'
              /\ k.found # None => Known(H, k.row.parent, k.project)'
          BY <1>14, <3>2, <3>4, <4>2, <4>3, <4>40 DEF JobKnows
        <4>5. JobKnows(H, k)'
          BY <3>4, <4>4 DEF JobKnows
        <4> QED
          BY <3>2, <4>5
      <3>5. CASE k # None /\ k.kind \in {"approve", "approved", "reject"}
        <4>1. k.id \in Memories /\ k.row \in MemoryRows /\ k.project \in Projects
          BY <3>2, <3>5, JobTypes DEF ReviewJobs
        <4>2. memory[k.id] # None /\ (k.row.stamped <=> memory[k.id].stamped)
          BY <3>2, <3>5 DEF ReadRowIsCurrent
        <4>3. k.row.parent \in Memories \cup {None}
          BY <4>1 DEF MemoryRows
        <4>4. k.row.stamped => Known(H, k.row.parent, k.project)'
          BY <1>14, <3>2, <3>5, <4>1, <4>3 DEF JobKnows
        <4>5. ~k.row.stamped => k.row.parent = memory'[k.id].parent
          BY <1>3, <3>2, <3>5, <4>1, <4>2 DEF JobKnows
        <4>6. JobKnows(H, k)'
          BY <3>5, <4>4, <4>5 DEF JobKnows
        <4> QED
          BY <3>2, <4>6
      <3>6. CASE k # None /\ k.kind = "supersede"
        BY <3>2, <3>6 DEF JobKnows
      <3> QED
        BY <3>2, <3>3, <3>4, <3>5, <3>6, JobTypes
    <2> QED
      BY <2>1, <2>2
  <1>18. Closed(H)'
    BY <1>15, <1>16, <1>17 DEF Closed
  <1> QED
    BY <1>9, <1>10, <1>12, <1>18 DEF IInv, LineageClosed, HandoffsFormChains

(* What is stored of a new conversation, active or held.                    *)
LEMMA InsertStep ==
    ASSUME IInv, NEW h \in Processes, insert_new(h) \/ store_quarantined_memory(h)
    PROVE  IInv'
  <1>1. PICK status \in {"active", "held"} :
           /\ job[h] # None /\ job[h].kind \in {"lookup", "store"}
           /\ StoresNew(h, status)
    BY DEF insert_new, store_quarantined_memory
  <1>2. PICK j : j = job[h]
    OBVIOUS
  <1>3. j \in SaveJobs
    BY <1>1, <1>2, JobTypes DEF IInv, TypeOK
  <1>4. PICK row : row = [project |-> j.project, owner |-> j.user, session |-> j.session,
                         stamped |-> TRUE, parent |-> j.parent, handoff |-> j.handoff,
                         status |-> status, version |-> 0]
    OBVIOUS
  <1>5. /\ row \in MemoryRows /\ j.id \in Memories /\ row.project = j.project
        /\ row.project # None /\ row.parent = j.parent /\ row.stamped
    BY <1>3, <1>4, WorkspaceAssumption DEF SaveJobs, MemoryRows
  <1>6. /\ StoreMemory(j.id, row) /\ memory[j.id] = None
        /\ job' = [job EXCEPT ![h] = None]
        /\ UNCHANGED <<handoff, supersededBy, open, requests, admin>>
    BY <1>1, <1>2, <1>4 DEF StoresNew, conversation_is_new
  <1>7. /\ projects' \in [Projects -> ProjectRows \cup {None}]
        /\ role' \in [Projects -> [Users -> Roles]]
        /\ memory' = [memory EXCEPT ![j.id] = row] /\ requests' \in Nat
    BY <1>5, <1>6, StoreTypes DEF IInv, TypeOK, StoreMemory
  <1>8. PICK G \in SUBSET Memories : Closed(G)
    BY DEF IInv, LineageClosed
  <1>9. Known(G, row.parent, row.project)
    BY <1>1, <1>2, <1>5, <1>8 DEF Closed, JobKnows
  <1>10. FoundHandoff(None) /\ ReadRowIsCurrent(None)' /\ JobKnows(G, None)'
    BY DEF JobKnows, FoundHandoff, ReadRowIsCurrent
  <1> QED
    BY <1>5, <1>6, <1>7, <1>8, <1>9, <1>10, RowChanges

(* A memory that was read is written back, with the parent of the snapshot  *)
(* if it had none.                                                          *)
LEMMA FoundRowStored ==
    ASSUME IInv, NEW h \in Processes, NEW j, j = job[h], j # None, j.kind = "store",
           j.found # None, NEW row \in MemoryRows,
           row.parent = j.parent \/ row.parent = j.row.parent,
           row.project = j.row.project, row.session = j.row.session,
           (row.stamped <=> j.row.stamped),
           StoreMemory(j.found, row), job' = [job EXCEPT ![h] = None],
           UNCHANGED <<handoff, supersededBy, open, requests, admin>>
    PROVE  IInv'
  <1>1. j \in SaveJobs /\ j.found \in Memories /\ j.project \in Projects
    BY JobTypes DEF IInv, TypeOK, SaveJobs
  <1>2. /\ memory[j.found] # None /\ memory[j.found].project = j.project
        /\ memory[j.found].stamped /\ j.row.project = j.project /\ j.row.stamped
        /\ j.row.session = memory[j.found].session
    BY DEF IInv, TypeOK, ReadRowIsCurrent
  <1>3. row.project = j.project /\ row.project # None /\ row.stamped
    BY <1>1, <1>2, WorkspaceAssumption
  <1>4. row.stamped <=> memory[j.found].stamped
    BY <1>2, <1>3
  <1>5. PICK G \in SUBSET Memories : Closed(G)
    BY DEF IInv, LineageClosed
  <1>6. Known(G, row.parent, row.project)
    BY <1>3, <1>5 DEF Closed, JobKnows
  <1>7. /\ projects' \in [Projects -> ProjectRows \cup {None}]
        /\ role' \in [Projects -> [Users -> Roles]]
        /\ memory' = [memory EXCEPT ![j.found] = row] /\ requests' \in Nat
    BY StoreTypes DEF IInv, TypeOK, StoreMemory
  <1>8. FoundHandoff(None) /\ ReadRowIsCurrent(None)' /\ JobKnows(G, None)'
    BY DEF JobKnows, FoundHandoff, ReadRowIsCurrent
  <1> QED
    BY <1>1, <1>2, <1>3, <1>4, <1>5, <1>6, <1>7, <1>8, RowChanges

LEMMA RepairStep ==
    ASSUME IInv, NEW h \in Processes, repair_duplicate(h)
    PROVE  IInv'
  <1>1. PICK j : j = job[h]
    OBVIOUS
  <1>2. /\ j # None /\ j.kind = "store" /\ j.found # None
        /\ StoreMemory(j.found, j.row) /\ job' = [job EXCEPT ![h] = None]
        /\ UNCHANGED <<handoff, supersededBy, open, requests, admin>>
    BY <1>1 DEF repair_duplicate
  <1>3. j.row \in MemoryRows
    BY <1>1, <1>2, JobTypes DEF IInv, TypeOK, SaveJobs, ReadRowIsCurrent
  <1> QED
    BY <1>1, <1>2, <1>3, FoundRowStored

LEMMA AppendStep ==
    ASSUME IInv, NEW h \in Processes, append_conversation(h)
    PROVE  IInv'
  <1>1. PICK j : j = job[h]
    OBVIOUS
  <1>2. j # None /\ j.kind = "store" /\ j.found # None
    BY <1>1 DEF append_conversation
  <1>3. j \in SaveJobs /\ j.row \in MemoryRows /\ j.parent \in Memories \cup {None}
    BY <1>1, <1>2, JobTypes DEF IInv, TypeOK, SaveJobs, ReadRowIsCurrent
  <1>4. CASE memory[j.found].version = j.row.version
    <2>1. PICK merged : merged = merge_thread_metadata(j.row, j)
      OBVIOUS
    <2>2. /\ merged \in MemoryRows /\ merged.project = j.row.project
          /\ merged.parent = j.parent \/ merged.parent = j.row.parent
          /\ merged.session = j.row.session /\ merged.stamped = j.row.stamped
      BY <1>3, <2>1 DEF merge_thread_metadata, MemoryRows
    <2>3. PICK row : row = [merged EXCEPT !.version = @ + 1]
      OBVIOUS
    <2>4. /\ row \in MemoryRows /\ row.project = merged.project
          /\ row.parent = merged.parent
          /\ row.session = merged.session /\ row.stamped = merged.stamped
      BY <2>2, <2>3 DEF MemoryRows
    <2>5. /\ StoreMemory(j.found, row) /\ job' = [job EXCEPT ![h] = None]
          /\ UNCHANGED <<handoff, supersededBy, open, requests, admin>>
      BY <1>1, <1>4, <2>1, <2>3 DEF append_conversation
    <2> QED
      BY <1>1, <1>2, <2>2, <2>4, <2>5, FoundRowStored
  <1>5. CASE memory[j.found].version # j.row.version
    <2>1. PICK k : k = [j EXCEPT !.kind = "lookup"]
      OBVIOUS
    <2>2. /\ k \in SaveJobs /\ k.parent = j.parent /\ k.project = j.project
          /\ k.row = j.row /\ k.found = j.found /\ k.kind = "lookup"
      BY <1>3, <2>1 DEF SaveJobs
    <2>3. /\ job' = [job EXCEPT ![h] = k]
          /\ UNCHANGED <<memory, projects, role, handoff, supersededBy, open, requests, admin>>
      BY <1>1, <1>5, <2>1 DEF append_conversation
    <2>4. PICK G \in SUBSET Memories : Closed(G)
      BY DEF IInv, LineageClosed
    <2>5. JobKnows(G, j) /\ ReadRowIsCurrent(j) /\ h \in open
      BY <1>1, <1>2, <2>4 DEF IInv, TypeOK, Closed
    <2>6. JobKnows(G, k) /\ FoundHandoff(k) /\ ReadRowIsCurrent(k) /\ k \in Jobs
      BY <1>2, <2>2, <2>5 DEF JobKnows, FoundHandoff, ReadRowIsCurrent, Jobs
    <2> QED
      BY <2>3, <2>4, <2>5, <2>6, OnlyJobChanges DEF IInv, TypeOK
  <1> QED
    BY <1>4, <1>5

-----------------------------------------------------------------------------
(* Review.                                                                  *)

LEMMA SaveForReviewStep ==
    ASSUME IInv, NEW h \in Processes, NEW u \in Users \cup {None},
           NEW asked \in Projects \cup {None}, NEW id \in Memories,
           NEW s \in Sessions \cup {None}, NEW parent \in Memories \cup {None},
           store_pending_review_memory(h, u, asked, id, s, parent)
    PROVE  IInv'
  <1>1. PICK p \in Projects :
           /\ resolve_project(u, asked, Writer, p)
           /\ conversation_is_new(id, p, s, FALSE)
           /\ memory' = [memory EXCEPT ![id] =
                [project |-> p, owner |-> u, session |-> s, stamped |-> FALSE,
                 parent |-> parent, handoff |-> FALSE, status |-> "held", version |-> 0]]
    BY DEF store_pending_review_memory
  <1>2. PICK row : row =
                [project |-> p, owner |-> u, session |-> s, stamped |-> FALSE,
                 parent |-> parent, handoff |-> FALSE, status |-> "held", version |-> 0]
    OBVIOUS
  <1>3. row \in MemoryRows /\ row.project # None /\ ~row.stamped
    BY <1>2, WorkspaceAssumption DEF MemoryRows
  <1>4. memory[id] = None /\ memory' = [memory EXCEPT ![id] = row]
    BY <1>1, <1>2 DEF conversation_is_new
  <1>5. /\ projects' \in [Projects -> ProjectRows \cup {None}]
        /\ role' \in [Projects -> [Users -> Roles]]
    <2>1. PICK r \in Roles : r = Writer
      BY DEF Writer, Roles
    <2>2. TypeOK /\ resolve_project(u, asked, r, p)
      BY <1>1, <2>1 DEF IInv
    <2> QED
      BY <2>2, ResolveTypes
  <1>6. /\ UNCHANGED <<handoff, supersededBy, open, admin>> /\ requests' \in Nat
        /\ job[h] = None /\ job' = job
    BY DEF store_pending_review_memory, Request, Idle, IInv, TypeOK
  <1>7. job' = [job EXCEPT ![h] = None]
    BY <1>6 DEF IInv, TypeOK
  <1>8. PICK G \in SUBSET Memories : Closed(G)
    BY DEF IInv, LineageClosed
  <1>9. FoundHandoff(None) /\ ReadRowIsCurrent(None)' /\ JobKnows(G, None)'
    BY DEF JobKnows, FoundHandoff, ReadRowIsCurrent
  <1> QED
    BY <1>3, <1>4, <1>5, <1>6, <1>7, <1>8, <1>9, RowChanges

LEMMA ReviewStep ==
    ASSUME IInv, NEW h \in Processes, NEW u \in Users \cup {None},
           NEW asked \in Projects \cup {None}, NEW m \in Memories,
           NEW decision \in {"approve", "reject"},
           review_pending_memory(h, u, asked, m, decision)
    PROVE  IInv'
  <1>1. PICK p \in Projects :
           /\ resolve_project(u, asked, Writer, p)
           /\ conversation_authorized(m, p)
           /\ job' = [job EXCEPT ![h] = [kind |-> decision, user |-> u, project |-> p,
                                        id |-> m, row |-> memory[m]]]
    BY DEF review_pending_memory
  <1>2. h \in open /\ requests' \in Nat /\ UNCHANGED <<memory, handoff, supersededBy, open, admin>>
    BY DEF review_pending_memory, Request, Idle, IInv, TypeOK
  <1>3. memory[m] # None /\ memory[m] \in MemoryRows /\ memory[m].project = p
    <2>1. memory[m] # None /\ memory[m] \in MemoryRows /\ memory[m].project # None
      BY <1>1, <1>2 DEF conversation_authorized, IInv, TypeOK
    <2> QED
      BY <1>1, <2>1 DEF conversation_authorized, conversation_project_matches
  <1>4. PICK j : j = [kind |-> decision, user |-> u, project |-> p, id |-> m, row |-> memory[m]]
    OBVIOUS
  <1>5. /\ j \in ReviewJobs /\ j.kind \in {"approve", "reject"} /\ j.id = m
        /\ j.row = memory[m] /\ j.project = p
    BY <1>3, <1>4 DEF ReviewJobs
  <1>6. PICK G \in SUBSET Memories : Closed(G)
    BY DEF IInv, LineageClosed
  <1>7. memory[m].stamped => Known(G, memory[m].parent, memory[m].project)
    BY <1>3, <1>6 DEF Closed
  <1>8. JobKnows(G, j) /\ FoundHandoff(j) /\ ReadRowIsCurrent(j) /\ j \in Jobs
    BY <1>3, <1>5, <1>7 DEF JobKnows, FoundHandoff, ReadRowIsCurrent, Jobs
  <1>9. /\ projects' \in [Projects -> ProjectRows \cup {None}]
        /\ role' \in [Projects -> [Users -> Roles]]
    <2>1. TypeOK /\ resolve_project(u, asked, Writer, p) /\ Writer \in Roles
      BY <1>1 DEF IInv, Writer, Roles
    <2> QED
      BY <2>1, ResolveTypes
  <1>10. job' = [job EXCEPT ![h] = j]
    BY <1>1, <1>4
  <1>11. admin' \in Nat /\ open' = open /\ UNCHANGED <<memory, handoff, supersededBy>>
    BY <1>2 DEF IInv, TypeOK
  <1> QED
    BY <1>2, <1>6, <1>8, <1>9, <1>10, <1>11, OnlyJobChanges

(* What a review read is written back, with its decision.                   *)
LEMMA DecisionStored ==
    ASSUME IInv, NEW h \in Processes, NEW j, j = job[h], j # None,
           j.kind \in {"approve", "reject"}, NEW status \in {"active", "rejected"},
           NEW row, row = [j.row EXCEPT !.status = status], StoreMemory(j.id, row),
           NEW k \in {None, [j EXCEPT !.kind = "approved", !.row = row]},
           job' = [job EXCEPT ![h] = k],
           UNCHANGED <<handoff, supersededBy, open, requests, admin>>
    PROVE  IInv'
  <1>1. j \in ReviewJobs /\ j.id \in Memories /\ j.project \in Projects /\ j.row \in MemoryRows
    BY JobTypes DEF IInv, TypeOK, ReviewJobs
  <1>2. /\ memory[j.id] # None /\ memory[j.id].project = j.project
        /\ j.row.project = j.project /\ (j.row.stamped <=> memory[j.id].stamped)
        /\ j.row.session = memory[j.id].session
    BY DEF IInv, TypeOK, ReadRowIsCurrent
  <1>3. /\ row \in MemoryRows /\ row.project = j.project /\ (row.stamped <=> j.row.stamped)
        /\ row.session = j.row.session /\ row.parent = j.row.parent
    BY <1>1, <1>2 DEF MemoryRows
  <1>4. row.project # None /\ row # None
    BY <1>1, <1>3, WorkspaceAssumption, NoneAssumption
  <1>5. /\ projects' \in [Projects -> ProjectRows \cup {None}]
        /\ role' \in [Projects -> [Users -> Roles]]
        /\ memory' = [memory EXCEPT ![j.id] = row] /\ requests' \in Nat
    BY <1>3, StoreTypes DEF IInv, TypeOK, StoreMemory
  <1>6. PICK G \in SUBSET Memories : Closed(G)
    BY DEF IInv, LineageClosed
  <1>7. /\ j.row.stamped => Known(G, j.row.parent, j.project)
        /\ ~j.row.stamped => j.row.parent = memory[j.id].parent
    BY <1>6 DEF Closed, JobKnows
  <1>8. memory'[j.id] = row
    BY <1>1, <1>5 DEF IInv, TypeOK
  <1>9. /\ k \in Jobs \cup {None}
        /\ k # None => /\ k.kind = "approved" /\ k.row = row /\ k.id = j.id
                       /\ k.project = j.project
    BY <1>1, <1>3 DEF Jobs, ReviewJobs
  <1>10. FoundHandoff(k) /\ (k # None => h \in open)
    BY <1>9 DEF FoundHandoff, IInv
  <1>11. ReadRowIsCurrent(k)'
    <2>1. CASE k = None
      BY <2>1 DEF ReadRowIsCurrent
    <2>2. CASE k # None
      <3>1. /\ k.kind = "approved" /\ memory'[k.id] = k.row /\ k.row # None
            /\ k.row.project = k.project
        BY <1>3, <1>4, <1>8, <1>9, <2>2
      <3>2. k.row.stamped <=> memory'[k.id].stamped
        BY <3>1
      <3> QED
        BY <3>1, <3>2 DEF ReadRowIsCurrent
    <2> QED
      BY <2>1, <2>2
  <1>12. row.stamped => Known(G, row.parent, j.project)'
    <2> SUFFICES ASSUME row.stamped, row.parent # None
                 PROVE  row.parent \in G /\ memory'[row.parent].project = j.project
      BY DEF Known
    <2>1. row.parent \in G /\ memory[row.parent].project = j.project
      BY <1>3, <1>7 DEF Known
    <2> QED
      BY <1>1, <1>2, <1>3, <1>5, <1>8, <2>1 DEF IInv, TypeOK
  <1>13. JobKnows(G, k)'
    BY <1>8, <1>9, <1>12 DEF JobKnows
  <1>14. /\ row.stamped => Known(G, row.parent, row.project)
         /\ ~row.stamped => row.parent = memory[j.id].parent
    BY <1>3, <1>7
  <1>15. /\ row.project = memory[j.id].project /\ row.session = memory[j.id].session
         /\ (row.stamped <=> memory[j.id].stamped)
    BY <1>2, <1>3
  <1>16. /\ UNCHANGED <<handoff, supersededBy, open, admin>>
         /\ job' = [job EXCEPT ![h] = k] /\ k \in Jobs \cup {None} /\ row \in MemoryRows
         /\ j.id \in Memories
    BY <1>1, <1>3, <1>9
  <1> QED
    BY <1>4, <1>5, <1>6, <1>10, <1>11, <1>13, <1>14, <1>15, <1>16, RowChanges

LEMMA DecisionStep ==
    ASSUME IInv, NEW h \in Processes, approve_pending_memory(h) \/ reject_pending_memory(h)
    PROVE  IInv'
  <1>1. PICK j : j = job[h]
    OBVIOUS
  <1>2. CASE approve_pending_memory(h)
    <2>1. PICK row : row = [j.row EXCEPT !.status = "active"]
      OBVIOUS
    <2>2. PICK k : k = [j EXCEPT !.kind = "approved", !.row = row]
      OBVIOUS
    <2>3. /\ j # None /\ j.kind = "approve" /\ StoreMemory(j.id, row)
          /\ UNCHANGED <<handoff, supersededBy, open, requests, admin>>
      BY <1>1, <1>2, <2>1 DEF approve_pending_memory
    <2>4. job' = [job EXCEPT ![h] = k]
      BY <1>1, <1>2, <2>1, <2>2 DEF approve_pending_memory
    <2> QED
      BY <1>1, <2>1, <2>2, <2>3, <2>4, DecisionStored
  <1>3. CASE reject_pending_memory(h)
    <2>1. PICK row : row = [j.row EXCEPT !.status = "rejected"]
      OBVIOUS
    <2>2. /\ j # None /\ j.kind = "reject" /\ StoreMemory(j.id, row)
          /\ job' = [job EXCEPT ![h] = None]
          /\ UNCHANGED <<handoff, supersededBy, open, requests, admin>>
      BY <1>1, <1>3, <2>1 DEF reject_pending_memory
    <2> QED
      BY <1>1, <2>1, <2>2, DecisionStored
  <1> QED
    BY <1>2, <1>3

(* An approved memory is saved again as any other.                          *)
LEMMA IngestApprovedStep ==
    ASSUME IInv, NEW h \in Processes, IngestApproved(h)
    PROVE  IInv'
  <1>1. PICK j : j = job[h]
    OBVIOUS
  <1>2. j # None /\ j.kind = "approved"
    BY <1>1 DEF IngestApproved
  <1>3. /\ j \in ReviewJobs /\ j.id \in Memories /\ j.project \in Projects
        /\ j.row \in MemoryRows /\ j.user \in Users \cup {None}
    BY <1>1, <1>2, JobTypes DEF IInv, TypeOK, ReviewJobs
  <1>4. /\ j.row.parent \in Memories \cup {None} /\ j.row.session \in Sessions \cup {None}
        /\ j.row.handoff \in BOOLEAN
    BY <1>3 DEF MemoryRows
  <1>5. h \in open /\ open # {}
    BY <1>1, <1>2 DEF IInv
  <1>6. UNCHANGED <<projects, role, memory, handoff, supersededBy, open, requests, admin>>
    BY DEF IngestApproved
  <1>7. PICK k : k = SaveOf(j.user, j.project, j.id, j.row.session, j.row.parent, j.row.handoff)
    OBVIOUS
  <1>8. CASE job' = [job EXCEPT ![h] = k] /\ validate_lineage_parent(j.id, j.row.parent, j.project)
    <2>1. PICK G \in SUBSET Memories : Closed(G) /\ Known(G, j.row.parent, j.project)
      BY <1>3, <1>4, <1>5, <1>8, ValidatedIsClosed
    <2>20. /\ k \in SaveJobs /\ k.kind = "lookup" /\ k.found = None
           /\ k.parent = j.row.parent /\ k.project = j.project
      BY <1>3, <1>4, <1>7 DEF SaveOf, SaveJobs
    <2>2. k \in Jobs /\ JobKnows(G, k) /\ FoundHandoff(k) /\ ReadRowIsCurrent(k)
      BY <2>1, <2>20, SaveStarts
    <2>3. /\ projects' \in [Projects -> ProjectRows \cup {None}]
          /\ role' \in [Projects -> [Users -> Roles]] /\ admin' \in Nat /\ requests' \in Nat
          /\ open' = open /\ UNCHANGED <<memory, handoff, supersededBy>>
      BY <1>6 DEF IInv, TypeOK
    <2> QED
      BY <1>5, <1>8, <2>1, <2>2, <2>3, OnlyJobChanges
  <1>9. CASE job' = [job EXCEPT ![h] = None]
    <2>1. PICK G \in SUBSET Memories : Closed(G)
      BY DEF IInv, LineageClosed
    <2>2. JobKnows(G, None) /\ FoundHandoff(None) /\ ReadRowIsCurrent(None)
      BY DEF JobKnows, FoundHandoff, ReadRowIsCurrent
    <2> QED
      BY <1>6, <1>9, <2>1, <2>2, OnlyJobChanges DEF IInv, TypeOK
  <1> QED
    BY <1>1, <1>7, <1>8, <1>9 DEF IngestApproved

-----------------------------------------------------------------------------
(* Handoffs: a new one, the check of a supersession, and its two rows.      *)
LEMMA HandoffRowsChange ==
    ASSUME IInv, handoff' \in [Handoffs -> HandoffRows \cup {None}],
           supersededBy' \in [Handoffs -> Handoffs \cup {None}],
           \A f \in Handoffs : handoff[f] # None => handoff'[f] = handoff[f],
           HandoffsFormChains', requests' \in Nat,
           UNCHANGED <<memory, projects, role, open, admin>>,
           NEW h \in Processes, job' \in {job, [job EXCEPT ![h] = None]}
    PROVE  IInv'
  <1>1. \A g \in Processes : job'[g] \in {job[g], None}
    BY DEF IInv, TypeOK
  <1>2. job' \in [Processes -> Jobs \cup {None}]
    BY DEF IInv, TypeOK
  <1>3. \A g \in Processes : FoundHandoff(job[g])' /\ ReadRowIsCurrent(job[g])'
                             /\ (job'[g] # None => g \in open')
    <2> SUFFICES ASSUME NEW g \in Processes, job'[g] = job[g], job[g] # None
                 PROVE  FoundHandoff(job[g])' /\ ReadRowIsCurrent(job[g])' /\ g \in open'
      BY <1>1 DEF FoundHandoff, ReadRowIsCurrent
    <2>1. FoundHandoff(job[g]) /\ ReadRowIsCurrent(job[g]) /\ g \in open
      BY DEF IInv, TypeOK
    <2>2. job[g].kind = "supersede" => job[g].previous \in Handoffs
      BY JobTypes DEF IInv, TypeOK, SupersedeJobs
    <2> QED
      BY <2>1, <2>2 DEF FoundHandoff, ReadRowIsCurrent
  <1>4. TypeOK'
    BY <1>2, <1>3 DEF IInv, TypeOK
  <1>5. PICK G \in SUBSET Memories : Closed(G)
    BY DEF IInv, LineageClosed
  <1>6. \A g \in Processes : JobKnows(G, job[g])'
    <2> SUFFICES ASSUME NEW g \in Processes, job'[g] = job[g] PROVE JobKnows(G, job[g])'
      BY <1>1 DEF JobKnows
    <2> QED
      BY <1>5 DEF Closed, JobKnows, Known
  <1>7. Closed(G)'
    BY <1>5, <1>6 DEF Closed, Known
  <1> QED
    BY <1>1, <1>3, <1>4, <1>7 DEF IInv, LineageClosed

LEMMA CreateHandoffStep ==
    ASSUME IInv, NEW h \in Processes, NEW f \in Handoffs, NEW p \in Projects,
           NEW supersedes \in Handoffs \cup {None}, create_handoff(h, f, p, supersedes)
    PROVE  IInv'
  <1> DEFINE row == [project |-> p, supersedes |-> supersedes, by |-> "create_handoff"]
  <1>1. row \in HandoffRows /\ row.by # "supersede_handoff"
    BY DEF HandoffRows
  <1>2. handoff[f] = None /\ handoff' = [handoff EXCEPT ![f] = row]
    BY DEF create_handoff
  <1> HIDE DEF row
  <1>3. /\ handoff' \in [Handoffs -> HandoffRows \cup {None}]
        /\ \A g \in Handoffs : handoff'[g] = IF g = f THEN row ELSE handoff[g]
    BY <1>1, <1>2 DEF IInv, TypeOK
  <1>4. supersededBy' = supersededBy /\ supersededBy \in [Handoffs -> Handoffs \cup {None}]
    BY DEF create_handoff, IInv, TypeOK
  <1>5. HandoffsFormChains'
    BY <1>1, <1>2, <1>3, <1>4 DEF IInv, HandoffsFormChains
  <1> QED
    BY <1>2, <1>3, <1>4, <1>5, HandoffRowsChange
    DEF create_handoff, Request, IInv, TypeOK

LEMMA SupersedeStep ==
    ASSUME IInv, NEW h \in Processes, NEW g \in Handoffs, NEW f \in Handoffs,
           NEW p \in Projects, supersede_handoff(h, g, f, p)
    PROVE  IInv'
  <1> DEFINE j == [kind |-> "supersede", project |-> p, previous |-> g, id |-> f]
  <1>1. j \in SupersedeJobs /\ j.kind = "supersede" /\ j.previous = g /\ j.project = p
    BY DEF SupersedeJobs
  <1>2. job' = [job EXCEPT ![h] = j] /\ h \in open
    BY DEF supersede_handoff, Request, Idle
  <1>3. handoff[g] # None /\ handoff[g].project = p
    BY DEF supersede_handoff, get_handoff
  <1> HIDE DEF j
  <1>4. PICK G \in SUBSET Memories : Closed(G)
    BY DEF IInv, LineageClosed
  <1>40. JobKnows(G, j) /\ FoundHandoff(j) /\ ReadRowIsCurrent(j) /\ j \in Jobs
    BY <1>1, <1>3 DEF JobKnows, FoundHandoff, ReadRowIsCurrent, Jobs
  <1>5. /\ projects' = projects /\ role' = role /\ admin' = admin /\ open' = open
        /\ requests' \in Nat /\ UNCHANGED <<memory, handoff, supersededBy>>
    BY DEF supersede_handoff, Request, IInv, TypeOK
  <1> QED
    BY <1>1, <1>2, <1>4, <1>40, <1>5, OnlyJobChanges DEF IInv, TypeOK

(* The key of the supersessions decides the race: the handoff found before  *)
(* may be superseded by now, and then neither row is stored.                *)
LEMMA SupersedeStoresStep ==
    ASSUME IInv, NEW h \in Processes, SupersedeStores(h)
    PROVE  IInv'
  <1> DEFINE j == job[h]
  <1>1. /\ j # None /\ j.kind = "supersede" /\ j \in SupersedeJobs
        /\ j.id \in Handoffs /\ j.previous \in Handoffs /\ j.project \in Projects
    BY JobTypes DEF SupersedeStores, IInv, TypeOK, SupersedeJobs
  <1>2. handoff[j.previous] # None /\ handoff[j.previous].project = j.project
    BY <1>1 DEF IInv, FoundHandoff
  <1>3. CASE ~supersession_accepted(j)
    <2>1. /\ handoff' = handoff /\ supersededBy' = supersededBy
      BY <1>3 DEF SupersedeStores
    <2>2. HandoffsFormChains'
      BY <2>1 DEF IInv, HandoffsFormChains
    <2> QED
      BY <2>1, <2>2, HandoffRowsChange DEF SupersedeStores, IInv, TypeOK
  <1>4. CASE supersession_accepted(j)
    <2> DEFINE row == [project |-> j.project, supersedes |-> j.previous,
                       by |-> "supersede_handoff"]
    <2>1. /\ row \in HandoffRows /\ row.project = j.project /\ row.supersedes = j.previous
          /\ row.by = "supersede_handoff"
      BY <1>1 DEF HandoffRows
    <2>2. row # None
      BY <2>1, NoneAssumption
    <2>3. handoff[j.id] = None /\ supersededBy[j.previous] = None
      BY <1>4 DEF supersession_accepted
    <2>4. /\ handoff' = [handoff EXCEPT ![j.id] = row]
          /\ supersededBy' = [supersededBy EXCEPT ![j.previous] = j.id]
      BY <1>4 DEF SupersedeStores
    <2>5. row = [project |-> handoff[j.previous].project, supersedes |-> j.previous,
                 by |-> "supersede_handoff"]
      BY <1>2
    <2> HIDE DEF row
    <2>6. /\ handoff' \in [Handoffs -> HandoffRows \cup {None}]
          /\ supersededBy' \in [Handoffs -> Handoffs \cup {None}]
          /\ \A f \in Handoffs : handoff'[f] = IF f = j.id THEN row ELSE handoff[f]
          /\ \A f \in Handoffs : supersededBy'[f] =
                                   IF f = j.previous THEN j.id ELSE supersededBy[f]
      BY <1>1, <2>1, <2>4 DEF IInv, TypeOK
    <2>7. HandoffsFormChains'
      <3>1. ASSUME NEW f \in Handoffs, supersededBy'[f] # None
            PROVE  /\ handoff'[f] # None /\ handoff'[supersededBy'[f]] # None
                   /\ handoff'[supersededBy'[f]] =
                         [project |-> handoff'[f].project, supersedes |-> f,
                          by |-> "supersede_handoff"]
        <4>1. CASE f = j.previous
          BY <1>1, <1>2, <2>2, <2>3, <2>5, <2>6, <4>1
        <4>2. CASE f # j.previous
          <5>1. supersededBy[f] # None /\ supersededBy'[f] = supersededBy[f]
                /\ supersededBy[f] \in Handoffs
            BY <2>6, <3>1, <4>2 DEF IInv, TypeOK
          <5>2. /\ handoff[f] # None /\ handoff[supersededBy[f]] # None
                /\ handoff[supersededBy[f]] =
                      [project |-> handoff[f].project, supersedes |-> f,
                       by |-> "supersede_handoff"]
            BY <5>1 DEF IInv, HandoffsFormChains
          <5>3. f # j.id /\ supersededBy[f] # j.id
            BY <2>3, <5>2
          <5> QED
            BY <2>6, <5>1, <5>2, <5>3
        <4> QED
          BY <4>1, <4>2
      <3>2. ASSUME NEW f \in Handoffs, handoff'[f] # None, handoff'[f].by = "supersede_handoff"
            PROVE  /\ handoff'[f].supersedes # None
                   /\ supersededBy'[handoff'[f].supersedes] = f
        <4>1. CASE f = j.id
          BY <1>1, <2>1, <2>6, <4>1, WorkspaceAssumption
        <4>2. CASE f # j.id
          <5>1. /\ handoff'[f] = handoff[f]
                /\ handoff[f].supersedes \in Handoffs \cup {None}
            BY <2>6, <3>2, <4>2 DEF IInv, TypeOK, HandoffRows
          <5>2. handoff[f].supersedes # None /\ supersededBy[handoff[f].supersedes] = f
            BY <3>2, <5>1 DEF IInv, HandoffsFormChains
          <5>3. f # None
            BY WorkspaceAssumption
          <5> QED
            BY <2>3, <2>6, <5>1, <5>2, <5>3
        <4> QED
          BY <4>1, <4>2
      <3> QED
        BY <3>1, <3>2 DEF HandoffsFormChains
    <2>8. \A f \in Handoffs : handoff[f] # None => handoff'[f] = handoff[f]
      BY <2>3, <2>6
    <2> QED
      BY <2>6, <2>7, <2>8, HandoffRowsChange DEF SupersedeStores, IInv, TypeOK
  <1> QED
    BY <1>3, <1>4

(* Every step, and every stutter.                                           *)
LEMMA NextStep == IInv /\ [Next]_vars => IInv'
  <1> SUFFICES ASSUME IInv, [Next]_vars PROVE IInv'
    OBVIOUS
  <1>1. CASE UNCHANGED vars
    <2>1. TypeOK'
      BY <1>1 DEF vars, IInv, TypeOK, ReadRowIsCurrent
    <2> QED
      BY <1>1, <2>1, OnlyRolesChange DEF vars, IInv, TypeOK
  <1>2. CASE \E p \in Projects, u \in Users :
               create_project(p, u) \/ \E r \in Reader .. Admin : add_project_member(p, u, r)
    BY <1>2, AdminSteps
  <1>3. ASSUME NEW h \in Processes, migrate_default_projects(h)
        PROVE  IInv'
    BY <1>3, MigrateStep
  <1>4. ASSUME NEW h \in Processes, NEW u \in Callers, NEW asked \in Projects \cup {None},
               \/ retrieve(h, u, asked)
               \/ \E id \in Memories, s \in Sessions \cup {None},
                     parent \in Memories \cup {None} :
                    \/ Ingest(h, u, asked, id, s, parent, FALSE)
                    \/ store_pending_review_memory(h, u, asked, id, s, parent)
               \/ \E m \in Memories, decision \in {"approve", "reject"} :
                    review_pending_memory(h, u, asked, m, decision)
        PROVE  IInv'
    BY <1>4, RetrieveStep, IngestStep, SaveForReviewStep, ReviewStep DEF Callers
  <1>5. ASSUME NEW h \in Processes, NEW id \in Memories, NEW previous \in Memories,
               NEW s \in Sessions \cup {None},
               \/ HandoffUpdate(h, id, s, previous)
               \/ Ingest(h, None, None, id, s, None, TRUE)
        PROVE  IInv'
    BY <1>5, IngestStep DEF HandoffUpdate
  <1>6. ASSUME NEW h \in Processes,
               \/ lookup_same_thread(h) \/ NothingNew(h) \/ insert_new(h)
               \/ append_conversation(h) \/ SupersedeStores(h) \/ Crash(h)
               \/ store_quarantined_memory(h) \/ repair_duplicate(h)
               \/ approve_pending_memory(h) \/ reject_pending_memory(h) \/ IngestApproved(h)
        PROVE  IInv'
    BY <1>6, LookupStep, ForgetStep, InsertStep, AppendStep, SupersedeStoresStep,
       RepairStep, DecisionStep, IngestApprovedStep
  <1>7. ASSUME NEW h \in Processes, NEW p \in Projects, NEW f \in Handoffs,
               \/ \E g \in Handoffs \cup {None} : create_handoff(h, f, p, g)
               \/ \E g \in Handoffs : supersede_handoff(h, g, f, p)
        PROVE  IInv'
    BY <1>7, CreateHandoffStep, SupersedeStep
  <1> QED
    BY <1>1, <1>2, <1>3, <1>4, <1>5, <1>6, <1>7 DEF Next

LEMMA InvariantHolds == Spec => []IInv
  BY InitHolds, NextStep, PTL DEF Spec

(* The rows stay well typed, and the memory a save has found or a review    *)
(* has read is one of its project until it is written back.                 *)
THEOREM TypeCorrect == Spec => []TypeOK
  <1>1. IInv => TypeOK
    BY DEF IInv
  <1> QED
    BY <1>1, InvariantHolds, PTL

(* However many processes save, append, repair, review and migrate, the     *)
(* lineage shown with a memory that a save stored is complete and in its    *)
(* project, to whatever depth it is shown.                                  *)
THEOREM LineageConfined == Spec => []LineageStaysInProject
  BY ClosedIsShown, InvariantHolds, PTL

(* However many callers race to supersede handoffs, each has at most one    *)
(* replacement, and the replacement names it.                               *)
THEOREM HandoffsAreChains == Spec => []HandoffsFormChains
  <1>1. IInv => HandoffsFormChains
    BY DEF IInv
  <1> QED
    BY <1>1, InvariantHolds, PTL
=============================================================================
