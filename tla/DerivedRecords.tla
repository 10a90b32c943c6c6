--------------------------- MODULE DerivedRecords ---------------------------
(* The facts and the relationships that a save derives from its messages:   *)
(* extraction, confirmation, correction and supersession in the metadata    *)
(* store, with several workers, memories held for review, and failures      *)
(* between the two transactions of a save.                                  *)
(*                                                                          *)
(* A message is a statement "about is value", of a role, that may correct   *)
(* an earlier value ("..., not old") and may be negated or hypothetical.    *)
(* Topic facts and external extractors are left out.                        *)
EXTENDS Naturals, Sequences, Functions

CONSTANTS
    Workers,       \* threads that serve write operations
    Hubs,          \* processes; each serialises its own writes
    HubOf,         \* the process of each worker
    Conversations, \* ids of conversations
    ScopeOf,       \* owner and project of each conversation
    Attributes,    \* subject and predicate of a fact, one name for both
    Values,        \* object texts
    TextsIn,       \* the values that occur in the text of a value, itself included
    Batches,       \* the message sequences clients send
    Unknown,       \* a superseded_by that names no fact
    MaxMsgs,       \* bound: messages of one conversation
    MaxSaves,      \* bound: saves, holds and approvals
    MaxSupersedes, \* bound: explicit supersessions
    MaxFailures,   \* bound: failing store calls and stops
    None

Roles == {"user", "assistant"}
Statements ==
    [about: Attributes, value: Values, corrects: Values \cup {None},
     role: Roles, asserted: BOOLEAN]

Qualities == {"corrected_by_user", "assistant_statement", "direct_user_statement"}
FactIds == [about: Attributes, value: Values, source: Conversations, index: Nat]
Facts ==
    [id: FactIds, corrects: Values \cup {None}, quality: Qualities, stamp: Nat]
FactRows ==
    [corrects: Values \cup {None}, quality: Qualities, confirmed: Nat, created: Nat,
     by: FactIds \cup {Unknown, None}]
Relationships ==
    [about: Attributes, object: Values \X (Values \cup {None}),
     source: Conversations, index: Nat]
Jobs ==
    [conv: Conversations, step: {"approve", "facts", "graph"},
     facts: Seq(Facts \cup {None}), graph: Seq(Relationships)]

ASSUME HubsAssumption == HubOf \in [Workers -> Hubs]
ASSUME BatchesAssumption == Batches \subseteq Seq(Statements) \ {<<>>}
ASSUME TextsAssumption ==
    /\ TextsIn \in [Values -> SUBSET Values]
    /\ \A v \in Values : v \in TextsIn[v]
ASSUME BoundsAssumption ==
    {MaxMsgs, MaxSaves, MaxSupersedes, MaxFailures} \subseteq Nat
ASSUME NoneIsNoRecord ==
    None \notin {Unknown} \cup FactIds \cup Facts \cup Relationships \cup Jobs

VARIABLES
    msgs,     \* metadata store: the transcript of each conversation
    status,   \* metadata store: absent, pending_review or active
    facts,    \* metadata store: the row of each stored fact
    graph,    \* metadata store: the row of each stored relationship
    job,      \* the save each worker is busy with, or None
    clock,    \* time, advanced by every extraction
    saves, supersedes, failures

vars == <<msgs, status, facts, graph, job, clock, saves, supersedes, failures>>

SameScope(c, d) == ScopeOf[c] = ScopeOf[d]
-----------------------------------------------------------------------------
(* Extraction.                                                              *)

(* Negated and hypothetical statements make no fact; a correction, which    *)
(* negates by its wording, is trusted.                                      *)
validate_fact_candidate(s) == s.asserted \/ s.corrects # None

source_quality_for_fact(s) ==
    CASE s.corrects # None /\ s.role # "assistant" -> "corrected_by_user"
      [] s.role = "assistant" -> "assistant_statement"
      [] OTHER -> "direct_user_statement"

fact(s, c, index, now) ==
    [id |-> [about |-> s.about, value |-> s.value, source |-> c, index |-> index],
     corrects |-> s.corrects, quality |-> source_quality_for_fact(s), stamp |-> now]

(* Of the facts of one save that say the same, only the first is kept.      *)
dedupe_facts(found) ==
    [i \in DOMAIN found |->
        IF \E h \in 1 .. i - 1 : /\ found[h] # None /\ found[i] # None
                                 /\ found[h].id.about = found[i].id.about
                                 /\ found[h].id.value = found[i].id.value
        THEN None ELSE found[i]]

extract_facts_from_messages(c, new, start, now) ==
    dedupe_facts([i \in DOMAIN new |->
        IF validate_fact_candidate(new[i]) THEN fact(new[i], c, start + i - 1, now)
        ELSE None])

(* Relationships are taken from every message that matches, unvalidated.    *)
extract_memory_graph(c, new, start) ==
    [i \in DOMAIN new |->
        [about |-> new[i].about, object |-> <<new[i].value, new[i].corrects>>,
         source |-> c, index |-> start + i - 1]]
-----------------------------------------------------------------------------
(* insert_facts: one transaction, one fact after the other.                 *)

ActiveIn(table) == {id \in DOMAIN table : table[id].by = None}

(* A direct statement confirms every active fact that says the same.        *)
refresh_matching_fact_confirmation(table, f) ==
    [id \in DOMAIN table |->
        IF /\ f.quality = "direct_user_statement" /\ id \in ActiveIn(table)
           /\ id.about = f.id.about /\ id.value = f.id.value
           /\ SameScope(id.source, f.id.source)
        THEN [table[id] EXCEPT !.confirmed = f.stamp] ELSE table[id]]

(* Mutant: only facts whose object equals the corrected value.              *)
NamesExactly(id, f) == id.value = f.corrects

(* lower(object) LIKE %corrects%                                            *)
NamesCorrected(id, f) == f.corrects \in TextsIn[id.value]

supersede_corrected_facts(table, f) ==
    [id \in DOMAIN table |->
        IF /\ f.corrects # None /\ id \in ActiveIn(table)
           /\ id.about = f.id.about /\ SameScope(id.source, f.id.source)
           /\ NamesCorrected(id, f)
        THEN [table[id] EXCEPT !.by = f.id] ELSE table[id]]

(* The upsert keeps created_at and takes the rest, superseded_by included,  *)
(* from the new fact.                                                       *)
upsert_fact(table, f) ==
    [id \in DOMAIN table \cup {f.id} |->
        IF id # f.id THEN table[id]
        ELSE [corrects |-> f.corrects, quality |-> f.quality, confirmed |-> f.stamp,
              created |-> IF id \in DOMAIN table THEN table[id].created ELSE f.stamp,
              by |-> None]]

insert_fact(table, f) ==
    IF f = None THEN table
    ELSE upsert_fact(
           supersede_corrected_facts(refresh_matching_fact_confirmation(table, f), f), f)

insert_facts(table, batch) ==
    LET after[n \in 0 .. Len(batch)] ==
            IF n = 0 THEN table ELSE insert_fact(after[n - 1], batch[n])
    IN  after[Len(batch)]

(* upsert_graph_records: every relationship is stored as active, then each  *)
(* in turn supersedes the active ones of its conflict group.                *)
upsert_relationships(table, batch) ==
    [id \in DOMAIN table \cup Range(batch) |->
        IF id \in Range(batch) THEN [by |-> None] ELSE table[id]]

(* Mutant: only relationships of the same conversation are in conflict.     *)
ConflictInSource(id, r) == id.about = r.about /\ id.source = r.source /\ id.object # r.object

(* Mutant: the owner and the project are not compared.                      *)
ConflictAnywhere(id, r) == id.about = r.about /\ id # r /\ id.object # r.object

InConflict(id, r) ==
    /\ id.about = r.about /\ SameScope(id.source, r.source)
    /\ id # r /\ id.object # r.object

supersede_conflicting_relationships(table, r) ==
    [id \in DOMAIN table |->
        IF id \in ActiveIn(table) /\ InConflict(id, r) THEN [by |-> r] ELSE table[id]]

upsert_graph_records(table, batch) ==
    LET after[n \in 0 .. Len(batch)] ==
            IF n = 0 THEN upsert_relationships(table, batch)
            ELSE supersede_conflicting_relationships(after[n - 1], batch[n])
    IN  after[Len(batch)]
-----------------------------------------------------------------------------
Init ==
    /\ msgs = [c \in Conversations |-> <<>>]
    /\ status = [c \in Conversations |-> "absent"]
    /\ facts = <<>> /\ graph = <<>>
    /\ job = [w \in Workers |-> None]
    /\ clock = 0 /\ saves = 0 /\ supersedes = 0 /\ failures = 0

(* Mutant: writes are not serialised.                                       *)
NoLock(w) == job[w] = None

(* The write lock of the hub.                                               *)
LockFree(w) == \A v \in Workers : HubOf[v] = HubOf[w] => job[v] = None

(* The derivation of the messages from start on, stamped by the extraction. *)
Derivation(c, new, start) ==
    [conv |-> c, step |-> "facts",
     facts |-> extract_facts_from_messages(c, new, start, clock),
     graph |-> extract_memory_graph(c, new, start)]

(* A save is stored, as a new conversation or as an append, and its new     *)
(* messages are extracted.                                                  *)
Save(w, c, new) ==
    /\ LockFree(w) /\ saves < MaxSaves
    /\ status[c] # "pending_review" /\ Len(msgs[c]) + Len(new) <= MaxMsgs
    /\ msgs' = [msgs EXCEPT ![c] = @ \o new]
    /\ status' = [status EXCEPT ![c] = "active"]
    /\ job' = [job EXCEPT ![w] = Derivation(c, new, Len(msgs[c]))]
    /\ clock' = clock + 1 /\ saves' = saves + 1
    /\ UNCHANGED <<facts, graph, supersedes, failures>>

(* A memory is held: nothing is derived from it yet.                        *)
HoldForReview(w, c, new) ==
    /\ LockFree(w) /\ saves < MaxSaves
    /\ status[c] = "absent" /\ Len(new) <= MaxMsgs
    /\ msgs' = [msgs EXCEPT ![c] = new]
    /\ status' = [status EXCEPT ![c] = "pending_review"]
    /\ saves' = saves + 1
    /\ UNCHANGED <<facts, graph, job, clock, supersedes, failures>>

(* approve_pending_memory reads the status, then stores the memory as       *)
(* active and derives from the whole of it.                                 *)
CheckPending(w, c) ==
    /\ LockFree(w) /\ saves < MaxSaves
    /\ status[c] = "pending_review"
    /\ job' = [job EXCEPT ![w] = [conv |-> c, step |-> "approve",
                                  facts |-> <<>>, graph |-> <<>>]]
    /\ saves' = saves + 1
    /\ UNCHANGED <<msgs, status, facts, graph, clock, supersedes, failures>>

At(w, step) == job[w] # None /\ job[w].step = step

Approve(w) ==
    /\ At(w, "approve")
    /\ LET c == job[w].conv
       IN  /\ status' = [status EXCEPT ![c] = "active"]
           /\ job' = [job EXCEPT ![w] = Derivation(c, msgs[c], 0)]
    /\ clock' = clock + 1
    /\ UNCHANGED <<msgs, facts, graph, saves, supersedes, failures>>

StoreFacts(w) ==
    /\ At(w, "facts")
    /\ facts' = insert_facts(facts, job[w].facts)
    /\ job' = [job EXCEPT ![w].step = "graph"]
    /\ UNCHANGED <<msgs, status, graph, clock, saves, supersedes, failures>>

StoreGraph(w) ==
    /\ At(w, "graph")
    /\ graph' = upsert_graph_records(graph, job[w].graph)
    /\ job' = [job EXCEPT ![w] = None]
    /\ UNCHANGED <<msgs, status, facts, clock, saves, supersedes, failures>>

(* A store call raises, or the process stops: the rest of the save is lost, *)
(* and a retry finds the conversation stored.                               *)
Fail(w) ==
    /\ job[w] # None /\ failures < MaxFailures
    /\ job' = [job EXCEPT ![w] = None]
    /\ failures' = failures + 1
    /\ UNCHANGED <<msgs, status, facts, graph, clock, saves, supersedes>>

(* An owner supersedes a fact by hand, with any id.                         *)
FactSupersede(w, id, by) ==
    /\ LockFree(w) /\ supersedes < MaxSupersedes
    /\ id \in DOMAIN facts
    /\ facts' = [facts EXCEPT ![id].by = by]
    /\ supersedes' = supersedes + 1
    /\ UNCHANGED <<msgs, status, graph, job, clock, saves, failures>>

Next ==
    \E w \in Workers :
        \/ \E c \in Conversations, new \in Batches :
              Save(w, c, new) \/ HoldForReview(w, c, new)
        \/ \E c \in Conversations : CheckPending(w, c)
        \/ Approve(w) \/ StoreFacts(w) \/ StoreGraph(w) \/ Fail(w)
        \/ \E id \in DOMAIN facts, by \in {Unknown} \cup DOMAIN facts :
              FactSupersede(w, id, by)

Spec == Init /\ [][Next]_vars
-----------------------------------------------------------------------------
Stored == DOMAIN facts
Active == ActiveIn(facts)

(* Said before: in an earlier extraction, or earlier in one transcript.     *)
Older(g, f) ==
    \/ facts[g].created < facts[f].created
    \/ g.source = f.source /\ g.index < f.index

(* A stored correction has superseded every older fact of its owner and     *)
(* project that names the corrected value, wherever that fact was said.     *)
CorrectionWins ==
    \A f \in Stored, g \in Active :
        (/\ facts[f].corrects # None /\ facts[f].corrects \in TextsIn[g.value]
         /\ g.about = f.about /\ SameScope(g.source, f.source))
        => ~Older(g, f)

(* A superseded fact never becomes active again: approving, appending and   *)
(* restating go on beside it.                                               *)
SupersededStays ==
    [][\A id \in Stored \ Active : facts'[id].by # None]_vars

(* Of a conflict group at most one object is active, whatever batches and   *)
(* conversations its relationships came from.                               *)
OneActiveObject ==
    \A r, q \in ActiveIn(graph) :
        (r.about = q.about /\ SameScope(r.source, q.source)) => r.object = q.object

(* What is derived for one owner and project changes no record of another.  *)
ScopesAreSeparate ==
    [][\A w \in Workers : (job[w] # None /\ job'[w] # job[w]) =>
          /\ \A id \in Stored : facts'[id] # facts[id] => SameScope(id.source, job[w].conv)
          /\ \A id \in DOMAIN graph : graph'[id] # graph[id] =>
                                           SameScope(id.source, job[w].conv)]_vars

=============================================================================
