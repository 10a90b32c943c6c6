------------------------------ MODULE Ingestion ------------------------------
(***************************************************************************)
(* The memory ingestion pipeline: one write operation is a sequence of     *)
(* separate calls to two stores that share no transaction, the metadata    *)
(* store (conversation payloads, chunk manifests, facts) and the vector    *)
(* store.  A hub process serialises its own writes with one lock; several  *)
(* processes (a server and the command line) may share the stores.         *)
(* Readers take no lock, yet retrieving a memory may repair its manifest.  *)
(***************************************************************************)
EXTENDS Integers, Sequences, FiniteSets, SequencesExt

CONSTANTS
    Workers,        \* threads that run operations
    Hubs,           \* processes that share the two stores
    HubOf,          \* the process of each worker
    OpsOf,          \* the operations each worker runs
    Ids,            \* conversation ids
    Projects,       \* project workspaces
    Msgs,           \* messages, identified by their content hash
    Sessions,       \* imported-session identities
    Threads,        \* upstream thread ids
    Requests,       \* conversation payloads that clients submit
    Windows,        \* token windows (chunks) each message is split into
    TrustedAppends, \* storage.allow_trusted_appends
    MemoryProvider, \* the vector provider is "memory": lost when its hub stops
    FreshDestination, \* a restart may configure an empty vector destination
    QuietReindex,   \* the operator stops the writers before a reindex
    MaxAppendAttempts, \* how often an append is tried before it gives up
    MaxOps, MaxFaults, MaxCrashes, \* bounds of the exploration
    None            \* absent value

Ops == {"ingest", "hold", "approve", "reject", "retrieve", "reindex"}

Statuses == {"active", "pending_review", "quarantined", "rejected"}
IndexStates == {"pending_index", "indexed", "indexing_failed"}

(* A submitted payload.  "sensitive" is the verdict of the content scan.   *)
Payloads == [id: Ids, project: Projects, origin: Sessions \cup {None},
             thread: Threads \cup {None}, msgs: Seq(Msgs), sensitive: BOOLEAN]

ASSUME IngestionAssumption ==
    /\ HubOf \in [Workers -> Hubs]
    /\ OpsOf \in [Workers -> SUBSET Ops]
    /\ Requests \subseteq Payloads
    /\ Windows \in [Msgs -> Nat \ {0}]
    /\ TrustedAppends \in BOOLEAN
    /\ MemoryProvider \in BOOLEAN /\ FreshDestination \in BOOLEAN /\ QuietReindex \in BOOLEAN
    /\ MaxAppendAttempts \in Nat \ {0}
    /\ MaxOps \in Nat /\ MaxFaults \in Nat /\ MaxCrashes \in Nat
    /\ MemoryProvider \/ FreshDestination => \E h \in Hubs : Hubs = {h}
    /\ None \notin Ids \cup Sessions \cup Threads \cup Workers

VARIABLES
    convs,    \* metadata store: the conversation stored under each id, or None
    facts,    \* metadata store: message positions whose facts were extracted
    summaries,\* metadata store: the transcript each generated summary covers
    vectors,  \* vector store: chunk ids stored under each memory id
    lock,     \* the write lock of each hub: None or the worker holding it
    pc,       \* where each worker stands in its operation
    job,      \* the local variables of each worker's operation
    ops, faults, crashes  \* counters that bound the exploration

stores == <<convs, facts, summaries, vectors>>
counters == <<ops, faults, crashes>>
vars == <<stores, lock, pc, job, counters>>

-----------------------------------------------------------------------------
(* Chunks and their manifest.  A chunk id joins the conversation id, the    *)
(* chunk's index and its message hash.                                      *)

Chunks == [conv: Ids, index: Nat, msg: Msgs, state: IndexStates]
ChunkId(c) == <<c.conv, c.index, c.msg>>
ChunkIds(cs) == {ChunkId(cs[i]) : i \in DOMAIN cs}

chunk_selected_messages(id, msgs, start) ==
    LET owners == FlattenSeq([i \in DOMAIN msgs |->
                                 [k \in 1 .. Windows[msgs[i]] |-> msgs[i]]])
    IN  [j \in DOMAIN owners |-> [conv |-> id, index |-> start + j - 1,
                                  msg |-> owners[j], state |-> "pending_index"]]

(* Mutant: new chunks are numbered from the message count.                  *)
ChunkIndexFromMessages(manifest, fallback) == fallback

(* One more than the largest index in the manifest, or the message count    *)
(* when there is no manifest.                                               *)
NextChunkIndex(manifest, fallback) ==
    IF manifest = <<>> THEN fallback
    ELSE 1 + Max({manifest[i].index : i \in DOMAIN manifest})

MarkedAs(manifest, ids, state) ==
    [i \in DOMAIN manifest |->
        IF ChunkId(manifest[i]) \in ids
        THEN [manifest[i] EXCEPT !.state = state] ELSE manifest[i]]

AllIndexed(manifest) ==
    /\ manifest # <<>>
    /\ \A i \in DOMAIN manifest : manifest[i].state = "indexed"

HasPending(manifest) ==
    \E i \in DOMAIN manifest : manifest[i].state = "pending_index"

-----------------------------------------------------------------------------
(* Stored conversations.  The conversation hash is the hash of the ordered  *)
(* messages scoped by the project, so the pair stands for it.  "session" is *)
(* the indexed imported-session identity; "origin" is the payload metadata  *)
(* it is derived from.                                                      *)

Conversations == [id: Ids, project: Projects, origin: Sessions \cup {None},
                  thread: Threads \cup {None}, msgs: Seq(Msgs), sensitive: BOOLEAN,
                  session: Sessions \cup {None}, status: Statuses,
                  chunks: Seq(Chunks)]

Conversation(r, session, status, chunks) ==
    [id |-> r.id, project |-> r.project, origin |-> r.origin, thread |-> r.thread,
     msgs |-> r.msgs, sensitive |-> r.sensitive,
     session |-> session, status |-> status, chunks |-> chunks]

PayloadOf(c) == [id |-> c.id, project |-> c.project, origin |-> c.origin,
                 thread |-> c.thread, msgs |-> c.msgs, sensitive |-> c.sensitive]

conversation_hash(c) == <<c.project, c.msgs>>

Stored == {id \in Ids : convs[id] # None}
ByHash(c) == {id \in Stored : conversation_hash(convs[id]) = conversation_hash(c)}
BySession(s, project) ==
    {id \in Stored : s # None /\ convs[id].session = s /\ convs[id].project = project}

(* The unique indexes of the conversations table, other than the primary key. *)
Clashes(c) == (ByHash(c) \cup BySession(c.session, c.project)) \ {c.id}

conversation_allowed(c, project) == c.project = project /\ c.status = "active"

-----------------------------------------------------------------------------
(* Operations in progress.  A job records the local variables of the        *)
(* operation a worker runs: the request, the duplicate found, the stored    *)
(* conversation read, the memory written, the chunk ids to repair, the      *)
(* chunks to index, and what reindex has left to do.                        *)

Outcomes == {"inserted", "appended", "deduplicated", "stale", "held", "rejected",
             "retrieved", "reindexed", "error"}

Jobs == [op: Ops, req: Payloads \cup {None}, dup: Ids \cup {None},
         read: Conversations \cup {None}, target: Ids \cup {None},
         marks: SUBSET (Ids \X Nat \X Msgs), chunks: Seq(Chunks), replace: BOOLEAN,
         extract: SUBSET Nat, attempts: Nat, todo: SUBSET Conversations,
         outcome: Outcomes \cup {None}]

(* Operations that hold the hub's write lock.  retrieve takes none, and the *)
(* command line's reindex runs in a process of its own.                     *)
LockedOps == Ops \ {"retrieve", "reindex"}

NewJob(op, r) ==
    [op |-> op, req |-> r, dup |-> None, read |-> None, target |-> None,
     marks |-> {}, chunks |-> <<>>, replace |-> FALSE, extract |-> {}, attempts |-> 0,
     todo |-> {}, outcome |-> None]

(* The absent value is none of the records it stands in for.                *)
ASSUME NoneIsNoRecord ==
    /\ None \notin Conversations \cup Jobs \cup Payloads
    /\ None \notin [project: Projects, msgs: Seq(Msgs), status: Statuses]
    /\ None \notin Seq(Msgs) \cup Outcomes

(* The request of an operation that names a stored memory.                  *)
Reference(id, project) ==
    [id |-> id, project |-> project, origin |-> None, thread |-> None,
     msgs |-> <<>>, sensitive |-> FALSE]

(* Held payloads are not stamped with an imported-session identity.         *)
SessionOf(j) == IF j.op = "hold" THEN None ELSE j.req.origin

Step(w, j, next) ==
    /\ job' = [job EXCEPT ![w] = j]
    /\ pc' = [pc EXCEPT ![w] = next]
    /\ UNCHANGED <<lock, ops, crashes>>

(* An operation's last step.  approve_pending_memory still derives facts    *)
(* after the nested ingestion returned without raising.                     *)
Return(w, j, outcome) ==
    Step(w, [j EXCEPT !.outcome = outcome],
         IF j.op = "approve" /\ outcome # "error"
         THEN "approve_facts" ELSE "done")

Init ==
    /\ convs = [id \in Ids |-> None]
    /\ facts = [id \in Ids |-> {}]
    /\ summaries = [id \in Ids |-> None]
    /\ vectors = [id \in Ids |-> {}]
    /\ lock = [h \in Hubs |-> None]
    /\ pc = [w \in Workers |-> "idle"]
    /\ job = [w \in Workers |-> None]
    /\ ops = 0 /\ faults = 0 /\ crashes = 0

-----------------------------------------------------------------------------
(* Starting and finishing an operation.                                     *)

FirstStep(op, r) ==
    CASE op = "ingest" /\ ~r.sensitive -> "lookup"
      [] op = "hold" \/ (op = "ingest" /\ r.sensitive) -> "review"
      [] op \in {"approve", "reject"} -> "decide"
      [] OTHER -> op

(* Mutant: writes are not serialised.                                       *)
NoLock(w, op) == TRUE

LockFree(w, op) == op \in LockedOps => lock[HubOf[w]] = None

(* The runbook of a reindex: nothing writes while it runs; readers may.     *)
Quiet(op) ==
    LET running == {job[w].op : w \in {v \in Workers : job[v] # None}}
    IN  /\ op = "reindex" => running \subseteq {"retrieve"}
        /\ op \notin {"reindex", "retrieve"} => "reindex" \notin running

Start(w, op, r) ==
    /\ pc[w] = "idle"
    /\ op \in OpsOf[w] /\ ops < MaxOps
    /\ QuietReindex => Quiet(op)
    /\ LockFree(w, op)
    /\ lock' = IF op \in LockedOps THEN [lock EXCEPT ![HubOf[w]] = w] ELSE lock
    /\ job' = [job EXCEPT ![w] = NewJob(op, r)]
    /\ pc' = [pc EXCEPT ![w] = FirstStep(op, r)]
    /\ ops' = ops + 1
    /\ UNCHANGED <<stores, faults, crashes>>

Submit(w) == \E r \in Requests, op \in {"ingest", "hold"} : Start(w, op, r)
Refer(w) == \E id \in Ids, p \in Projects, op \in {"approve", "reject", "retrieve"} :
                Start(w, op, Reference(id, p))
Maintain(w) == Start(w, "reindex", None)

Finish(w) ==
    /\ pc[w] = "done"
    /\ pc' = [pc EXCEPT ![w] = "idle"]
    /\ job' = [job EXCEPT ![w] = None]
    /\ lock' = IF lock[HubOf[w]] = w THEN [lock EXCEPT ![HubOf[w]] = None] ELSE lock
    /\ UNCHANGED <<stores, counters>>

(* A hub stops at any point and is restarted: its operations are gone, and  *)
(* the vectors too when they lived in its memory or the new configuration   *)
(* names an empty vector destination.                                       *)
Crash(h) ==
    /\ crashes < MaxCrashes
    /\ crashes' = crashes + 1
    /\ pc' = [w \in Workers |-> IF HubOf[w] = h THEN "idle" ELSE pc[w]]
    /\ job' = [w \in Workers |-> IF HubOf[w] = h THEN None ELSE job[w]]
    /\ lock' = [lock EXCEPT ![h] = None]
    /\ \/ ~MemoryProvider /\ UNCHANGED vectors
       \/ (MemoryProvider \/ FreshDestination) /\ vectors' = [id \in Ids |-> {}]
    /\ UNCHANGED <<convs, facts, summaries, ops, faults>>

-----------------------------------------------------------------------------
(* ingest_messages: duplicate lookup, manifest repair, completeness check.  *)

Lookup(w) ==
    LET j == job[w]
        dups == {id \in ByHash(j.req) : convs[id].status = "active"}
    IN  /\ pc[w] = "lookup"
        /\ IF dups = {} THEN Step(w, j, "existing")
           ELSE \E id \in dups :
                  Step(w, [j EXCEPT !.dup = id, !.read = convs[id]],
                       IF HasPending(convs[id].chunks) THEN "inspect" ELSE "complete")
        /\ UNCHANGED <<stores, faults>>

(* retrieve: the read path that shares the manifest repair.                 *)
Retrieve(w) ==
    LET j == job[w]
        c == convs[j.req.id]
    IN  /\ pc[w] = "retrieve"
        /\ IF c = None THEN Return(w, j, "error")
           ELSE IF c.project # j.req.project THEN Return(w, j, "error")
           ELSE IF ~HasPending(c.chunks) THEN Return(w, j, "retrieved")
           ELSE Step(w, [j EXCEPT !.dup = c.id, !.read = c], "inspect")
        /\ UNCHANGED <<stores, faults>>

(* Manifest chunks whose vectors exist, else the whole manifest when the    *)
(* chunk rows already say indexed.                                          *)
RepairableChunks(j) ==
    LET manifest == ChunkIds(j.read.chunks)
        found == manifest \cap vectors[j.dup]
    IN  IF found # {} THEN found
        ELSE IF ~MemoryProvider /\ AllIndexed(convs[j.dup].chunks) THEN manifest
        ELSE {}

AfterRepair(w, j) ==
    IF j.op = "retrieve" THEN Return(w, j, "retrieved")
    ELSE Step(w, j, "complete")

Inspect(w) ==
    LET j == job[w]
        found == RepairableChunks(j)
    IN  /\ pc[w] = "inspect"
        /\ IF found = {} THEN AfterRepair(w, j)
           ELSE Step(w, [j EXCEPT !.marks = found], "repair")
        /\ UNCHANGED <<stores, faults>>

MarkChunks(id, ids, state) ==
    convs' = [convs EXCEPT ![id].chunks = MarkedAs(@, ids, state)]

Repair(w) ==
    LET j == job[w]
    IN  /\ pc[w] = "repair"
        /\ Step(w, j, "refresh")
        /\ MarkChunks(j.dup, j.marks, "indexed")
        /\ UNCHANGED <<facts, summaries, vectors, faults>>

Refresh(w) ==
    LET j == job[w]
    IN  /\ pc[w] = "refresh"
        /\ AfterRepair(w, [j EXCEPT !.read = convs[j.dup]])
        /\ UNCHANGED <<stores, faults>>

(* Mutant: the manifest alone decides.                                     *)
ManifestIsEnough(j) == AllIndexed(j.read.chunks)

(* Every chunk is marked indexed and the vector store still has it.         *)
duplicate_index_is_complete(j) ==
    AllIndexed(j.read.chunks) /\ ChunkIds(j.read.chunks) \subseteq vectors[j.dup]

(* A complete duplicate ends the ingestion; an incomplete one takes over    *)
(* the stored id and continues through the repair path.                     *)
Complete(w) ==
    LET j == job[w]
    IN  /\ pc[w] = "complete"
        /\ IF duplicate_index_is_complete(j)
           THEN Return(w, [j EXCEPT !.target = j.dup], "deduplicated")
           ELSE Step(w, [j EXCEPT !.req.id = j.dup], "existing")
        /\ UNCHANGED <<stores, faults>>

Existing(w) ==
    LET j == job[w]
        c == convs[j.req.id]
        refused == /\ c # None
                   /\ \/ ~conversation_allowed(c, j.req.project)
                      \/ ~TrustedAppends /\ conversation_hash(c) # conversation_hash(j.req)
    IN  /\ pc[w] = "existing"
        /\ IF refused THEN Return(w, j, "error")
           ELSE Step(w, j, "same_thread")
        /\ UNCHANGED <<stores, faults>>

-----------------------------------------------------------------------------
(* ingest_messages: the same-thread loop.                                   *)

(* The possible answers of _lookup_same_thread: the stored conversation of  *)
(* the imported session; with trusted appends, the one with the same id, or *)
(* one of the upstream thread (the oldest; ties are broken by the store).   *)
SameThread(j) ==
    LET session == SessionOf(j)
        byThread == {id \in Stored : /\ j.req.thread # None
                                     /\ convs[id].thread = j.req.thread
                                     /\ convs[id].project = j.req.project}
        found == IF session # None THEN BySession(session, j.req.project)
                 ELSE IF ~TrustedAppends THEN {}
                 ELSE IF j.req.id \in Stored THEN {j.req.id}
                 ELSE byThread
    IN  IF found = {} THEN {None}
        ELSE {IF conversation_allowed(convs[id], j.req.project) THEN id ELSE None : id \in found}

(* Mutant: the longer transcript wins.                                      *)
RelationByLength(stored, incoming) ==
    CASE stored = incoming -> "equal"
      [] stored # incoming /\ Len(stored) < Len(incoming) -> "append"
      [] OTHER -> "stale"

(* How an incoming snapshot relates to the stored transcript.               *)
SnapshotRelation(stored, incoming) ==
    CASE stored = incoming -> "equal"
      [] stored # incoming /\ IsPrefix(stored, incoming) -> "append"
      [] stored # incoming /\ IsPrefix(incoming, stored) -> "stale"
      [] OTHER -> "divergent"

(* Mutant: the facts of the payload are still extracted.                    *)
ReindexingAndExtracting(j, id, target) ==
    [j EXCEPT !.target = target, !.replace = TRUE,
              !.chunks = chunk_selected_messages(id, j.req.msgs, 0)]

(* Indexing a payload from its first message, for a conversation already    *)
(* stored as target: its vectors are replaced and no fact is extracted.     *)
Reindexing(j, id, target) ==
    [j EXCEPT !.target = target, !.replace = TRUE, !.extract = {},
              !.chunks = chunk_selected_messages(id, j.req.msgs, 0)]

Classify(w) ==
    LET j == job[w]
    IN  /\ pc[w] = "same_thread"
        /\ \E id \in SameThread(j) :
             IF id = None
             THEN IF j.attempts > 0 THEN Return(w, j, "error")
                  ELSE Step(w, [j EXCEPT !.read = None], "summarize")
             ELSE LET c == convs[id]
                      k == [j EXCEPT !.read = c]
                      relation == SnapshotRelation(c.msgs, j.req.msgs)
                  IN  CASE relation = "stale" ->
                             Return(w, [k EXCEPT !.target = id], "stale")
                        [] relation = "divergent" -> Return(w, k, "error")
                        [] relation = "append" -> Step(w, k, "append")
                        [] relation = "equal" /\ j.dup = None ->
                             Return(w, [k EXCEPT !.target = id], "deduplicated")
                        [] OTHER -> Step(w, Reindexing(k, id, id), "rewrite")
        /\ UNCHANGED <<stores, faults>>

(* The repair of an equal snapshot stores the conversation as it was read,  *)
(* with a fresh manifest: an upsert that compares nothing.                  *)
Rewrite(w) ==
    LET j == job[w]
        c == [j.read EXCEPT !.chunks = j.chunks]
    IN  /\ pc[w] = "rewrite"
        /\ IF Clashes(c) # {}
           THEN Return(w, j, "error") /\ UNCHANGED convs
           ELSE Step(w, j, "embed") /\ convs' = [convs EXCEPT ![c.id] = c]
        /\ UNCHANGED <<facts, summaries, vectors, faults>>

(* _append_conversation: the stored history followed by the new messages,   *)
(* whose chunks are numbered after the manifest's last one.                 *)
Appended(c, r) ==
    LET new == SubSeq(r.msgs, Len(c.msgs) + 1, Len(r.msgs))
        chunks == chunk_selected_messages(c.id, new, NextChunkIndex(c.chunks, Len(c.msgs)))
    IN  [c EXCEPT !.msgs = @ \o new, !.chunks = @ \o chunks,
                  !.thread = IF @ = None THEN r.thread ELSE @]

(* Mutant: the row still exists.                                            *)
RowExists(c) == convs[c.id] # None

(* The compare-and-swap on the conversation hash.                           *)
HashUnchanged(c) ==
    convs[c.id] # None /\ conversation_hash(convs[c.id]) = conversation_hash(c)

(* Mutant: the append is tried again with the stale base, uncounted.        *)
RetryWithStaleBase(w, j) == Step(w, j, "append")

(* A lost race is classified again against the new stored state.            *)
RetryAppend(w, j) ==
    LET k == [j EXCEPT !.attempts = @ + 1]
    IN  IF k.attempts >= MaxAppendAttempts THEN Return(w, k, "error")
        ELSE Step(w, k, "same_thread")

ReplacesVectors(c) == c.msgs = <<>>

AppendMessages(w) ==
    LET j == job[w]
        c == j.read
        u == Appended(c, j.req)
        k == [j EXCEPT !.read = u, !.target = c.id, !.replace = ReplacesVectors(c),
                       !.chunks = SubSeq(u.chunks, Len(c.chunks) + 1, Len(u.chunks)),
                       !.extract = (Len(c.msgs) + 1) .. Len(u.msgs)]
    IN  /\ pc[w] = "append"
        /\ \/ /\ HashUnchanged(c) /\ Clashes(u) = {}
              /\ Step(w, k, "summarize")
              /\ convs' = [convs EXCEPT ![c.id] = u]
           \/ /\ HashUnchanged(c) /\ Clashes(u) # {}
              /\ Return(w, j, "error") /\ UNCHANGED convs
           \/ /\ ~HashUnchanged(c)
              /\ RetryAppend(w, j)
              /\ UNCHANGED convs
        /\ UNCHANGED <<facts, summaries, vectors, faults>>

(* Mutant: the summary describes the payload, not the stored conversation.  *)
SummarizeRequest(j) == j.req

Summarized(j) == IF j.read = None THEN j.req ELSE j.read

(* _attach_generated_summaries: before the insert of a new conversation,    *)
(* and after the append of a stored one.                                    *)
Summarize(w) ==
    LET j == job[w]
        c == Summarized(j)
    IN  /\ pc[w] = "summarize"
        /\ IF j.read # None THEN Step(w, j, "resave")
           ELSE IF j.dup = None THEN Step(w, j, "insert")
           ELSE Step(w, Reindexing(j, j.req.id, j.dup), "embed")
        /\ summaries' = [summaries EXCEPT ![c.id] = c.msgs]
        /\ UNCHANGED <<convs, facts, vectors, faults>>

(* The second save of an append stores the summary metadata unless the hash *)
(* moved on.  It rewrites the manifest as it was when it was read.          *)
Resave(w) ==
    LET j == job[w]
    IN  /\ pc[w] = "resave"
        /\ Step(w, j, "embed")
        /\ convs' = IF HashUnchanged(j.read)
                    THEN [convs EXCEPT ![j.read.id] = j.read] ELSE convs
        /\ UNCHANGED <<facts, summaries, vectors, faults>>

-----------------------------------------------------------------------------
(* insert_new: the row is stored unless its id, hash or session is taken;   *)
(* then the conversation with the same hash answers for it, if there is one.*)

InsertNew(w, j, c, next) ==
    /\ IF convs[c.id] = None /\ Clashes(c) = {}
       THEN Step(w, j, next) /\ convs' = [convs EXCEPT ![c.id] = c]
       ELSE Step(w, j, "resolve") /\ UNCHANGED convs
    /\ UNCHANGED <<facts, summaries, vectors, faults>>

Insert(w) ==
    LET j == job[w]
        chunks == chunk_selected_messages(j.req.id, j.req.msgs, 0)
    IN  /\ pc[w] = "insert"
        /\ InsertNew(w, [j EXCEPT !.target = j.req.id, !.chunks = chunks,
                            !.extract = DOMAIN j.req.msgs],
                  Conversation(j.req, SessionOf(j), "active", chunks), "embed")

(* _resolve_insert_new_conflict, for a new memory and for a held one.       *)
Resolve(w) ==
    LET j == job[w]
        same == ByHash(j.req)
        held == j.op = "hold" \/ j.req.sensitive
    IN  /\ pc[w] = "resolve"
        /\ IF same = {} THEN Return(w, j, "error")
           ELSE \E id \in same :
                  IF held THEN Return(w, [j EXCEPT !.target = id], "held")
                  ELSE Step(w, Reindexing(j, j.req.id, id), "embed")
        /\ UNCHANGED <<stores, faults>>

-----------------------------------------------------------------------------
(* Embedding, the vector store write (delete, then upsert) and the manifest *)
(* mark, then the derived facts.  A failure marks the chunks failed.        *)

DeleteVectors(w) ==
    LET j == job[w]
    IN  /\ pc[w] = "embed"
        /\ j.replace
        /\ Step(w, j, "upsert")
        /\ vectors' = [vectors EXCEPT ![j.target] = {}]
        /\ UNCHANGED <<convs, facts, summaries, faults>>

UpsertVectors(w) ==
    LET j == job[w]
    IN  /\ pc[w] = "upsert" \/ (pc[w] = "embed" /\ ~j.replace)
        /\ Step(w, j, "mark_indexed")
        /\ vectors' = [vectors EXCEPT ![j.target] = @ \cup ChunkIds(j.chunks)]
        /\ UNCHANGED <<convs, facts, summaries, faults>>

(* A provider call raises.  A failed upsert may have written some rows.     *)
ProviderFails(w) ==
    LET j == job[w]
        upserting == pc[w] = "upsert" \/ (pc[w] = "embed" /\ ~j.replace)
    IN  /\ pc[w] \in {"embed", "upsert", "mark_indexed"}
        /\ faults < MaxFaults
        /\ faults' = faults + 1
        /\ Step(w, j, "mark_failed")
        /\ IF upserting
           THEN \E some \in SUBSET ChunkIds(j.chunks) :
                  vectors' = [vectors EXCEPT ![j.target] = @ \cup some]
           ELSE UNCHANGED vectors
        /\ UNCHANGED <<convs, facts, summaries>>

MarkIndexed(w) ==
    LET j == job[w]
    IN  /\ pc[w] = "mark_indexed"
        /\ Step(w, j, IF j.op = "reindex" THEN "next" ELSE "facts")
        /\ MarkChunks(j.target, ChunkIds(j.chunks), "indexed")
        /\ UNCHANGED <<facts, summaries, vectors, faults>>

MarkFailed(w) ==
    LET j == job[w]
    IN  /\ pc[w] = "mark_failed"
        /\ IF j.op = "reindex" THEN Step(w, [j EXCEPT !.outcome = "error"], "next")
           ELSE Return(w, j, "error")
        /\ MarkChunks(j.target, ChunkIds(j.chunks), "indexing_failed")
        /\ UNCHANGED <<facts, summaries, vectors, faults>>

ExtractFacts(w) ==
    LET j == job[w]
    IN  /\ pc[w] = "facts"
        /\ Return(w, j, IF j.extract = {} THEN "deduplicated"
                                 ELSE IF j.read = None THEN "inserted" ELSE "appended")
        /\ facts' = [facts EXCEPT ![j.target] = @ \cup j.extract]
        /\ UNCHANGED <<convs, summaries, vectors, faults>>

-----------------------------------------------------------------------------
(* Memories held for review: quarantined content and pending saves.         *)

Review(w) ==
    LET j == job[w]
        c == convs[j.req.id]
        refused == c # None /\ conversation_hash(c) # conversation_hash(j.req)
    IN  /\ pc[w] = "review"
        /\ IF refused THEN Return(w, j, "error")
           ELSE Step(w, j, "hold")
        /\ UNCHANGED <<stores, faults>>

HeldStatus(r) == IF r.sensitive THEN "quarantined" ELSE "pending_review"

Hold(w) ==
    LET j == job[w]
        c == Conversation(j.req, SessionOf(j), HeldStatus(j.req), <<>>)
    IN  /\ pc[w] = "hold"
        /\ InsertNew(w, [j EXCEPT !.target = j.req.id, !.outcome = "held"], c, "done")

Reviewable == {"pending_review", "quarantined"}

(* approve_pending_memory and reject_pending_memory read the memory, check  *)
(* its status, and store it back whole.                                     *)
Decide(w) ==
    LET j == job[w]
        c == convs[j.req.id]
        found == c # None /\ c.project = j.req.project
    IN  /\ pc[w] = "decide"
        /\ IF found /\ c.status \in Reviewable
           THEN Step(w, [j EXCEPT !.read = c, !.target = c.id], j.op)
           ELSE Return(w, j, "error")
        /\ UNCHANGED <<stores, faults>>

(* An approved memory is no longer scanned for sensitive content.           *)
Approve(w) ==
    LET j == job[w]
        c == [j.read EXCEPT !.status = "active", !.sensitive = FALSE]
    IN  /\ pc[w] = "approve"
        /\ IF Clashes(c) # {}
           THEN Return(w, j, "error") /\ UNCHANGED convs
           ELSE /\ Step(w, NewJob("approve", PayloadOf(c)), "lookup")
                /\ convs' = [convs EXCEPT ![c.id] = c]
        /\ UNCHANGED <<facts, summaries, vectors, faults>>

ApproveFacts(w) ==
    LET j == job[w]
    IN  /\ pc[w] = "approve_facts"
        /\ Step(w, j, "done")
        /\ facts' = [facts EXCEPT ![j.req.id] = @ \cup DOMAIN j.req.msgs]
        /\ UNCHANGED <<convs, summaries, vectors, faults>>

Reject(w) ==
    LET j == job[w]
        c == [j.read EXCEPT !.status = "rejected"]
    IN  /\ pc[w] = "reject"
        /\ IF Clashes(c) # {}
           THEN Return(w, j, "error") /\ UNCHANGED convs
           ELSE /\ Return(w, j, "rejected")
                /\ convs' = [convs EXCEPT ![c.id] = c]
        /\ UNCHANGED <<facts, summaries, vectors, faults>>

-----------------------------------------------------------------------------
(* reindex_stored_conversations: whether rows are replaced is decided once, *)
(* then the active conversations are listed and indexed one after another.  *)

Reindex(w) ==
    LET j == job[w]
    IN  /\ pc[w] = "reindex"
        /\ Step(w, [j EXCEPT !.replace = \E id \in Ids : vectors[id] # {}], "list")
        /\ UNCHANGED <<stores, faults>>

(* Mutant: only conversations with an incomplete manifest are listed.       *)
ListedIncomplete == {id \in Stored : convs[id].status = "active" /\ ~AllIndexed(convs[id].chunks)}

Listed == {id \in Stored : convs[id].status = "active"}

List(w) ==
    LET j == job[w]
    IN  /\ pc[w] = "list"
        /\ Step(w, [j EXCEPT !.todo = {convs[id] : id \in Listed}], "next")
        /\ UNCHANGED <<stores, faults>>

NextConversation(w) ==
    LET j == job[w]
    IN  /\ pc[w] = "next"
        /\ \/ /\ j.todo = {}
              /\ Return(w, j, IF j.outcome = None THEN "reindexed" ELSE j.outcome)
           \/ /\ \E c \in j.todo :
                   Step(w, [j EXCEPT !.todo = @ \ {c}, !.target = c.id,
                                  !.chunks = chunk_selected_messages(c.id, c.msgs, 0)],
                        "embed")
        /\ UNCHANGED <<stores, faults>>

-----------------------------------------------------------------------------
IngestStep(w) == \/ Lookup(w) \/ Inspect(w) \/ Repair(w) \/ Refresh(w) \/ Complete(w)
                 \/ Existing(w) \/ Classify(w) \/ Rewrite(w) \/ AppendMessages(w)
                 \/ Summarize(w) \/ Resave(w) \/ Insert(w) \/ Resolve(w)

IndexStep(w) == \/ DeleteVectors(w) \/ UpsertVectors(w) \/ MarkIndexed(w)
                \/ MarkFailed(w) \/ ExtractFacts(w)

ReviewStep(w) == \/ Review(w) \/ Hold(w) \/ Decide(w) \/ Approve(w)
                 \/ ApproveFacts(w) \/ Reject(w)

ReindexStep(w) == Reindex(w) \/ List(w) \/ NextConversation(w)

(* The next step of the operation a worker is running.                      *)
Progress(w) == \/ IngestStep(w) \/ IndexStep(w) \/ ReviewStep(w) \/ ReindexStep(w)
               \/ Retrieve(w) \/ Finish(w)

Next == \/ \E w \in Workers : \/ Submit(w) \/ Refer(w) \/ Maintain(w)
                             \/ Progress(w) \/ ProviderFails(w)
        \/ \E h \in Hubs : Crash(h)

Spec == Init /\ [][Next]_vars

(* An operation that started keeps running unless its hub stops.            *)
Fairness == \A w \in Workers : WF_vars(Progress(w))
FairSpec == Spec /\ Fairness

-----------------------------------------------------------------------------
(* Properties.                                                              *)

(* However many processes race, an append never drops a message that is in  *)
(* the store when it commits: the compare-and-swap refuses a stale base.    *)
AppendKeepsHistory ==
    [][\A w \in Workers : pc[w] = "append" /\ pc'[w] = "summarize" =>
          \A id \in Stored : IsPrefix(convs[id].msgs, convs'[id].msgs)]_vars

(* No transcript is stored that nobody submitted: divergent histories of a  *)
(* conversation are never merged.                                           *)
NoHybridTranscript ==
    \A id \in Stored : \E r \in Requests :
        r.project = convs[id].project /\ r.msgs = convs[id].msgs

(* The manifest numbers its chunks as a fresh chunking of the transcript    *)
(* would, also after appends, so that a repair or a reindex marks the same  *)
(* chunk ids.                                                               *)
ManifestIsRechunking ==
    \A id \in Stored : convs[id].chunks # <<>> =>
        [i \in DOMAIN convs[id].chunks |-> ChunkId(convs[id].chunks[i])] =
        LET fresh == chunk_selected_messages(id, convs[id].msgs, 0)
        IN  [i \in DOMAIN fresh |-> ChunkId(fresh[i])]

(* When an ingestion answers inserted, or deduplicated by an active memory,  *)
(* every chunk of the stored transcript is in the vector store, and when it *)
(* answers appended, every chunk of the messages it appended is.  Of the    *)
(* messages before them an append says nothing, nor does the answer to a    *)
(* stale snapshot, although either has status ok: both look at no manifest, *)
(* so what an earlier indexing failed to write may still be missing.        *)
SavedIsSearchable ==
    \A w \in Workers : pc[w] = "done" =>
        LET j == job[w]
            whole == ChunkIds(chunk_selected_messages(j.target, convs[j.target].msgs, 0))
        IN  /\ (j.outcome \in {"inserted", "deduplicated"}
                  /\ convs[j.target].status = "active") => whole \subseteq vectors[j.target]
            /\ j.outcome = "appended" => ChunkIds(j.chunks) \subseteq vectors[j.target]

(* When a write answers inserted or appended, the generated summary covers  *)
(* the whole stored transcript.                                             *)
FreshSummary ==
    \A w \in Workers : (pc[w] = "done" /\ job[w].outcome \in {"inserted", "appended"}) =>
        summaries[job[w].target] = convs[job[w].target].msgs

(* When reindex answers ok, every active conversation is completely in the  *)
(* vector store, whatever was lost before.                                  *)
ReindexRestores ==
    \A w \in Workers : (pc[w] = "done" /\ job[w].outcome = "reindexed") =>
        \A id \in Stored : convs[id].status = "active" =>
            ChunkIds(chunk_selected_messages(id, convs[id].msgs, 0)) \subseteq vectors[id]

(* A memory that is held for review or was rejected has no facts.           *)
HeldHasNoFacts == \A id \in Stored : convs[id].status # "active" => facts[id] = {}

(* What the archive sees of a stored conversation, and of all of them.      *)
Image(c) == [project |-> c.project, msgs |-> c.msgs, status |-> c.status]
Mapped == [id \in Ids |-> IF convs[id] = None THEN None ELSE Image(convs[id])]

(* One hub, with all its races, crashes and partial failures, keeps what    *)
(* the archive promises.                                                    *)
Archive == INSTANCE MemoryArchive WITH
    Transcripts <- {r.msgs : r \in Requests}, archive <- Mapped
ImplementsArchive == Archive!ArchiveSpec

(* Every operation that starts answers or is cut off by a crash.            *)
EveryOperationEnds == \A w \in Workers : pc[w] # "idle" ~> pc[w] = "idle"
=============================================================================
