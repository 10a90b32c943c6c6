------------------------- MODULE VectorStores_proofs -------------------------
(***************************************************************************)
(* Theorems about module VectorStores, for every provider, any number of    *)
(* memories, embedding configurations and chunking windows, and any number  *)
(* of starts, writes and failures.                                          *)
(***************************************************************************)
EXTENDS VectorStores, FiniteSetTheorems, TLAPS

Stores == [Memories -> [ChunkIds -> Seq(Models)]]

TypeOK ==
    /\ provider \in Providers
    /\ rows \in [Destinations -> Stores]
    /\ recorded \in Models \cup {None}
    /\ hub \in Hubs \cup {None}
    /\ wanted \in [Memories -> Targets \cup {None}]
    /\ job \in Jobs \cup {None}
    /\ settled \in [Destinations -> SUBSET Memories]

(* All rows of a store were embedded with one configuration.                *)
Uniform(store, model) ==
    \A m \in Memories, c \in ChunkIds : \A i \in DOMAIN store[m][c] : store[m][c][i] = model

(* The store in memory belongs to the running hub; the configured one holds *)
(* rows of the configuration on record, which is that of a hub it serves.   *)
SpaceOK ==
    /\ hub = None => rows["memory"] = EmptyStore
    /\ hub # None => Uniform(rows["memory"], hub.model)
    /\ CallsOf(provider).count # "estimate" =>
         IF recorded = None THEN rows["configured"] = EmptyStore
         ELSE Uniform(rows["configured"], recorded)
    /\ hub # None /\ hub.store = "configured" => recorded = hub.model

(* The positions of the chunk ids of a memory stop at their number, so that *)
(* the next position is free.                                               *)
Numbered(chunks) ==
    /\ IsFiniteSet(chunks) /\ chunks # {}
    /\ \A c \in chunks : c[1] <= Cardinality(chunks)

WantedOK ==
    \A m \in Memories :
        IF wanted[m] = None THEN \A d \in Destinations : rows[d][m] = NoRows
        ELSE Numbered(wanted[m].chunks)

(* The rows of a memory with chunk ids W of which left is still to write.   *)
RowsOK(held, calls, W, left) ==
    \A c \in ChunkIds :
        /\ c \in W \ left => Len(held[c]) = 1 \/ (Len(held[c]) = 0 /\ calls.rows = "import")
        /\ c \in left /\ (calls.ids = "add" \/ calls.rows = "import") => Len(held[c]) = 0
        /\ calls.deletes = "all" /\ calls.count # "estimate" /\ c \notin W => Len(held[c]) = 0

SettledOK ==
    \A d \in Destinations : \A m \in settled[d] :
        /\ wanted[m] # None
        /\ RowsOK(rows[d][m], CallsOf(IF d = "memory" THEN d ELSE provider), wanted[m].chunks, {})

(* A write that will delete the rows of the memory in its own transaction.  *)
Pending(j, calls) == calls.rows = "transaction" /\ j.replace /\ j.left # {}

JobOK(j, calls, W) ==
    /\ j.pc = "delete" => j.left = W /\ j.replace /\ calls.rows # "transaction"
    /\ j.pc = "write" =>
         /\ j.left \subseteq W
         /\ Pending(j, calls) => j.left = W
         /\ j.settles /\ ~Pending(j, calls) => RowsOK(rows[hub.store][j.memory], calls, W, j.left)

(* What the write under way knows of the store.                             *)
JobInv ==
    job # None =>
        /\ hub # None
        /\ job.memory \notin job.todo
        /\ \A m \in job.todo \cup {job.memory} : wanted[m] # None
        /\ \A d \in Destinations : job.memory \notin settled[d]
        /\ ~job.replace /\ Calls.count # "estimate" =>
             \A m \in job.todo : rows[hub.store][m] = NoRows
        /\ JobOK(job, Calls, wanted[job.memory].chunks)

IInv == TypeOK /\ SpaceOK /\ WantedOK /\ SettledOK /\ JobInv

-----------------------------------------------------------------------------
(* The adapters: those that add a second row under an id, and the one that  *)
(* does not read which rows were refused, delete every row and count        *)
(* exactly.                                                                 *)
LEMMA AdapterKinds ==
    ASSUME NEW p \in Providers \cup {"memory"}
    PROVE  /\ CallsOf(p).count \in {"exact", "or none", "estimate"}
           /\ CallsOf(p).ids = "add" \/ CallsOf(p).rows = "import" =>
                CallsOf(p).deletes = "all" /\ CallsOf(p).count # "estimate"
           /\ CallsOf(p).rows = "transaction" => CallsOf(p).deletes = "all"
  BY VectorAssumption
  DEF CallsOf, chromadb_calls, qdrant_calls, milvus_calls, mongodb_atlas_calls,
      elasticsearch_calls, opensearch_calls, redis_calls, pinecone_calls, turbopuffer_calls,
      vespa_calls, typesense_calls, weaviate_calls, lancedb_calls, pgvector_calls, memory_calls

(* A count that is zero and no estimate is that of an empty store.          *)
LEMMA CountsRows ==
    ASSUME NEW p \in Providers \cup {"memory"}, NEW store, CallsOf(p).count # "estimate",
           NEW count \in vector_row_count(p, store), count = 0
    PROVE  IsEmpty(store)
  <1>1. PICK kind : kind = CallsOf(p).count
    OBVIOUS
  <1>2. kind \in {"exact", "or none"}
    BY <1>1, AdapterKinds
  <1>3. None # 0
    BY VectorAssumption
  <1>4. SUFFICES ASSUME ~IsEmpty(store) PROVE FALSE
    OBVIOUS
  <1>5. vector_row_count(p, store) \subseteq {1, None}
    <2>1. CASE kind = "exact"
      BY <1>1, <1>4, <2>1 DEF vector_row_count
    <2>2. CASE kind = "or none"
      BY <1>1, <1>4, <2>2 DEF vector_row_count
    <2> QED
      BY <1>2, <2>1, <2>2
  <1> QED
    BY <1>3, <1>5

LEMMA EmptyIs ==
    /\ EmptyStore \in Stores
    /\ \A store \in Stores : IsEmpty(store) => store = EmptyStore
    /\ \A model : Uniform(EmptyStore, model)
  <1>1. <<>> \in Seq(Models) /\ DOMAIN <<>> = {}
    OBVIOUS
  <1>2. NoRows \in [ChunkIds -> Seq(Models)]
    BY <1>1 DEF NoRows
  <1> QED
    BY <1>1, <1>2 DEF EmptyStore, NoRows, IsEmpty, Stores, Uniform

(* The one that does not read the answer writes rows under their own ids.   *)
LEMMA ImportKind ==
    ASSUME NEW p \in Providers \cup {"memory"}, CallsOf(p).rows = "import"
    PROVE  CallsOf(p).ids = "replace"
  BY VectorAssumption
  DEF CallsOf, chromadb_calls, qdrant_calls, milvus_calls, mongodb_atlas_calls,
      elasticsearch_calls, opensearch_calls, redis_calls, pinecone_calls, turbopuffer_calls,
      vespa_calls, typesense_calls, weaviate_calls, lancedb_calls, pgvector_calls, memory_calls

LEMMA WithoutIs ==
    ASSUME NEW store \in Stores, NEW m \in Memories, NEW chunks
    PROVE  /\ Without(store, m, chunks) \in Stores
           /\ \A x \in Memories : x # m => Without(store, m, chunks)[x] = store[x]
           /\ \A c \in ChunkIds :
                Without(store, m, chunks)[m][c] = IF c \in chunks THEN <<>> ELSE store[m][c]
  <1>1. PICK t : t = [c \in ChunkIds |-> IF c \in chunks THEN <<>> ELSE store[m][c]]
    OBVIOUS
  <1>2. t \in [ChunkIds -> Seq(Models)]
    BY <1>1 DEF Stores
  <1>3. Without(store, m, chunks) = [store EXCEPT ![m] = t]
    BY <1>1 DEF Without, Stores
  <1> QED
    BY <1>1, <1>2, <1>3 DEF Stores

LEMMA WithRowsIs ==
    ASSUME NEW store \in Stores, NEW m \in Memories, NEW chunks, NEW calls, NEW model \in Models
    PROVE  /\ WithRows(calls, store, m, chunks, model) \in Stores
           /\ \A x \in Memories : x # m => WithRows(calls, store, m, chunks, model)[x] = store[x]
           /\ \A c \in ChunkIds :
                WithRows(calls, store, m, chunks, model)[m][c] =
                  IF c \in chunks THEN Stored(calls, store[m][c], model) ELSE store[m][c]
  <1>1. PICK t : t = [c \in ChunkIds |->
                        IF c \in chunks THEN Stored(calls, store[m][c], model) ELSE store[m][c]]
    OBVIOUS
  <1>2. t \in [ChunkIds -> Seq(Models)]
    BY <1>1 DEF Stores, Stored
  <1>3. WithRows(calls, store, m, chunks, model) = [store EXCEPT ![m] = t]
    BY <1>1 DEF WithRows, Stores
  <1> QED
    BY <1>1, <1>2, <1>3 DEF Stores

(* Storing a row keeps the configuration, and leaves one row under an id    *)
(* that had none or whose row is replaced.                                  *)
LEMMA StoredIs ==
    ASSUME NEW held \in Seq(Models), NEW model \in Models, NEW calls
    PROVE  /\ Stored(calls, held, model) \in Seq(Models)
           /\ (\A i \in DOMAIN held : held[i] = model) =>
                \A i \in DOMAIN Stored(calls, held, model) : Stored(calls, held, model)[i] = model
           /\ calls.ids # "add" \/ Len(held) = 0 => Len(Stored(calls, held, model)) = 1
  BY DEF Stored

-----------------------------------------------------------------------------
(* The numbering of chunk ids.                                              *)

LEMMA Quotient == \A a \in Nat, b \in Nat \ {0} : a \div b \in Nat
  OBVIOUS

(* T has the consecutive positions a to b, each with the message f gives it.*)
Spans(T, a, b, f) == \A t : t \in T <=> \E i \in a .. b : t = <<i, f[i]>>

LEMMA Consecutive ==
    ASSUME NEW a \in Nat, NEW b \in Nat, NEW f, NEW T, a <= b + 1,
           Spans(T, a, b, f)
    PROVE  IsFiniteSet(T) /\ Cardinality(T) = b - a + 1
  <1> DEFINE g == [i \in a .. b |-> <<i, f[i]>>]
  <1>1. g \in Bijection(a .. b, T)
    <2>1. g \in [a .. b -> T]
      BY DEF Spans
    <2>2. \A i, j \in a .. b : g[i] = g[j] => i = j
      OBVIOUS
    <2>3. \A t \in T : \E i \in a .. b : g[i] = t
      BY DEF Spans
    <2> QED
      BY <2>1, <2>2, <2>3 DEF Bijection, Injection, Surjection, IsInjective
  <1>2. IsFiniteSet(a .. b) /\ Cardinality(a .. b) = b - a + 1
    BY FS_Interval
  <1>3. ExistsBijection(a .. b, T)
    BY <1>1 DEF ExistsBijection
  <1> QED
    BY <1>2, <1>3, FS_Bijection

LEMMA FreshChunks ==
    ASSUME NEW n \in Nat \ {0}, NEW window \in Windows
    PROVE  /\ chunk_messages(n, window) \in SUBSET (Nat \X Nat)
           /\ Numbered(chunk_messages(n, window))
  <1>1. window \in Nat \ {0}
    BY VectorAssumption
  <1>2. PICK k : k = n * window
    OBVIOUS
  <1>3. k \in Nat \ {0}
    BY <1>1, <1>2
  <1>4. PICK f : f = [i \in 1 .. k |-> (i - 1) \div window + 1]
    OBVIOUS
  <1>5. PICK T : T = {<<i, f[i]>> : i \in 1 .. k}
    OBVIOUS
  <1>6. \A i \in 1 .. k : f[i] = (i - 1) \div window + 1 /\ f[i] \in Nat
    <2>1. \A i \in 1 .. k : i - 1 \in Nat
      BY <1>3
    <2> QED
      BY <1>1, <1>4, <2>1, Quotient
  <1>7. chunk_messages(n, window) = T
    BY <1>2, <1>5, <1>6 DEF chunk_messages
  <1>8. T \in SUBSET (Nat \X Nat)
    BY <1>3, <1>5, <1>6
  <1>9. IsFiniteSet(T) /\ Cardinality(T) = k
    <2>1. PICK a : a = 1
      OBVIOUS
    <2>2. a \in Nat /\ k \in Nat /\ a <= k + 1 /\ k - a + 1 = k
      BY <1>3, <2>1
    <2>3. Spans(T, a, k, f)
      BY <1>5, <2>1 DEF Spans
    <2>4. IsFiniteSet(T) /\ Cardinality(T) = k - a + 1
      BY <2>2, <2>3, Consecutive
    <2> QED
      BY <2>2, <2>4
  <1>10. T # {} /\ \A t \in T : t[1] <= k
    <2>1. 1 \in 1 .. k
      BY <1>3
    <2>2. <<1, f[1]>> \in T
      BY <1>5, <2>1
    <2>3. \A t \in T : t[1] \in 1 .. k
      BY <1>5
    <2> QED
      BY <1>3, <2>2, <2>3
  <1> QED
    BY <1>7, <1>8, <1>9, <1>10 DEF Numbered

(* The chunks of an appended message start where the others end.            *)
LEMMA AppendedChunks ==
    ASSUME NEW W \in SUBSET (Nat \X Nat), Numbered(W), NEW n \in Nat, NEW window \in Windows
    PROVE  LET new == chunk_selected_messages(n, NextPosition(W), window)
           IN  /\ new \in SUBSET (Nat \X Nat) /\ new # {} /\ new \cap W = {}
               /\ Numbered(W \cup new)
  <1>1. window \in Nat \ {0}
    BY VectorAssumption
  <1>2. PICK k : k = Cardinality(W)
    OBVIOUS
  <1>3. k \in Nat
    BY <1>2, FS_CardinalityType DEF Numbered
  <1>4. PICK b, f : b = k + window /\ f = [i \in 1 + k .. b |-> n]
    OBVIOUS
  <1>5. PICK T : T = {<<i, f[i]>> : i \in 1 + k .. b}
    OBVIOUS
  <1>6. chunk_selected_messages(n, NextPosition(W), window) = T
    <2>1. T = {<<i, n>> : i \in 1 + k .. b}
      BY <1>4, <1>5
    <2>2. chunk_selected_messages(n, NextPosition(W), window) = {<<1 + k + i, n>> : i \in 0 .. window - 1}
      BY <1>2 DEF chunk_selected_messages, NextPosition
    <2>3. \A i \in 1 + k .. b : i - (1 + k) \in 0 .. window - 1 /\ i = 1 + k + (i - (1 + k))
      BY <1>1, <1>3, <1>4
    <2>4. \A i \in 0 .. window - 1 : 1 + k + i \in 1 + k .. b
      BY <1>1, <1>3, <1>4
    <2>5. T \subseteq {<<1 + k + i, n>> : i \in 0 .. window - 1}
      BY <2>1, <2>3
    <2>6. {<<1 + k + i, n>> : i \in 0 .. window - 1} \subseteq T
      BY <2>1, <2>4
    <2> QED
      BY <2>2, <2>5, <2>6
  <1>7. \A t \in T : t \in Nat \X Nat /\ k < t[1] /\ t[1] <= b
    BY <1>1, <1>3, <1>4, <1>5
  <1>8. T # {}
    <2>1. 1 + k \in 1 + k .. b
      BY <1>1, <1>3, <1>4
    <2> QED
      BY <1>5, <2>1
  <1>9. T \cap W = {}
    BY <1>2, <1>3, <1>7 DEF Numbered
  <1>10. IsFiniteSet(T) /\ Cardinality(T) = window
    <2>1. 1 + k \in Nat /\ b \in Nat /\ 1 + k <= b + 1 /\ b - (1 + k) + 1 = window
      BY <1>1, <1>3, <1>4
    <2>2. Spans(T, 1 + k, b, f)
      BY <1>5 DEF Spans
    <2> QED
      BY <2>1, <2>2, Consecutive
  <1>11. IsFiniteSet(W \cup T) /\ Cardinality(W \cup T) = b
    <2>1. Cardinality(W \cap T) = 0
      BY <1>9, FS_EmptySet
    <2>2. IsFiniteSet(W)
      BY DEF Numbered
    <2>3. IsFiniteSet(W \cup T) /\ Cardinality(W \cup T) = Cardinality(W) + Cardinality(T) - Cardinality(W \cap T)
      BY <1>10, <2>2, FS_Union
    <2> QED
      BY <1>1, <1>2, <1>3, <1>4, <1>10, <2>1, <2>3
  <1>12. \A c \in W \cup T : c[1] <= b
    BY <1>1, <1>2, <1>3, <1>4, <1>7 DEF Numbered
  <1> QED
    BY <1>6, <1>7, <1>8, <1>9, <1>11, <1>12 DEF Numbered

-----------------------------------------------------------------------------
(* Starting and stopping.                                                   *)

LEMMA InitHasInv == Init => IInv
  <1> SUFFICES ASSUME Init PROVE IInv
    OBVIOUS
  <1>1. EmptyStore \in Stores /\ \A m \in Memories : EmptyStore[m] = NoRows
    BY EmptyIs DEF EmptyStore
  <1>2. TypeOK
    BY <1>1 DEF Init, TypeOK
  <1> QED
    BY <1>1, <1>2 DEF Init, IInv, SpaceOK, WantedOK, SettledOK, JobInv, Destinations

(* The configured store is emptied, or left alone, while no hub runs.       *)
LEMMA Reopened ==
    ASSUME IInv, hub = None, NEW store, rows' = [rows EXCEPT !["configured"] = store],
           \/ store = EmptyStore /\ settled' = [settled EXCEPT !["configured"] = {}]
           \/ store = rows["configured"] /\ settled' = settled,
           UNCHANGED <<provider, wanted, job>>
    PROVE  /\ store \in Stores /\ rows' \in [Destinations -> Stores]
           /\ settled' \in [Destinations -> SUBSET Memories]
           /\ rows'["memory"] = rows["memory"] /\ rows'["configured"] = store
           /\ WantedOK' /\ SettledOK' /\ JobInv'
  <1>1. EmptyStore \in Stores /\ \A m \in Memories : EmptyStore[m] = NoRows
    BY EmptyIs DEF EmptyStore
  <1>2. store \in Stores /\ rows' \in [Destinations -> Stores]
    BY <1>1 DEF IInv, TypeOK, Destinations
  <1>3. rows'["memory"] = rows["memory"] /\ rows'["configured"] = store
    BY DEF IInv, TypeOK, Destinations
  <1>4. /\ settled' \in [Destinations -> SUBSET Memories]
        /\ settled'["memory"] = settled["memory"]
        /\ settled'["configured"] = {} \/ (settled'["configured"] = settled["configured"]
                                           /\ store = rows["configured"])
    BY DEF IInv, TypeOK, Destinations
  <1>5. WantedOK'
    BY <1>1, <1>3 DEF IInv, WantedOK, Destinations
  <1>6. SettledOK'
    BY <1>3, <1>4 DEF IInv, SettledOK, Destinations
  <1>7. JobInv'
    BY DEF IInv, JobInv
  <1> QED
    BY <1>2, <1>3, <1>4, <1>5, <1>6, <1>7

LEMMA OpenStep ==
    ASSUME IInv, hub = None, NEW model \in Models, NEW window \in Windows, Open(model, window),
           UNCHANGED <<provider, wanted, job>>
    PROVE  IInv'
  <1>1. PICK store : store = IF Overwrites(model) THEN EmptyStore ELSE rows["configured"]
    OBVIOUS
  <1>2. /\ \E count \in vector_row_count(provider, store) :
             validate_embedding_index_metadata(model, recorded, count)
        /\ rows' = [rows EXCEPT !["configured"] = store]
        /\ recorded' = model
        /\ hub' = [model |-> model, window |-> window, store |-> "configured"]
    BY <1>1 DEF Open, Runs
  <1>3. \/ store = EmptyStore /\ settled' = [settled EXCEPT !["configured"] = {}]
        \/ store = rows["configured"] /\ settled' = settled
    BY <1>1 DEF Open
  <1>4. /\ store \in Stores /\ rows' \in [Destinations -> Stores]
        /\ settled' \in [Destinations -> SUBSET Memories]
        /\ rows'["memory"] = rows["memory"] /\ rows'["configured"] = store
        /\ WantedOK' /\ SettledOK' /\ JobInv'
    BY <1>2, <1>3, Reopened
  <1>5. hub' \in Hubs /\ hub'.model = model /\ hub'.store = "configured" /\ hub' # None
    BY <1>2, NoneIsNoRecord DEF Hubs, Destinations
  <1>6. CallsOf(provider).count # "estimate" => Uniform(store, model)
    <2> SUFFICES ASSUME CallsOf(provider).count # "estimate" PROVE Uniform(store, model)
      OBVIOUS
    <2>1. CASE store = EmptyStore
      BY <2>1, EmptyIs
    <2>2. CASE store = rows["configured"]
      <3>1. PICK count \in vector_row_count(provider, store) :
               validate_embedding_index_metadata(model, recorded, count)
        BY <1>2
      <3>2. CASE recorded = model
        BY <2>2, <3>2, VectorAssumption DEF IInv, SpaceOK
      <3>3. CASE recorded = None
        BY <2>2, <3>3, EmptyIs DEF IInv, SpaceOK
      <3>4. CASE count = 0
        <4>1. provider \in Providers \cup {"memory"}
          BY DEF IInv, TypeOK
        <4>2. IsEmpty(store)
          BY <3>4, <4>1, CountsRows
        <4> QED
          BY <1>4, <4>2, EmptyIs
      <3> QED
        BY <3>1, <3>2, <3>3, <3>4 DEF validate_embedding_index_metadata
    <2> QED
      BY <1>3, <2>1, <2>2
  <1>7. TypeOK'
    BY <1>2, <1>4, <1>5 DEF IInv, TypeOK
  <1>8. Uniform(rows["memory"], model)
    BY EmptyIs DEF IInv, SpaceOK
  <1>9. SpaceOK'
    <2>1. model # None
      BY VectorAssumption
    <2>2. Uniform(rows'["memory"], model) /\ provider' = provider
      BY <1>4, <1>8
    <2>3. CallsOf(provider).count # "estimate" => Uniform(rows'["configured"], model)
      BY <1>4, <1>6
    <2> QED
      BY <1>2, <1>5, <2>1, <2>2, <2>3 DEF SpaceOK
  <1> QED
    BY <1>4, <1>7, <1>9 DEF IInv

(* The configured store is empty, and no hub runs on it.                    *)
LEMMA EmptiedStep ==
    ASSUME IInv, hub = None, rows' = [rows EXCEPT !["configured"] = EmptyStore],
           settled' = [settled EXCEPT !["configured"] = {}],
           recorded' = recorded \/ recorded' = None,
           UNCHANGED <<provider, wanted, job, hub>>
    PROVE  IInv'
  <1>1. /\ rows' \in [Destinations -> Stores]
        /\ settled' \in [Destinations -> SUBSET Memories]
        /\ rows'["memory"] = rows["memory"] /\ rows'["configured"] = EmptyStore
        /\ WantedOK' /\ SettledOK' /\ JobInv'
    BY Reopened
  <1>2. TypeOK'
    BY <1>1 DEF IInv, TypeOK
  <1>3. SpaceOK'
    BY <1>1, EmptyIs DEF IInv, SpaceOK
  <1> QED
    BY <1>1, <1>2, <1>3 DEF IInv

LEMMA FallBackStep ==
    ASSUME IInv, hub = None, NEW model \in Models, NEW window \in Windows, FallBack(model, window),
           UNCHANGED <<provider, wanted, job>>
    PROVE  IInv'
  <1>1. /\ hub' = [model |-> model, window |-> window, store |-> "memory"]
        /\ UNCHANGED <<recorded, rows, settled>>
    BY DEF FallBack, Runs
  <1>2. hub' \in Hubs /\ hub'.model = model /\ hub'.store = "memory" /\ hub' # None
    BY <1>1, NoneIsNoRecord DEF Hubs, Destinations
  <1>3. TypeOK'
    BY <1>1, <1>2 DEF IInv, TypeOK
  <1>4. SpaceOK'
    BY <1>1, <1>2, EmptyIs DEF IInv, SpaceOK
  <1>5. WantedOK' /\ SettledOK' /\ JobInv'
    BY <1>1 DEF IInv, WantedOK, SettledOK, JobInv
  <1> QED
    BY <1>3, <1>4, <1>5 DEF IInv

LEMMA StopStep ==
    ASSUME IInv, Stop
    PROVE  IInv'
  <1>1. EmptyStore \in Stores /\ \A m \in Memories : EmptyStore[m] = NoRows
    BY EmptyIs DEF EmptyStore
  <1>2. /\ rows' \in [Destinations -> Stores]
        /\ rows'["memory"] = EmptyStore /\ rows'["configured"] = rows["configured"]
        /\ settled' \in [Destinations -> SUBSET Memories]
        /\ settled'["memory"] = {} /\ settled'["configured"] = settled["configured"]
    BY <1>1 DEF IInv, TypeOK, Stop, Destinations
  <1>3. TypeOK'
    BY <1>2 DEF IInv, TypeOK, Stop
  <1>4. SpaceOK'
    BY <1>2 DEF IInv, SpaceOK, Stop
  <1>5. WantedOK'
    BY <1>1, <1>2 DEF IInv, WantedOK, Destinations, Stop
  <1>6. SettledOK'
    BY <1>2 DEF IInv, SettledOK, Destinations, Stop
  <1>7. JobInv'
    BY DEF JobInv, Stop
  <1> QED
    BY <1>3, <1>4, <1>5, <1>6, <1>7 DEF IInv

LEMMA StartStep ==
    ASSUME IInv, NEW model \in Models, NEW window \in Windows, build_runtime(model, window)
    PROVE  IInv'
  BY OpenStep, EmptiedStep, FallBackStep DEF build_runtime, Refuse

LEMMA MoveStep ==
    ASSUME IInv, MoveToEmptyDestination
    PROVE  IInv'
  BY EmptiedStep DEF MoveToEmptyDestination

-----------------------------------------------------------------------------
(* The callers of store_vectors.                                            *)

LEMMA ServedIs ==
    ASSUME IInv, hub # None
    PROVE  /\ hub \in Hubs /\ hub.store \in Destinations /\ hub.model \in Models
           /\ hub.window \in Windows
           /\ Served \in Providers \cup {"memory"}
           /\ Calls = CallsOf(IF hub.store = "memory" THEN hub.store ELSE provider)
           /\ hub.store = "configured" => Calls = CallsOf(provider)
           /\ Calls.ids = "add" \/ Calls.rows = "import" =>
                Calls.deletes = "all" /\ Calls.count # "estimate"
           /\ Calls.rows = "transaction" => Calls.deletes = "all"
  <1>1. hub \in Hubs
    BY DEF IInv, TypeOK
  <1>2. hub.store \in Destinations /\ hub.model \in Models /\ hub.window \in Windows
    BY <1>1 DEF Hubs
  <1>3. Served \in Providers \cup {"memory"}
    BY DEF Served, IInv, TypeOK
  <1> QED
    BY <1>1, <1>2, <1>3, AdapterKinds DEF Calls, Served, Destinations

(* The memories of a reindex that replaces nothing have no rows.            *)
Clean(todo, replace) ==
    ~replace /\ Calls.count # "estimate" => \A m \in todo : rows[hub.store][m] = NoRows

(* A write begins: the memory is given the chunk ids W, of which the write  *)
(* has those in chunks to store.                                            *)
LEMMA StoreVectorsStep ==
    ASSUME IInv, hub # None, NEW m \in Memories, NEW chunks, NEW replace \in BOOLEAN,
           NEW todo \in SUBSET Memories, NEW before \in [Destinations -> SUBSET Memories],
           NEW n \in Nat \ {0}, NEW W \in SUBSET (Nat \X Nat), Numbered(W),
           Wants(m, n, W), store_vectors(m, chunks, replace, todo, before),
           UNCHANGED <<config, rows>>,
           m \notin todo, \A x \in todo : wanted[x] # None,
           Clean(todo, replace),
           \A d \in Destinations : \A x \in before[d] :
             x # m => /\ wanted[x] # None
                      /\ RowsOK(rows[d][x], CallsOf(IF d = "memory" THEN d ELSE provider),
                                wanted[x].chunks, {}),
           chunks \subseteq W, chunks # {},
           replace => chunks = W,
           chunks = W \/ m \in before[hub.store] =>
             replace \/ RowsOK(rows[hub.store][m], Calls, W, chunks)
    PROVE  IInv'
  <1>1. PICK t : t = [n |-> n, chunks |-> W]
    OBVIOUS
  <1>2. t \in Targets /\ t # None /\ t.chunks = W
    BY <1>1, NoneIsNoRecord DEF Targets
  <1>3. /\ wanted' \in [Memories -> Targets \cup {None}] /\ wanted'[m] = t
        /\ \A x \in Memories : x # m => wanted'[x] = wanted[x]
    BY <1>1, <1>2 DEF IInv, TypeOK, Wants
  <1>4. PICK a, s : /\ a = IF replace /\ Calls.rows # "transaction" THEN "delete" ELSE "write"
                    /\ s = (chunks = W \/ m \in before[hub.store])
    OBVIOUS
  <1>5. PICK k : k = [memory |-> m, left |-> chunks, replace |-> replace, todo |-> todo,
                      settles |-> s, pc |-> a]
    OBVIOUS
  <1>6. job' = k
    BY <1>2, <1>3, <1>4, <1>5 DEF store_vectors
  <1>7. k \in Jobs /\ k # None
    <2>1. a \in {"delete", "write", "raised"} /\ s \in BOOLEAN /\ chunks \in SUBSET (Nat \X Nat)
      BY <1>4
    <2>2. k \in Jobs
      BY <1>5, <2>1 DEF Jobs
    <2> QED
      BY <2>2, NoneIsNoRecord
  <1>8. k.memory = m /\ k.left = chunks /\ k.replace = replace /\ k.todo = todo /\ k.settles = s /\ k.pc = a
    BY <1>5
  <1>9. /\ settled' \in [Destinations -> SUBSET Memories]
        /\ \A d \in Destinations : settled'[d] = before[d] \ {m}
    BY DEF store_vectors
  <1>10. TypeOK'
    BY <1>3, <1>6, <1>7, <1>9 DEF IInv, TypeOK, config
  <1>11. SpaceOK'
    BY DEF IInv, SpaceOK, config
  <1>12. WantedOK'
    BY <1>2, <1>3 DEF IInv, WantedOK
  <1>13. SettledOK'
    <2> SUFFICES ASSUME NEW d \in Destinations, NEW x \in settled'[d]
                 PROVE  /\ wanted'[x] # None
                        /\ RowsOK(rows'[d][x], CallsOf(IF d = "memory" THEN d ELSE provider'),
                                  wanted'[x].chunks, {})
      BY DEF SettledOK
    <2>1. x \in before[d] /\ x # m /\ x \in Memories
      BY <1>9
    <2> QED
      BY <1>3, <2>1 DEF config
  <1>14. JobInv'
    <2>1. Calls' = Calls /\ hub' = hub
      BY DEF Calls, Served, config
    <2>2. JobOK(k, Calls, W)
      <3>1. a = "delete" => k.left = W /\ k.replace /\ Calls.rows # "transaction"
        BY <1>4, <1>8
      <3>2. a = "write" /\ Pending(k, Calls) => k.left = W
        BY <1>8 DEF Pending
      <3>3. a = "write" /\ replace => Pending(k, Calls)
        BY <1>4, <1>8 DEF Pending
      <3>4. a = "write" /\ s /\ ~Pending(k, Calls) => RowsOK(rows[hub.store][m], Calls, W, chunks)
        BY <1>4, <3>3
      <3> QED
        BY <1>8, <3>1, <3>2, <3>4 DEF JobOK
    <2>3. JobOK(k, Calls, W)'
      BY <2>1, <2>2 DEF JobOK, Pending
    <2>4. \A x \in todo \cup {m} : wanted'[x] # None
      BY <1>2, <1>3
    <2>5. \A d \in Destinations : m \notin settled'[d]
      BY <1>9
    <2>6. ~replace /\ Calls'.count # "estimate" => \A x \in todo : rows'[hub'.store][x] = NoRows
      BY <2>1 DEF Clean
    <2>7. wanted'[m].chunks = W
      BY <1>2, <1>3
    <2> QED
      BY <1>6, <1>8, <2>1, <2>3, <2>4, <2>5, <2>6, <2>7 DEF JobInv, JobOK
  <1> QED
    BY <1>10, <1>11, <1>12, <1>13, <1>14 DEF IInv

(* Nothing of a memory is stored yet, or its rows are replaced one by one.  *)
LEMMA NothingWritten ==
    ASSUME IInv, hub # None, NEW m \in Memories, NEW W, Calls.count # "estimate" => rows[hub.store][m] = NoRows
    PROVE  RowsOK(rows[hub.store][m], Calls, W, W)
  <1>1. \A c \in ChunkIds : Len(NoRows[c]) = 0
    BY DEF NoRows
  <1> QED
    BY <1>1, ServedIs DEF RowsOK

LEMMA SettledBefore ==
    ASSUME IInv
    PROVE  \A d \in Destinations : \A x \in settled[d] :
             /\ wanted[x] # None
             /\ RowsOK(rows[d][x], CallsOf(IF d = "memory" THEN d ELSE provider), wanted[x].chunks, {})
  BY DEF IInv, SettledOK

LEMMA SaveNewStep ==
    ASSUME IInv, NEW m \in Memories, SaveNew(m)
    PROVE  IInv'
  <1>1. PICK W : W = chunk_messages(1, hub.window)
    OBVIOUS
  <1>2. /\ hub # None /\ wanted[m] = None /\ UNCHANGED <<config, rows>>
        /\ Wants(m, 1, W) /\ store_vectors(m, W, FALSE, {}, settled)
    BY <1>1 DEF SaveNew, Ready, Unmoved
  <1>3. W \in SUBSET (Nat \X Nat) /\ Numbered(W)
    BY <1>1, <1>2, ServedIs, FreshChunks
  <1>4. RowsOK(rows[hub.store][m], Calls, W, W)
    BY <1>2, ServedIs, NothingWritten DEF IInv, WantedOK
  <1>5. settled \in [Destinations -> SUBSET Memories]
    BY DEF IInv, TypeOK
  <1>6. Clean({}, FALSE) /\ W # {} /\ W \subseteq W /\ 1 \in Nat \ {0} /\ {} \in SUBSET Memories
    BY <1>3 DEF Clean, Numbered
  <1> QED
    BY <1>2, <1>3, <1>4, <1>5, <1>6, SettledBefore, StoreVectorsStep

LEMMA SaveAppendedStep ==
    ASSUME IInv, NEW m \in Memories, SaveAppended(m)
    PROVE  IInv'
  <1>1. PICK n, W : n = wanted[m].n /\ W = wanted[m].chunks
    OBVIOUS
  <1>2. PICK new, V : new = chunk_selected_messages(n + 1, NextPosition(W), hub.window) /\ V = W \cup new
    OBVIOUS
  <1>3. /\ hub # None /\ wanted[m] # None /\ UNCHANGED <<config, rows>>
        /\ Wants(m, n + 1, V) /\ store_vectors(m, new, FALSE, {}, settled)
    BY <1>1, <1>2 DEF SaveAppended, Ready, Unmoved
  <1>4. n \in Nat \ {0} /\ W \in SUBSET (Nat \X Nat) /\ Numbered(W)
    BY <1>1, <1>3 DEF IInv, TypeOK, WantedOK, Targets
  <1>5. n + 1 \in Nat \ {0}
    BY <1>4
  <1>6. new \in SUBSET (Nat \X Nat) /\ new # {} /\ new \cap W = {} /\ Numbered(V)
    <2>1. PICK window, k : window = hub.window /\ k = n + 1
      OBVIOUS
    <2>2. window \in Windows /\ k \in Nat
      BY <1>3, <1>5, <2>1, ServedIs
    <2>3. new = chunk_selected_messages(k, NextPosition(W), window)
      BY <1>2, <2>1
    <2> QED
      BY <1>2, <1>4, <2>2, <2>3, AppendedChunks
  <1>7. V \in SUBSET (Nat \X Nat) /\ new \subseteq V /\ W # {} /\ new # V
    BY <1>2, <1>4, <1>6 DEF Numbered
  <1>8. ASSUME m \in settled[hub.store] PROVE RowsOK(rows[hub.store][m], Calls, V, new)
    <2>1. RowsOK(rows[hub.store][m], Calls, W, {})
      BY <1>1, <1>3, <1>8, ServedIs, SettledBefore
    <2> QED
      BY <1>2, <1>3, <1>6, <2>1, ServedIs DEF RowsOK
  <1>9. settled \in [Destinations -> SUBSET Memories]
    BY DEF IInv, TypeOK
  <1>10. Clean({}, FALSE)
    BY DEF Clean
  <1> QED
    BY <1>3, <1>5, <1>6, <1>7, <1>8, <1>9, <1>10, SettledBefore, StoreVectorsStep

LEMMA SaveAgainStep ==
    ASSUME IInv, NEW m \in Memories, SaveAgain(m)
    PROVE  IInv'
  <1>1. PICK n, W : n = wanted[m].n /\ W = chunk_messages(n, hub.window)
    OBVIOUS
  <1>2. /\ hub # None /\ wanted[m] # None /\ UNCHANGED <<config, rows>>
        /\ Wants(m, n, W) /\ store_vectors(m, W, TRUE, {}, settled)
    BY <1>1 DEF SaveAgain, Ready, Unmoved, repair_replaces
  <1>3. n \in Nat \ {0}
    BY <1>1, <1>2 DEF IInv, TypeOK, Targets
  <1>4. W \in SUBSET (Nat \X Nat) /\ Numbered(W) /\ W # {}
    BY <1>1, <1>2, <1>3, ServedIs, FreshChunks DEF Numbered
  <1>5. settled \in [Destinations -> SUBSET Memories]
    BY DEF IInv, TypeOK
  <1>6. Clean({}, TRUE)
    BY DEF Clean
  <1> QED
    BY <1>2, <1>3, <1>4, <1>5, <1>6, SettledBefore, StoreVectorsStep

LEMMA NextOfReindexStep ==
    ASSUME IInv, hub # None, NEW todo \in SUBSET Memories, NEW replace \in BOOLEAN,
           NEW before \in [Destinations -> SUBSET Memories],
           NextOfReindex(todo, replace, before), UNCHANGED <<config, rows>>,
           \A x \in todo : wanted[x] # None, Clean(todo, replace),
           \A d \in Destinations : \A x \in before[d] :
             /\ wanted[x] # None
             /\ RowsOK(rows[d][x], CallsOf(IF d = "memory" THEN d ELSE provider), wanted[x].chunks, {})
    PROVE  IInv'
  <1>1. PICK m \in todo : LET chunks == chunk_messages(wanted[m].n, hub.window)
                          IN  /\ Wants(m, wanted[m].n, chunks)
                              /\ store_vectors(m, chunks, replace, todo \ {m}, before)
    BY DEF NextOfReindex
  <1>2. PICK n, W : n = wanted[m].n /\ W = chunk_messages(n, hub.window)
    OBVIOUS
  <1>3. Wants(m, n, W) /\ store_vectors(m, W, replace, todo \ {m}, before)
    BY <1>1, <1>2
  <1>4. m \in Memories /\ n \in Nat \ {0}
    BY <1>2 DEF IInv, TypeOK, Targets
  <1>5. W \in SUBSET (Nat \X Nat) /\ Numbered(W) /\ W # {}
    BY <1>2, <1>4, ServedIs, FreshChunks DEF Numbered
  <1>6. replace \/ RowsOK(rows[hub.store][m], Calls, W, W)
    BY <1>4, NothingWritten DEF Clean
  <1>7. Clean(todo \ {m}, replace)
    BY DEF Clean
  <1> QED
    BY <1>3, <1>4, <1>5, <1>6, <1>7, StoreVectorsStep

LEMMA ReindexStep ==
    ASSUME IInv, reindex_stored_conversations
    PROVE  IInv'
  <1>1. PICK todo : todo = {m \in Memories : wanted[m] # None}
    OBVIOUS
  <1>2. hub # None /\ UNCHANGED <<config, rows>>
    BY DEF reindex_stored_conversations, Ready, Unmoved
  <1>3. PICK count \in vector_row_count(Served, rows[hub.store]) :
           NextOfReindex(todo, replace_existing(count), settled)
    BY <1>1 DEF reindex_stored_conversations
  <1>4. ASSUME ~replace_existing(count), Calls.count # "estimate", NEW m \in todo
        PROVE  rows[hub.store][m] = NoRows
    <2>1. count = 0 /\ m \in Memories
      BY <1>1, <1>4 DEF replace_existing
    <2>2. IsEmpty(rows[hub.store])
      BY <1>2, <1>4, <2>1, ServedIs, CountsRows DEF Calls
    <2> QED
      BY <2>1, <2>2 DEF IsEmpty
  <1>5. Clean(todo, replace_existing(count))
    BY <1>4 DEF Clean
  <1>6. settled \in [Destinations -> SUBSET Memories] /\ replace_existing(count) \in BOOLEAN
    BY DEF IInv, TypeOK, replace_existing
  <1>7. todo \in SUBSET Memories /\ \A x \in todo : wanted[x] # None
    BY <1>1
  <1> QED
    BY <1>2, <1>3, <1>5, <1>6, <1>7, SettledBefore, NextOfReindexStep

LEMMA ReturnStep ==
    ASSUME IInv, Return
    PROVE  IInv'
  <1>1. PICK m, W : m = job.memory /\ W = wanted[m].chunks
    OBVIOUS
  <1>2. /\ job # None /\ hub # None /\ UNCHANGED <<config, rows>>
        /\ m \in Memories /\ job.todo \in SUBSET Memories /\ job.replace \in BOOLEAN
        /\ m \notin job.todo /\ \A x \in job.todo \cup {m} : wanted[x] # None
        /\ Clean(job.todo, job.replace) /\ JobOK(job, Calls, W)
        /\ job.left \subseteq Nat \X Nat
    BY <1>1 DEF Return, At, IInv, JobInv, TypeOK, Jobs, Clean, Unmoved
  <1>3. PICK after : after = IF At("raised") \/ ~ job.settles THEN settled
                             ELSE [settled EXCEPT ![hub.store] = @ \cup {m}]
    OBVIOUS
  <1>4. after \in [Destinations -> SUBSET Memories]
    BY <1>2, <1>3, ServedIs DEF IInv, TypeOK
  <1>5. ASSUME NEW d \in Destinations, NEW x \in after[d]
        PROVE  /\ wanted[x] # None
               /\ RowsOK(rows[d][x], CallsOf(IF d = "memory" THEN d ELSE provider), wanted[x].chunks, {})
    <2>1. CASE x \in settled[d]
      BY <2>1, SettledBefore
    <2>2. CASE x \notin settled[d]
      <3>1. ~At("raised") /\ job.settles /\ d = hub.store /\ x = m
        BY <1>2, <1>3, <1>5, <2>2, ServedIs DEF IInv, TypeOK
      <3>2. job.pc = "write" /\ job.left = {}
        BY <3>1 DEF Return, At
      <3>3. RowsOK(rows[hub.store][m], Calls, W, {})
        BY <1>1, <1>2, <3>1, <3>2 DEF JobOK, Pending
      <3> QED
        BY <1>1, <1>2, <3>1, <3>3, ServedIs
    <2> QED
      BY <2>1, <2>2
  <1>6. CASE job.todo = {} /\ job' = None /\ settled' = after /\ UNCHANGED wanted
    <2>1. TypeOK'
      BY <1>2, <1>4, <1>6 DEF IInv, TypeOK, config
    <2>2. SpaceOK' /\ WantedOK' /\ JobInv'
      BY <1>2, <1>6 DEF IInv, SpaceOK, WantedOK, JobInv, config
    <2>3. SettledOK'
      BY <1>2, <1>5, <1>6 DEF SettledOK, config
    <2> QED
      BY <2>1, <2>2, <2>3 DEF IInv
  <1>7. CASE NextOfReindex(job.todo, job.replace, after)
    BY <1>2, <1>4, <1>5, <1>7, NextOfReindexStep
  <1> QED
    BY <1>1, <1>3, <1>6, <1>7 DEF Return

-----------------------------------------------------------------------------
(* The calls of an adapter's insert.                                        *)

Embedded(held, model) == \A c \in ChunkIds : \A i \in DOMAIN held[c] : held[c][i] = model

(* A service call changes the rows of the memory that is written.           *)
LEMMA CallStep ==
    ASSUME IInv, job # None, NEW m \in Memories, m = job.memory, NEW s \in Stores,
           rows' = [rows EXCEPT ![hub.store] = s],
           \A x \in Memories : x # m => s[x] = rows[hub.store][x],
           Embedded(rows[hub.store][m], hub.model) => Embedded(s[m], hub.model),
           UNCHANGED <<config, wanted, settled>>,
           NEW a \in {"delete", "write", "raised"}, NEW left \in SUBSET (Nat \X Nat), GoTo(a, left),
           a = "delete" => left = wanted[m].chunks /\ job.replace /\ Calls.rows # "transaction",
           a = "write" =>
             /\ left \subseteq wanted[m].chunks
             /\ Calls.rows = "transaction" /\ job.replace /\ left # {} => left = wanted[m].chunks
             /\ job.settles /\ ~(Calls.rows = "transaction" /\ job.replace /\ left # {}) =>
                  RowsOK(s[m], Calls, wanted[m].chunks, left)
    PROVE  IInv'
  <1>1. PICK j, k : j = job /\ k = [j EXCEPT !.pc = a, !.left = left]
    OBVIOUS
  <1>2. j \in Jobs /\ hub # None
    BY <1>1 DEF IInv, TypeOK, JobInv
  <1>3. /\ k \in Jobs /\ k.pc = a /\ k.left = left /\ k.memory = m /\ k.todo = j.todo
        /\ k.replace = j.replace /\ k.settles = j.settles
    BY <1>1, <1>2 DEF Jobs
  <1>4. job' = k
    BY <1>1 DEF GoTo
  <1>5. /\ rows' \in [Destinations -> Stores] /\ rows'[hub.store] = s
        /\ \A d \in Destinations : d # hub.store => rows'[d] = rows[d]
    BY <1>2, ServedIs DEF IInv, TypeOK
  <1>6. \A d \in Destinations, x \in Memories : x # m => rows'[d][x] = rows[d][x]
    BY <1>2, <1>5, ServedIs
  <1>7. TypeOK'
    BY <1>3, <1>4, <1>5 DEF IInv, TypeOK, config
  <1>8. ASSUME NEW model, model = hub.model, Uniform(rows[hub.store], model)
        PROVE  Uniform(s, model)
    <2>1. Embedded(rows[hub.store][m], hub.model)
      BY <1>8 DEF Uniform, Embedded
    <2>2. Embedded(s[m], model)
      BY <1>8, <2>1
    <2>3. ASSUME NEW x \in Memories, NEW c \in ChunkIds, NEW i \in DOMAIN s[x][c]
          PROVE  s[x][c][i] = model
      <3>1. CASE x = m
        BY <2>2, <2>3, <3>1 DEF Embedded
      <3>2. CASE x # m
        BY <1>8, <2>3, <3>2 DEF Uniform
      <3> QED
        BY <3>1, <3>2
    <2> QED
      BY <2>3 DEF Uniform
  <1>9. SpaceOK'
    <2>1. hub' = hub /\ recorded' = recorded /\ provider' = provider
      BY DEF config
    <2>2. CASE hub.store = "memory"
      <3>1. Uniform(rows'["memory"], hub.model) /\ rows'["configured"] = rows["configured"]
        BY <1>2, <1>5, <1>8, <2>2 DEF IInv, SpaceOK, Destinations
      <3> QED
        BY <1>2, <2>1, <2>2, <3>1 DEF IInv, SpaceOK
    <2>3. CASE hub.store = "configured"
      <3>1. rows'["memory"] = rows["memory"] /\ recorded = hub.model
        BY <1>2, <1>5, <2>3 DEF IInv, SpaceOK, Destinations
      <3>2. recorded # None
        BY <1>2, <3>1, ServedIs, VectorAssumption
      <3>3. CallsOf(provider).count # "estimate" => Uniform(rows'["configured"], recorded)
        BY <1>5, <1>8, <2>3, <3>1, <3>2 DEF IInv, SpaceOK
      <3> QED
        BY <1>2, <2>1, <2>3, <3>1, <3>2, <3>3 DEF IInv, SpaceOK
    <2> QED
      BY <1>2, <2>2, <2>3, ServedIs DEF Destinations
  <1>10. WantedOK'
    <2>1. wanted[m] # None
      BY <1>1, <1>2 DEF IInv, JobInv
    <2> QED
      BY <1>6, <2>1 DEF IInv, WantedOK
  <1>11. SettledOK'
    <2>1. \A d \in Destinations : m \notin settled[d] /\ settled[d] \subseteq Memories
      BY DEF IInv, JobInv, TypeOK
    <2> QED
      BY <1>6, <2>1 DEF IInv, SettledOK, config
  <1>12. JobInv'
    <2>1. Calls' = Calls /\ hub' = hub
      BY DEF Calls, Served, config
    <2>2. PICK W : W = wanted[m].chunks
      OBVIOUS
    <2>3. JobOK(k, Calls, W)'
      BY <1>1, <1>3, <1>5, <2>1, <2>2 DEF JobOK, Pending
    <2>4. /\ m \notin j.todo /\ j.todo \subseteq Memories
          /\ \A x \in j.todo \cup {m} : wanted'[x] # None
          /\ \A d \in Destinations : m \notin settled'[d]
      BY <1>1, <1>2 DEF IInv, JobInv, Jobs
    <2>5. ~j.replace /\ Calls.count # "estimate" => \A x \in j.todo : rows'[hub.store][x] = NoRows
      BY <1>1, <1>2, <1>6, <2>4, ServedIs DEF IInv, JobInv
    <2> QED
      BY <1>2, <1>3, <1>4, <2>1, <2>2, <2>3, <2>4, <2>5 DEF JobInv, JobOK
  <1> QED
    BY <1>7, <1>9, <1>10, <1>11, <1>12 DEF IInv

(* What a write under way may use.                                          *)
LEMMA Under ==
    ASSUME IInv, job # None
    PROVE  /\ hub # None /\ job \in Jobs /\ job.memory \in Memories
           /\ rows[hub.store] \in Stores /\ Model \in Models /\ Model = hub.model
           /\ job.left \in SUBSET (Nat \X Nat)
           /\ JobOK(job, Calls, wanted[job.memory].chunks)
  <1>1. hub # None /\ job \in Jobs /\ JobOK(job, Calls, wanted[job.memory].chunks)
    BY DEF IInv, JobInv, TypeOK
  <1> QED
    BY <1>1, ServedIs DEF IInv, TypeOK, Jobs, Model

LEMMA WithoutEmbedded ==
    ASSUME NEW store \in Stores, NEW m \in Memories, NEW chunks, NEW model,
           Embedded(store[m], model)
    PROVE  Embedded(Without(store, m, chunks)[m], model)
  <1>1. \A c \in ChunkIds : Without(store, m, chunks)[m][c] = <<>>
                            \/ Without(store, m, chunks)[m][c] = store[m][c]
    BY WithoutIs
  <1> QED
    BY <1>1 DEF Embedded

LEMMA WithRowsEmbedded ==
    ASSUME NEW store \in Stores, NEW m \in Memories, NEW chunks, NEW model \in Models, NEW calls,
           Embedded(store[m], model)
    PROVE  Embedded(WithRows(calls, store, m, chunks, model)[m], model)
  <1> SUFFICES ASSUME NEW c \in ChunkIds
               PROVE  \A i \in DOMAIN WithRows(calls, store, m, chunks, model)[m][c] :
                        WithRows(calls, store, m, chunks, model)[m][c][i] = model
    BY DEF Embedded
  <1>1. PICK held : held = store[m][c]
    OBVIOUS
  <1>2. held \in Seq(Models) /\ \A i \in DOMAIN held : held[i] = model
    BY <1>1 DEF Embedded, Stores
  <1>3. PICK put, got : /\ put = Stored(calls, held, model)
                        /\ got = WithRows(calls, store, m, chunks, model)[m][c]
    OBVIOUS
  <1>4. got = held \/ got = put
    BY <1>1, <1>3, WithRowsIs
  <1>5. \A i \in DOMAIN put : put[i] = model
    BY <1>2, <1>3, StoredIs
  <1>6. \A i \in DOMAIN got : got[i] = model
    BY <1>2, <1>4, <1>5
  <1> QED
    BY <1>3, <1>6

LEMMA DeleteStep ==
    ASSUME IInv, delete
    PROVE  IInv'
  <1>1. PICK m, store, W : m = job.memory /\ store = rows[hub.store] /\ W = wanted[m].chunks
    OBVIOUS
  <1>2. PICK stay \in MayStay(m) : Puts(Without(store, m, ChunkIds \ stay))
    BY <1>1 DEF delete
  <1>3. PICK s : s = Without(store, m, ChunkIds \ stay)
    OBVIOUS
  <1>4. /\ job # None /\ job.pc = "delete" /\ GoTo("write", job.left)
        /\ UNCHANGED <<config, wanted, settled>> /\ rows' = [rows EXCEPT ![hub.store] = s]
    BY <1>2, <1>3 DEF delete, At, Rest, Puts
  <1>5. /\ hub # None /\ m \in Memories /\ store \in Stores /\ Model = hub.model
        /\ job.left = W /\ Calls.rows # "transaction" /\ job.left \in SUBSET (Nat \X Nat)
    BY <1>1, <1>4, Under DEF JobOK
  <1>6. /\ s \in Stores /\ \A x \in Memories : x # m => s[x] = store[x]
        /\ \A c \in ChunkIds : s[m][c] = IF c \in ChunkIds \ stay THEN <<>> ELSE store[m][c]
    BY <1>3, <1>5, WithoutIs
  <1>7. Calls.deletes = "all" => \A c \in ChunkIds : Len(s[m][c]) = 0
    <2> SUFFICES ASSUME Calls.deletes = "all" PROVE \A c \in ChunkIds : Len(s[m][c]) = 0
      OBVIOUS
    <2>1. stay = {}
      BY <1>2 DEF MayStay
    <2> QED
      BY <1>6, <2>1
  <1>8. RowsOK(s[m], Calls, W, W)
    BY <1>5, <1>7, ServedIs DEF RowsOK
  <1>9. Embedded(store[m], hub.model) => Embedded(s[m], hub.model)
    BY <1>3, <1>5, WithoutEmbedded
  <1> QED
    BY <1>1, <1>4, <1>5, <1>6, <1>8, <1>9, CallStep

(* An import that returned: some of the rows it was to write are there, and *)
(* none of those that are left.                                             *)
LEMMA ImportedRows ==
    ASSUME NEW calls, calls.rows = "import", NEW held, NEW put, NEW W, NEW left, NEW rest,
           RowsOK(held, calls, W, left), rest \subseteq left, left \subseteq W,
           \A c \in ChunkIds : put[c] = held[c] \/ (c \in left \ rest /\ Len(put[c]) = 1)
    PROVE  RowsOK(put, calls, W, rest)
  BY DEF RowsOK

(* It leaves the write under way with what it has not tried yet.            *)
LEMMA ImportReturned ==
    ASSUME IInv, job # None, job.pc = "write", UNCHANGED <<config, wanted, settled>>,
           Calls.rows = "import", NEW done, NEW rest, rest \subseteq job.left,
           done \subseteq job.left \ rest, GoTo("write", rest), NEW s \in Stores,
           s = rows[hub.store] \/ s = WithRows(Calls, rows[hub.store], job.memory, done, Model),
           rows' = [rows EXCEPT ![hub.store] = s]
    PROVE  IInv'
  <1>1. PICK m, store, W, left : /\ m = job.memory /\ store = rows[hub.store]
                                 /\ W = wanted[m].chunks /\ left = job.left
    OBVIOUS
  <1>2. /\ hub # None /\ m \in Memories /\ store \in Stores /\ Model = hub.model /\ Model \in Models
        /\ left \in SUBSET (Nat \X Nat) /\ JobOK(job, Calls, W) /\ left \subseteq W
    BY <1>1, Under DEF JobOK
  <1>3. PICK calls, model : calls = Calls /\ model = Model
    OBVIOUS
  <1>4. calls.ids = "replace"
    BY <1>2, <1>3, ServedIs, ImportKind DEF Calls
  <1>5. /\ \A x \in Memories : x # m => s[x] = store[x]
        /\ \A c \in ChunkIds : s[m][c] = store[m][c] \/ (c \in done /\ Len(s[m][c]) = 1)
    <2>1. CASE s = store
      BY <2>1
    <2>2. CASE s = WithRows(calls, store, m, done, model)
      <3>1. \A c \in ChunkIds : s[m][c] = IF c \in done THEN Stored(calls, store[m][c], model)
                                         ELSE store[m][c]
        BY <1>2, <1>3, <2>2, WithRowsIs
      <3>2. \A c \in ChunkIds : Len(Stored(calls, store[m][c], model)) = 1
        BY <1>4 DEF Stored
      <3>3. \A x \in Memories : x # m => s[x] = store[x]
        BY <1>2, <1>3, <2>2, WithRowsIs
      <3> QED
        BY <3>1, <3>2, <3>3
    <2> QED
      BY <1>1, <1>3, <2>1, <2>2
  <1>6. Embedded(store[m], hub.model) => Embedded(s[m], hub.model)
    BY <1>1, <1>2, <1>3, WithRowsEmbedded
  <1>7. ASSUME job.settles PROVE RowsOK(s[m], Calls, W, rest)
    <2>1. RowsOK(store[m], Calls, W, left)
      BY <1>1, <1>2, <1>7 DEF JobOK, Pending
    <2>2. \A c \in ChunkIds : s[m][c] = store[m][c] \/ (c \in left \ rest /\ Len(s[m][c]) = 1)
      BY <1>1, <1>5
    <2> QED
      BY <1>1, <1>2, <2>1, <2>2, ImportedRows
  <1>8. rest \subseteq wanted[m].chunks /\ rest \in SUBSET (Nat \X Nat) /\ Calls.rows # "transaction"
    BY <1>1, <1>2
  <1>9. PICK a : a = "write"
    OBVIOUS
  <1>10. a \in {"delete", "write", "raised"} /\ a # "delete" /\ GoTo(a, rest)
    BY <1>9
  <1>11. /\ rest \subseteq wanted[m].chunks
         /\ Calls.rows = "transaction" /\ job.replace /\ rest # {} => rest = wanted[m].chunks
         /\ job.settles /\ ~(Calls.rows = "transaction" /\ job.replace /\ rest # {}) =>
                RowsOK(s[m], Calls, wanted[m].chunks, rest)
    BY <1>1, <1>7, <1>8
  <1>12. /\ m \in Memories /\ m = job.memory /\ rest \in SUBSET (Nat \X Nat)
         /\ \A x \in Memories : x # m => s[x] = rows[hub.store][x]
         /\ Embedded(rows[hub.store][m], hub.model) => Embedded(s[m], hub.model)
    BY <1>1, <1>2, <1>5, <1>6, <1>8
  <1> QED
    BY <1>10, <1>11, <1>12, CallStep

LEMMA WriteStep ==
    ASSUME IInv, write
    PROVE  IInv'
  <1>1. PICK m, store, W, left : /\ m = job.memory /\ store = rows[hub.store]
                                 /\ W = wanted[m].chunks /\ left = job.left
    OBVIOUS
  <1>2. /\ job # None /\ job.pc = "write" /\ left # {}
        /\ UNCHANGED <<config, wanted, settled>>
    BY <1>1 DEF write, At, Rest
  <1>3. /\ hub # None /\ m \in Memories /\ store \in Stores /\ Model = hub.model /\ Model \in Models
        /\ left \in SUBSET (Nat \X Nat) /\ JobOK(job, Calls, W) /\ rows \in [Destinations -> Stores]
    BY <1>1, <1>2, Under DEF IInv, TypeOK
  <1>4. CASE GoTo("raised", {}) /\ UNCHANGED rows
    <2>1. rows' = [rows EXCEPT ![hub.store] = store]
      BY <1>1, <1>3, <1>4
    <2>2. {} \in SUBSET (Nat \X Nat)
      OBVIOUS
    <2> QED
      BY <1>1, <1>2, <1>3, <1>4, <2>1, <2>2, CallStep
  <1>6. ASSUME NEW chunks \in NextRows, Calls.rows = "import", GoTo("write", left \ chunks),
               UNCHANGED rows
        PROVE  IInv'
    <2>1. rows' = [rows EXCEPT ![hub.store] = store]
      BY <1>1, <1>3, <1>6
    <2>2. PICK rest, done : rest = left \ chunks /\ done = {}
      OBVIOUS
    <2>3. /\ rest \subseteq job.left /\ done \subseteq job.left \ rest /\ GoTo("write", rest)
          /\ store = rows[hub.store]
      BY <1>1, <1>6, <2>2
    <2> QED
      BY <1>2, <1>3, <1>6, <2>1, <2>3, ImportReturned
  <1>5. ASSUME NEW chunks \in NextRows, NEW from,
               from = IF Calls.rows = "transaction" /\ job.replace
                      THEN Without(store, m, ChunkIds) ELSE store,
               Puts(WithRows(Calls, from, m, chunks, Model)), GoTo("write", left \ chunks)
        PROVE  IInv'
    <2>1. PICK s : s = WithRows(Calls, from, m, chunks, Model)
      OBVIOUS
    <2>2. chunks \subseteq left /\ (Calls.rows = "transaction" => chunks = left)
      BY <1>1, <1>5 DEF NextRows
    <2>3. /\ from \in Stores /\ \A x \in Memories : x # m => from[x] = store[x]
          /\ Embedded(store[m], hub.model) => Embedded(from[m], hub.model)
      <3>1. CASE from = store
        BY <1>3, <3>1
      <3>2. CASE from = Without(store, m, ChunkIds)
        <4>1. PICK model : model = hub.model
          OBVIOUS
        <4>2. Embedded(store[m], model) => Embedded(from[m], model)
          BY <1>3, <3>2, WithoutEmbedded
        <4> QED
          BY <1>3, <3>2, <4>1, <4>2, WithoutIs
      <3> QED
        BY <1>5, <3>1, <3>2
    <2>4. /\ s \in Stores /\ \A x \in Memories : x # m => s[x] = store[x]
          /\ \A c \in ChunkIds :
               s[m][c] = IF c \in chunks THEN Stored(Calls, from[m][c], Model) ELSE from[m][c]
      BY <1>3, <2>1, <2>3, WithRowsIs
    <2>5. Embedded(store[m], hub.model) => Embedded(s[m], hub.model)
      BY <1>3, <2>1, <2>3, WithRowsEmbedded
    <2>6. left \subseteq W /\ left \ chunks \subseteq W
      BY <1>1, <1>2, <1>3, <2>2 DEF JobOK
    <2>7. ASSUME job.settles PROVE RowsOK(s[m], Calls, W, left \ chunks)
      <3>1. \A c \in ChunkIds : from[m][c] \in Seq(Models)
        BY <1>3, <2>3 DEF Stores
      <3>4. ASSUME NEW c \in ChunkIds, Calls.ids # "add" \/ Len(from[m][c]) = 0
            PROVE  Len(Stored(Calls, from[m][c], Model)) = 1
        <4>1. PICK held, model, calls : held = from[m][c] /\ model = Model /\ calls = Calls
          OBVIOUS
        <4>2. Len(Stored(calls, held, model)) = 1
          BY <1>3, <3>1, <3>4, <4>1, StoredIs
        <4> QED
          BY <4>1, <4>2
      <3>2. CASE Calls.rows = "transaction" /\ job.replace
        <4>1. left = W /\ chunks = W
          BY <1>1, <1>2, <1>3, <2>2, <3>2 DEF JobOK, Pending
        <4>2. \A c \in ChunkIds : from[m][c] = <<>> /\ Len(from[m][c]) = 0
          BY <1>3, <1>5, <3>2, WithoutIs
        <4>3. \A c \in ChunkIds : c \in W => Len(s[m][c]) = 1
          BY <1>3, <2>4, <3>1, <4>1, <4>2, <3>4
        <4>4. \A c \in ChunkIds : c \notin W => Len(s[m][c]) = 0
          BY <2>4, <4>1, <4>2
        <4> QED
          BY <4>1, <4>3, <4>4 DEF RowsOK
      <3>3. CASE ~(Calls.rows = "transaction" /\ job.replace)
        <4>1. from = store /\ RowsOK(store[m], Calls, W, left)
          BY <1>1, <1>2, <1>3, <1>5, <2>7, <3>3 DEF JobOK, Pending
        <4>2. \A c \in ChunkIds : c \in chunks => Len(s[m][c]) = 1
          <5> SUFFICES ASSUME NEW c \in ChunkIds, c \in chunks PROVE Len(s[m][c]) = 1
            OBVIOUS
          <5>1. Calls.ids = "add" => Len(from[m][c]) = 0
            BY <2>2, <4>1 DEF RowsOK
          <5> QED
            BY <2>4, <3>4, <5>1
        <4>3. \A c \in ChunkIds : c \notin chunks => s[m][c] = store[m][c]
          BY <2>4, <4>1
        <4> QED
          BY <2>2, <2>6, <4>1, <4>2, <4>3 DEF RowsOK
      <3> QED
        BY <3>2, <3>3
    <2>8. Calls.rows = "transaction" => left \ chunks = {}
      BY <2>2
    <2>9. left \ chunks \in SUBSET (Nat \X Nat) /\ rows' = [rows EXCEPT ![hub.store] = s]
      BY <1>3, <1>5, <2>1 DEF Puts
    <2>10. PICK rest : rest = left \ chunks
      OBVIOUS
    <2>11. /\ GoTo("write", rest) /\ rest \subseteq W /\ rest \in SUBSET (Nat \X Nat)
           /\ Calls.rows = "transaction" => rest = {}
           /\ job.settles => RowsOK(s[m], Calls, W, rest)
      BY <1>5, <2>6, <2>7, <2>8, <2>9, <2>10
    <2>12. /\ m \in Memories /\ m = job.memory /\ s \in Stores
           /\ \A x \in Memories : x # m => s[x] = rows[hub.store][x]
           /\ Embedded(rows[hub.store][m], hub.model) => Embedded(s[m], hub.model)
      BY <1>1, <1>3, <2>4, <2>5
    <2>13. /\ rest \subseteq wanted[m].chunks
           /\ Calls.rows = "transaction" /\ job.replace /\ rest # {} => rest = wanted[m].chunks
           /\ job.settles /\ ~(Calls.rows = "transaction" /\ job.replace /\ rest # {}) =>
                  RowsOK(s[m], Calls, wanted[m].chunks, rest)
      BY <1>1, <2>11
    <2>14. PICK a : a = "write"
      OBVIOUS
    <2>15. a \in {"delete", "write", "raised"} /\ a # "delete" /\ GoTo(a, rest)
      BY <2>11, <2>14
    <2> QED
      BY <1>2, <2>9, <2>11, <2>12, <2>13, <2>15, CallStep
  <1> QED
    BY <1>1, <1>4, <1>5, <1>6 DEF write, Refusal

LEMMA FaultStep ==
    ASSUME IInv, Fault
    PROVE  IInv'
  <1>1. PICK m, store : m = job.memory /\ store = rows[hub.store]
    OBVIOUS
  <1>2. job # None /\ UNCHANGED <<config, wanted, settled>>
    BY DEF Fault, At, Rest
  <1>3. hub # None /\ m \in Memories /\ store \in Stores /\ Model = hub.model /\ Model \in Models
    BY <1>1, <1>2, Under
  <1>4. ASSUME NEW s \in Stores, Puts(s), GoTo("raised", {}), \A x \in Memories : x # m => s[x] = store[x],
               Embedded(store[m], hub.model) => Embedded(s[m], hub.model)
        PROVE  IInv'
    <2>1. {} \in SUBSET (Nat \X Nat) /\ rows' = [rows EXCEPT ![hub.store] = s]
      BY <1>4 DEF Puts
    <2> QED
      BY <1>1, <1>2, <1>3, <1>4, <2>1, CallStep
  <1>5. ASSUME NEW gone, Puts(Without(store, m, gone)), GoTo("raised", {}) PROVE IInv'
    <2>1. PICK s, model : s = Without(store, m, gone) /\ model = hub.model
      OBVIOUS
    <2>2. s \in Stores /\ \A x \in Memories : x # m => s[x] = store[x]
      BY <1>3, <2>1, WithoutIs
    <2>3. Embedded(store[m], model) => Embedded(s[m], model)
      BY <1>3, <2>1, WithoutEmbedded
    <2> QED
      BY <1>4, <1>5, <2>1, <2>2, <2>3
  <1>6. ASSUME NEW done, Puts(WithRows(Calls, store, m, done, Model)), GoTo("raised", {})
        PROVE  IInv'
    <2>1. PICK calls : calls = Calls
      OBVIOUS
    <2>2. PICK s : s = WithRows(calls, store, m, done, Model)
      OBVIOUS
    <2>3. s \in Stores /\ \A x \in Memories : x # m => s[x] = store[x]
      BY <1>3, <2>2, WithRowsIs
    <2>4. Embedded(store[m], hub.model) => Embedded(s[m], hub.model)
      BY <1>3, <2>2, WithRowsEmbedded
    <2> QED
      BY <1>4, <1>6, <2>1, <2>2, <2>3, <2>4
  <1>7. ASSUME job.pc = "write", NEW batch \in NextRows, NEW done \in SUBSET batch,
               Puts(WithRows(Calls, store, m, done, Model)), Calls.rows = "import",
               GoTo("write", job.left \ batch)
        PROVE  IInv'
    <2>1. PICK rest, calls : rest = job.left \ batch /\ calls = Calls
      OBVIOUS
    <2>2. PICK s : s = WithRows(calls, store, m, done, Model)
      OBVIOUS
    <2>3. s \in Stores
      BY <1>3, <2>2, WithRowsIs
    <2>4. batch \subseteq job.left
      BY DEF NextRows
    <2>5. rest \subseteq job.left /\ done \subseteq job.left \ rest /\ GoTo("write", rest)
      BY <1>7, <2>1, <2>4
    <2>6. /\ s = WithRows(Calls, rows[hub.store], job.memory, done, Model)
          /\ rows' = [rows EXCEPT ![hub.store] = s]
      BY <1>1, <1>7, <2>1, <2>2 DEF Puts
    <2> QED
      BY <1>2, <1>7, <2>3, <2>5, <2>6, ImportReturned
  <1>8. CASE At("delete") /\ \E gone : Puts(Without(store, m, gone)) /\ GoTo("raised", {})
    BY <1>5, <1>8
  <1>9. CASE /\ At("write")
             /\ \E batch \in NextRows : \E done \in SUBSET batch :
                   /\ Puts(WithRows(Calls, store, m, done, Model))
                   /\ GoTo("raised", {}) \/ Refusal(job.left \ batch)
    BY <1>6, <1>7, <1>9 DEF At, Refusal
  <1> QED
    BY <1>1, <1>8, <1>9 DEF Fault

-----------------------------------------------------------------------------
LEMMA StutterStep ==
    ASSUME IInv, UNCHANGED vars
    PROVE  IInv'
  BY DEF IInv, TypeOK, SpaceOK, WantedOK, SettledOK, JobInv, JobOK, Pending, Calls, Served, vars, config

LEMMA NextStep ==
    ASSUME IInv, [Next]_vars
    PROVE  IInv'
  BY StutterStep, StartStep, MoveStep, StopStep, SaveNewStep, SaveAppendedStep, SaveAgainStep,
     ReindexStep, DeleteStep, WriteStep, FaultStep, ReturnStep DEF Next

LEMMA InvariantHolds == Spec => []IInv
  BY InitHasInv, NextStep, PTL DEF Spec

(* OneVectorSpace: with every provider whose row count is no estimate, the  *)
(* rows a hub searches were embedded with its own configuration, whatever   *)
(* configurations it was started with before, whichever counts and writes   *)
(* failed (validate_embedding_index_metadata and the vector store adapters).*)
THEOREM SpacesNeverMix == Spec => []OneVectorSpace
  <1>1. IInv => OneVectorSpace
    <2> SUFFICES ASSUME IInv, hub # None, Calls.count # "estimate"
                 PROVE  Uniform(rows[hub.store], hub.model)
      BY DEF OneVectorSpace, Uniform, Model
    <2>1. CASE hub.store = "memory"
      BY <2>1 DEF IInv, SpaceOK
    <2>2. CASE hub.store = "configured"
      BY <2>2, ServedIs, VectorAssumption DEF IInv, SpaceOK
    <2> QED
      BY <2>1, <2>2, ServedIs DEF Destinations
  <1> QED
    BY <1>1, InvariantHolds, PTL

(* SettledRowsAreExact: when the insert of a memory has returned, a search  *)
(* with a vector of the collection's dimension returns its chunks once each,*)
(* and nothing else of it where deletes are complete and counts exact: for  *)
(* every adapter, window and number of messages, whatever earlier attempts  *)
(* left behind.  Typesense's may miss chunks, as insert does not read what  *)
(* the import refused, and Redis's those whose hash the index leaves out;   *)
(* twice none is returned by them either.                                   *)
THEOREM ReturnedWritesAreExact == Spec => []SettledRowsAreExact
  <1>1. IInv => SettledRowsAreExact
    <2> SUFFICES ASSUME IInv, NEW d \in Destinations, NEW m \in settled[d], NEW c \in ChunkIds,
                        NEW calls, calls = CallsOf(IF d = "memory" THEN d ELSE provider)
                 PROVE  IF c \in wanted[m].chunks
                        THEN \/ search_hits(d, m)[c] = 1
                             \/ /\ search_hits(d, m)[c] = 0
                                /\ calls.rows = "import" \/ ~ Indexed(d, m, c)
                        ELSE calls.deletes = "all" /\ calls.count # "estimate" =>
                               search_hits(d, m)[c] = 0
      BY DEF SettledRowsAreExact
    <2>1. PICK held : held = rows[d][m][c]
      OBVIOUS
    <2>2. search_hits(d, m)[c] = IF Indexed(d, m, c) THEN Len(held) ELSE 0
      BY <2>1 DEF search_hits
    <2>3. RowsOK(rows[d][m], calls, wanted[m].chunks, {})
      BY DEF IInv, SettledOK
    <2>4. /\ c \in wanted[m].chunks =>
               Len(held) = 1 \/ (Len(held) = 0 /\ calls.rows = "import")
          /\ calls.deletes = "all" /\ calls.count # "estimate" /\ c \notin wanted[m].chunks =>
               Len(held) = 0
      BY <2>1, <2>3 DEF RowsOK
    <2> QED
      BY <2>2, <2>4
  <1> QED
    BY <1>1, InvariantHolds, PTL
=============================================================================
