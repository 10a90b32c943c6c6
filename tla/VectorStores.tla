----------------------------- MODULE VectorStores -----------------------------
(***************************************************************************)
(* The vector stores a hub may be configured with, and how a hub opens and *)
(* fills one.  Fifteen adapters implement the same five calls over services *)
(* that differ: what opening an existing collection of another dimension    *)
(* does, whether a row has an id of its own, whether a write is one call or *)
(* one per row, whether a delete may silently leave rows behind.  A record  *)
(* per adapter states those differences; the actions are the calls, one     *)
(* service call per step, and any of them may fail.                         *)
(*                                                                         *)
(* A conversation is a number of messages; a chunk id joins the position of *)
(* the chunk and its message.  The chunking window of a hub decides how     *)
(* many chunks a message has, so a memory indexed again under another       *)
(* window leaves chunk ids behind that only a delete removes.               *)
(***************************************************************************)
EXTENDS Integers, Sequences, FiniteSets

CONSTANTS
    Providers,      \* providers.vector_db: the configured providers explored
    Memories,
    Models,         \* embedding configurations: provider, model and options
    DimensionOf,    \* the dimension of each embedding configuration
    Windows,        \* chunks a message is split into, by chunking configuration
    AllowFallback,  \* storage.vector.allow_fallback
    MaxMessages, MaxStarts, MaxWrites, MaxFaults, \* bounds of the exploration
    None

ASSUME VectorAssumption ==
    /\ Providers \subseteq {"chromadb", "qdrant", "milvus", "mongodb_atlas", "elasticsearch",
                           "opensearch", "redis", "pinecone", "turbopuffer", "vespa",
                           "typesense", "weaviate", "lancedb", "pgvector"}
    /\ None \notin Models \cup Nat
    /\ DimensionOf \in [Models -> Nat]
    /\ Windows \subseteq Nat \ {0}
    /\ AllowFallback \in BOOLEAN
    /\ MaxMessages \in Nat /\ MaxStarts \in Nat /\ MaxWrites \in Nat /\ MaxFaults \in Nat

VARIABLES
    provider, \* the provider of the behaviour
    schema,   \* dimension the collection was created with, or None before
    rows,     \* per destination, memory and chunk id: the models of its rows
    recorded, \* the embedding configuration in the runtime metadata, or None
    hub,      \* the hub process: its configuration and its effective store
    wanted,   \* per memory: its messages and the chunk ids last given to a store
    job,      \* the write under way, or None
    settled,  \* history: memories whose last write into a destination returned
    starts, writes, faults

config == <<provider, schema, recorded, hub>>
vars == <<config, rows, wanted, job, settled, starts, writes, faults>>

Destinations == {"configured", "memory"}
ChunkIds == (1 .. 2 * MaxMessages) \X (1 .. MaxMessages)

(* What hub, wanted and job hold when they are not None.                    *)
Hubs == [model: Models, window: Windows, store: Destinations]
Targets == [n: Nat \ {0}, chunks: SUBSET (Nat \X Nat)]
Jobs == [memory: Memories, left: SUBSET (Nat \X Nat), replace: BOOLEAN,
         todo: SUBSET Memories, settles: BOOLEAN, pc: {"delete", "write", "raised"}]

ASSUME NoneIsNoRecord == None \notin Hubs \cup Targets \cup Jobs

-----------------------------------------------------------------------------
(* The adapters.  ids: writing a chunk id again replaces its row, adds a    *)
(* second one, or is refused.  rows: they go in one call, one by one, in    *)
(* one transaction with the delete, or in one import whose answer for each  *)
(* row nobody reads.  deletes: a delete that returns has removed every row  *)
(* of the memory, or perhaps only some.  count: the row count is exact,     *)
(* fails to None, or is an estimate that may read zero.                     *)

chromadb_calls == [ids |-> "replace", rows |-> "batch", deletes |-> "all", count |-> "or none"]
qdrant_calls == [ids |-> "replace", rows |-> "batch", deletes |-> "all", count |-> "or none"]
milvus_calls == [ids |-> "replace", rows |-> "batch", deletes |-> "all", count |-> "or none"]
mongodb_atlas_calls == [ids |-> "add", rows |-> "batch", deletes |-> "all", count |-> "exact"]
elasticsearch_calls == [ids |-> "replace", rows |-> "each", deletes |-> "some", count |-> "or none"]
opensearch_calls == [ids |-> "replace", rows |-> "each", deletes |-> "some", count |-> "or none"]
redis_calls == [ids |-> "replace", rows |-> "each", deletes |-> "some", count |-> "estimate"]
pinecone_calls == [ids |-> "replace", rows |-> "batch", deletes |-> "all", count |-> "estimate"]
turbopuffer_calls == [ids |-> "replace", rows |-> "batch", deletes |-> "some", count |-> "estimate"]
vespa_calls == [ids |-> "replace", rows |-> "each", deletes |-> "some", count |-> "or none"]
typesense_calls == [ids |-> "replace", rows |-> "import", deletes |-> "all", count |-> "or none"]
weaviate_calls == [ids |-> "refuse", rows |-> "each", deletes |-> "all", count |-> "or none"]
lancedb_calls == [ids |-> "add", rows |-> "batch", deletes |-> "all", count |-> "or none"]
pgvector_calls == [ids |-> "replace", rows |-> "transaction", deletes |-> "all", count |-> "exact"]
memory_calls == [ids |-> "add", rows |-> "each", deletes |-> "all", count |-> "exact"]

(* What opening does with an existing collection of another dimension:      *)
(* refuse it, replace it by an empty one, or open it as it is; Weaviate's   *)
(* is refused when its configuration reports a dimension.                   *)
chromadb_opens == "refuse"
qdrant_opens == "refuse"
milvus_opens == "refuse"
mongodb_atlas_opens == "refuse"
elasticsearch_opens == "refuse"
opensearch_opens == "refuse"
redis_opens == "open"
pinecone_opens == "open"
turbopuffer_opens == "open"
vespa_opens == "open"
typesense_opens == "open"
weaviate_opens == "if reported"
lancedb_opens == "overwrite"
pgvector_opens == "open"

CallsOf(p) ==
    CASE p = "chromadb" -> chromadb_calls
      [] p = "qdrant" -> qdrant_calls
      [] p = "milvus" -> milvus_calls
      [] p = "mongodb_atlas" -> mongodb_atlas_calls
      [] p = "elasticsearch" -> elasticsearch_calls
      [] p = "opensearch" -> opensearch_calls
      [] p = "redis" -> redis_calls
      [] p = "pinecone" -> pinecone_calls
      [] p = "turbopuffer" -> turbopuffer_calls
      [] p = "vespa" -> vespa_calls
      [] p = "typesense" -> typesense_calls
      [] p = "weaviate" -> weaviate_calls
      [] p = "lancedb" -> lancedb_calls
      [] p = "pgvector" -> pgvector_calls
      [] p = "memory" -> memory_calls

build_vector_store(p) ==
    CASE p = "chromadb" -> chromadb_opens
      [] p = "qdrant" -> qdrant_opens
      [] p = "milvus" -> milvus_opens
      [] p = "mongodb_atlas" -> mongodb_atlas_opens
      [] p = "elasticsearch" -> elasticsearch_opens
      [] p = "opensearch" -> opensearch_opens
      [] p = "redis" -> redis_opens
      [] p = "pinecone" -> pinecone_opens
      [] p = "turbopuffer" -> turbopuffer_opens
      [] p = "vespa" -> vespa_opens
      [] p = "typesense" -> typesense_opens
      [] p = "weaviate" -> weaviate_opens
      [] p = "lancedb" -> lancedb_opens
      [] p = "pgvector" -> pgvector_opens

-----------------------------------------------------------------------------
(* Rows.  A destination holds, under each chunk id, the sequence of the     *)
(* models its rows were embedded with: two of them is a duplicate.          *)

NoRows == [c \in ChunkIds |-> <<>>]
EmptyStore == [m \in Memories |-> NoRows]
IsEmpty(store) == \A m \in Memories : store[m] = NoRows

Stored(calls, held, model) ==
    IF calls.ids = "add" THEN Append(held, model) ELSE <<model>>
WithRows(calls, store, m, chunks, model) ==
    [store EXCEPT ![m] = [c \in ChunkIds |->
        IF c \in chunks THEN Stored(calls, @[c], model) ELSE @[c]]]
Without(store, m, chunks) ==
    [store EXCEPT ![m] = [c \in ChunkIds |-> IF c \in chunks THEN <<>> ELSE @[c]]]

(* Redis keeps hashes of another dimension than its index's out of it, and  *)
(* a scan of all hashes passes them over as well.                           *)
Indexed(d, m, c) ==
    d = "configured" /\ provider = "redis" =>
        \A i \in DOMAIN rows[d][m][c] : DimensionOf[rows[d][m][c][i]] = schema

(* How often a search that is not cut off, with a vector of the dimension   *)
(* of the collection, returns each chunk of a memory.                       *)
search_hits(d, m) == [c \in ChunkIds |-> IF Indexed(d, m, c) THEN Len(rows[d][m][c]) ELSE 0]

(* The chunk ids of n messages, and of message n when next is the first     *)
(* free position.                                                           *)
chunk_messages(n, window) ==
    {<<i, (i - 1) \div window + 1>> : i \in 1 .. n * window}
chunk_selected_messages(n, next, window) == {<<next + i, n>> : i \in 0 .. window - 1}
NextPosition(chunks) == 1 + Cardinality(chunks)

Model == hub.model
Served == IF hub.store = "memory" THEN "memory" ELSE provider
Calls == CallsOf(Served)

-----------------------------------------------------------------------------
(* Starting a hub: build_runtime.                                           *)

(* What get_stats may answer for a store; None is a failed count.           *)
vector_row_count(p, store) ==
    LET exact == IF IsEmpty(store) THEN 0 ELSE 1
    IN  CASE CallsOf(p).count = "exact" -> {exact}
          [] CallsOf(p).count = "or none" -> {exact, None}
          [] CallsOf(p).count = "estimate" -> {exact, 0, None}

(* Mutant: only the dimension of the two configurations is compared.        *)
SameDimensionIsEnough(model, existing, count) ==
    \/ existing = None \/ count = 0
    \/ existing \in Models /\ DimensionOf[existing] = DimensionOf[model]

(* The embedding configuration on record, when the store may be served: the *)
(* same as before, or nothing on record, or no rows that it could disagree  *)
(* with.                                                                    *)
validate_embedding_index_metadata(model, existing, count) ==
    existing = model \/ existing = None \/ count = 0

Runs(model, window, store) == hub' = [model |-> model, window |-> window, store |-> store]

(* The store does not open, or is refused: the hub runs on an empty store   *)
(* in memory when that is allowed, and does not start otherwise.            *)
FallBack(model, window) ==
    /\ AllowFallback
    /\ Runs(model, window, "memory")
    /\ UNCHANGED <<schema, recorded, rows, settled>>

Unreachable == faults < MaxFaults /\ faults' = faults + 1

Mismatch(model) == schema # None /\ schema # DimensionOf[model]
Overwrites(model) ==
    /\ build_vector_store(provider) = "overwrite"
    /\ Mismatch(model)

(* The dimension of the collection once opened: Weaviate's first vector     *)
(* sets it, so that a collection without rows may yet take another.         *)
Dimensions(model) ==
    IF schema = None \/ Overwrites(model) THEN {DimensionOf[model]}
    ELSE IF provider = "weaviate" /\ IsEmpty(rows["configured"]) THEN {schema, DimensionOf[model]}
    ELSE {schema}

(* It opens; the configuration is compared with the one on record.          *)
Open(model, window) ==
    /\ ~(Mismatch(model) /\ build_vector_store(provider) = "refuse")
    /\ LET opened == IF Overwrites(model) THEN EmptyStore ELSE rows["configured"]
       IN  /\ \E count \in vector_row_count(provider, opened) :
                  validate_embedding_index_metadata(model, recorded, count)
           /\ rows' = [rows EXCEPT !["configured"] = opened]
    /\ schema' \in Dimensions(model)
    /\ recorded' = model
    /\ settled' = IF Overwrites(model) THEN [settled EXCEPT !["configured"] = {}] ELSE settled
    /\ Runs(model, window, "configured")
    /\ UNCHANGED faults

(* It opens, but the configuration on record is another: no start, yet an   *)
(* overwritten table stays overwritten.                                     *)
Refuse(model) ==
    /\ Overwrites(model)
    /\ \E count \in vector_row_count(provider, EmptyStore) :
           ~ validate_embedding_index_metadata(model, recorded, count)
    /\ rows' = [rows EXCEPT !["configured"] = EmptyStore]
    /\ schema' = DimensionOf[model]
    /\ settled' = [settled EXCEPT !["configured"] = {}]
    /\ UNCHANGED <<hub, recorded, faults>>

build_runtime(model, window) ==
    /\ hub = None /\ starts < MaxStarts
    /\ starts' = starts + 1
    /\ \/ Open(model, window)
       \/ Refuse(model)
       \/ /\ Mismatch(model) /\ build_vector_store(provider) \in {"refuse", "if reported"}
          /\ FallBack(model, window) /\ UNCHANGED faults
       \/ Unreachable /\ FallBack(model, window)
    /\ UNCHANGED <<provider, wanted, job, writes>>

(* The configuration names a collection that does not exist yet.            *)
MoveToEmptyDestination ==
    /\ hub = None /\ schema # None
    /\ schema' = None /\ recorded' = None
    /\ rows' = [rows EXCEPT !["configured"] = EmptyStore]
    /\ settled' = [settled EXCEPT !["configured"] = {}]
    /\ UNCHANGED <<provider, hub, wanted, job, starts, writes, faults>>

(* The hub stops, in the middle of a write or not.                          *)
Stop ==
    /\ hub # None
    /\ hub' = None /\ job' = None
    /\ rows' = [rows EXCEPT !["memory"] = EmptyStore]
    /\ settled' = [settled EXCEPT !["memory"] = {}]
    /\ UNCHANGED <<provider, schema, recorded, wanted, starts, writes, faults>>

-----------------------------------------------------------------------------
(* The callers of store_vectors.                                            *)

(* A job writes the chunks of one memory; a reindex goes on with todo.  Its *)
(* memory is unsettled everywhere until it returns, and settled by it when  *)
(* the chunks are all it has, or the others were settled before.            *)
store_vectors(m, chunks, replace, todo, before) ==
    /\ job' = [memory |-> m, left |-> chunks, replace |-> replace, todo |-> todo,
               settles |-> chunks = wanted'[m].chunks \/ m \in before[hub.store],
               pc |-> IF replace /\ Calls.rows # "transaction" THEN "delete" ELSE "write"]
    /\ settled' = [d \in Destinations |-> before[d] \ {m}]

Ready == hub # None /\ job = None /\ writes < MaxWrites
Wants(m, n, chunks) == wanted' = [wanted EXCEPT ![m] = [n |-> n, chunks |-> chunks]]
Unmoved == UNCHANGED <<config, rows, starts, faults>>

(* A new conversation: its row was just inserted, nothing to replace.       *)
SaveNew(m) ==
    /\ Ready /\ wanted[m] = None /\ writes' = writes + 1
    /\ LET chunks == chunk_messages(1, hub.window)
       IN  Wants(m, 1, chunks) /\ store_vectors(m, chunks, FALSE, {}, settled)
    /\ Unmoved

(* Messages were appended: only their chunks are written.                   *)
SaveAppended(m) ==
    /\ Ready /\ wanted[m] # None /\ wanted[m].n < MaxMessages /\ writes' = writes + 1
    /\ LET n == wanted[m].n + 1
           new == chunk_selected_messages(n, NextPosition(wanted[m].chunks), hub.window)
       IN  /\ Wants(m, n, wanted[m].chunks \cup new)
           /\ store_vectors(m, new, FALSE, {}, settled)
    /\ Unmoved

(* Mutant: a repair adds to what is there.                                  *)
RepairAdds == FALSE
repair_replaces == TRUE

(* The same transcript again, its index incomplete: all of it is replaced.  *)
(* Whether the manifest calls it incomplete is left open.                   *)
SaveAgain(m) ==
    /\ Ready /\ wanted[m] # None /\ writes' = writes + 1
    /\ LET chunks == chunk_messages(wanted[m].n, hub.window)
       IN  /\ Wants(m, wanted[m].n, chunks)
           /\ store_vectors(m, chunks, repair_replaces, {}, settled)
    /\ Unmoved

NextOfReindex(todo, replace, before) ==
    \E m \in todo :
        LET chunks == chunk_messages(wanted[m].n, hub.window)
        IN  /\ Wants(m, wanted[m].n, chunks)
            /\ store_vectors(m, chunks, replace, todo \ {m}, before)

replace_existing(count) == count # 0

(* Every stored conversation, replacing unless the store was empty at first.*)
reindex_stored_conversations ==
    /\ Ready /\ writes' = writes + 1
    /\ \E count \in vector_row_count(Served, rows[hub.store]) :
           NextOfReindex({m \in Memories : wanted[m] # None}, replace_existing(count), settled)
    /\ Unmoved

-----------------------------------------------------------------------------
(* The calls of an adapter's insert, one step each.                         *)

At(pc) == job # None /\ job.pc = pc
Held(m) == {c \in ChunkIds : rows[hub.store][m][c] # <<>>}
GoTo(pc, left) == job' = [job EXCEPT !.pc = pc, !.left = left]
Puts(store) == rows' = [rows EXCEPT ![hub.store] = store]
Rest == UNCHANGED <<config, wanted, settled, starts, writes>>

(* The service checks the dimension the collection was created with; Redis  *)
(* takes any hash and leaves it out of the index.                           *)
TakesRows ==
    \/ Served = "memory" \/ Served = "redis"
    \/ schema = DimensionOf[Model]

(* Rows whose deletion conflicts, is not confirmed or exceeds what one call *)
(* finds stay, and nobody is told.                                          *)
MayStay(m) == IF Calls.deletes = "all" THEN {{}} ELSE SUBSET Held(m)

delete ==
    /\ At("delete")
    /\ \E stay \in MayStay(job.memory) :
           Puts(Without(rows[hub.store], job.memory, ChunkIds \ stay))
    /\ GoTo("write", job.left)
    /\ Rest /\ UNCHANGED faults

(* One call writes the rows it is given, or is refused.                     *)
NextRows == IF Calls.rows = "each" THEN {{c} : c \in job.left} ELSE {job.left}
Refused(chunks) ==
    \/ ~ TakesRows
    \/ Calls.ids = "refuse" /\ chunks \cap Held(job.memory) # {}

(* The call raises, or returns with the refusals in an answer nobody reads. *)
Refusal(left) == IF Calls.rows = "import" THEN GoTo("write", left) ELSE GoTo("raised", {})

write ==
    /\ At("write") /\ job.left # {}
    /\ \E chunks \in NextRows :
           IF Refused(chunks) THEN Refusal(job.left \ chunks) /\ UNCHANGED rows
           ELSE LET store == rows[hub.store]
                    from == IF Calls.rows = "transaction" /\ job.replace
                            THEN Without(store, job.memory, ChunkIds) ELSE store
                IN  /\ Puts(WithRows(Calls, from, job.memory, chunks, Model))
                    /\ GoTo("write", job.left \ chunks)
    /\ Rest /\ UNCHANGED faults

(* A call fails: a transaction leaves nothing behind, another call may have *)
(* done part of its work, or all of it with the answer lost; an import may  *)
(* have failed for some rows only and return.                               *)
Fault ==
    /\ faults < MaxFaults /\ faults' = faults + 1
    /\ \/ /\ At("delete")
          /\ \E gone \in SUBSET Held(job.memory) :
                 Puts(Without(rows[hub.store], job.memory, gone))
          /\ GoTo("raised", {})
       \/ /\ At("write") /\ job.left # {}
          /\ \E batch \in NextRows : \E done \in SUBSET batch :
                 /\ Calls.rows = "transaction" \/ Refused(batch) => done = {}
                 /\ Puts(WithRows(Calls, rows[hub.store], job.memory, done, Model))
                 /\ GoTo("raised", {}) \/ Refusal(job.left \ batch)
    /\ Rest

(* The insert returns, or raises: the chunks are marked, and a reindex goes *)
(* on with the next conversation either way.                                *)
Return ==
    /\ At("raised") \/ (At("write") /\ job.left = {})
    /\ LET after == IF At("raised") \/ ~ job.settles THEN settled
                    ELSE [settled EXCEPT ![hub.store] = @ \cup {job.memory}]
       IN  \/ /\ job.todo = {} /\ job' = None /\ settled' = after
              /\ UNCHANGED wanted
           \/ job.todo # {} /\ NextOfReindex(job.todo, job.replace, after)
    /\ Unmoved /\ UNCHANGED writes

-----------------------------------------------------------------------------
Init ==
    /\ provider \in Providers
    /\ schema = None /\ recorded = None /\ hub = None /\ job = None
    /\ rows = [d \in Destinations |-> EmptyStore]
    /\ wanted = [m \in Memories |-> None]
    /\ settled = [d \in Destinations |-> {}]
    /\ starts = 0 /\ writes = 0 /\ faults = 0

Next ==
    \/ \E model \in Models, window \in Windows : build_runtime(model, window)
    \/ MoveToEmptyDestination
    \/ Stop
    \/ \E m \in Memories : SaveNew(m) \/ SaveAppended(m) \/ SaveAgain(m)
    \/ reindex_stored_conversations
    \/ delete \/ write \/ Fault \/ Return

Spec == Init /\ [][Next]_vars

-----------------------------------------------------------------------------
(* Properties.                                                              *)

(* Vectors of two embedding configurations are never served together: the   *)
(* rows a hub searches were all embedded with its own configuration, across *)
(* restarts under other configurations, failed counts and moved             *)
(* destinations.  A provider whose count is an estimate is left out: rows it *)
(* does not count yet do not stop the next configuration.                   *)
OneVectorSpace ==
    hub # None /\ Calls.count # "estimate" =>
        \A m \in Memories, c \in ChunkIds :
            \A i \in DOMAIN rows[hub.store][m][c] : rows[hub.store][m][c][i] = Model

(* After the write of a memory has returned, a search with a vector of the  *)
(* collection's dimension returns each of its chunks, and none of them      *)
(* twice, however often the write was retried, raised half way or ran into  *)
(* rows of an earlier attempt; only a store whose deletes may leave rows or *)
(* whose count may read zero keeps others.  Two adapters return without     *)
(* the chunk being found: Typesense's when the import refused it, Redis's   *)
(* when its hash is there but of another dimension than the index.          *)
SettledRowsAreExact ==
    \A d \in Destinations : \A m \in settled[d] :
        LET calls == CallsOf(IF d = "memory" THEN d ELSE provider)
            exact == calls.deletes = "all" /\ calls.count # "estimate"
            mayMiss(c) == calls.rows = "import" \/ ~ Indexed(d, m, c)
        IN  \A c \in ChunkIds :
                IF c \in wanted[m].chunks
                THEN search_hits(d, m)[c] = 1 \/ (search_hits(d, m)[c] = 0 /\ mayMiss(c))
                ELSE exact => search_hits(d, m)[c] = 0

(* "If the fingerprint changes for an index that already contains vectors,  *)
(* startup fails": a hub never starts on the configured store under another *)
(* embedding configuration than the one on record while it holds vectors.   *)
RefusesAnotherModel ==
    [][hub = None /\ hub' # None /\ recorded # None =>
          \/ hub'.store = "memory" \/ hub'.model = recorded
          \/ IsEmpty(rows["configured"])]_vars
=============================================================================
