# A verification project for AI Memory Hub

AI Memory Hub stores conversations of AI clients as memories, makes them
searchable through a vector store, derives facts and summaries from them, and
serves them over HTTP, MCP and a command line. This project holds TLA+ models of
it, the TLC runs that check them on small instances, and the TLAPS proofs of what
matters most for instances of every size.

Paths below are relative to `src/memory/` unless they start with `src/` or `docs/`.

## The system

| Component | State | Operations | Module |
|---|---|---|---|
| Ingestion pipeline (`ingestion/mvp_ingestion.py`) | locals of a call | `ingest_messages`, `store_pending_review_memory`, `approve_pending_memory`, `reject_pending_memory`, `retrieve`, `reindex_stored_conversations` | `Ingestion` |
| Agent (`ingestion/mvp_ingestion_agent.py`) | one write lock per process | runs each operation in a thread, write operations one at a time | `Ingestion` |
| Facts and graph (`advanced_memory.py`, `ingestion/fact_*.py`) | rows of the metadata store | derivation, validation, correction, supersession | `DerivedRecords` |
| Search and ask (`ingestion/query_planning.py`, `retrieval_ranking.py`, `mvp_ingestion.py`) | locals of a request | plan, read candidates, rank, group, answer | `Retrieval`, `Ranking` |
| Metadata store, SQLite (`backend/metadata_store.py`) | conversations with chunk manifests, facts, graph, users, projects, tokens, clients, sessions, handoffs | each method is one transaction | all |
| Metadata store, Postgres (`backend/postgres_metadata_store.py`) | the same | the same methods, at READ COMMITTED | `PostgresStore` |
| Vector stores (`backend/vector_store.py`, fourteen providers and memory) | rows by memory id and chunk id; the recorded embedding configuration | open, insert, delete, count, search | `VectorStores` |
| Projects, roles, lineage, handoffs | rows of the metadata store | create, join, migrate, continue, supersede | `Workspace` |
| Importers, discovery, import service (`importers/`, `import_discovery.py`, `api/import_service.py`) | session files of other clients | parse, discover the newest finished one, store | `Importers`, `Imports` |
| Login, Connect UI, client registration (`api/connect_*.py`, `api/oauth_authorization.py`) | web sessions, provider states, clients, codes, cookies | sign in, authorize, log out | `Login` |
| External OIDC (`api/external_oidc.py`, `auth.py`) | key and metadata caches of a process | check a bearer or identity token, readiness | `ExternalOIDC` |
| Token endpoint (`api/oauth_authorization.py`) | codes, token pairs, families | redeem, refresh, revoke | `OAuthTokens` |
| HTTP, MCP, command line | none of their own | wrappers of the operations above | |

**Interaction.** A write operation is a chain of calls to two stores that share
no transaction. Within a process the agent's lock serialises writes; reads take no
lock, although `retrieve` may write (it repairs the chunk manifest). `aim ingest`,
`aim import latest` and `aim reindex` run the same pipeline in processes of their
own, without the lock. A search reads four sources one after the other. The HTTP
layer interleaves requests at every `await`; a browser's cookies carry state from
one request to the next.

**What is hard.** A process may stop between any two calls; a provider may fail
after part of its work; an operation uses what it read several calls ago; two
processes append to one conversation; tokens are rotated by requests that race;
session files grow while they are imported; key caches outlive the keys.
`PROJECT.json` lists these hazards at their lines.

**What makes it correct.** Transcripts only grow and are never mixed; an answer
"ok" means that the memory is searchable and summarised; a decision on a held
memory is made once, and nothing is derived from it before; every operation ends. A
correction wins over what was said before it and stays in force. Importing a longer
log extends the memory of a shorter one. A search shows what its caller may see. A
code or a refresh token is used once, a family never forks, a revoked family stays
dead; a session belongs to the browser that signed in. Lineage stays within a
project and handoffs form chains. One vector index holds vectors of one embedding
configuration.

## Modules

Every module is a state machine of its own, with the others' effects reduced to what
it can see: `Imports` stores a conversation in one step where `Ingestion` has the
pipeline; the writers of `Retrieval` are the visible writes of `Ingestion` and
`DerivedRecords`; `Login` ends with the stored code with which `OAuthTokens` starts;
`PostgresStore` opens up the store calls that the other modules take as atomic.
`MC*` modules hold the small instances and their symmetries; `*_proofs` the proofs.

### Ingestion and MemoryArchive

A worker is a thread that runs one operation after another. `pc` is where it
stands and `job` its local variables; one action is the code between two calls
that another actor can observe. `convs`, `facts`, `summaries` are tables of the
metadata store, `vectors` the chunk ids in the vector store by memory id, `lock`
the write lock of each process.

- A message is its content hash; `Windows` gives the number of token windows
  (chunks) of each. A conversation hash is the pair of project and messages.
- The content scan is the payload's `sensitive` flag; normalisation, validation,
  topics, tags and audit records are left out.
- `Lookup` to `Complete` are the duplicate lookup, the shared manifest repair and
  the completeness check; `Existing` the refused overwrite; `Classify`, `Rewrite`,
  `AppendMessages`, `Resave` the same-thread loop; `Insert`, `Resolve` the new
  row; `DeleteVectors` to `ExtractFacts` the indexing; `Review` to `Reject` the
  held memories; `Reindex`, `List`, `NextConversation` the reindex command.
- `ProviderFails` is an exception of the embedding or vector provider or of the
  mark after it; a failed upsert may have stored any subset of its rows.
- `Crash` stops a process at any point. Vectors are lost with it when the provider
  is `memory` (`MemoryProvider`) or when it restarts onto an empty destination
  (`FreshDestination`).
- `QuietReindex` is the operator's runbook: src/README.md:156, "Stop the hub and any
  clients that are writing memory.", before a reindex. `FALSE` lets the command run
  beside live writers.
- `_lookup_same_thread` picks the oldest conversation of a thread; the model lets
  it pick any, because creation times are not modelled.

`MemoryArchive` says, without steps or locks: a project holds a transcript at most
once, transcripts only gain messages at their end, a held memory is decided once.
`ImplementsArchive` is the refinement, with `convs` projected to project,
transcript and status, for one hub process.

### DerivedRecords

The second half of a save, where `Ingestion` only records which messages were
extracted. A message is a statement "`about` is `value`" of a user or an assistant
that may correct an older value; text patterns are abstracted to that. `facts` and
`graph` are the tables, keyed by what the code digests into ids, with
`superseded_by` as `by`; `job` is the derivation a worker holds between its two
transactions, stamped by the extraction.

- `Save`, `HoldForReview`, `CheckPending`, `Approve` store the messages;
  `StoreFacts` is `insert_facts`, `StoreGraph` is `upsert_graph_records`, both one
  record after the other in one transaction; `FactSupersede` is the owner's correction by
  hand; `Fail` is a raised store call or a stop.
- `TextsIn` is the substring match of `LIKE`; `ScopeOf` the owner and project of a
  conversation, which every match compares.
- Left out: topic facts, external extractors, confidence, the fallback for stores
  without these methods. Graph extraction is on; it is a setting of the hub.

### Importers and Imports

`Importers` has one operator per format, from the records of a session (lines,
messages, rows, frames) to the conversations found, or `Refused`. A record keeps
what the importer branches on: its kind, role, blocks, ids, parent, turn, and whether
it is internal, valid or torn. `Imports` runs them: a client appends to its file,
completes a torn line or archives it (`ClientAppends`, ...); `aim import latest`
inspects the candidates, judges which are inactive, checks that the chosen file did
not change, and reads it (`StartDiscovery` to `execute_import`); uploads come with
their limits (`Upload`); both store conversation by conversation, and one may fail
(`StoreNext`, `StoreFails`, `Answer`). `RewritesHistory` names what a client does
when it edits rather than appends: only then is a conflict legitimate.

Parsing is written with the operators `Where` (the elements of a list that satisfy a test),
`Selected` and `Arranged` and with recursive functions over positions, which the provers can
expand, rather than with `SelectSeq`, sorted sets and folds.

### Login

A request is a sequence of awaited store calls; `pc` and `job` hold where it is.
`Register`, `BeginLogin`, `Authorize`, `Callback`, `Decide` and `Logout` are the
routes, `Handle` their steps, `Fails` an exception of a call. The cookie is a value
the browser sends with the request and gets back with the answer, so two tabs may
overwrite it. `ProviderAnswers` is the identity provider (external). `began`,
`asked`, `loggedOut` and the `via` of a session are history that no action reads.

### ExternalOIDC

Two caches of keys per process, for bearer tokens and for identity tokens, with their
discovery documents; `CheckStep` are the steps of a check: look in the cache, fetch
metadata, fetch keys, store them with the expiry counted from before the fetch,
fetch once more for an unknown key, store the identity. `PublishKey` and
`RetireKey` are the provider (external). Signatures are a match of key names; which key
of the set is tried is the library's choice among the `candidates` for the token's kid
(external). A bearer token whose kid is in the keys, or that names none, is not worth a
second fetch (`jwks_contains_token_key`). A fetch may take any time: the 10 seconds of
the client bound each of its waits, not all of them, and the cache lifetime may be 30.

### Workspace

Processes share `projects`, `role`, `memory` (project, session, parent, review status),
`handoff` and `supersededBy`. A save resolves its project and validates the lineage, looks
for the same session, then stores new, appends, repairs or has nothing new; one with
sensitive content is stored held (`store_quarantined_memory`). `store_pending_review_memory`
holds a memory without validating its parent. A review reads the held memory, writes it back
with the decision and, when approved, saves it again (`IngestApproved`), which validates its
parent only then. Rows are written back whole, as they were read. A supersession is two
steps, and `create_handoff` stores whatever predecessor it is given (no caller in src/ gives
one). The migration of old memories runs when a process opens the store. `HandoffUpdate` is
the command line's. Appends are those of the default configuration (`allow_trusted_appends`
off). `missing_history` is what `retrieve` reports with the ancestors it shows, which cuts
cycles by depth.

### PostgresStore

The calls that read and then write in one transaction, statement by statement: a
step is a statement or the lock of one row. Four areas share no rows, and a
behaviour is one of an area: sign-in (quotas, states, codes), tokens, memories,
graph. `acked` and `clobbered` are history. The properties name the outcomes that
overlapping calls leave as exceptions (`raced`, `clobbered`), and hold for the rest.

### Ranking and Retrieval

`Ranking` has the pure part: rank fusion, exact priority, the reranker's answer as it
is validated, boosts, grouping by conversation. Scores `1 / (k + rank)` are integers
over `Scale`, a constant that every denominator divides. `Retrieval` reads vectors (with oversampling while filters
drop candidates), conversations, keywords, graph and facts, each in a step of its own
with a writer between, then ranks, budgets the context and decides between facts and
chunks. The planner and the reranker answer anything, late or not at all. `was`
records what was visible at some moment of the request. A row of the vector list is a
window of a message and its `chunk` the number of the window; a row of another list is a
whole message, `chunk` its number, and both make the candidate key (`kind` says which).
The advanced scoring boost, off by default, is left out.

### VectorStores

A record per adapter states how it differs (`ids`, `rows`, `deletes`, `count`, what
opening another dimension does). Rows of a dimension the collection does not have are
refused by the service, and the call raises; Typesense's import reports them in an answer
nobody reads (`Refusal`), as it does rows that fail for other reasons (`Fault`), and Redis
keeps the hash outside its index (`Indexed`). `search_hits` is what a search with a vector
of the collection's own dimension returns: a hub whose configuration has another one, which
six of the adapters, and Weaviate at times, let start on an empty collection, has every
search refused. `build_runtime` opens the store, falls back to memory
where that is allowed, and compares the recorded embedding configuration;
`SaveNew`, `SaveAppended`, `SaveAgain`, `reindex_stored_conversations` start writes
whose service calls are `delete` and `write`; `Fault` fails one of them midway. The
store in memory is what a hub falls back to; a hub configured with it is
`Ingestion`'s `MemoryProvider`.

### OAuthTokens

An access token and the refresh token issued with it form a pair; the pairs that
descend from one code form a family. Each action is one awaited store call of a
request (`Handlers` requests run at the same time), or a revocation. `revoked` is
the table of revoked families. `grant` in a row records what it was issued for; the
code has no such column and no action reads it. Time is a counter; SQLite's
comparison of two text formats is modelled by what it does (`UnexpiredInStore`), and
`TextTimestamps = FALSE` is the comparison of a store with real timestamps. PKCE,
redirect addresses and scopes are part of "the code matches the request" and are
represented by the client.

## Runs

| Run | Bounds | What it shows |
|---|---|---|
| `one_hub` | 2 workers of one hub, sessions and held memories, reads and reindex, 4 operations, 1 failure, 1 restart that may find an empty vector destination | numbering of chunks, searchability of what a save, a duplicate or an append vouches for, reindex, fresh summaries, no facts of held memories, the archive |
| `two_hubs` | 2 processes, 4 operations on one upstream thread, trusted appends, fairness | appends keep history, no hybrid transcript, every operation ends |
| `derived` | 2 workers, 3 conversations of 2 owners, 2 messages each, 3 saves or decisions, 1 manual supersession, 1 failure | corrections and conflicts across conversations and owners |
| `imports` | 13 formats, 2 files of which one grows, 2 imports (command line and upload), 1 failure | a longer log never conflicts, what was discovered is imported, ok means stored |
| `login` | 2 browsers, 2 requests at a time, 4 requests, 2 states and sessions, quotas of 1, 1 failure, time up to 2 days | sessions, codes and logouts belong to the browser |
| `oidc` | 2 requests at a time, 3 requests, 2 keys of which the second has another kid, the same or none, cache lifetime 1, time up to 1, fetches of any duration | withdrawn keys die, published ones are accepted |
| `workspace` | 2 processes, 1 user and the anonymous caller, 2 projects, 3 memories of which one predates projects, 3 handoffs, 3 requests (saves, saves for review, reviews, handoffs), 1 change of membership | lineage and handoff chains |
| `postgres` | 3 calls on 3 connections, statement by statement, 3 memories, trusted appends | quotas, single use, revoked families, appends, unique rows |
| `retrieval` | 3 memories (two owners, two projects), 5 chunks, a message of two windows, one concurrent write, cap 3 | what a search shows and what an answer rests on |
| `vectors` | 14 providers, 2 memories of 1 or 2 messages, windows 1 and 2, 3 configurations of 2 dimensions, 3 starts, 3 writes, 1 failure | one vector space, exact rows whatever failed or was refused |
| `rotation` | 2 requests, 1 code, 1 family, 3 pairs, 1 failure, 1 crash, time up to a day, fairness | rotation, revocation, reuse detection |
| `vectors_refused` | LanceDB alone, no failures | the disagreement below |

**Properties.** In `Ingestion`: `ManifestIsRechunking` (an appended manifest is the one a
fresh chunking would give), `SavedIsSearchable` (the answer of a first save, or of a
duplicate, leaves every chunk of the transcript in the vector store, that of an append the
chunks it appended, whatever failed before), `ReindexRestores`, `FreshSummary`,
`HeldHasNoFacts`, `ImplementsArchive`, `NoHybridTranscript`, `AppendKeepsHistory`,
`EveryOperationEnds`. In `DerivedRecords`: `CorrectionWins`, `OneActiveObject`,
`SupersededStays`, `ScopesAreSeparate`. In `Imports`: `ConflictMeansRewritten`,
`ImportsWhatWasDiscovered`, `OkMeansStored`. In `Login`: `SignsInThroughItsOwnLogin`,
`CodeIsForWhatWasAsked`, `LogoutIsComplete`. In `ExternalOIDC`: `RetiredKeyDies`,
`PublishedKeyIsAccepted`. In `Workspace`: `TypeOK`, `LineageStaysInProject`,
`HandoffsFormChains`. In `PostgresStore`: `LimitsHold`, `RevokedFamilyIsDead`,
`AppendsSurvive`, `OneOfEach`. In `Retrieval`: `ShowsOnlyVisible`, `PlannerOnlyNarrows`,
`FallbackReachesCap`, `RerankerOnlyReorders`, `FactAnswerIsCurrent`. In `VectorStores`:
`OneVectorSpace`, `SettledRowsAreExact`. In `OAuthTokens`: `RevokedFamilyIsDead`,
`GrantYieldsOnePair`, `OneUsableRefreshToken`, `OrphanNeedsTwoFailures`, `ReuseRevokes`.
The comment above each says which behaviour of the code it is about; `PROJECT.json`
gives for each a plausible slip in the code that breaks it.

**Bounds.** Two workers are enough for every pairwise race, and every race of the
pipeline is between two operations on the same conversation. Two ids and the snapshots
`<<m1>>`, `<<m1, m2>>`, `<<m1, m3>>` (the last one in `two_hubs`) give all four
relations: equal, append, stale, divergent. `m1` has two windows, so that chunk indexes
and message indexes differ. Four operations allow a save, a failed append, its retry
and a reader between. One failure and one crash are enough to leave each intermediate
state behind; the retry then runs undisturbed. `MaxAppendAttempts` is 2 where the
code has 3: four operations are then enough for one of them to lose every attempt.

Two conversations of one owner and one of another give every pair of scopes; `toast`
occurs in `avocado toast`, so that a corrected value is a proper substring of a stored
one. Each format gets the records its importer treats differently, in logs as long as a
duplicate, a torn line and a turn in progress need. Quotas of one are reached by two
requests. A cache lifetime that may pass within a fetch lets keys expire before they arrive. Three
starts are a first configuration, another one, and the first again. Three Postgres calls
are two that race and one whose effect the race spoils; three connections keep them all
open. A cap of 3 below 5 chunks lets the oversampling loop stop at its cap, at a short
page and at enough matches. Three pairs are a code redemption and two rotations.
`MaxOps`, `MaxFaults`, `MaxCrashes`, `MaxMsgs`, `MaxSaves`, `MaxSupersedes`,
`MaxFailures`, `MaxTime`, `MaxClock`, `MaxChecks`, `MaxKeys`, `MaxImports`, `MaxRecords`, `MaxRequests`,
`MaxAdmin`, `MaxCalls`, `MaxWrites`, `MaxStarts` and `MaxMessages` only bound the
exploration.

Two runs also have a state constraint, in their MC modules. `OneAreaAtATime` does not explore
handoff records together with new memories: they have no state in common but the
bound of requests and the process that serves one. `OthersAreIndexed` lets
a request of `retrieval` begin with the other member's memory unsaved or wholly indexed; the
caller's own, and one saved while the request reads, may lack its vectors.

**Symmetry** is used where the permuted values are interchangeable and the run checks
no liveness.

**Deadlock** is not checked: when the bound of operations (or ids, codes, pairs)
is used up, everyone is idle and the model stops. That no operation is stuck
before that is `EveryOperationEnds`.

**Fairness** is assumed in `two_hubs` and `rotation`: `WF` on the steps of each worker, and
of each request. A thread that runs an operation, or a coroutine that is awaited, keeps
running unless its process stops. Nothing is assumed about clients, failures, crashes or
the clock.

### Disagreements of code and documents

One run states a document's promise and TLC refutes it.

1. `vectors_refused`: opening a LanceDB table with another dimension overwrites it before
   the compatibility check counts its rows (`backend/vector_store.py:2551`), so a changed
   embedding configuration is accepted where src/README.md:142-144 says that startup fails.

Seen while modelling. These are in the models, and the properties are stated so that
they do not claim otherwise; most are exceptions or assumptions named there.

- The repair of an incompletely indexed duplicate writes back the whole conversation; an
  append by another process in between is lost (`mvp_ingestion.py:2936`). Hence one hub in
  `ImplementsArchive`, and `clobbered` in `PostgresStore`.
- A reindex beside live writers can delete the vectors of an append
  (`mvp_ingestion.py:3724`). Hence `QuietReindex`.
- A direct save of a transcript that is held for review writes vectors under the held
  memory (`mvp_ingestion.py:3064-3071`). Search filters them out by status.
- An answer ok does not mean that the whole transcript is searchable. After a failed first
  indexing, an append indexes its own messages and answers ok with the older chunks missing
  (`mvp_ingestion.py:2929-3047`), and a stale snapshot is answered ok without a look at the
  manifest (`3214-3260`); only an equal snapshot, a repair or a reindex restores them. Hence
  `SavedIsSearchable` claims for an append what it appended, and nothing for a stale snapshot.
- Facts and graph records are derived only by the call that stored the messages; after a
  failed indexing the retry answers ok and they are never derived (`mvp_ingestion.py:3076`).
- Two objects of one conflict group in one save supersede each other, and the group has no
  active relationship (`backend/metadata_store.py:2643`).
- A correction whose new value was stated earlier in the same save is removed as a
  duplicate, and the corrected fact stays active (`mvp_ingestion.py:8695`).
- Revocation by access token does not record the family, so the pair of a refresh in
  flight stays live (`backend/metadata_store.py:1401`).
- Codes are redeemable until the end of the UTC day, because expiry is compared as text in
  two formats (`backend/metadata_store.py:1255`); likewise tokens, sessions and clients.
- A memory saved for review is stored without validating its parent, and approval makes it
  active before the save that validates it, so its lineage may name a missing memory, one of
  another project, or itself (`mvp_ingestion.py:3293-3329`, `3377`). Hence only memories that a
  save stored in `LineageStaysInProject`.
- `create_handoff` stores a `supersedes_handoff_id` without looking it up and without a row in
  `handoff_supersessions` (`backend/metadata_store.py:2184-2220`), so such a record replaces
  nothing. Hence `by` in `HandoffsFormChains`.
- An append takes over a parent that was validated for another id, so lineage can become
  cyclic (`mvp_ingestion.py:2036`; docs/improvements/handoff_memory_plan.md:168-169).
- Graph candidates of a search are not checked against the request's filters
  (`mvp_ingestion.py:4453-4500`; docs/overview.md:112). Hence `AskedFor` in `Retrieval`.
- The candidate key of a vector row has the number of a window, that of a keyword, fact or
  graph row the number of a message (`mvp_ingestion.py:4420-4442`, `4578-4608`;
  `retrieval_ranking.py:300-304`). Once a message has several windows, one message can be shown
  twice, and of two messages with one key only the first is shown, with the scores of both.
  Hence `ShowsOnlyVisible` speaks of keys.
- Whether a session is still written is a heuristic on file time and the last record
  (`import_discovery.py:549-557`; docs/importing_conversations.md:617-620).
- A bearer token whose header names no kid, or a kid that another key had before, is not
  worth a second fetch of the keys, so after a rotation it is refused until the cached ones
  expire (`api/external_oidc.py:202-216`). Hence `HasOwnKid` in `PublishedKeyIsAccepted`.
- A request uses the keys it has fetched itself whatever their age, so one whose fetch is
  slower than the cache lifetime still accepts a key that was withdrawn during the fetch
  (`api/external_oidc.py:157-174`). Hence the exception in `RetiredKeyDies`.
- In Postgres at READ COMMITTED: a token stored while its family is revoked stays live, and two
  saves of one thread that overlap make two conversations (`raced`).
- A thread is looked up only for saves of no imported session and only where appends are trusted,
  which is not the default, and its oldest memory is no candidate while it is held for review
  (`mvp_ingestion.py:1793-1856`, `config.py:531`): other saves of one thread make two
  conversations even one after the other. Hence `get_by_upstream_thread` and `held` in `OneOfEach`.
- Redis, Pinecone and Turbopuffer report row counts that lag behind, so another configuration
  can be let in while rows are not counted yet; hence the exception in `OneVectorSpace`.
- Typesense answers an import per document and `insert` drops the answer
  (`vector_store.py:2136-2139`): rows it refused, for their dimension or otherwise, are missing
  though the write returned. Hence the first exception in `SettledRowsAreExact`.
- Redis opens an index of another dimension as it is and stores the hashes it will not index
  (`vector_store.py:1425-1432`, a failing `FT.ADDHASH` is only logged, `1542-1546`); the query
  of the index comes before the scan of all hashes (`1452-1460`), so it fails for such a hub,
  and the scan passes over hashes of another length. Hence the second exception.
- Weaviate refuses another dimension only when the configuration of the collection reports one
  (`vector_store.py:2442`); `if reported` lets a start end either way.

## Proofs

The `*_proofs` modules hold for every value of the constants: any number of workers,
requests, browsers, providers or rows, any lifetimes, and any number of failures and
crashes. What is assumed is the `ASSUME` of each module (the constants' types, and that
`None`, `Absent` or `Missing` is none of the values it stands beside) and, where a theorem says so, a named
condition. None of the properties is inductive: each fails to say what the operations in flight
know. The invariants below say that, and each action has a lemma that it keeps them.

| Theorem | Property | Condition |
|---|---|---|
| `OAuthTokens_proofs`: `TypeCorrect`, `RevocationIsComplete`, `GrantsAreSingleUse`, `FamiliesNeverFork`, `OrphansNeedTwoFailures` | `RevokedFamilyIsDead`, `GrantYieldsOnePair`, `OneUsableRefreshToken`, `OrphanNeedsTwoFailures` | |
| `Workspace_proofs`: `TypeCorrect`, `LineageConfined`, `HandoffsAreChains` | `TypeOK`, `LineageStaysInProject`, `HandoffsFormChains` | |
| `Login_proofs`, last section, about `ExternalOIDC`: `WithdrawnKeysDie`, `RotationIsNoOutage` | `RetiredKeyDies`, `PublishedKeyIsAccepted` | |
| `Login_proofs`: `LoginsAreOwn`, `CodesAreAskedFor`, `LogoutsAreComplete` | `SignsInThroughItsOwnLogin`, `CodeIsForWhatWasAsked`, `LogoutIsComplete` | |
| `Ingestion_proofs`: `TranscriptsAreSubmitted`, `AppendsKeepHistory` | `NoHybridTranscript`, `AppendKeepsHistory` | any hubs |
| `HeldMemoriesHaveNoFacts`, `SummariesAreFresh`, `HubImplementsArchive` | `HeldHasNoFacts`, `FreshSummary`, `ImplementsArchive` | `OneHub` |
| `ManifestsAreRechunkings` | `ManifestIsRechunking` | `PlainImports` |
| `ReindexesRestore` | `ReindexRestores` | `QuietReindex` |
| `SavesAreSearchable` | `SavedIsSearchable` | all three |
| `VectorStores_proofs`: `SpacesNeverMix`, `ReturnedWritesAreExact` | `OneVectorSpace`, `SettledRowsAreExact` | |
| `PostgresStore_proofs`: `QuotasHold`, `RevocationsReachAll`, `AppendsAreKept`, `RowsAreUnique` | `LimitsHold`, `RevokedFamilyIsDead`, `AppendsSurvive`, `OneOfEach` | |
| `DerivedRecords_proofs`: `OneActiveObjectHolds`, `ScopesHold` | `OneActiveObject`, `ScopesAreSeparate` | any hubs |
| `CorrectionWinsHolds`, `SupersededStaysHolds` | `CorrectionWins`, `SupersededStays` | `OneProcess` |
| `DerivedRecords_proofs`, last sections, about `Imports`: `DiscoveredTextIsImported`, `AnsweredImportsAreStored` | `ImportsWhatWasDiscovered`, `OkMeansStored` | |
| `Retrieval_proofs`: `OnlyVisibleRowsShown`, `CallerFiltersHold`, `OversamplingIsThorough`, `RerankingOnlyReorders`, `FactAnswersAreCurrent` | `ShowsOnlyVisible`, `PlannerOnlyNarrows`, `FallbackReachesCap`, `RerankerOnlyReorders`, `FactAnswerIsCurrent` | |

`Login_proofs` extends both `Login` and `ExternalOIDC`, and `DerivedRecords_proofs` both
`DerivedRecords` and `Imports`; the modules of a pair share no names (`OIDCSpec`, `ImportsSpec`)
and no state, and no proof about one uses the other.

### Tokens

`IInv` of `OAuthTokens_proofs` adds

- `HandlersOK`: what a request in flight knows is true: the code or the token it
  consumed is consumed, its family is that of the token, its pair is stored;
- `PairsOK`: a pair that a request carries is live or revoked, has no row yet and
  no other request carries it;
- `RowsOK`: a row has an access token, and what it was issued for is consumed;
- `GrantsOK`: requests and rows together use a grant at most once;
- `FamiliesOK`: a family with a request about to issue a pair has no usable token
  left, and two such requests never share a family.

The last two are why a fork is impossible: consuming a token removes the only usable
one of its family, and that family gets the next one from this request only.
`RevokeRowsLemma` is shared by the revocations.

### Projects and handoffs

A save checks the parent in one step and stores it two steps later, perhaps in another
memory than the one it was checked for, which is written back as it was read; a supersession
checks the handoff one step before it stores. `IInv` of `Workspace_proofs` therefore says that

- there is a set of memories (`Closed`) which holds those that saves have stored, and with each
  its parent, in its project: the memories validated lineages went through, among them some
  that were saved for review. A validation adds its walk to the set (`ValidatedIsClosed`), an
  insert its memory; nothing is ever taken out;
- the parents that requests in flight validated or have read are in it (`JobKnows`), and a
  memory saved for review keeps the parent it has;
- the memory a save continues, or a review decides on, is in its project and session
  (`TypeOK`, `ReadRowIsCurrent`), and so is the handoff that a supersession found;
  memories do not change their project once a process has opened the store.

`ShownIsClosed` then follows a shown lineage from parent to parent, by induction on its
length, within the set. `MigrateStep` is the proof that a migration moves a memory only while no process
serves; `RowChanges` is shared by all
writes of memories, `HandoffRowsChange` by the
handoffs. That a supersession cannot fork a chain rests on the key of
`handoff_supersessions`, not on the check before it: `SupersedeStoresStep`.

### Keys of the provider

`ReadSince(keys, t)` says what a set of keys that was read at or after `t` tells: a key in it
was published and was not withdrawn before `t`, a key that is published now and missing from
it was published since. A cache keeps it for the moment its
expiry is counted from, a request in flight for its start. That the expiry is counted from
before the fetch is what both theorems rest on, and the second fetch for an unknown kid is what
the second one rests on.

### Login

A state that a request holds is one this browser began and no other request can consume
(`SingleUse`: one holder, or one session); a session belongs to the browser of
its state; cookies and the copies of them that requests carry are the browser's own
(`JarOK`), although tabs overwrite them. `Monotone` is the frame: rows are only added,
consumed and revoked, which keeps what every other request knows (`JobKept`).

### Ingestion

The invariants build on one another.

- `Inv` (types; every stored or carried transcript was submitted as a whole; what an
  operation refers to is stored). It holds for any number of hubs and gives
  `NoHybridTranscript`; with the compare-and-swap of `AppendMessages` it gives
  `AppendKeepsHistory`.
- `Serial`: the write lock of a hub is held by the write that runs. It gives, for one hub
  (`OneHub`), `Solo`: nothing but the states in a manifest changes under a write
  that carries a copy of a conversation (`CoresKept`), so the copy stays up to date, a
  transcript found to have no active duplicate still has none, facts are extracted only of
  active memories with a fresh summary. `HubImplementsArchive` follows: the state is mapped
  by `Mapped`, and each step of the hub adds, extends or decides one transcript of
  the archive, or stutters. The disagreement listed above is why one hub is a hypothesis.
- `Manifests`: a manifest that is not empty is the numbering a fresh chunking gives, and an active
  session with messages has one. `Owners`, `Copies` and `Partial` reduce the flattened
  windows of a transcript to the lengths of its prefixes; the lemmas about them are
  proved by induction on the number of messages. `PlainImports` (trusted appends off, which
  is the default, `config.py:531`, and no imported session held for its content) is needed: outside it, a
  sensitive imported session that is approved, a hub that stops before the ingestion
  nested in the approval, and the next import of the longer session give an append to an empty manifest,
  numbered from the message count.
- `Reindexes`: a reindex that has met no failure has restored every active memory it has
  no longer to index. `QuietReindex` is its runbook.
- `Searchable`: the chunks that an operation is about to mark or vouches for in its answer
  are in the vector store. It uses all the others: what was indexed is the whole transcript
  because the manifest is complete, and still is because the lock was held.

### Vector stores

- `SpaceOK`: the rows of the configured store are of the configuration on record, which is
  the one of a hub that serves from it; the store in memory is the running hub's.
- `WantedOK`, `Numbered`: the positions of a memory's chunk ids stop at their number, so
  an append writes ids that are not stored.
- `SettledOK` and `JobInv` speak about `RowsOK(held, calls, W, left)`: each chunk id written so far has one
  row, or none where the rows an import refused go unread; one still to write has none
  where a second insert would add a row, and where a refused one leaves what was there.

The case split is over what an adapter does (`ids`, `rows`, `deletes`, `count`), not over the providers:
`AdapterKinds` gives the records.

### Postgres

`IInv` of `PostgresStore_proofs` has one case for each area of the store, since an area's rows and
calls are its own (`StepsBelong`). A case says what a call knows between two statements, although
others commit in between:

- sign-in: two transactions never hold the same advisory lock (`Exclusive`), so the count that a
  call made under its lock is still below the quota when it inserts; a commit without that lock only
  removes (`Fewer`);
- tokens: a revocation has every token of its family that was stored without overlap behind it, on its list,
  or in its writes (`Covers`); what a create saw of the family's marker is still
  true unless the call was marked as overlapped (`CreateTx`);
- memories: the memory a save will insert is not stored, and a thread it has looked up has none
  unless the call was overlapped or one was held (`Unthreaded`); a rewrite's memory stays stored;
- graph: a call that was not overlapped has every other active relationship on its list or
  among its writes.

`Committed` says once what a commit does to the rows and to the other calls. Rows written
are combined by the module's own `Only` and `Over`, which the provers can expand.

### Facts and relationships

Both transactions of a save are a recursive function over its batch; what they keep is
proved by induction on the position in the batch (`SetInduction`).

- `Inv` (types; a save carries records of its own conversation; `OneActiveObject`) holds for any
  number of hubs. The batch is stored as active at once, so within the transaction a group may have
  several active objects: the induction says that what is still active conflicts with no relationship
  of the batch that had its turn (`Apart`). After the last turn that leaves one object.
- `IInv` adds, for one hub process (`OneProcess`), that one save runs at a time (`Serial`),
  that every stored fact was extracted before now from a stored message of an active conversation
  (`Spoken`), and that the save in flight holds facts no older than any stored one and, of its
  conversation, of later messages only (`JobsReady`). An insert then never meets its own id, which
  would make a superseded row active again, and no correction is stored after a fact that is younger.

Both theorems with `OneProcess` are false without it: two hubs that approve one memory derive the
same ids twice, and a correction that was extracted later may be stored first.

### Search and ask

`Retrieval_proofs` goes from the lists to the request.

- Lists. `LexOrder` says that tuples of numbers compare in one strict order, `SortedLemma` that
  sorting a set by tuples which tell its elements apart gives each element once and in
  order; the least element it needs is `LeastNumber`. `Selection` (the rows at
  some places of a list, in order) and `Distinct` (a list without a repeated candidate key) are
  kept by every stage: fusion, exact priority, the reranker's answer, grouping, the context budget.
- Rows. `Held`: the message that a row is, or is a window of, is one the memory has (`BestMessageLemma`
  for whole messages, `Stored` for windows). `Asked`: a row of the vector, keyword or fact list is held
  and was seen by this request with the status it asked for; `Related`: a row of the graph list was seen active. Memories grow
  and change status under the request, so both speak of `was`, what was visible at
  some moment of it. `UpToDate` says that `was` includes what is visible now; `Grown`
  is what a writer's step keeps, whatever it writes.
- Requests. `Knows` says what a request has learnt when it reaches a source, `Searched` what each
  round of the oversampling loop leaves: it ended at its cap, at a short page, or with enough
  matches. `Answer` says what is left of it in a response: every row was seen with the status
  asked for and passes the caller's filters, or is of the graph list; every fact used was current
  at some moment of the request.

`IInv` is `StoresOK` (types, and that every vector is of a chunk of a stored memory) and
`RequestOK(req)`. That the planner and the reranker answer anything, late or
not at all, costs the proof nothing: their answers are used through `Selection` and `Narrowed` only.

### Imports

- `ImportersParse`: whatever records a file or an upload holds, each of the thirteen
  importers refuses it or returns a list of conversations, each with a list of messages.
  There is a lemma per format.
- What discovery recorded of a file is what the file holds, unless its version changed
  since (`Recorded`, which every write of the client keeps: `FileChanges`). The text is read
  between two looks at the version, and versions only grow, so equal versions mean equal content.
- `MemoriesOK`: a session has at most one memory. `IngestKeeps` is the step of storing: a memory is
  replaced only by one that it is a prefix of, so what was held stays held (`StillHeld`), whoever
  imports in between. `ImportOK` then says that each outcome but a conflict or an error leaves
  its conversation held, and that the answer is ok only when there is no other outcome.

### Only model-checked

- `EveryOperationEnds` and `ReuseRevokes`: liveness under fairness is out of the prover's reach.
- `ConflictMeansRewritten`: that each importer makes of a longer log an extension of what it made of
  the shorter one is a fact about thirteen recursions over any log, an induction over
  data. It is also a property of the instance's files: two files that carry one session
  id would conflict without any rewriting.

## Not modelled

- Text and numbers: extraction patterns, confidence, embeddings, token windows, batch
  splitting; the field names and syntax of export formats (their records are modelled).
- MongoDB: the contract of the SQLite store over single-document updates. The Postgres
  calls that are one statement.
- MCP and most HTTP routes: wrappers of the operations above, with response formats. Static
  bearer tokens and scopes. CSRF tokens of forms, page rendering.
- The dry run: a list of store calls that become no-ops; what it lets through is listed
  under the hazards.
- Configuration parsing, logging, metrics, redaction, benchmarks, development tools.
- Entities, project summaries, the fact timeline query, audit records.

`PROJECT.json` gives the reason for each component.

## Plan

1. Review decisions of two processes, and `Login` composed with `OAuthTokens`.
2. MongoDB's single-document updates where they differ from a transaction.
