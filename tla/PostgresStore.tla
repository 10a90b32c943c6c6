---------------------------- MODULE PostgresStore ----------------------------
(***************************************************************************)
(* The Postgres metadata store under several hub processes.  Every call of  *)
(* the store is one transaction on a connection of its own, at the          *)
(* isolation level the server defaults to, READ COMMITTED: a statement sees *)
(* what was committed when it began and what its own transaction wrote; a   *)
(* row another transaction has written blocks until that one ends, and the  *)
(* condition of an UPDATE is evaluated again on the row found then.         *)
(*                                                                         *)
(* A step is one statement, or the lock of one row of an UPDATE.  The last  *)
(* write of a transaction and its commit are one step: between them nobody  *)
(* sees the write.  A call that reads first in a transaction of its own     *)
(* (the lookups of a save, the read before a review) has that read as its   *)
(* first step.  Four areas of the store are modelled, which share no rows:  *)
(* a behaviour is one of an area.                                           *)
(***************************************************************************)
EXTENDS Integers, FiniteSets

CONSTANTS
    Connections,    \* concurrent calls, each of a hub process of its own
    Users,
    Clients, States, Browsers, \* client registrations and logins under way
    MaxClients, MaxStates, MaxBrowserStates, \* max_active_clients, ..._states
    Codes,          \* authorization codes and refresh tokens that wait to be used
    Families, Pairs, \* refresh token families; a refresh and an access token each
    Memories, Batches, Threads, Sessions, \* conversations and what they hold
    TrustedAppends, \* allow_trusted_appends: a save is added to the memory of its thread
    Relationships,  \* of one conflict group, each with an object of its own
    MaxCalls,       \* bound of the exploration: calls in one behaviour
    None

ASSUME StoreAssumption ==
    /\ MaxClients \in Nat /\ MaxStates \in Nat /\ MaxBrowserStates \in Nat
    /\ MaxCalls \in Nat /\ TrustedAppends \in BOOLEAN
    /\ None \notin [active: BOOLEAN, raced: BOOLEAN]
    /\ None \notin [column: SUBSET Batches, payload: SUBSET Batches, thread: Threads \cup {None},
                    session: Sessions \cup {None}, held: BOOLEAN, raced: BOOLEAN]
    /\ None \notin [family: Families, consumed: BOOLEAN, revoked: BOOLEAN, uses: Nat, raced: BOOLEAN]

VARIABLES
    db,      \* the committed rows, by key
    tx,      \* the call of each connection, or None
    area,    \* the area of the behaviour
    begun,   \* calls begun so far
    acked,   \* history: what the appends that returned have added
    clobbered \* history: memories rewritten from a payload read before an append

vars == <<db, tx, area, begun, acked, clobbered>>

Areas == {"signin", "tokens", "memories", "graph"}

(* A row, or a lock, is a pair of its table and its key.                    *)
Row(table, k) == <<table, k>>
Rows(table, ks) == {Row(table, k) : k \in ks}
Members == Rows("member", Users)
ClientRows == Rows("client", Clients)
StateRows == Rows("state", States)
CodeRows == Rows("code", Codes)
FamilyRows == Rows("family", Families)
RefreshRows == Rows("refresh", Pairs)
AccessRows == Rows("access", Pairs)
MemoryRows == Rows("memory", Memories)
RelationshipRows == Rows("relationship", Relationships)
AdvisoryLocks == Rows("lock", {"oauth_client_registration", "global"} \cup Browsers)
KeysOf(a) ==
    CASE a = "signin" -> UNION {ClientRows, StateRows, CodeRows, AdvisoryLocks}
      [] a = "tokens" -> UNION {Members, FamilyRows, RefreshRows, AccessRows}
      [] a = "memories" -> Members \cup MemoryRows
      [] a = "graph" -> RelationshipRows

-----------------------------------------------------------------------------
(* Transactions.                                                            *)

(* A set of written rows maps each to its value; later writes come first.   *)
Only(k, v) == [x \in {k} |-> v]
Over(f, g) == [x \in DOMAIN f \cup DOMAIN g |-> IF x \in DOMAIN f THEN f[x] ELSE g[x]]

(* What a statement of connection c sees of row k, and who blocks a write.  *)
Sees(c, k) == IF k \in DOMAIN tx[c].writes THEN tx[c].writes[k] ELSE db[k]
Blocked(c, k) == \E d \in Connections \ {c} : tx[d] # None /\ k \in DOMAIN tx[d].writes

(* scope names what two calls both work on.                                 *)
Begin(c, a, op, scope, arg) ==
    /\ area = a /\ tx[c] = None
    /\ begun < MaxCalls /\ begun' = begun + 1
    /\ tx' = [tx EXCEPT ![c] = [op |-> op, scope |-> scope, arg |-> arg, pc |-> 1, seen |-> None,
                                todo |-> {}, writes |-> <<>>, raced |-> FALSE]]
    /\ UNCHANGED <<db, area, acked, clobbered>>

At(c, ops, pc) == tx[c] # None /\ tx[c].op \in ops /\ tx[c].pc = pc

(* The next statement of the same transaction.                              *)
Continue(c, next) ==
    /\ tx' = [tx EXCEPT ![c] = next]
    /\ UNCHANGED <<db, area, begun, acked, clobbered>>

(* The call overlaps with another one on the same thing.                    *)
Raced(c) == \/ tx[c].raced
            \/ \E d \in Connections \ {c} : tx[d] # None /\ tx[d].scope = tx[c].scope

(* The rows become visible.                                                 *)
Ended(c) ==
    [d \in Connections |->
       IF d = c THEN None
       ELSE IF tx[d] # None /\ tx[d].scope = tx[c].scope THEN [tx[d] EXCEPT !.raced = TRUE]
       ELSE tx[d]]
Commit(c, writes) ==
    /\ db' = Over(writes, Over(tx[c].writes, db))
    /\ tx' = Ended(c)
    /\ UNCHANGED <<area, begun>>

(* The call raises, its process dies or loses its connection, or Postgres   *)
(* ends it to break a cycle of waiting transactions.                        *)
Rollback(c) ==
    /\ tx[c] # None
    /\ tx' = [tx EXCEPT ![c] = None]
    /\ UNCHANGED <<db, area, begun, acked, clobbered>>

(* Locks a row, or an advisory lock, until the transaction ends.            *)
Lock(c, k, next) ==
    /\ ~Blocked(c, k)
    /\ Continue(c, [next EXCEPT !.writes = Over(Only(k, db[k]), @)])

(* _ensure_project_for_payload and its like: the membership of the owner is *)
(* written again by every call on his behalf.                               *)
ensure_default_project(c) ==
    /\ \/ At(c, {"create_oauth_refresh_token"}, 1)
       \/ At(c, {"insert", "insert_new", "append_messages"}, 2)
    /\ Lock(c, Row("member", tx[c].arg.user), [tx[c] EXCEPT !.pc = @ + 1])

-----------------------------------------------------------------------------
(* Client registrations, provider logins, codes.                            *)

create_oauth_client(c, client) ==
    /\ area = "signin" /\ db[Row("client", client)] = None
    /\ Begin(c, "signin", "create_oauth_client", Row("scope", "clients"), [client |-> client])

(* Mutant: nobody waits.                                                    *)
NoRegistrationLock(c) ==
    /\ At(c, {"create_oauth_client"}, 1)
    /\ Continue(c, [tx[c] EXCEPT !.pc = 2])

RegistrationLock(c) ==
    /\ At(c, {"create_oauth_client"}, 1)
    /\ Lock(c, Row("lock", "oauth_client_registration"), [tx[c] EXCEPT !.pc = 2])

CountClients(c) ==
    /\ At(c, {"create_oauth_client"}, 2)
    /\ IF Cardinality({k \in ClientRows : Sees(c, k) # None}) >= MaxClients
       THEN Rollback(c) ELSE Continue(c, [tx[c] EXCEPT !.pc = 3])

InsertClient(c) ==
    /\ At(c, {"create_oauth_client"}, 3)
    /\ Commit(c, Only(Row("client", tx[c].arg.client), TRUE))
    /\ UNCHANGED <<acked, clobbered>>

create_oauth_provider_state(c, x, b) ==
    /\ area = "signin" /\ db[Row("state", x)] = None
    /\ Begin(c, "signin", "create_oauth_provider_state", Row("scope", "states"),
             [state |-> x, browser |-> b])

StateLocks(c) ==
    \/ /\ At(c, {"create_oauth_provider_state"}, 1)
       /\ Lock(c, Row("lock", "global"), [tx[c] EXCEPT !.pc = 2])
    \/ /\ At(c, {"create_oauth_provider_state"}, 2)
       /\ Lock(c, Row("lock", tx[c].arg.browser), [tx[c] EXCEPT !.pc = 3])

(* Used states are deleted; then those of all browsers and of this one are  *)
(* counted.                                                                 *)
CountStates(c) ==
    LET used == {k \in StateRows : db[k] # None /\ db[k].consumed}
        left == {k \in StateRows : db[k] # None} \ used
        own == {k \in left : db[k].browser = tx[c].arg.browser}
    IN  /\ At(c, {"create_oauth_provider_state"}, 3)
        /\ IF Cardinality(left) >= MaxStates \/ Cardinality(own) >= MaxBrowserStates
           THEN Rollback(c)
           ELSE Continue(c, [tx[c] EXCEPT !.pc = 4, !.writes = Over([k \in used |-> None], @)])

InsertState(c) ==
    /\ At(c, {"create_oauth_provider_state"}, 4)
    /\ Commit(c, Only(Row("state", tx[c].arg.state),
                      [browser |-> tx[c].arg.browser, consumed |-> FALSE, uses |-> 0]))
    /\ UNCHANGED <<acked, clobbered>>

(* Whether the UPDATE of a consume call takes the row.                      *)
consume_oauth_provider_state(row, b) == row # None /\ ~row.consumed /\ row.browser = b

consume_oauth_authorization_code(row) == row # None /\ ~row.consumed
consume_oauth_refresh_token(row) == row # None /\ ~row.consumed /\ ~row.revoked

Consumable(t, row) ==
    CASE t.arg.row[1] = "state" -> consume_oauth_provider_state(row, t.arg.browser)
      [] t.arg.row[1] = "code" -> consume_oauth_authorization_code(row)
      [] t.arg.row[1] = "refresh" -> consume_oauth_refresh_token(row)

Consume(c, a, k, b) ==
    Begin(c, a, "consume", k, [row |-> k, browser |-> b])

(* The row that was found when the statement began is locked and looked at  *)
(* again.  "uses" is not a column: it counts the callers who were given it. *)
ConsumeFinds(c) ==
    /\ At(c, {"consume"}, 1)
    /\ IF Consumable(tx[c], db[tx[c].arg.row])
       THEN Continue(c, [tx[c] EXCEPT !.pc = 2]) ELSE Rollback(c)

ConsumeTakes(c) ==
    LET k == tx[c].arg.row
    IN  /\ At(c, {"consume"}, 2) /\ ~Blocked(c, k)
        /\ IF Consumable(tx[c], db[k])
           THEN /\ Commit(c, Only(k, [db[k] EXCEPT !.consumed = TRUE, !.uses = @ + 1]))
                /\ UNCHANGED <<acked, clobbered>>
           ELSE Rollback(c)

-----------------------------------------------------------------------------
(* Refresh tokens and their families.                                       *)

(* Called with a fresh token, whose access token is stored already.         *)
create_oauth_refresh_token(c, p, f, u) ==
    /\ area = "tokens" /\ db[Row("refresh", p)] = None
    /\ \A d \in Connections : tx[d] # None /\ tx[d].op = "create_oauth_refresh_token"
                             => tx[d].arg.pair # p
    /\ Begin(c, "tokens", "create_oauth_refresh_token", Row("family", f),
             [pair |-> p, family |-> f, user |-> u])

(* Mutant: the family is not looked up.                                     *)
FamilyAssumedLive(c) == FALSE

family_revoked(c) == db[Row("family", tx[c].arg.family)]

CheckFamily(c) ==
    /\ At(c, {"create_oauth_refresh_token"}, 2)
    /\ Continue(c, [tx[c] EXCEPT !.pc = 3, !.seen = family_revoked(c)])

(* In a revoked family the token is stored revoked, with its access token.  *)
InsertRefreshToken(c) ==
    LET p == tx[c].arg.pair
        revoked == tx[c].seen
        row == [family |-> tx[c].arg.family, consumed |-> FALSE, revoked |-> revoked,
                uses |-> 0, raced |-> Raced(c)]
    IN  /\ At(c, {"create_oauth_refresh_token"}, 3)
        /\ revoked => ~Blocked(c, Row("access", p))
        /\ Commit(c, Over(Only(Row("refresh", p), row),
                          IF revoked THEN Only(Row("access", p), "revoked") ELSE <<>>))
        /\ UNCHANGED <<acked, clobbered>>

revoke_oauth_refresh_token_family(c, f) ==
    Begin(c, "tokens", "revoke_oauth_refresh_token_family", Row("family", f), [family |-> f])

FamilyMarker(c) ==
    /\ At(c, {"revoke_oauth_refresh_token_family"}, 1)
    /\ ~Blocked(c, Row("family", tx[c].arg.family))
    /\ Continue(c, [tx[c] EXCEPT !.pc = 2,
                      !.writes = IF family_revoked(c) THEN @
                                 ELSE Over(Only(Row("family", tx[c].arg.family), TRUE), @)])

(* An access token no refresh token refers to is not revoked by this call.  *)
revoke_oauth_authorization_for_access_token(c, p) ==
    /\ area = "tokens" /\ db[Row("refresh", p)] # None
    /\ LET f == db[Row("refresh", p)].family
       IN  Begin(c, "tokens", "revoke_oauth_authorization_for_access_token", Row("family", f),
                 [pair |-> p, family |-> f])

RevokeOwnAccessToken(c) ==
    LET k == Row("access", tx[c].arg.pair)
    IN  /\ At(c, {"revoke_oauth_authorization_for_access_token"}, 1)
        /\ ~Blocked(c, k)
        /\ Continue(c, [tx[c] EXCEPT !.pc = 2, !.writes = Over(Only(k, "revoked"), @)])

Revocations == {"revoke_oauth_refresh_token_family", "revoke_oauth_authorization_for_access_token"}

FamilyPairs(c) == {p \in Pairs : LET row == db[Row("refresh", p)]
                                 IN  row # None /\ row.family = tx[c].arg.family}

(* Both end with an UPDATE of the family's access tokens and one of its     *)
(* refresh tokens, which lock their rows one by one.                        *)
RevokeAccessTokens(c) ==
    \/ /\ At(c, Revocations, 2)
       /\ Continue(c, [tx[c] EXCEPT !.pc = 3, !.todo = Rows("access", FamilyPairs(c))])
    \/ /\ At(c, Revocations, 3)
       /\ \E k \in tx[c].todo : /\ ~Blocked(c, k)
                                /\ Continue(c, [tx[c] EXCEPT !.todo = @ \ {k},
                                                   !.writes = Over(Only(k, "revoked"), @)])

RevokeRefreshTokens(c) ==
    \/ /\ At(c, Revocations, 3) /\ tx[c].todo = {}
       /\ Continue(c, [tx[c] EXCEPT !.pc = 4, !.todo =
             {k \in Rows("refresh", FamilyPairs(c)) : ~db[k].revoked}])
    \/ /\ At(c, Revocations, 4)
       /\ \E k \in tx[c].todo : /\ ~Blocked(c, k)
                                /\ Continue(c, [tx[c] EXCEPT !.todo = @ \ {k}, !.writes =
                                      Over(Only(k, [db[k] EXCEPT !.revoked = TRUE]), @)])
    \/ /\ At(c, Revocations, 4) /\ tx[c].todo = {}
       /\ Commit(c, <<>>)
       /\ UNCHANGED <<acked, clobbered>>

-----------------------------------------------------------------------------
(* Conversations.  The column is the conversation_hash, which identifies a  *)
(* transcript; the payload holds the transcript with a hash of its own.     *)

SameConversation(column, session) ==
    {k \in MemoryRows : /\ db[k] # None
                        /\ db[k].column = column \/ (session # None /\ db[k].session = session)}

(* A save stores a new memory, held when it waits for a review.  The thread  *)
(* of a memory is the one it was saved with: an append may give a thread to *)
(* a memory that has none, and a look-up that finds it there ends the call, *)
(* as Rollback does.                                                        *)
insert_new(c, m, u, thread, session, held, b) ==
    /\ area = "memories" /\ db[Row("memory", m)] = None
    /\ \A d \in Connections : tx[d] # None /\ tx[d].op = "insert_new" => tx[d].arg.memory # m
    /\ Begin(c, "memories", "insert_new", Row("thread", thread),
             [memory |-> m, user |-> u, thread |-> thread, session |-> session,
              held |-> held, batch |-> b])

(* A held memory is stored without a look-up, an imported session is looked *)
(* up and nothing else, and a thread only where appends are trusted.        *)
get_by_upstream_thread(x) == TrustedAppends /\ ~x.held /\ x.session = None /\ x.thread # None
get_by_imported_session(x) == ~x.held /\ x.session # None

SameThread(x) ==
    {k \in MemoryRows : /\ db[k] # None
                        /\ \/ get_by_imported_session(x) /\ db[k].session = x.session
                           \/ get_by_upstream_thread(x) /\ db[k].thread = x.thread}

(* The oldest of the thread is the candidate; while it waits for its review *)
(* it is none, and the save goes on as if the thread had no memory.  Ages   *)
(* and decisions are left out: where one was held the save may go on.       *)
lookup_same_thread(c) ==
    /\ At(c, {"insert_new"}, 1)
    /\ \/ /\ SameThread(tx[c].arg) = {} \/ \E k \in SameThread(tx[c].arg) : db[k].held
          /\ Continue(c, [tx[c] EXCEPT !.pc = 2])
       \/ SameThread(tx[c].arg) # {} /\ Rollback(c)

(* Mutant: imported sessions have no key of their own.                      *)
TranscriptTaken(column, session) == \E k \in MemoryRows : db[k] # None /\ db[k].column = column

(* The unique indexes on the transcript and on the imported session.        *)
unique_violation(column, session) == SameConversation(column, session) # {}

(* When a key is taken the call answers with the memory that has it, or     *)
(* raises.                                                                  *)
InsertMemory(c) ==
    LET a == tx[c].arg
    IN  /\ At(c, {"insert_new"}, 3)
        /\ IF unique_violation({a.batch}, a.session) THEN Rollback(c)
           ELSE /\ Commit(c, Only(Row("memory", a.memory),
                     [column |-> {a.batch}, payload |-> {a.batch}, thread |-> a.thread,
                      session |-> a.session, held |-> a.held, raced |-> Raced(c)]))
                /\ acked' = [acked EXCEPT ![a.memory] = {a.batch}]
                /\ UNCHANGED clobbered

(* The calls that change a stored memory, after reading its payload.        *)
Rewrites == {"append_messages", "insert", "_mark_chunks_state"}

Rewrite(c, op, m, u, b) ==
    /\ area = "memories" /\ db[Row("memory", m)] # None
    /\ Begin(c, "memories", op, Row("memory", m), [memory |-> m, user |-> u, batch |-> b])

ReadPayload(c) ==
    /\ At(c, Rewrites, 1)
    /\ Continue(c, [tx[c] EXCEPT !.pc = 2, !.seen = db[Row("memory", tx[c].arg.memory)].payload])

(* Mutant: the hash the append expects is not compared.                     *)
AppendAnyway(c) == TRUE

expected_conversation_hash(c) == db[Row("memory", tx[c].arg.memory)].column = tx[c].seen

append_messages(c) ==
    LET k == Row("memory", tx[c].arg.memory)
        grown == tx[c].seen \cup {tx[c].arg.batch}
    IN  /\ At(c, {"append_messages"}, 3)
        /\ IF ~expected_conversation_hash(c) \/ SameConversation(grown, None) \ {k} # {}
           THEN Rollback(c)
           ELSE /\ Commit(c, Only(k, [db[k] EXCEPT !.column = grown, !.payload = grown]))
                /\ acked' = [acked EXCEPT ![tx[c].arg.memory] = @ \cup grown]
                /\ UNCHANGED clobbered

(* Writes back a payload that was read before, whatever is there now.       *)
WriteBack(c, row) ==
    LET m == tx[c].arg.memory
    IN  /\ Commit(c, Only(Row("memory", m), row))
        /\ clobbered' = IF db[Row("memory", m)].payload = tx[c].seen THEN clobbered
                        ELSE clobbered \cup {m}
        /\ UNCHANGED acked

(* A review stores its decision by an upsert of the whole row.              *)
insert(c) ==
    LET k == Row("memory", tx[c].arg.memory)
    IN  /\ At(c, {"insert"}, 3)
        /\ IF SameConversation(tx[c].seen, None) \ {k} # {} THEN Rollback(c)
           ELSE WriteBack(c, [db[k] EXCEPT !.column = tx[c].seen, !.payload = tx[c].seen])

(* The state of the chunks is part of the payload.                          *)
mark_chunks_state(c) ==
    /\ At(c, {"_mark_chunks_state"}, 2)
    /\ WriteBack(c, [db[Row("memory", tx[c].arg.memory)] EXCEPT !.payload = tx[c].seen])

-----------------------------------------------------------------------------
(* Graph relationships of one conflict group.                               *)

upsert_graph_records(c, r) ==
    Begin(c, "graph", "upsert_graph_records", Row("scope", "group"), [row |-> Row("relationship", r)])

UpsertRelationship(c) ==
    LET k == tx[c].arg.row
    IN  /\ At(c, {"upsert_graph_records"}, 1) /\ ~Blocked(c, k)
        /\ Continue(c, [tx[c] EXCEPT !.pc = 2, !.writes = Only(k, [active |-> TRUE, raced |-> FALSE])])

Conflicting(c) == {k \in RelationshipRows \ {tx[c].arg.row} : db[k] # None /\ db[k].active}

supersede_conflicting_relationships(c) ==
    \/ /\ At(c, {"upsert_graph_records"}, 2)
       /\ Continue(c, [tx[c] EXCEPT !.pc = 3, !.todo = Conflicting(c)])
    \/ /\ At(c, {"upsert_graph_records"}, 3)
       /\ \E k \in tx[c].todo :
            /\ ~Blocked(c, k)
            /\ Continue(c, [tx[c] EXCEPT !.todo = @ \ {k}, !.writes =
                  IF db[k].active THEN Over(Only(k, [db[k] EXCEPT !.active = FALSE]), @) ELSE @])
    \/ /\ At(c, {"upsert_graph_records"}, 3) /\ tx[c].todo = {}
       /\ Commit(c, Only(tx[c].arg.row, [active |-> TRUE, raced |-> Raced(c)]))
       /\ UNCHANGED <<acked, clobbered>>

-----------------------------------------------------------------------------
(* Codes and the access tokens of pairs are there already.                  *)
Init ==
    /\ area \in Areas
    /\ db = [k \in KeysOf(area) |->
               CASE k \in CodeRows -> [consumed |-> FALSE, uses |-> 0]
                 [] k \in AccessRows -> "live"
                 [] k \in FamilyRows -> FALSE
                 [] OTHER -> None]
    /\ tx = [c \in Connections |-> None]
    /\ begun = 0
    /\ acked = [m \in Memories |-> {}]
    /\ clobbered = {}

Call(c) ==
    \/ \E client \in Clients : create_oauth_client(c, client)
    \/ \E x \in States, b \in Browsers : \/ create_oauth_provider_state(c, x, b)
                                       \/ Consume(c, "signin", Row("state", x), b)
    \/ \E k \in Codes : Consume(c, "signin", Row("code", k), None)
    \/ \E p \in Pairs : \/ Consume(c, "tokens", Row("refresh", p), None)
                        \/ revoke_oauth_authorization_for_access_token(c, p)
    \/ \E f \in Families : \/ revoke_oauth_refresh_token_family(c, f)
                           \/ \E p \in Pairs, u \in Users :
                                create_oauth_refresh_token(c, p, f, u)
    \/ \E m \in Memories, u \in Users, b \in Batches :
         \/ \E t \in Threads \cup {None}, i \in Sessions \cup {None}, held \in BOOLEAN :
              insert_new(c, m, u, t, i, held, b)
         \/ \E op \in Rewrites : Rewrite(c, op, m, u, b)
    \/ \E r \in Relationships : upsert_graph_records(c, r)

Statement(c) ==
    \/ RegistrationLock(c) \/ CountClients(c) \/ InsertClient(c)
    \/ StateLocks(c) \/ CountStates(c) \/ InsertState(c)
    \/ ConsumeFinds(c) \/ ConsumeTakes(c)
    \/ ensure_default_project(c) \/ CheckFamily(c) \/ InsertRefreshToken(c)
    \/ FamilyMarker(c) \/ RevokeOwnAccessToken(c)
    \/ RevokeAccessTokens(c) \/ RevokeRefreshTokens(c)
    \/ lookup_same_thread(c) \/ InsertMemory(c) \/ ReadPayload(c)
    \/ append_messages(c) \/ insert(c) \/ mark_chunks_state(c)
    \/ UpsertRelationship(c) \/ supersede_conflicting_relationships(c)
    \/ Rollback(c)

Next ==
    \E c \in Connections :
      \/ tx[c] = None /\ begun < MaxCalls /\ Call(c)
      \/ tx[c] # None /\ Statement(c)

Spec == Init /\ [][Next]_vars

-----------------------------------------------------------------------------
(* Properties.                                                              *)

Stored(keys) == {k \in keys \cap DOMAIN db : db[k] # None}

(* With any number of hubs counting at the same time, the quotas of clients *)
(* and of logins under way hold, and a login, a code or a refresh token is  *)
(* handed to one caller.                                                    *)
LimitsHold ==
    LET waiting == {k \in Stored(StateRows) : ~db[k].consumed}
    IN  /\ Cardinality(Stored(ClientRows)) <= MaxClients
        /\ Cardinality(waiting) <= MaxStates
        /\ \A b \in Browsers : Cardinality({k \in waiting : db[k].browser = b}) <= MaxBrowserStates
        /\ \A k \in Stored(StateRows \cup CodeRows \cup RefreshRows) : db[k].uses <= 1

(* Once a family is revoked none of its refresh tokens can be used, nor any *)
(* access token issued with one, except those of a call that overlapped     *)
(* with the revocation: it looks the family up before, stores its token     *)
(* live after, and nothing revokes it.                                      *)
RevokedFamilyIsDead ==
    \A k \in Stored(RefreshRows) :
      db[Row("family", db[k].family)] /\ ~db[k].raced =>
        db[k].revoked /\ db[Row("access", k[2])] = "revoked"

(* What an append that returned has added stays, and the hash the next one  *)
(* compares is the hash of the transcript, whatever runs at the same time,  *)
(* unless a review or a mark of the chunks wrote back an older transcript:  *)
(* after the latter the hashes differ and no append succeeds any more.      *)
AppendsSurvive ==
    \A k \in Stored(MemoryRows) : k[2] \notin clobbered =>
        acked[k[2]] \subseteq db[k].payload /\ db[k].column = db[k].payload

(* An imported session has one memory.  A thread has one of those that were *)
(* saved by its name: not for imported sessions, not where appends are not  *)
(* trusted, the default, and not once a memory of the thread was held.  A   *)
(* conflict group has one relationship that is not superseded.  The latter  *)
(* two hold unless two calls that stored them overlapped.                   *)
OneOfEach ==
    /\ \A k, l \in Stored(MemoryRows) : k # l =>
         /\ db[k].session # None => db[k].session # db[l].session
         /\ /\ get_by_upstream_thread(db[k]) /\ get_by_upstream_thread(db[l])
            /\ db[k].thread = db[l].thread
            => \/ db[k].raced \/ db[l].raced
               \/ \E h \in Stored(MemoryRows) : db[h].held /\ db[h].thread = db[k].thread
    /\ \A k, l \in Stored(RelationshipRows) :
         k # l /\ db[k].active /\ db[l].active => db[k].raced \/ db[l].raced
=============================================================================
