------------------------ MODULE PostgresStore_proofs ------------------------
(***************************************************************************)
(* Theorems about module PostgresStore, for any number of connections,      *)
(* calls, users, clients, logins, tokens, memories and relationships.       *)
(***************************************************************************)
EXTENDS PostgresStore, FiniteSetTheorems, TLAPS

(* A call in flight is a record of these fields.                            *)
IsTx(t) ==
    t = [op |-> t.op, scope |-> t.scope, arg |-> t.arg, pc |-> t.pc, seen |-> t.seen,
         todo |-> t.todo, writes |-> t.writes, raced |-> t.raced]

TxFun == tx = [c \in Connections |-> tx[c]]

(* The call is the same one, at another statement.                          *)
SameCall(t, u) ==
    IsTx(u) /\ u.op = t.op /\ u.scope = t.scope /\ u.arg = t.arg /\ u.raced = t.raced

LEMMA OverIs ==
    ASSUME NEW f, NEW g
    PROVE  /\ DOMAIN Over(f, g) = DOMAIN f \cup DOMAIN g
           /\ \A x \in DOMAIN f : Over(f, g)[x] = f[x]
           /\ \A x \in DOMAIN g : x \notin DOMAIN f => Over(f, g)[x] = g[x]
  BY DEF Over

LEMMA OnlyIs ==
    ASSUME NEW k, NEW v
    PROVE  DOMAIN Only(k, v) = {k} /\ Only(k, v)[k] = v
  BY DEF Only

(* A statement, a new call, a rollback: one connection changes.             *)
LEMMA Moved ==
    ASSUME TxFun, NEW c \in Connections, NEW t, tx' = [tx EXCEPT ![c] = t]
    PROVE  TxFun' /\ tx'[c] = t /\ \A d \in Connections : d # c => tx'[d] = tx[d]
  BY DEF TxFun

(* A call at its first statement.                                           *)
NewCall(op, scope, arg) ==
    [op |-> op, scope |-> scope, arg |-> arg, pc |-> 1, seen |-> None,
     todo |-> {}, writes |-> <<>>, raced |-> FALSE]

LEMMA BegunCall ==
    ASSUME NEW c \in Connections, NEW a, NEW op, NEW scope, NEW arg, Begin(c, a, op, scope, arg)
    PROVE  /\ tx' = [tx EXCEPT ![c] = NewCall(op, scope, arg)] /\ area = a
           /\ UNCHANGED <<db, area, acked, clobbered>> /\ tx[c] = None
  BY DEF Begin, NewCall

(* A commit: the rows written become visible, the others stay, and the      *)
(* calls that work on the same thing are marked.                            *)
MarksOthers(c, t) ==
    \A d \in Connections \ {c} :
        \/ tx'[d] = tx[d] /\ (tx[d] = None \/ tx[d].scope # t.scope)
        \/ tx[d] # None /\ tx[d].scope = t.scope /\ tx'[d] = [tx[d] EXCEPT !.raced = TRUE]
Stores(t, w) ==
    /\ DOMAIN db' = DOMAIN w \cup DOMAIN t.writes \cup DOMAIN db
    /\ \A k \in DOMAIN w : db'[k] = w[k]
    /\ \A k \in DOMAIN t.writes : k \notin DOMAIN w => db'[k] = t.writes[k]
    /\ \A k \in DOMAIN db : k \notin DOMAIN w /\ k \notin DOMAIN t.writes => db'[k] = db[k]

LEMMA Committed ==
    ASSUME TxFun, NEW c \in Connections, NEW w, Commit(c, w)
    PROVE  TxFun' /\ tx'[c] = None /\ area' = area /\ MarksOthers(c, tx[c]) /\ Stores(tx[c], w)
  <1>1. tx' = Ended(c) /\ area' = area
    BY DEF Commit
  <1>2. TxFun' /\ tx'[c] = None
    BY <1>1 DEF Ended, TxFun
  <1>3. MarksOthers(c, tx[c])
    BY <1>1 DEF Ended, MarksOthers
  <1>4. PICK f, g, h : f = tx[c].writes /\ g = db /\ h = Over(f, g)
    OBVIOUS
  <1>5. db' = Over(w, h)
    BY <1>4 DEF Commit
  <1>6. /\ DOMAIN h = DOMAIN f \cup DOMAIN g
        /\ \A k \in DOMAIN f : h[k] = f[k]
        /\ \A k \in DOMAIN g : k \notin DOMAIN f => h[k] = g[k]
    BY <1>4 DEF Over
  <1>7. PICK e : e = Over(w, h)
    OBVIOUS
  <1>8. /\ DOMAIN e = DOMAIN w \cup DOMAIN h
        /\ \A k \in DOMAIN w : e[k] = w[k]
        /\ \A k \in DOMAIN h : k \notin DOMAIN w => e[k] = h[k]
    BY <1>7 DEF Over
  <1>9. /\ DOMAIN e = DOMAIN w \cup DOMAIN f \cup DOMAIN g
        /\ \A k \in DOMAIN w : e[k] = w[k]
        /\ \A k \in DOMAIN f : k \notin DOMAIN w => e[k] = f[k]
        /\ \A k \in DOMAIN g : k \notin DOMAIN w /\ k \notin DOMAIN f => e[k] = g[k]
    BY <1>6, <1>8
  <1>10. Stores(tx[c], w)
    BY <1>4, <1>5, <1>7, <1>9 DEF Stores
  <1> QED
    BY <1>1, <1>2, <1>3, <1>10

-----------------------------------------------------------------------------
(* The graph.                                                               *)

RelationshipRecords == [active: BOOLEAN, raced: BOOLEAN]
IsActive(k) == db[k] # None /\ db[k].active

(* A call that overlapped with no commit has every other active             *)
(* relationship of the group still to supersede, or superseded.             *)
GraphTx(t) ==
    /\ IsTx(t) /\ t.op = "upsert_graph_records" /\ t.scope = Row("scope", "group")
    /\ t.arg.row \in RelationshipRows
    /\ t.pc \in {1, 2, 3} /\ t.raced \in BOOLEAN
    /\ \A k \in t.todo : k \in RelationshipRows /\ k # t.arg.row /\ db[k] # None
    /\ \A k \in DOMAIN t.writes :
         /\ k \in RelationshipRows /\ t.writes[k] \in RelationshipRecords
         /\ k # t.arg.row => ~t.writes[k].active
    /\ t.pc = 3 /\ ~t.raced =>
         \A k \in RelationshipRows : k # t.arg.row /\ IsActive(k) => k \in t.todo \/ k \in DOMAIN t.writes

OneActive ==
    \A k, l \in RelationshipRows :
        k # l /\ IsActive(k) /\ IsActive(l) => db[k].raced \/ db[l].raced

GraphInv ==
    /\ area = "graph" /\ TxFun
    /\ DOMAIN db = RelationshipRows
    /\ \A k \in RelationshipRows : db[k] \in RelationshipRecords \cup {None}
    /\ \A c \in Connections : tx[c] # None => GraphTx(tx[c])
    /\ OneActive

LEMMA GraphLocal ==
    ASSUME GraphInv, NEW c \in Connections, NEW t, tx' = [tx EXCEPT ![c] = t],
           t # None => GraphTx(t), UNCHANGED <<db, area>>
    PROVE  GraphInv'
  <1>1. TxFun' /\ tx'[c] = t /\ \A d \in Connections : d # c => tx'[d] = tx[d]
    BY Moved DEF GraphInv
  <1>2. \A u : GraphTx(u)' <=> GraphTx(u)
    BY DEF GraphTx, IsActive
  <1>3. ASSUME NEW d \in Connections, tx'[d] # None PROVE GraphTx(tx[d])'
    <2>1. PICK u : u = tx'[d]
      OBVIOUS
    <2>2. GraphTx(u)
      BY <1>1, <1>3, <2>1 DEF GraphInv
    <2>3. GraphTx(u)'
      BY <1>2, <2>2
    <2> QED
      BY <2>1, <2>3
  <1> QED
    BY <1>1, <1>3 DEF GraphInv, OneActive, IsActive

LEMMA GraphCommit ==
    ASSUME GraphInv, NEW c \in Connections, At(c, {"upsert_graph_records"}, 3), tx[c].todo = {},
           Commit(c, Only(tx[c].arg.row, [active |-> TRUE, raced |-> Raced(c)]))
    PROVE  GraphInv'
  <1>1. PICK t, r, row, w : /\ t = tx[c] /\ r = t.arg.row
                            /\ row = [active |-> TRUE, raced |-> Raced(c)] /\ w = Only(r, row)
    OBVIOUS
  <1>2. GraphTx(t) /\ t.pc = 3 /\ t.todo = {}
    BY <1>1 DEF At, GraphInv
  <1>3. DOMAIN w = {r} /\ w[r] = row
    BY <1>1 DEF Only
  <1>4. Raced(c) \in BOOLEAN
    BY <1>1, <1>2 DEF Raced, GraphTx
  <1>5. row \in RelationshipRecords /\ row.active /\ row.raced = Raced(c) /\ row # None
    <2>1. PICK x \in BOOLEAN : x = Raced(c)
      BY <1>4
    <2>2. row \in RelationshipRecords /\ row.active /\ row.raced = x
      BY <1>1, <2>1 DEF RelationshipRecords
    <2>3. None \notin RelationshipRecords
      BY StoreAssumption DEF RelationshipRecords
    <2> QED
      BY <2>1, <2>2, <2>3
  <1>6. TxFun' /\ tx'[c] = None /\ area' = area /\ MarksOthers(c, t) /\ Stores(t, w)
    <2>1. Commit(c, w) /\ TxFun
      BY <1>1 DEF GraphInv
    <2> QED
      BY <1>1, <2>1, Committed
  <1>7. r \in RelationshipRows /\ db'[r] = row
    BY <1>1, <1>2, <1>3, <1>6 DEF GraphTx, Stores
  <1>8. \A k \in RelationshipRows : k # r /\ k \in DOMAIN t.writes =>
             db'[k] = t.writes[k] /\ db'[k] \in RelationshipRecords /\ ~db'[k].active
    BY <1>1, <1>2, <1>3, <1>6 DEF GraphTx, Stores
  <1>9. \A k \in RelationshipRows : k # r /\ k \notin DOMAIN t.writes => db'[k] = db[k]
    BY <1>3, <1>6 DEF GraphInv, Stores
  <1>10. DOMAIN db' = RelationshipRows
    BY <1>2, <1>3, <1>6, <1>7 DEF GraphInv, GraphTx, Stores
  <1>11. \A k \in RelationshipRows : /\ db'[k] \in RelationshipRecords \cup {None}
                                     /\ db[k] # None => db'[k] # None
    <2>1. None \notin RelationshipRecords
      BY StoreAssumption DEF RelationshipRecords
    <2> QED
      BY <1>5, <1>7, <1>8, <1>9, <2>1 DEF GraphInv
  <1>12. ASSUME NEW d \in Connections, tx'[d] # None PROVE GraphTx(tx[d])'
    <2>1. d # c /\ tx[d] # None
      BY <1>6, <1>12 DEF MarksOthers
    <2>2. PICK s, u : s = tx[d] /\ u = [s EXCEPT !.raced = TRUE]
      OBVIOUS
    <2>3. GraphTx(s) /\ tx'[d] = u
      BY <1>2, <1>6, <2>1, <2>2 DEF GraphInv, GraphTx, MarksOthers
    <2>4. /\ IsTx(u) /\ u.op = s.op /\ u.scope = s.scope /\ u.arg = s.arg /\ u.raced = TRUE
          /\ u.pc = s.pc /\ u.seen = s.seen /\ u.todo = s.todo /\ u.writes = s.writes
      BY <2>2, <2>3 DEF GraphTx, IsTx
    <2>5. GraphTx(u)'
      BY <1>11, <2>3, <2>4 DEF GraphTx
    <2> QED
      BY <2>3, <2>5
  <1>13. OneActive'
    <2> SUFFICES ASSUME NEW k \in RelationshipRows, NEW l \in RelationshipRows, k # l,
                        IsActive(k)', IsActive(l)'
                 PROVE  db'[k].raced \/ db'[l].raced
      BY DEF OneActive
    <2>1. \A x \in RelationshipRows : x # r /\ IsActive(x)' =>
              x \notin DOMAIN t.writes /\ db'[x] = db[x] /\ IsActive(x)
      BY <1>8, <1>9 DEF IsActive
    <2>2. CASE k # r /\ l # r
      BY <2>1, <2>2 DEF GraphInv, OneActive
    <2>3. CASE k = r \/ l = r
      <3>1. SUFFICES ASSUME ~Raced(c) PROVE FALSE
        BY <1>5, <1>7, <2>3
      <3>2. ~t.raced
        BY <1>1, <3>1 DEF Raced
      <3> QED
        BY <1>1, <1>2, <2>1, <2>3, <3>2 DEF GraphTx
    <2> QED
      BY <2>2, <2>3
  <1> QED
    BY <1>6, <1>10, <1>11, <1>12, <1>13 DEF GraphInv

LEMMA GraphBegins ==
    ASSUME GraphInv, NEW c \in Connections, NEW x \in Relationships, upsert_graph_records(c, x)
    PROVE  GraphInv'
  <1>1. PICK arg : arg = [row |-> Row("relationship", x)]
    OBVIOUS
  <1>2. arg.row \in RelationshipRows
    BY <1>1 DEF RelationshipRows, Rows
  <1>3. Begin(c, "graph", "upsert_graph_records", Row("scope", "group"), arg)
    BY <1>1 DEF upsert_graph_records
  <1>4. PICK t : t = NewCall("upsert_graph_records", Row("scope", "group"), arg)
    OBVIOUS
  <1>5. GraphTx(t)
    BY <1>2, <1>4 DEF GraphTx, NewCall, IsTx
  <1>6. tx' = [tx EXCEPT ![c] = t] /\ UNCHANGED <<db, area>>
    BY <1>3, <1>4, BegunCall
  <1> QED
    BY <1>5, <1>6, GraphLocal

LEMMA GraphMoves ==
    ASSUME GraphInv, NEW c \in Connections,
           UpsertRelationship(c) \/ supersede_conflicting_relationships(c)
    PROVE  GraphInv'
  <1>1. PICK t, r : t = tx[c] /\ r = t.arg.row
    OBVIOUS
  <1>2. GraphTx(t) /\ IsTx(t) /\ t # None
    BY <1>1 DEF UpsertRelationship, supersede_conflicting_relationships, At, GraphInv, GraphTx
  <1>3. ASSUME NEW u, Continue(c, u), GraphTx(u) PROVE GraphInv'
    BY <1>3, GraphLocal DEF Continue
  <1>4. CASE UpsertRelationship(c)
    <2>1. PICK w, row : row = [active |-> TRUE, raced |-> FALSE] /\ w = Only(r, row)
      OBVIOUS
    <2>2. PICK u : u = [t EXCEPT !.pc = 2, !.writes = w]
      OBVIOUS
    <2>3. Continue(c, u)
      BY <1>1, <1>4, <2>1, <2>2 DEF UpsertRelationship
    <2>4. SameCall(t, u) /\ u.pc = 2 /\ u.todo = t.todo /\ u.writes = w
      BY <1>2, <2>2 DEF IsTx, SameCall
    <2>5. DOMAIN w = {r} /\ w[r] = row /\ row \in RelationshipRecords
      BY <2>1 DEF RelationshipRecords, Only
    <2>6. GraphTx(u)
      BY <1>1, <1>2, <2>4, <2>5 DEF GraphTx, SameCall
    <2> QED
      BY <1>3, <2>3, <2>6
  <1>5. CASE Continue(c, [tx[c] EXCEPT !.pc = 3, !.todo = Conflicting(c)]) /\ t.pc = 2
    <2>1. PICK todo : todo = Conflicting(c)
      OBVIOUS
    <2>2. PICK u : u = [t EXCEPT !.pc = 3, !.todo = todo]
      OBVIOUS
    <2>3. Continue(c, u)
      BY <1>1, <1>5, <2>1, <2>2
    <2>4. SameCall(t, u) /\ u.pc = 3 /\ u.todo = todo /\ u.writes = t.writes
      BY <1>2, <2>2 DEF IsTx, SameCall
    <2>5. \A k : k \in todo <=> k \in RelationshipRows /\ k # r /\ IsActive(k)
      BY <1>1, <2>1 DEF Conflicting, IsActive
    <2>6. GraphTx(u)
      BY <1>1, <1>2, <2>4, <2>5 DEF GraphTx, SameCall, IsActive
    <2> QED
      BY <1>3, <2>3, <2>6
  <1>6. ASSUME NEW k \in t.todo, t.pc = 3,
               Continue(c, [tx[c] EXCEPT !.todo = @ \ {k}, !.writes =
                  IF db[k].active THEN Over(Only(k, [db[k] EXCEPT !.active = FALSE]), @) ELSE @])
        PROVE  GraphInv'
    <2>1. PICK old, row, first : old = db[k] /\ row = [old EXCEPT !.active = FALSE] /\ first = Only(k, row)
      OBVIOUS
    <2>2. PICK w : w = IF old.active THEN Over(first, t.writes) ELSE t.writes
      OBVIOUS
    <2>3. PICK u : u = [t EXCEPT !.todo = t.todo \ {k}, !.writes = w]
      OBVIOUS
    <2>4. Continue(c, u)
      <3>1. u = [t EXCEPT !.todo = @ \ {k}, !.writes =
                  IF db[k].active THEN Over(Only(k, [db[k] EXCEPT !.active = FALSE]), @) ELSE @]
        BY <1>2, <2>1, <2>2, <2>3 DEF IsTx
      <3> QED
        BY <1>1, <1>6, <3>1
    <2>5. SameCall(t, u) /\ u.pc = 3 /\ u.todo = t.todo \ {k} /\ u.writes = w
      BY <1>2, <1>6, <2>3 DEF IsTx, SameCall
    <2>6. k \in RelationshipRows /\ k # r /\ old \in RelationshipRecords /\ old # None
      BY <1>1, <1>2, <1>6, <2>1 DEF GraphTx, GraphInv
    <2>7. row \in RelationshipRecords /\ ~row.active
      BY <2>1, <2>6 DEF RelationshipRecords
    <2>8. DOMAIN first = {k} /\ first[k] = row
      BY <2>1 DEF Only
    <2>9. /\ \A x \in DOMAIN w : (x \in DOMAIN t.writes /\ w[x] = t.writes[x]) \/ (x = k /\ w[x] = row)
          /\ \A x \in DOMAIN t.writes : x \in DOMAIN w
          /\ old.active => k \in DOMAIN w
      BY <2>2, <2>8 DEF Over
    <2>10. ~old.active => ~IsActive(k)
      BY <2>1 DEF IsActive
    <2>11. GraphTx(u)
      BY <1>1, <1>2, <1>6, <2>5, <2>6, <2>7, <2>9, <2>10 DEF GraphTx, SameCall
    <2> QED
      BY <1>3, <2>4, <2>11
  <1>7. ASSUME At(c, {"upsert_graph_records"}, 3), tx[c].todo = {},
               Commit(c, Only(tx[c].arg.row, [active |-> TRUE, raced |-> Raced(c)]))
        PROVE  GraphInv'
    BY <1>7, GraphCommit
  <1> QED
    BY <1>1, <1>4, <1>5, <1>6, <1>7 DEF supersede_conflicting_relationships, At

-----------------------------------------------------------------------------
(* Conversations.                                                           *)

MemoryRecords == [column: SUBSET Batches, payload: SUBSET Batches, thread: Threads \cup {None},
                  session: Sessions \cup {None}, held: BOOLEAN, raced: BOOLEAN]
MemoryOf(t) == Row("memory", t.arg.memory)

(* A memory of the thread was held; none is stored, but for that case.      *)
HeldIn(thread) == \E h \in MemoryRows : db[h] # None /\ db[h].held /\ db[h].thread = thread
Unthreaded(thread) ==
    HeldIn(thread) \/ \A k \in MemoryRows : db[k] # None => db[k].thread # thread

InsertTx(t) ==
    /\ t.op = "insert_new" /\ t.scope = Row("thread", t.arg.thread)
    /\ t.arg.thread \in Threads \cup {None} /\ t.arg.session \in Sessions \cup {None}
    /\ t.arg.held \in BOOLEAN /\ db[MemoryOf(t)] = None
    /\ t.pc \in {2, 3} /\ ~t.raced /\ get_by_upstream_thread(t.arg) => Unthreaded(t.arg.thread)

RewriteTx(t) ==
    /\ t.op \in Rewrites /\ t.scope = MemoryOf(t)
    /\ db[MemoryOf(t)] # None
    /\ t.pc \in {2, 3} => t.seen \subseteq Batches

(* What a call knows at each statement.                                     *)
MemoryTx(t) ==
    /\ IsTx(t) /\ t.pc \in {1, 2, 3} /\ t.raced \in BOOLEAN
    /\ t.arg.memory \in Memories /\ t.arg.batch \in Batches /\ t.arg.user \in Users
    /\ DOMAIN t.writes \subseteq Members
    /\ InsertTx(t) \/ RewriteTx(t)

Inserts(c) == tx[c] # None /\ tx[c].op = "insert_new"

(* Two memories saved by the name of one thread have an excuse.             *)
Excused(x, y) ==
    get_by_upstream_thread(x) /\ get_by_upstream_thread(y) /\ x.thread = y.thread =>
      x.raced \/ y.raced \/ HeldIn(x.thread)

Unique == \A k, l \in MemoryRows : k # l /\ db[k] # None /\ db[l] # None =>
    /\ db[k].session # None => db[k].session # db[l].session
    /\ Excused(db[k], db[l])

Survive == \A m \in Memories : db[Row("memory", m)] # None /\ m \notin clobbered =>
    /\ acked[m] \subseteq db[Row("memory", m)].payload
    /\ db[Row("memory", m)].column = db[Row("memory", m)].payload

MemoryInv ==
    /\ area = "memories" /\ TxFun
    /\ DOMAIN db = Members \cup MemoryRows
    /\ \A k \in MemoryRows : db[k] \in MemoryRecords \cup {None}
    /\ acked \in [Memories -> SUBSET Batches]
    /\ \A c \in Connections : tx[c] # None => MemoryTx(tx[c])
    /\ \A c, d \in Connections :
         c # d /\ Inserts(c) /\ Inserts(d) => tx[c].arg.memory # tx[d].arg.memory
    /\ Unique /\ Survive

LEMMA MemoryKeys ==
    /\ \A m \in Memories : Row("memory", m) \in MemoryRows /\ Row("memory", m) \notin Members
    /\ \A k \in MemoryRows : k \notin Members /\ \E m \in Memories : k = Row("memory", m)
    /\ \A m, n : Row("memory", m) = Row("memory", n) => m = n
    /\ \A m, n : Row("thread", m) = Row("thread", n) => m = n
    /\ \A m, n : Row("thread", m) # Row("memory", n)
    /\ \A u \in Users : Row("member", u) \in Members
    /\ None \notin MemoryRecords
  BY StoreAssumption DEF MemoryRows, Members, Rows, Row, MemoryRecords

(* Nothing is stored: the calls of the other connections know the same.     *)
LEMMA MemoryLocal ==
    ASSUME MemoryInv, NEW c \in Connections, NEW t, tx' = [tx EXCEPT ![c] = t],
           t # None => MemoryTx(t),
           t # None /\ t.op = "insert_new" =>
             \A d \in Connections : d # c /\ Inserts(d) => tx[d].arg.memory # t.arg.memory,
           UNCHANGED <<db, area, acked, clobbered>>
    PROVE  MemoryInv'
  <1>1. TxFun' /\ tx'[c] = t /\ \A d \in Connections : d # c => tx'[d] = tx[d]
    BY Moved DEF MemoryInv
  <1>2. \A u : MemoryTx(u)' <=> MemoryTx(u)
    BY DEF MemoryTx, InsertTx, RewriteTx, Unthreaded, HeldIn, MemoryOf
  <1>3. ASSUME NEW d \in Connections, tx'[d] # None PROVE MemoryTx(tx[d])'
    <2>1. PICK u : u = tx'[d]
      OBVIOUS
    <2>2. MemoryTx(u)
      BY <1>1, <1>3, <2>1 DEF MemoryInv
    <2>3. MemoryTx(u)'
      BY <1>2, <2>2
    <2> QED
      BY <2>1, <2>3
  <1>4. (\A a, d \in Connections :
           a # d /\ Inserts(a) /\ Inserts(d) => tx[a].arg.memory # tx[d].arg.memory)'
    BY <1>1 DEF MemoryInv, Inserts
  <1>5. Unique' /\ Survive'
    BY DEF MemoryInv, Unique, Excused, HeldIn, Survive
  <1> QED
    BY <1>1, <1>3, <1>4, <1>5 DEF MemoryInv

(* One memory is written.                                                   *)
LEMMA MemoryCommit ==
    ASSUME MemoryInv, NEW c \in Connections, tx[c] # None, NEW row \in MemoryRecords,
           NEW t, t = tx[c], NEW k, k = MemoryOf(t), Commit(c, Only(k, row)),
           \* the memory is new, or keeps what it was saved with
           db[k] = None => tx[c].op = "insert_new" /\ row.thread = t.arg.thread,
           db[k] # None => row.thread = db[k].thread /\ row.session = db[k].session
                           /\ (db[k].held => row.held),
           acked' \in [Memories -> SUBSET Batches],
           Unique', Survive'
    PROVE  MemoryInv'
  <1>1. MemoryTx(t) /\ IsTx(t) /\ k \in MemoryRows /\ TxFun
    BY MemoryKeys DEF MemoryInv, MemoryTx, MemoryOf
  <1>2. PICK w : w = Only(k, row)
    OBVIOUS
  <1>3. DOMAIN w = {k} /\ w[k] = row
    BY <1>2 DEF Only
  <1>4. TxFun' /\ tx'[c] = None /\ area' = area /\ MarksOthers(c, t) /\ Stores(t, w)
    <2>1. Commit(c, w)
      BY <1>2
    <2> QED
      BY <1>1, <2>1, Committed
  <1>5. DOMAIN db' = Members \cup MemoryRows /\ db'[k] = row
    BY <1>1, <1>3, <1>4 DEF Stores, MemoryInv, MemoryTx
  <1>6. \A l \in MemoryRows : l # k => db'[l] = db[l]
    BY <1>1, <1>3, <1>4, MemoryKeys DEF Stores, MemoryInv, MemoryTx
  <1>7. row # None
    BY MemoryKeys
  <1>8. /\ \A l \in MemoryRows : db'[l] \in MemoryRecords \cup {None}
        /\ \A l \in MemoryRows : db[l] # None => db'[l] # None
    BY <1>5, <1>6, <1>7 DEF MemoryInv
  <1>9. ASSUME NEW d \in Connections, tx'[d] # None PROVE MemoryTx(tx[d])'
    <2>1. d # c /\ tx[d] # None
      BY <1>4, <1>9 DEF MarksOthers
    <2>2. PICK s, u : s = tx[d] /\ u = tx'[d]
      OBVIOUS
    <2> SUFFICES MemoryTx(u)'
      BY <2>2
    <2>3. MemoryTx(s) /\ IsTx(s)
      BY <2>1, <2>2 DEF MemoryInv, MemoryTx
    <2>4. /\ IsTx(u) /\ u.op = s.op /\ u.scope = s.scope /\ u.arg = s.arg
          /\ u.pc = s.pc /\ u.seen = s.seen /\ u.todo = s.todo /\ u.writes = s.writes
          /\ (s.scope = t.scope /\ u.raced = TRUE) \/ (s.scope # t.scope /\ u.raced = s.raced)
      <3>1. \/ u = s /\ s.scope # t.scope
            \/ s.scope = t.scope /\ u = [s EXCEPT !.raced = TRUE]
        BY <1>4, <2>1, <2>2 DEF MarksOthers
      <3>2. CASE u = s /\ s.scope # t.scope
        BY <2>3, <3>2
      <3>3. CASE s.scope = t.scope /\ u = [s EXCEPT !.raced = TRUE]
        BY <2>3, <3>3 DEF IsTx
      <3> QED
        BY <3>1, <3>2, <3>3
    <2>5. MemoryOf(s) \in MemoryRows /\ MemoryOf(u) = MemoryOf(s)
      BY <2>3, <2>4, MemoryKeys DEF MemoryTx, MemoryOf
    <2>6. CASE RewriteTx(s)
      <3>1. RewriteTx(u)'
        BY <1>8, <2>4, <2>5, <2>6 DEF RewriteTx, MemoryOf
      <3> QED
        BY <2>3, <2>4, <3>1 DEF MemoryTx
    <2>7. CASE InsertTx(s)
      <3>1. db'[MemoryOf(s)] = None
        <4>1. MemoryOf(s) # k
          <5>1. CASE db[k] # None
            BY <2>7, <5>1 DEF InsertTx
          <5>2. CASE db[k] = None
            <6>1. Inserts(c) /\ Inserts(d)
              BY <2>1, <2>2, <2>7, <5>2 DEF Inserts, InsertTx
            <6>2. s.arg.memory # t.arg.memory
              BY <2>1, <2>2, <6>1 DEF MemoryInv
            <6> QED
              BY <6>2, MemoryKeys DEF MemoryOf
          <5> QED
            BY <5>1, <5>2
        <4> QED
          BY <1>6, <2>5, <2>7, <4>1 DEF InsertTx
      <3>2. ASSUME u.pc \in {2, 3}, ~u.raced, get_by_upstream_thread(u.arg)
            PROVE  Unthreaded(u.arg.thread)'
        <4>1. s.scope # t.scope /\ ~s.raced /\ Unthreaded(s.arg.thread)
          BY <2>4, <2>7, <3>2 DEF InsertTx
        <4>2. CASE HeldIn(s.arg.thread)
          <5>1. PICK h \in MemoryRows : db[h] # None /\ db[h].held /\ db[h].thread = s.arg.thread
            BY <4>2 DEF HeldIn
          <5>2. db'[h] # None /\ db'[h].held /\ db'[h].thread = s.arg.thread
            BY <1>5, <1>6, <1>7, <5>1
          <5> QED
            BY <2>4, <5>2 DEF Unthreaded, HeldIn
        <4>3. CASE \A l \in MemoryRows : db[l] # None => db[l].thread # s.arg.thread
          <5>1. row.thread # s.arg.thread
            <6>1. CASE db[k] # None
              BY <1>1, <4>3, <6>1
            <6>2. CASE db[k] = None
              <7>1. t.scope = Row("thread", t.arg.thread) /\ row.thread = t.arg.thread
                BY <1>1, <6>2 DEF MemoryTx, InsertTx, RewriteTx
              <7> QED
                BY <2>7, <4>1, <7>1 DEF InsertTx
            <6> QED
              BY <6>1, <6>2
          <5>2. \A l \in MemoryRows : db'[l] # None => db'[l].thread # u.arg.thread
            BY <1>5, <1>6, <2>4, <4>3, <5>1
          <5> QED
            BY <5>2 DEF Unthreaded
        <4> QED
          BY <4>1, <4>2, <4>3 DEF Unthreaded
      <3>3. InsertTx(u)'
        BY <2>4, <2>5, <2>7, <3>1, <3>2 DEF InsertTx, MemoryOf
      <3> QED
        BY <2>3, <2>4, <3>3 DEF MemoryTx
    <2> QED
      BY <2>3, <2>6, <2>7 DEF MemoryTx
  <1>10. (\A a, d \in Connections :
           a # d /\ Inserts(a) /\ Inserts(d) => tx[a].arg.memory # tx[d].arg.memory)'
    <2>1. ASSUME NEW d \in Connections, Inserts(d)' PROVE Inserts(d) /\ tx'[d].arg = tx[d].arg
      <3>1. d # c /\ tx[d] # None /\ MemoryTx(tx[d])
        BY <1>4, <2>1 DEF MarksOthers, Inserts, MemoryInv
      <3>2. PICK s : s = tx[d]
        OBVIOUS
      <3>3. IsTx(s)
        BY <3>1, <3>2 DEF MemoryTx
      <3>4. tx'[d] = s \/ tx'[d] = [s EXCEPT !.raced = TRUE]
        BY <1>4, <3>1, <3>2 DEF MarksOthers
      <3>5. tx'[d].op = s.op /\ tx'[d].arg = s.arg
        BY <3>3, <3>4 DEF IsTx
      <3> QED
        BY <2>1, <3>1, <3>2, <3>5 DEF Inserts
    <2> QED
      BY <2>1 DEF MemoryInv
  <1> QED
    BY <1>4, <1>5, <1>8, <1>9, <1>10 DEF MemoryInv

LEMMA MemoryWrites ==
    ASSUME MemoryInv, NEW c \in Connections, tx[c] # None, NEW k \in MemoryRows, NEW row,
           Commit(c, Only(k, row))
    PROVE  db'[k] = row /\ \A l \in MemoryRows : l # k => db'[l] = db[l]
  <1>1. PICK t, w : t = tx[c] /\ w = Only(k, row)
    OBVIOUS
  <1>2. DOMAIN w = {k} /\ w[k] = row
    BY <1>1 DEF Only
  <1>3. Stores(t, w)
    <2>1. Commit(c, w) /\ TxFun
      BY <1>1 DEF MemoryInv
    <2> QED
      BY <1>1, <2>1, Committed
  <1> QED
    BY <1>1, <1>2, <1>3, MemoryKeys DEF Stores, MemoryInv, MemoryTx

LEMMA MemoryBegins ==
    ASSUME MemoryInv, NEW c \in Connections, NEW m \in Memories, NEW u \in Users, NEW b \in Batches,
           \/ \E t \in Threads \cup {None}, i \in Sessions \cup {None}, held \in BOOLEAN :
                insert_new(c, m, u, t, i, held, b)
           \/ \E op \in Rewrites : Rewrite(c, op, m, u, b)
    PROVE  MemoryInv'
  <1>1. ASSUME NEW x \in Threads \cup {None}, NEW i \in Sessions \cup {None}, NEW held \in BOOLEAN,
               insert_new(c, m, u, x, i, held, b)
        PROVE  MemoryInv'
    <2>1. PICK arg : arg = [memory |-> m, user |-> u, thread |-> x, session |-> i,
                            held |-> held, batch |-> b]
      OBVIOUS
    <2>2. PICK t : t = NewCall("insert_new", Row("thread", x), arg)
      OBVIOUS
    <2>3. Begin(c, "memories", "insert_new", Row("thread", x), arg)
      BY <1>1, <2>1 DEF insert_new
    <2>4. tx' = [tx EXCEPT ![c] = t] /\ UNCHANGED <<db, area, acked, clobbered>>
      BY <2>2, <2>3, BegunCall
    <2>5. db[Row("memory", m)] = None
      BY <1>1 DEF insert_new
    <2>6. \A d \in Connections : d # c /\ Inserts(d) => tx[d].arg.memory # t.arg.memory
      BY <1>1, <2>1, <2>2 DEF insert_new, Inserts, NewCall
    <2>7. MemoryTx(t)
      BY <2>1, <2>2, <2>5 DEF MemoryTx, InsertTx, MemoryOf, NewCall, IsTx
    <2> QED
      BY <2>4, <2>6, <2>7, MemoryLocal
  <1>2. ASSUME NEW op \in Rewrites, Rewrite(c, op, m, u, b) PROVE MemoryInv'
    <2>1. PICK arg : arg = [memory |-> m, user |-> u, batch |-> b]
      OBVIOUS
    <2>2. PICK t : t = NewCall(op, Row("memory", m), arg)
      OBVIOUS
    <2>3. Begin(c, "memories", op, Row("memory", m), arg)
      BY <1>2, <2>1 DEF Rewrite
    <2>4. tx' = [tx EXCEPT ![c] = t] /\ UNCHANGED <<db, area, acked, clobbered>>
      BY <2>2, <2>3, BegunCall
    <2>5. db[Row("memory", m)] # None
      BY <1>2 DEF Rewrite
    <2>6. MemoryTx(t) /\ t.op # "insert_new"
      BY <2>1, <2>2, <2>5 DEF MemoryTx, RewriteTx, MemoryOf, NewCall, IsTx, Rewrites
    <2> QED
      BY <2>4, <2>6, MemoryLocal
  <1> QED
    BY <1>1, <1>2

LEMMA MemoryReads ==
    ASSUME MemoryInv, NEW c \in Connections, ensure_default_project(c) \/ lookup_same_thread(c)
                                             \/ ReadPayload(c) \/ Rollback(c)
    PROVE  MemoryInv'
  <1>1. PICK t : t = tx[c]
    OBVIOUS
  <1>2. MemoryTx(t) /\ IsTx(t) /\ t # None
    BY <1>1 DEF ensure_default_project, lookup_same_thread, ReadPayload, Rollback, At, MemoryInv,
                MemoryTx
  <1>3. ASSUME NEW u, Continue(c, u), MemoryTx(u), u.op = t.op, u.arg = t.arg PROVE MemoryInv'
    <2>1. tx' = [tx EXCEPT ![c] = u] /\ UNCHANGED <<db, area, acked, clobbered>>
      BY <1>3 DEF Continue
    <2>2. u.op = "insert_new" =>
             \A d \in Connections : d # c /\ Inserts(d) => tx[d].arg.memory # u.arg.memory
      BY <1>1, <1>2, <1>3 DEF MemoryInv, Inserts
    <2> QED
      BY <1>3, <2>1, <2>2, MemoryLocal
  <1>4. ASSUME Rollback(c) PROVE MemoryInv'
    <2>1. tx' = [tx EXCEPT ![c] = None] /\ UNCHANGED <<db, area, acked, clobbered>>
      BY <1>4 DEF Rollback
    <2> QED
      BY <2>1, MemoryLocal
  <1>5. CASE ensure_default_project(c)
    <2>1. PICK k, row, w, n : /\ k = Row("member", t.arg.user) /\ row = db[k]
                              /\ w = Over(Only(k, row), t.writes) /\ n = t.pc + 1
      OBVIOUS
    <2>2. PICK u : u = [t EXCEPT !.pc = n, !.writes = w]
      OBVIOUS
    <2>3. t.pc = 2 /\ n = 3 /\ t.op # "_mark_chunks_state"
      BY <1>1, <1>2, <1>5, <2>1 DEF ensure_default_project, At, MemoryTx, InsertTx, RewriteTx, Rewrites
    <2>4. Continue(c, u)
      <3>1. u = [[t EXCEPT !.pc = @ + 1] EXCEPT !.writes = Over(Only(k, row), @)]
        BY <1>2, <2>1, <2>2 DEF IsTx
      <3>2. Lock(c, k, [t EXCEPT !.pc = @ + 1])
        BY <1>1, <1>5, <2>1 DEF ensure_default_project
      <3> QED
        BY <2>1, <3>1, <3>2 DEF Lock
    <2>5. SameCall(t, u) /\ u.pc = n /\ u.seen = t.seen /\ u.writes = w
      BY <1>2, <2>2 DEF IsTx, SameCall
    <2>6. DOMAIN w = {k} \cup DOMAIN t.writes /\ k \in Members
      BY <1>2, <2>1, MemoryKeys DEF Over, Only, MemoryTx
    <2>7. MemoryTx(u)
      BY <1>2, <2>3, <2>5, <2>6 DEF MemoryTx, InsertTx, RewriteTx, MemoryOf, SameCall
    <2> QED
      BY <1>3, <2>4, <2>5, <2>7 DEF SameCall
  <1>6. CASE lookup_same_thread(c)
    <2>1. t.op = "insert_new" /\ t.pc = 1
      BY <1>1, <1>6 DEF lookup_same_thread, At
    <2>2. PICK u : u = [t EXCEPT !.pc = 2]
      OBVIOUS
    <2>3. SameCall(t, u) /\ u.pc = 2 /\ u.seen = t.seen /\ u.writes = t.writes
      BY <1>2, <2>2 DEF IsTx, SameCall
    <2>4. CASE Continue(c, u) /\ (get_by_upstream_thread(t.arg) => Unthreaded(t.arg.thread))
      <3>1. InsertTx(t)
        BY <1>2, <2>1 DEF MemoryTx, RewriteTx, Rewrites
      <3>2. MemoryTx(u)
        BY <1>2, <2>3, <2>4, <3>1 DEF MemoryTx, InsertTx, MemoryOf, SameCall
      <3> QED
        BY <1>3, <2>3, <2>4, <3>2 DEF SameCall
    <2>5. CASE /\ Continue(c, u)
               /\ SameThread(t.arg) = {} \/ \E k \in SameThread(t.arg) : db[k].held
      <3>1. ASSUME get_by_upstream_thread(t.arg) PROVE Unthreaded(t.arg.thread)
        <4>1. \A k \in MemoryRows : k \in SameThread(t.arg) <=>
                db[k] # None /\ db[k].thread = t.arg.thread
          BY <3>1 DEF SameThread, get_by_upstream_thread, get_by_imported_session
        <4>2. SameThread(t.arg) \subseteq MemoryRows
          BY DEF SameThread
        <4> QED
          BY <2>5, <4>1, <4>2 DEF Unthreaded, HeldIn
      <3> QED
        BY <2>4, <2>5, <3>1
    <2> QED
      BY <1>1, <1>4, <1>6, <2>2, <2>5 DEF lookup_same_thread
  <1>7. CASE ReadPayload(c)
    <2>1. t.op \in Rewrites /\ t.pc = 1
      BY <1>1, <1>7 DEF ReadPayload, At
    <2>2. RewriteTx(t) /\ MemoryOf(t) \in MemoryRows
      BY <1>2, <2>1, MemoryKeys DEF MemoryTx, InsertTx, Rewrites, MemoryOf
    <2>3. PICK row, x : row = db[MemoryOf(t)] /\ x = row.payload
      OBVIOUS
    <2>4. row \in MemoryRecords
      BY <2>2, <2>3 DEF RewriteTx, MemoryInv
    <2>5. x \subseteq Batches
      BY <2>3, <2>4 DEF MemoryRecords
    <2>6. PICK u : u = [t EXCEPT !.pc = 2, !.seen = x]
      OBVIOUS
    <2>7. SameCall(t, u) /\ u.pc = 2 /\ u.seen = x /\ u.writes = t.writes
      BY <1>2, <2>6 DEF IsTx, SameCall
    <2>8. Continue(c, u)
      BY <1>1, <1>7, <2>3, <2>6 DEF ReadPayload, MemoryOf
    <2>9. MemoryTx(u)
      BY <1>2, <2>1, <2>2, <2>5, <2>7 DEF MemoryTx, RewriteTx, MemoryOf, SameCall
    <2> QED
      BY <1>3, <2>7, <2>8, <2>9 DEF SameCall
  <1> QED
    BY <1>4, <1>5, <1>6, <1>7

LEMMA InsertMemoryStep ==
    ASSUME MemoryInv, NEW c \in Connections, InsertMemory(c)
    PROVE  MemoryInv'
  <1>1. PICK t, a, k, x : t = tx[c] /\ a = t.arg /\ k = Row("memory", a.memory) /\ x = Raced(c)
    OBVIOUS
  <1>2. t # None /\ t.op = "insert_new" /\ t.pc = 3
    BY <1>1 DEF InsertMemory, At
  <1>3. MemoryTx(t) /\ InsertTx(t) /\ a.memory \in Memories /\ a.batch \in Batches
    BY <1>1, <1>2 DEF MemoryInv, MemoryTx, RewriteTx, Rewrites
  <1>4. k = MemoryOf(t) /\ k \in MemoryRows /\ db[k] = None
    BY <1>1, <1>3, MemoryKeys DEF MemoryOf, InsertTx
  <1>5. CASE Rollback(c)
    BY <1>5, MemoryReads
  <1>6. PICK row : row = [column |-> {a.batch}, payload |-> {a.batch}, thread |-> a.thread,
                          session |-> a.session, held |-> a.held, raced |-> x]
    OBVIOUS
  <1>7. x \in BOOLEAN /\ (~x => ~t.raced)
    BY <1>1, <1>3 DEF Raced, MemoryTx
  <1>8. /\ row \in MemoryRecords /\ row.thread = t.arg.thread /\ row.session = a.session
        /\ row.raced = x /\ row.column = {a.batch} /\ row.payload = {a.batch}
        /\ get_by_upstream_thread(row) <=> get_by_upstream_thread(a)
    BY <1>1, <1>3, <1>6, <1>7 DEF MemoryRecords, InsertTx, get_by_upstream_thread
  <1>9. CASE /\ SameConversation({a.batch}, a.session) = {} /\ Commit(c, Only(k, row))
             /\ acked' = [acked EXCEPT ![a.memory] = {a.batch}] /\ UNCHANGED clobbered
    <2>1. db'[k] = row /\ \A l \in MemoryRows : l # k => db'[l] = db[l]
      BY <1>1, <1>2, <1>4, <1>9, MemoryWrites
    <2>2. \A l \in MemoryRows : db[l] # None =>
             /\ a.session # None => db[l].session # a.session
             /\ get_by_upstream_thread(a) /\ db[l].thread = a.thread => x \/ HeldIn(a.thread)
      <3>1. \A l \in MemoryRows : db[l] # None /\ a.session # None => db[l].session # a.session
        BY <1>9 DEF SameConversation
      <3>2. get_by_upstream_thread(a) /\ ~x => Unthreaded(a.thread)
        BY <1>1, <1>2, <1>3, <1>7 DEF InsertTx
      <3> QED
        BY <1>7, <3>1, <3>2 DEF Unthreaded
    <2>6. \A thread : HeldIn(thread) => HeldIn(thread)'
      BY <1>4, <2>1 DEF HeldIn
    <2>3. Unique'
      <3> SUFFICES ASSUME NEW l \in MemoryRows, NEW n \in MemoryRows, l # n, db'[l] # None, db'[n] # None
                   PROVE  /\ db'[l].session # None => db'[l].session # db'[n].session
                          /\ Excused(db[l], db[n])'
        BY DEF Unique
      <3>1. CASE l # k /\ n # k
        BY <2>1, <2>6, <3>1 DEF MemoryInv, Unique, Excused
      <3>2. CASE l = k
        BY <1>1, <1>8, <2>1, <2>2, <2>6, <3>2 DEF Excused
      <3>3. CASE n = k
        BY <1>1, <1>8, <2>1, <2>2, <2>6, <3>3 DEF Excused
      <3> QED
        BY <3>1, <3>2, <3>3
    <2>4. acked' \in [Memories -> SUBSET Batches]
      BY <1>3, <1>9 DEF MemoryInv
    <2>5. Survive'
      <3> SUFFICES ASSUME NEW m \in Memories, db'[Row("memory", m)] # None, m \notin clobbered
                   PROVE  /\ acked'[m] \subseteq db'[Row("memory", m)].payload
                          /\ db'[Row("memory", m)].column = db'[Row("memory", m)].payload
        BY <1>9 DEF Survive
      <3>1. CASE m = a.memory
        BY <1>1, <1>3, <1>8, <1>9, <2>1, <3>1 DEF MemoryInv
      <3>2. CASE m # a.memory
        <4>1. acked'[m] = acked[m] /\ Row("memory", m) \in MemoryRows /\ Row("memory", m) # k
          BY <1>1, <1>9, <3>2, MemoryKeys DEF MemoryInv
        <4> QED
          BY <2>1, <4>1 DEF MemoryInv, Survive
      <3> QED
        BY <3>1, <3>2
    <2> QED
      BY <1>1, <1>2, <1>4, <1>8, <1>9, <2>3, <2>4, <2>5, MemoryCommit
  <1> QED
    BY <1>1, <1>5, <1>6, <1>9 DEF InsertMemory, unique_violation

(* A stored memory is written again.                                        *)
WritesMemory(c, k, x, y) == Commit(c, Only(k, [db[k] EXCEPT !.column = x, !.payload = y]))

LEMMA RewriteStep ==
    ASSUME MemoryInv, NEW c \in Connections, NEW t, t = tx[c], t # None, t.op \in Rewrites,
           t.pc \in {2, 3}, NEW k, k = MemoryOf(t), NEW x, NEW y, x \subseteq Batches, y \subseteq Batches,
           WritesMemory(c, k, x, y),
           acked' \in [Memories -> SUBSET Batches],
           \A m \in Memories : m # t.arg.memory => acked'[m] = acked[m],
           clobbered' \in {clobbered, clobbered \cup {t.arg.memory}},
           t.arg.memory \notin clobbered' => x = y /\ acked'[t.arg.memory] \subseteq y
    PROVE  MemoryInv'
  <1>1. MemoryTx(t) /\ RewriteTx(t) /\ k \in MemoryRows /\ db[k] # None
    BY MemoryKeys DEF MemoryInv, MemoryTx, MemoryOf, InsertTx, RewriteTx, Rewrites
  <1>2. PICK old : old = db[k]
    OBVIOUS
  <1>3. PICK row : row = [old EXCEPT !.column = x, !.payload = y]
    OBVIOUS
  <1>4. old \in MemoryRecords
    BY <1>1, <1>2 DEF MemoryInv
  <1>5. /\ row \in MemoryRecords /\ row.thread = old.thread /\ row.session = old.session
        /\ row.raced = old.raced /\ row.column = x /\ row.payload = y
        /\ row.held <=> old.held
        /\ get_by_upstream_thread(row) <=> get_by_upstream_thread(old)
    BY <1>3, <1>4 DEF MemoryRecords, get_by_upstream_thread
  <1>6. Commit(c, Only(k, row))
    BY <1>2, <1>3 DEF WritesMemory
  <1>7. db'[k] = row /\ \A l \in MemoryRows : l # k => db'[l] = db[l]
    BY <1>1, <1>6, MemoryWrites
  <1>8. Unique'
    <2> SUFFICES ASSUME NEW l \in MemoryRows, NEW n \in MemoryRows, l # n, db'[l] # None, db'[n] # None
                 PROVE  /\ db'[l].session # None => db'[l].session # db'[n].session
                        /\ Excused(db[l], db[n])'
      BY DEF Unique
    <2>1. \A z \in MemoryRows : db'[z] # None =>
             /\ db[z] # None /\ db'[z].session = db[z].session /\ db'[z].thread = db[z].thread
             /\ db'[z].raced = db[z].raced
             /\ get_by_upstream_thread(db'[z]) <=> get_by_upstream_thread(db[z])
      BY <1>1, <1>2, <1>5, <1>7
    <2>2. \A thread : HeldIn(thread) => HeldIn(thread)'
      <3>1. k \in MemoryRows /\ db'[k] # None
        BY <1>1, <1>5, <1>7, MemoryKeys
      <3> QED
        BY <1>2, <1>5, <1>7, <3>1 DEF HeldIn
    <2> QED
      BY <2>1, <2>2 DEF MemoryInv, Unique, Excused
  <1>9. Survive'
    <2> SUFFICES ASSUME NEW m \in Memories, db'[Row("memory", m)] # None, m \notin clobbered'
                 PROVE  /\ acked'[m] \subseteq db'[Row("memory", m)].payload
                        /\ db'[Row("memory", m)].column = db'[Row("memory", m)].payload
      BY DEF Survive
    <2>1. CASE m = t.arg.memory
      BY <1>5, <1>7, <2>1 DEF MemoryOf
    <2>2. CASE m # t.arg.memory
      <3>1. acked'[m] = acked[m] /\ Row("memory", m) \in MemoryRows /\ Row("memory", m) # k
            /\ m \notin clobbered
        BY <2>2, MemoryKeys DEF MemoryOf
      <3> QED
        BY <1>7, <3>1 DEF MemoryInv, Survive
    <2> QED
      BY <2>1, <2>2
  <1> QED
    BY <1>1, <1>2, <1>5, <1>6, <1>8, <1>9, MemoryCommit

LEMMA RewriteSteps ==
    ASSUME MemoryInv, NEW c \in Connections, append_messages(c) \/ insert(c) \/ mark_chunks_state(c)
    PROVE  MemoryInv'
  <1>1. PICK t, k, m, s : t = tx[c] /\ k = MemoryOf(t) /\ m = t.arg.memory /\ s = t.seen
    OBVIOUS
  <1>2. t # None /\ t.op \in Rewrites /\ t.pc \in {2, 3}
    BY <1>1 DEF append_messages, insert, mark_chunks_state, At, Rewrites
  <1>3. MemoryTx(t) /\ RewriteTx(t) /\ m \in Memories /\ s \subseteq Batches /\ t.arg.batch \in Batches
        /\ k \in MemoryRows /\ db[k] # None /\ k = Row("memory", m)
    BY <1>1, <1>2, MemoryKeys DEF MemoryInv, MemoryTx, MemoryOf, InsertTx, RewriteTx, Rewrites
  <1>4. PICK old : old = db[k]
    OBVIOUS
  <1>5. old \in MemoryRecords
    BY <1>3, <1>4 DEF MemoryInv
  <1>6. CASE Rollback(c)
    BY <1>6, MemoryReads
  <1>7. m \notin clobbered => acked[m] \subseteq old.payload /\ old.column = old.payload
    BY <1>3, <1>4 DEF MemoryInv, Survive
  <1>8. ASSUME NEW grown, grown = s \cup {t.arg.batch}, old.column = s,
               Commit(c, Only(k, [db[k] EXCEPT !.column = grown, !.payload = grown])),
               acked' = [acked EXCEPT ![m] = @ \cup grown], UNCHANGED clobbered
        PROVE  MemoryInv'
    <2>1. acked' \in [Memories -> SUBSET Batches] /\ acked'[m] = acked[m] \cup grown
      BY <1>3, <1>8 DEF MemoryInv
    <2>2. grown \subseteq Batches /\ \A n \in Memories : n # m => acked'[n] = acked[n]
      BY <1>3, <1>8 DEF MemoryInv
    <2>3. m \notin clobbered' => acked'[m] \subseteq grown
      BY <1>7, <1>8, <2>1
    <2>4. /\ clobbered' \in {clobbered, clobbered \cup {t.arg.memory}}
          /\ t.arg.memory \notin clobbered' => grown = grown /\ acked'[t.arg.memory] \subseteq grown
      BY <1>1, <1>8, <2>3
    <2>5. \A n \in Memories : n # t.arg.memory => acked'[n] = acked[n]
      BY <1>1, <2>2
    <2>6. WritesMemory(c, k, grown, grown)
      BY <1>8 DEF WritesMemory
    <2> QED
      BY <1>1, <1>2, <2>1, <2>2, <2>4, <2>5, <2>6, RewriteStep
  <1>9. ASSUME NEW x, x \subseteq Batches, x = s \/ x = old.column,
               Commit(c, Only(k, [db[k] EXCEPT !.column = x, !.payload = s])),
               UNCHANGED acked, clobbered' = IF old.payload = s THEN clobbered ELSE clobbered \cup {m}
        PROVE  MemoryInv'
    <2>1. acked' \in [Memories -> SUBSET Batches] /\ \A n \in Memories : acked'[n] = acked[n]
      BY <1>9 DEF MemoryInv
    <2>2. m \notin clobbered' => x = s /\ acked'[m] \subseteq s
      BY <1>3, <1>7, <1>9, <2>1
    <2>3. /\ clobbered' \in {clobbered, clobbered \cup {t.arg.memory}}
          /\ t.arg.memory \notin clobbered' => x = s /\ acked'[t.arg.memory] \subseteq s
      BY <1>1, <1>9, <2>2
    <2>4. \A n \in Memories : n # t.arg.memory => acked'[n] = acked[n]
      BY <2>1
    <2>5. s \subseteq Batches
      BY <1>3
    <2>6. WritesMemory(c, k, x, s)
      BY <1>9 DEF WritesMemory
    <2> QED
      BY <1>1, <1>2, <1>9, <2>1, <2>3, <2>4, <2>5, <2>6, RewriteStep
  <1>10. CASE append_messages(c)
    <2>1. PICK grown : grown = s \cup {t.arg.batch}
      OBVIOUS
    <2> QED
      BY <1>1, <1>3, <1>4, <1>6, <1>8, <1>10, <2>1 DEF append_messages, expected_conversation_hash
  <1>11. CASE insert(c)
    BY <1>1, <1>3, <1>4, <1>6, <1>9, <1>11 DEF insert, WriteBack
  <1>12. CASE mark_chunks_state(c)
    <2>1. PICK x : x = old.column
      OBVIOUS
    <2>2. x \subseteq Batches
      BY <1>5, <2>1 DEF MemoryRecords
    <2>3. [old EXCEPT !.column = x, !.payload = s] = [old EXCEPT !.payload = s]
      BY <1>5, <2>1 DEF MemoryRecords
    <2> QED
      BY <1>1, <1>3, <1>4, <1>9, <1>12, <2>1, <2>2, <2>3 DEF mark_chunks_state, WriteBack
  <1> QED
    BY <1>10, <1>11, <1>12

-----------------------------------------------------------------------------
(* Refresh tokens and their families.                                       *)

RefreshRecords == [family: Families, consumed: BOOLEAN, revoked: BOOLEAN, uses: Nat, raced: BOOLEAN]
R(p) == Row("refresh", p)
A(p) == Row("access", p)
F(f) == Row("family", f)

(* The row was given to a caller exactly if it is consumed.                 *)
Counted(row) == row.uses = IF row.consumed THEN 1 ELSE 0

(* A token of the family that a revocation has to find.                     *)
Findable(p, f) == db[R(p)] # None /\ db[R(p)].family = f /\ ~db[R(p)].raced

CreateTx(t) ==
    /\ t.op = "create_oauth_refresh_token" /\ t.scope = F(t.arg.family) /\ t.pc \in {1, 2, 3}
    /\ t.arg.pair \in Pairs /\ t.arg.family \in Families /\ t.arg.user \in Users
    /\ db[R(t.arg.pair)] = None
    /\ DOMAIN t.writes \subseteq Members
    /\ t.pc = 3 => t.seen \in BOOLEAN /\ (~t.raced => t.seen = db[F(t.arg.family)])

RefreshTx(t) ==
    /\ t.op = "consume" /\ t.pc \in {1, 2}
    /\ t.arg.row \in RefreshRows /\ t.scope = t.arg.row
    /\ DOMAIN t.writes = {}

(* What a revocation writes: its family's marker, access tokens, and tokens *)
(* that are stored, which it only revokes.                                  *)
RevokesRow(k, row) ==
    /\ k \in RefreshRows /\ db[k] # None
    /\ row \in RefreshRecords /\ Counted(row)
    /\ row.revoked /\ row.family = db[k].family /\ row.raced = db[k].raced

Revokes(t, k, v) ==
    \/ k = F(t.arg.family) /\ v = TRUE
    \/ k \in AccessRows /\ v = "revoked"
    \/ RevokesRow(k, v)

(* Everything of the family is written, about to be, or revoked already.    *)
Covers(t) ==
    \A p \in Pairs : Findable(p, t.arg.family) =>
        /\ t.pc = 3 => A(p) \in t.todo \cup DOMAIN t.writes
        /\ t.pc = 4 => /\ A(p) \in DOMAIN t.writes
                       /\ db[R(p)].revoked \/ R(p) \in t.todo \cup DOMAIN t.writes

RevokeTx(t) ==
    /\ t.op \in Revocations /\ t.scope = F(t.arg.family) /\ t.pc \in {1, 2, 3, 4}
    /\ t.arg.family \in Families
    /\ t.op = "revoke_oauth_authorization_for_access_token" => t.arg.pair \in Pairs
    /\ \A k \in DOMAIN t.writes : Revokes(t, k, t.writes[k])
    /\ t.pc = 3 => t.todo \subseteq AccessRows
    /\ t.pc = 4 => \A k \in t.todo : k \in RefreshRows /\ db[k] # None
    /\ Covers(t)

TokenTx(t) ==
    /\ IsTx(t) /\ t.raced \in BOOLEAN
    /\ CreateTx(t) \/ RefreshTx(t) \/ RevokeTx(t)

Creates(c) == tx[c] # None /\ tx[c].op = "create_oauth_refresh_token"

Dead == \A p \in Pairs : db[R(p)] # None /\ db[F(db[R(p)].family)] /\ ~db[R(p)].raced =>
    db[R(p)].revoked /\ db[A(p)] = "revoked"

TokenRows ==
    /\ DOMAIN db = UNION {Members, FamilyRows, RefreshRows, AccessRows}
    /\ \A f \in Families : db[F(f)] \in BOOLEAN
    /\ \A k \in RefreshRows : /\ db[k] \in RefreshRecords \cup {None}
                              /\ db[k] # None => Counted(db[k])

TokenInv ==
    /\ area = "tokens" /\ TxFun /\ TokenRows
    /\ \A c \in Connections : tx[c] # None => TokenTx(tx[c])
    /\ \A c, d \in Connections :
         c # d /\ Creates(c) /\ Creates(d) => tx[c].arg.pair # tx[d].arg.pair
    /\ Dead

LEMMA TokenKeys ==
    /\ \A p \in Pairs : R(p) \in RefreshRows /\ A(p) \in AccessRows
    /\ \A k \in RefreshRows : /\ k \notin Members /\ k \notin AccessRows /\ k \notin FamilyRows
                              /\ \E p \in Pairs : k = R(p)
    /\ \A k \in AccessRows : k \notin Members /\ k \notin FamilyRows
    /\ \A f \in Families : F(f) \in FamilyRows /\ F(f) \notin Members
    /\ \A p, q : R(p) = R(q) => p = q
    /\ \A p, q : A(p) = A(q) => p = q
    /\ \A f, g : F(f) = F(g) => f = g
    /\ \A p, q : R(p) # F(q) /\ R(p) # A(q) /\ A(p) # F(q)
    /\ \A u \in Users : Row("member", u) \in Members
  BY DEF RefreshRows, AccessRows, FamilyRows, Members, Rows, Row, R, A, F

LEMMA NoneIsNoToken == None \notin RefreshRecords
  BY StoreAssumption DEF RefreshRecords

(* Nothing is stored: the calls of the other connections know the same.     *)
LEMMA TokenLocal ==
    ASSUME TokenInv, NEW c \in Connections, NEW t, tx' = [tx EXCEPT ![c] = t],
           t # None => TokenTx(t),
           t # None /\ t.op = "create_oauth_refresh_token" =>
             \A d \in Connections : d # c /\ Creates(d) => tx[d].arg.pair # t.arg.pair,
           UNCHANGED <<db, area>>
    PROVE  TokenInv'
  <1>1. TxFun' /\ tx'[c] = t /\ \A d \in Connections : d # c => tx'[d] = tx[d]
    BY Moved DEF TokenInv
  <1>2. \A u : TokenTx(u)' <=> TokenTx(u)
    BY DEF TokenTx, CreateTx, RefreshTx, RevokeTx, Covers, Revokes, RevokesRow, Findable
  <1>3. ASSUME NEW d \in Connections, tx'[d] # None PROVE TokenTx(tx[d])'
    <2>1. PICK u : u = tx'[d]
      OBVIOUS
    <2>2. TokenTx(u)
      BY <1>1, <1>3, <2>1 DEF TokenInv
    <2>3. TokenTx(u)'
      BY <1>2, <2>2
    <2> QED
      BY <2>1, <2>3
  <1>4. (\A a, d \in Connections :
           a # d /\ Creates(a) /\ Creates(d) => tx[a].arg.pair # tx[d].arg.pair)'
    BY <1>1 DEF TokenInv, Creates
  <1>5. Dead' /\ TokenRows'
    BY DEF TokenInv, Dead, TokenRows
  <1> QED
    BY <1>1, <1>3, <1>4, <1>5 DEF TokenInv

(* What a commit may do to the rows: tokens keep their family and stay      *)
(* revoked, a family is marked by a call on it, and a new token is that of  *)
(* the call and says whether that overlapped with others on its family.     *)
Grows(c, t) ==
    /\ \A k \in RefreshRows : db[k] # None =>
         /\ db'[k] # None /\ db'[k].family = db[k].family /\ db'[k].raced = db[k].raced
         /\ db[k].revoked => db'[k].revoked
    /\ \A f \in Families : db'[F(f)] # db[F(f)] => t.scope = F(f)
    /\ \A k \in RefreshRows : db[k] = None /\ db'[k] # None =>
         /\ t.op = "create_oauth_refresh_token" /\ k = R(t.arg.pair)
         /\ db'[k].family = t.arg.family /\ db'[k].raced = Raced(c)

LEMMA TokenCommit ==
    ASSUME TokenInv, NEW c \in Connections, NEW t, t = tx[c], t # None, NEW w, Commit(c, w),
           TokenRows', Dead', Grows(c, t)
    PROVE  TokenInv'
  <1>1. TokenTx(t) /\ TxFun
    BY DEF TokenInv
  <1>2. TxFun' /\ tx'[c] = None /\ area' = area /\ MarksOthers(c, t)
    BY <1>1, Committed
  <1>3. ASSUME NEW d \in Connections, tx'[d] # None PROVE TokenTx(tx[d])'
    <2>1. d # c /\ tx[d] # None
      BY <1>2, <1>3 DEF MarksOthers
    <2>2. PICK s, u : s = tx[d] /\ u = tx'[d]
      OBVIOUS
    <2> SUFFICES TokenTx(u)'
      BY <2>2
    <2>3. TokenTx(s) /\ IsTx(s)
      BY <2>1, <2>2 DEF TokenInv, TokenTx
    <2>4. /\ IsTx(u) /\ u.op = s.op /\ u.scope = s.scope /\ u.arg = s.arg
          /\ u.pc = s.pc /\ u.seen = s.seen /\ u.todo = s.todo /\ u.writes = s.writes
          /\ (s.scope = t.scope /\ u.raced = TRUE) \/ (s.scope # t.scope /\ u.raced = s.raced)
      <3>1. \/ u = s /\ s.scope # t.scope
            \/ s.scope = t.scope /\ u = [s EXCEPT !.raced = TRUE]
        BY <1>2, <2>1, <2>2 DEF MarksOthers
      <3>2. CASE u = s /\ s.scope # t.scope
        BY <2>3, <3>2
      <3>3. CASE s.scope = t.scope /\ u = [s EXCEPT !.raced = TRUE]
        BY <2>3, <3>3 DEF IsTx
      <3> QED
        BY <3>1, <3>2, <3>3
    <2>5. u.raced \in BOOLEAN
      BY <2>3, <2>4 DEF TokenTx
    <2>6. CASE RefreshTx(s)
      <3>1. RefreshTx(u)'
        BY <2>4, <2>6 DEF RefreshTx
      <3> QED
        BY <2>4, <2>5, <3>1 DEF TokenTx
    <2>7. CASE CreateTx(s)
      <3>1. db'[R(s.arg.pair)] = None
        <4>1. R(s.arg.pair) \in RefreshRows /\ db[R(s.arg.pair)] = None
          BY <2>7, TokenKeys DEF CreateTx
        <4>2. SUFFICES ASSUME db'[R(s.arg.pair)] # None PROVE FALSE
          OBVIOUS
        <4>3. t.op = "create_oauth_refresh_token" /\ R(s.arg.pair) = R(t.arg.pair)
          BY <4>1, <4>2 DEF Grows
        <4>4. Creates(c) /\ Creates(d) /\ s.arg.pair = t.arg.pair
          BY <2>1, <2>2, <2>7, <4>3, TokenKeys DEF Creates, CreateTx
        <4> QED
          BY <2>1, <2>2, <4>4 DEF TokenInv
      <3>2. u.pc = 3 /\ ~u.raced => u.seen = db'[F(u.arg.family)]
        <4>1. u.pc = 3 /\ ~u.raced => s.scope # t.scope /\ ~s.raced
          BY <2>4
        <4>2. s.scope # t.scope => db'[F(s.arg.family)] = db[F(s.arg.family)]
          BY <2>7 DEF Grows, CreateTx
        <4> QED
          BY <2>4, <2>7, <4>1, <4>2 DEF CreateTx
      <3>3. CreateTx(u)'
        BY <2>4, <2>7, <3>1, <3>2 DEF CreateTx
      <3> QED
        BY <2>4, <2>5, <3>3 DEF TokenTx
    <2>8. CASE RevokeTx(s)
      <3>1. \A k, v : Revokes(s, k, v) => Revokes(u, k, v)'
        BY <2>4 DEF Revokes, RevokesRow, Grows
      <3>2. ASSUME NEW p \in Pairs, Findable(p, u.arg.family)' PROVE Findable(p, s.arg.family)
        <4>1. R(p) \in RefreshRows /\ db'[R(p)] # None
          BY <3>2, TokenKeys DEF Findable
        <4>2. CASE db[R(p)] # None
          BY <2>4, <3>2, <4>1, <4>2 DEF Findable, Grows
        <4>3. CASE db[R(p)] = None
          <5>1. /\ t.op = "create_oauth_refresh_token"
                /\ db'[R(p)].family = t.arg.family /\ db'[R(p)].raced = Raced(c)
            BY <4>1, <4>3 DEF Grows
          <5>2. t.scope = F(t.arg.family)
            BY <1>1, <5>1 DEF TokenTx, CreateTx, RefreshTx, RevokeTx, Revocations
          <5>3. s.scope = t.scope
            BY <2>4, <2>8, <3>2, <5>1, <5>2 DEF Findable, RevokeTx
          <5>4. Raced(c)
            BY <2>1, <2>2, <5>3 DEF Raced
          <5> QED
            BY <3>2, <5>1, <5>4 DEF Findable
        <4> QED
          BY <4>2, <4>3
      <3>3. \A p \in Pairs : Findable(p, s.arg.family) /\ db[R(p)].revoked => db'[R(p)].revoked
        BY TokenKeys DEF Findable, Grows
      <3>4. Covers(u)'
        <4> SUFFICES ASSUME NEW p \in Pairs, Findable(p, u.arg.family)'
                     PROVE  /\ u.pc = 3 => A(p) \in u.todo \cup DOMAIN u.writes
                            /\ u.pc = 4 => /\ A(p) \in DOMAIN u.writes
                                           /\ db'[R(p)].revoked \/ R(p) \in u.todo \cup DOMAIN u.writes
          BY DEF Covers
        <4>1. Findable(p, s.arg.family)
          BY <3>2
        <4> QED
          BY <2>4, <2>8, <3>3, <4>1 DEF RevokeTx, Covers
      <3>5. u.pc = 4 => \A k \in u.todo : k \in RefreshRows /\ db'[k] # None
        BY <2>4, <2>8 DEF RevokeTx, Grows
      <3>6. \A k \in DOMAIN u.writes : Revokes(u, k, u.writes[k])'
        BY <2>4, <2>8, <3>1 DEF RevokeTx
      <3>7. RevokeTx(u)'
        BY <2>4, <2>8, <3>4, <3>5, <3>6 DEF RevokeTx
      <3> QED
        BY <2>4, <2>5, <3>7 DEF TokenTx
    <2> QED
      BY <2>3, <2>6, <2>7, <2>8 DEF TokenTx
  <1>4. (\A a, d \in Connections :
           a # d /\ Creates(a) /\ Creates(d) => tx[a].arg.pair # tx[d].arg.pair)'
    <2>1. ASSUME NEW d \in Connections, Creates(d)' PROVE Creates(d) /\ tx'[d].arg = tx[d].arg
      <3>1. d # c /\ tx[d] # None /\ TokenTx(tx[d])
        BY <1>2, <2>1 DEF MarksOthers, Creates, TokenInv
      <3>2. PICK s : s = tx[d]
        OBVIOUS
      <3>3. IsTx(s)
        BY <3>1, <3>2 DEF TokenTx
      <3>4. tx'[d] = s \/ tx'[d] = [s EXCEPT !.raced = TRUE]
        BY <1>2, <3>1, <3>2 DEF MarksOthers
      <3>5. tx'[d].op = s.op /\ tx'[d].arg = s.arg
        BY <3>3, <3>4 DEF IsTx
      <3> QED
        BY <2>1, <3>1, <3>2, <3>5 DEF Creates
    <2> QED
      BY <2>1 DEF TokenInv
  <1> QED
    BY <1>2, <1>3, <1>4 DEF TokenInv

(* A statement of a call, and a call that ends without a trace.             *)
LEMMA TokenContinues ==
    ASSUME TokenInv, NEW c \in Connections, tx[c] # None, NEW u, Continue(c, u), TokenTx(u),
           SameCall(tx[c], u)
    PROVE  TokenInv'
  <1>1. tx' = [tx EXCEPT ![c] = u] /\ UNCHANGED <<db, area>>
    BY DEF Continue
  <1>2. u.op = "create_oauth_refresh_token" =>
           \A d \in Connections : d # c /\ Creates(d) => tx[d].arg.pair # u.arg.pair
    BY DEF TokenInv, Creates, SameCall
  <1> QED
    BY <1>1, <1>2, TokenLocal

LEMMA TokenRollback ==
    ASSUME TokenInv, NEW c \in Connections, Rollback(c)
    PROVE  TokenInv'
  <1>1. tx' = [tx EXCEPT ![c] = None] /\ UNCHANGED <<db, area>>
    BY DEF Rollback
  <1> QED
    BY <1>1, TokenLocal

LEMMA TokenBegins ==
    ASSUME TokenInv, NEW c \in Connections,
           \/ \E p \in Pairs : \/ Consume(c, "tokens", Row("refresh", p), None)
                               \/ revoke_oauth_authorization_for_access_token(c, p)
           \/ \E f \in Families : revoke_oauth_refresh_token_family(c, f)
           \/ \E f \in Families, p \in Pairs, x \in Users : create_oauth_refresh_token(c, p, f, x)
    PROVE  TokenInv'
  <1>1. ASSUME NEW p \in Pairs, Consume(c, "tokens", Row("refresh", p), None)
        PROVE  TokenInv'
    <2>1. PICK k, arg : k = R(p) /\ arg = [row |-> k, browser |-> None]
      OBVIOUS
    <2>2. PICK t : t = NewCall("consume", k, arg)
      OBVIOUS
    <2>3. Begin(c, "tokens", "consume", k, arg)
      BY <1>1, <2>1 DEF Consume, R
    <2>4. tx' = [tx EXCEPT ![c] = t] /\ UNCHANGED <<db, area>>
      BY <2>2, <2>3, BegunCall
    <2>5. k \in RefreshRows
      BY <2>1, TokenKeys
    <2>6. TokenTx(t) /\ t.op # "create_oauth_refresh_token"
      BY <2>1, <2>2, <2>5 DEF TokenTx, RefreshTx, NewCall, IsTx
    <2> QED
      BY <2>4, <2>6, TokenLocal
  <1>2. ASSUME NEW p \in Pairs, revoke_oauth_authorization_for_access_token(c, p)
        PROVE  TokenInv'
    <2>1. PICK row, g, arg : row = db[R(p)] /\ g = row.family /\ arg = [pair |-> p, family |-> g]
      OBVIOUS
    <2>2. PICK t : t = NewCall("revoke_oauth_authorization_for_access_token", F(g), arg)
      OBVIOUS
    <2>3. /\ Begin(c, "tokens", "revoke_oauth_authorization_for_access_token", F(g), arg)
          /\ row # None
      BY <1>2, <2>1 DEF revoke_oauth_authorization_for_access_token, R, F
    <2>4. tx' = [tx EXCEPT ![c] = t] /\ UNCHANGED <<db, area>>
      BY <2>2, <2>3, BegunCall
    <2>5. row \in RefreshRecords
      BY <2>1, <2>3, TokenKeys DEF TokenInv, TokenRows
    <2>6. g \in Families
      BY <2>1, <2>5 DEF RefreshRecords
    <2>7. /\ IsTx(t) /\ t.op = "revoke_oauth_authorization_for_access_token" /\ t.scope = F(g)
          /\ t.arg = arg /\ t.pc = 1 /\ DOMAIN t.writes = {} /\ t.raced = FALSE
      BY <2>2 DEF NewCall, IsTx
    <2>8. TokenTx(t)
      BY <2>1, <2>2, <2>6 DEF TokenTx, RevokeTx, Covers, Revocations, NewCall, IsTx
    <2> QED
      BY <2>4, <2>7, <2>8, TokenLocal
  <1>3. ASSUME NEW f \in Families, revoke_oauth_refresh_token_family(c, f)
        PROVE  TokenInv'
    <2>1. PICK arg : arg = [family |-> f]
      OBVIOUS
    <2>2. PICK t : t = NewCall("revoke_oauth_refresh_token_family", F(f), arg)
      OBVIOUS
    <2>3. Begin(c, "tokens", "revoke_oauth_refresh_token_family", F(f), arg)
      BY <1>3, <2>1 DEF revoke_oauth_refresh_token_family, F
    <2>4. tx' = [tx EXCEPT ![c] = t] /\ UNCHANGED <<db, area>>
      BY <2>2, <2>3, BegunCall
    <2>5. /\ IsTx(t) /\ t.op = "revoke_oauth_refresh_token_family" /\ t.scope = F(f)
          /\ t.arg = arg /\ t.pc = 1 /\ DOMAIN t.writes = {} /\ t.raced = FALSE
      BY <2>2 DEF NewCall, IsTx
    <2>6. TokenTx(t)
      BY <2>1, <2>2 DEF TokenTx, RevokeTx, Covers, Revocations, NewCall, IsTx
    <2> QED
      BY <2>4, <2>5, <2>6, TokenLocal
  <1>4. ASSUME NEW f \in Families, NEW p \in Pairs, NEW x \in Users,
               create_oauth_refresh_token(c, p, f, x)
        PROVE  TokenInv'
    <2>1. PICK arg : arg = [pair |-> p, family |-> f, user |-> x]
      OBVIOUS
    <2>2. PICK t : t = NewCall("create_oauth_refresh_token", F(f), arg)
      OBVIOUS
    <2>3. Begin(c, "tokens", "create_oauth_refresh_token", F(f), arg) /\ db[R(p)] = None
      BY <1>4, <2>1 DEF create_oauth_refresh_token, F, R
    <2>4. tx' = [tx EXCEPT ![c] = t] /\ UNCHANGED <<db, area>>
      BY <2>2, <2>3, BegunCall
    <2>5. /\ IsTx(t) /\ t.op = "create_oauth_refresh_token" /\ t.scope = F(f)
          /\ t.arg = arg /\ t.pc = 1 /\ DOMAIN t.writes = {} /\ t.raced = FALSE
      BY <2>2 DEF NewCall, IsTx
    <2>6. TokenTx(t)
      BY <2>1, <2>2, <2>3 DEF TokenTx, CreateTx, NewCall, IsTx
    <2>7. \A d \in Connections : d # c /\ Creates(d) => tx[d].arg.pair # t.arg.pair
      BY <1>4, <2>1, <2>5 DEF create_oauth_refresh_token, Creates
    <2> QED
      BY <2>4, <2>6, <2>7, TokenLocal
  <1> QED
    BY <1>1, <1>2, <1>3, <1>4

LEMMA CreateReads ==
    ASSUME TokenInv, NEW c \in Connections, ensure_default_project(c) \/ CheckFamily(c)
    PROVE  TokenInv'
  <1>1. PICK t : t = tx[c]
    OBVIOUS
  <1>2. TokenTx(t) /\ IsTx(t) /\ t # None
    BY <1>1 DEF ensure_default_project, CheckFamily, At, TokenInv, TokenTx
  <1>3. t.op = "create_oauth_refresh_token" /\ CreateTx(t)
    BY <1>1, <1>2 DEF ensure_default_project, CheckFamily, At, TokenTx, CreateTx, RefreshTx, RevokeTx,
                      Revocations
  <1>4. CASE ensure_default_project(c)
    <2>1. PICK k, row, w, n : /\ k = Row("member", t.arg.user) /\ row = db[k]
                              /\ w = Over(Only(k, row), t.writes) /\ n = t.pc + 1
      OBVIOUS
    <2>2. PICK u : u = [t EXCEPT !.pc = n, !.writes = w]
      OBVIOUS
    <2>3. t.pc = 1 /\ n = 2
      BY <1>1, <1>3, <1>4, <2>1 DEF ensure_default_project, At
    <2>4. Continue(c, u)
      <3>1. u = [[t EXCEPT !.pc = @ + 1] EXCEPT !.writes = Over(Only(k, row), @)]
        BY <1>2, <2>1, <2>2 DEF IsTx
      <3>2. Lock(c, k, [t EXCEPT !.pc = @ + 1])
        BY <1>1, <1>4, <2>1 DEF ensure_default_project
      <3> QED
        BY <2>1, <3>1, <3>2 DEF Lock
    <2>5. SameCall(t, u) /\ u.pc = n /\ u.seen = t.seen /\ u.writes = w
      BY <1>2, <2>2 DEF IsTx, SameCall
    <2>6. DOMAIN w = {k} \cup DOMAIN t.writes /\ k \in Members
      BY <1>3, <2>1, TokenKeys DEF Over, Only, CreateTx
    <2>7. TokenTx(u)
      BY <1>2, <1>3, <2>3, <2>5, <2>6 DEF TokenTx, CreateTx, SameCall
    <2> QED
      BY <1>1, <1>2, <2>4, <2>5, <2>7, TokenContinues
  <1>5. CASE CheckFamily(c)
    <2>1. PICK x : x = family_revoked(c)
      OBVIOUS
    <2>2. PICK u : u = [t EXCEPT !.pc = 3, !.seen = x]
      OBVIOUS
    <2>3. Continue(c, u)
      BY <1>1, <1>5, <2>1, <2>2 DEF CheckFamily
    <2>4. SameCall(t, u) /\ u.pc = 3 /\ u.seen = x /\ u.writes = t.writes
      BY <1>2, <2>2 DEF IsTx, SameCall
    <2>5. x = db[F(t.arg.family)] /\ x \in BOOLEAN
      BY <1>1, <1>3, <2>1 DEF family_revoked, F, CreateTx, TokenInv, TokenRows
    <2>6. TokenTx(u)
      BY <1>2, <1>3, <2>4, <2>5 DEF TokenTx, CreateTx, SameCall
    <2> QED
      BY <1>1, <1>2, <2>3, <2>4, <2>6, TokenContinues
  <1> QED
    BY <1>4, <1>5

LEMMA InsertTokenStep ==
    ASSUME TokenInv, NEW c \in Connections, InsertRefreshToken(c)
    PROVE  TokenInv'
  <1>1. PICK t, p, f, x, y : t = tx[c] /\ p = t.arg.pair /\ f = t.arg.family /\ x = Raced(c) /\ y = t.seen
    OBVIOUS
  <1>2. t # None /\ t.op = "create_oauth_refresh_token" /\ t.pc = 3
    BY <1>1 DEF InsertRefreshToken, At
  <1>3. TokenTx(t) /\ CreateTx(t)
    BY <1>1, <1>2 DEF TokenInv, TokenTx, RefreshTx, RevokeTx, Revocations
  <1>4. x \in BOOLEAN /\ (~x => ~t.raced)
    BY <1>1, <1>3 DEF Raced, TokenTx
  <1>5. p \in Pairs /\ f \in Families /\ y \in BOOLEAN /\ (~x => y = db[F(f)]) /\ db[R(p)] = None
    BY <1>1, <1>2, <1>3, <1>4 DEF CreateTx
  <1>6. PICK row : row = [family |-> f, consumed |-> FALSE, revoked |-> y, uses |-> 0, raced |-> x]
    OBVIOUS
  <1>w. PICK w : w = Over(Only(R(p), row), IF y THEN Only(A(p), "revoked") ELSE <<>>)
    OBVIOUS
  <1>7. Commit(c, w)
    BY <1>1, <1>6, <1>w DEF InsertRefreshToken, R, A
  <1>8. /\ row \in RefreshRecords /\ Counted(row) /\ row.family = f /\ row.revoked = y /\ row.raced = x
        /\ row # None
    <2>1. x \in BOOLEAN /\ y \in BOOLEAN /\ f \in Families
      BY <1>4, <1>5
    <2>2. row \in RefreshRecords /\ row.family = f /\ row.revoked = y /\ row.raced = x
      BY <1>6, <2>1 DEF RefreshRecords
    <2>3. Counted(row)
      BY <1>6 DEF Counted
    <2> QED
      BY <2>2, <2>3, NoneIsNoToken
  <1>9. /\ DOMAIN w = {R(p)} \cup (IF y THEN {A(p)} ELSE {}) /\ w[R(p)] = row
        /\ y => w[A(p)] = "revoked"
    <2>1. PICK k, l : k = R(p) /\ l = A(p)
      OBVIOUS
    <2>2. k # l
      BY <2>1, TokenKeys
    <2>3. DOMAIN Only(k, row) = {k} /\ Only(k, row)[k] = row /\ DOMAIN Only(l, "revoked") = {l}
          /\ Only(l, "revoked")[l] = "revoked"
      BY DEF Only
    <2>4. CASE y
      BY <1>w, <2>1, <2>2, <2>3, <2>4 DEF Over
    <2>5. CASE ~y
      BY <1>w, <2>1, <2>2, <2>3, <2>5 DEF Over
    <2> QED
      BY <1>5, <2>1, <2>4, <2>5
  <1>10. Stores(t, w)
    <2>1. TxFun
      BY DEF TokenInv
    <2> QED
      BY <1>1, <1>7, <2>1, Committed
  <1>11. db'[R(p)] = row /\ R(p) \in RefreshRows /\ A(p) \in AccessRows
    BY <1>5, <1>9, <1>10, TokenKeys DEF Stores
  <1>12. y => db'[A(p)] = "revoked"
    BY <1>9, <1>10 DEF Stores
  <1>13. \A k \in UNION {FamilyRows, RefreshRows, AccessRows} :
            k # R(p) /\ (k # A(p) \/ ~y) => db'[k] = db[k]
    <2> SUFFICES ASSUME NEW k \in UNION {FamilyRows, RefreshRows, AccessRows},
                        k # R(p), k # A(p) \/ ~y
                 PROVE  db'[k] = db[k]
      OBVIOUS
    <2>1. k \notin DOMAIN w
      BY <1>5, <1>9
    <2>2. k \notin Members
      BY DEF FamilyRows, RefreshRows, AccessRows, Members, Rows, Row
    <2>3. k \in DOMAIN db /\ k \notin DOMAIN t.writes
      BY <1>3, <2>2 DEF CreateTx, TokenInv, TokenRows
    <2> QED
      BY <1>10, <2>1, <2>3 DEF Stores
  <1>14. DOMAIN db' = DOMAIN db
    BY <1>1, <1>3, <1>9, <1>10, <1>11 DEF Stores, CreateTx, TokenInv, TokenRows
  <1>15. /\ \A g \in Families : db'[F(g)] = db[F(g)]
         /\ \A k \in RefreshRows : k # R(p) => db'[k] = db[k]
         /\ \A q \in Pairs : q # p => db'[R(q)] = db[R(q)] /\ db'[A(q)] = db[A(q)]
    BY <1>13, TokenKeys
  <1>16. TokenRows'
    BY <1>8, <1>11, <1>14, <1>15 DEF TokenRows, TokenInv
  <1>17. Grows(c, t)
    BY <1>1, <1>2, <1>5, <1>8, <1>11, <1>15 DEF Grows
  <1>18. Dead'
    <2> SUFFICES ASSUME NEW q \in Pairs, db'[R(q)] # None, db'[F(db'[R(q)].family)], ~db'[R(q)].raced
                 PROVE  db'[R(q)].revoked /\ db'[A(q)] = "revoked"
      BY DEF Dead
    <2>1. CASE q = p
      BY <1>5, <1>8, <1>11, <1>12, <1>15, <2>1
    <2>2. CASE q # p
      <3>1. db[R(q)] # None /\ db[R(q)].family \in Families
        BY <1>15, <2>2, TokenKeys DEF TokenInv, TokenRows, RefreshRecords
      <3> QED
        BY <1>15, <2>2, <3>1 DEF TokenInv, Dead
    <2> QED
      BY <2>1, <2>2
  <1> QED
    BY <1>1, <1>2, <1>7, <1>16, <1>17, <1>18, TokenCommit

LEMMA ConsumeTokenSteps ==
    ASSUME TokenInv, NEW c \in Connections, ConsumeFinds(c) \/ ConsumeTakes(c)
    PROVE  TokenInv'
  <1>1. PICK t, k : t = tx[c] /\ k = t.arg.row
    OBVIOUS
  <1>2. TokenTx(t) /\ IsTx(t) /\ t # None /\ t.op = "consume"
    BY <1>1 DEF ConsumeFinds, ConsumeTakes, At, TokenInv, TokenTx
  <1>3. RefreshTx(t) /\ k \in RefreshRows
    BY <1>1, <1>2 DEF TokenTx, CreateTx, RefreshTx, RevokeTx, Revocations
  <1>4. CASE Rollback(c)
    BY <1>4, TokenRollback
  <1>5. CASE Continue(c, [t EXCEPT !.pc = 2])
    <2>1. PICK u : u = [t EXCEPT !.pc = 2]
      OBVIOUS
    <2>2. SameCall(t, u) /\ u.pc = 2 /\ u.writes = t.writes
      BY <1>2, <2>1 DEF IsTx, SameCall
    <2>3. TokenTx(u)
      BY <1>2, <1>3, <2>2 DEF TokenTx, RefreshTx, SameCall
    <2> QED
      BY <1>1, <1>2, <1>5, <2>1, <2>2, <2>3, TokenContinues
  <1>6. CASE Consumable(t, db[k]) /\ Commit(c, Only(k, [db[k] EXCEPT !.consumed = TRUE, !.uses = @ + 1]))
    <2>1. PICK old, n : old = db[k] /\ n = old.uses + 1
      OBVIOUS
    <2>2. PICK row : row = [old EXCEPT !.consumed = TRUE, !.uses = n]
      OBVIOUS
    <2>3. PICK w : w = Only(k, row)
      OBVIOUS
    <2>4. k[1] = "refresh"
      BY <1>3 DEF RefreshRows, Rows, Row
    <2>5. old # None /\ ~old.consumed
      BY <1>1, <1>6, <2>1, <2>4 DEF Consumable, consume_oauth_refresh_token
    <2>6. old \in RefreshRecords /\ old.uses = 0
      BY <1>3, <2>1, <2>5 DEF TokenInv, TokenRows, Counted
    <2>7. /\ row \in RefreshRecords /\ row.consumed = TRUE /\ row.uses = 1
          /\ row.family = old.family /\ row.raced = old.raced /\ row.revoked = old.revoked
      <3>1. n = 1 /\ n \in Nat
        BY <2>1, <2>6
      <3> QED
        BY <2>2, <2>6, <3>1 DEF RefreshRecords
    <2>8. Commit(c, w)
      <3>1. row = [old EXCEPT !.consumed = TRUE, !.uses = @ + 1]
        BY <2>1, <2>2, <2>6 DEF RefreshRecords
      <3> QED
        BY <1>6, <2>1, <2>3, <3>1
    <2>9. DOMAIN w = {k} /\ w[k] = row
      BY <2>3 DEF Only
    <2>10. Stores(t, w)
      <3>1. TxFun
        BY DEF TokenInv
      <3> QED
        BY <1>1, <2>8, <3>1, Committed
    <2>11. db'[k] = row /\ DOMAIN db' = DOMAIN db /\ \A l \in DOMAIN db : l # k => db'[l] = db[l]
      BY <1>3, <2>9, <2>10 DEF Stores, RefreshTx, TokenInv, TokenRows
    <2>12. /\ \A g \in Families : db'[F(g)] = db[F(g)]
           /\ \A l \in RefreshRows : l # k => db'[l] = db[l]
           /\ \A q \in Pairs : db'[A(q)] = db[A(q)]
      BY <1>3, <2>11, TokenKeys DEF TokenInv, TokenRows
    <2>13. row # None /\ Counted(row)
      BY <2>7, NoneIsNoToken DEF Counted
    <2>14. TokenRows'
      BY <2>7, <2>11, <2>12, <2>13 DEF TokenRows, TokenInv
    <2>15. Grows(c, t)
      BY <1>1, <2>1, <2>5, <2>7, <2>11, <2>12, <2>13 DEF Grows
    <2>16. Dead'
      <3> SUFFICES ASSUME NEW q \in Pairs, db'[R(q)] # None, db'[F(db'[R(q)].family)], ~db'[R(q)].raced
                   PROVE  db'[R(q)].revoked /\ db'[A(q)] = "revoked"
        BY DEF Dead
      <3>1. /\ db[R(q)] # None /\ db'[R(q)].family = db[R(q)].family
            /\ db'[R(q)].raced = db[R(q)].raced /\ db'[R(q)].revoked = db[R(q)].revoked
        BY <2>1, <2>5, <2>7, <2>11, <2>12, TokenKeys
      <3>2. db[R(q)].family \in Families
        BY <3>1, TokenKeys DEF TokenInv, TokenRows, RefreshRecords
      <3> QED
        BY <2>12, <3>1, <3>2 DEF TokenInv, Dead
    <2> QED
      BY <1>1, <1>2, <2>8, <2>14, <2>15, <2>16, TokenCommit
  <1> QED
    BY <1>1, <1>4, <1>5, <1>6 DEF ConsumeFinds, ConsumeTakes

(* One more row is written.                                                 *)
LEMMA RevokesMore ==
    ASSUME NEW t, NEW u, NEW k, NEW v, RevokeTx(t), SameCall(t, u),
           u.writes = Over(Only(k, v), t.writes), Revokes(t, k, v)
    PROVE  /\ DOMAIN u.writes = {k} \cup DOMAIN t.writes
           /\ \A x \in DOMAIN u.writes : Revokes(u, x, u.writes[x])
  <1>1. PICK o, w : o = Only(k, v) /\ w = t.writes
    OBVIOUS
  <1>2. DOMAIN o = {k} /\ o[k] = v /\ u.writes = Over(o, w)
    BY <1>1 DEF Only
  <1>3. /\ DOMAIN u.writes = {k} \cup DOMAIN w
        /\ \A x \in DOMAIN u.writes : u.writes[x] = IF x = k THEN v ELSE w[x]
    BY <1>2 DEF Over
  <1>4. \A x, y : Revokes(u, x, y) <=> Revokes(t, x, y)
    BY DEF Revokes, SameCall
  <1>5. \A x \in DOMAIN w : Revokes(t, x, w[x])
    BY <1>1 DEF RevokeTx
  <1> QED
    BY <1>1, <1>3, <1>4, <1>5

LEMMA RevokeMarks ==
    ASSUME TokenInv, NEW c \in Connections, FamilyMarker(c) \/ RevokeOwnAccessToken(c)
    PROVE  TokenInv'
  <1>1. PICK t : t = tx[c]
    OBVIOUS
  <1>2. TokenTx(t) /\ IsTx(t) /\ t # None /\ t.op \in Revocations /\ t.pc = 1
    BY <1>1 DEF FamilyMarker, RevokeOwnAccessToken, At, TokenInv, TokenTx, Revocations
  <1>3. RevokeTx(t)
    BY <1>2 DEF TokenTx, CreateTx, RefreshTx, Revocations
  <1>4. ASSUME NEW k, NEW v, Revokes(t, k, v),
               Continue(c, [t EXCEPT !.pc = 2, !.writes = Over(Only(k, v), t.writes)])
        PROVE  TokenInv'
    <2>1. PICK w : w = Over(Only(k, v), t.writes)
      OBVIOUS
    <2>2. PICK u : u = [t EXCEPT !.pc = 2, !.writes = w]
      OBVIOUS
    <2>3. SameCall(t, u) /\ u.pc = 2 /\ u.writes = w
      BY <1>2, <2>2 DEF IsTx, SameCall
    <2>4. \A x \in DOMAIN u.writes : Revokes(u, x, u.writes[x])
      BY <1>3, <1>4, <2>1, <2>3, RevokesMore
    <2>5. TokenTx(u)
      BY <1>2, <1>3, <2>3, <2>4 DEF TokenTx, RevokeTx, Covers, SameCall
    <2> QED
      BY <1>1, <1>2, <1>4, <2>1, <2>2, <2>3, <2>5, TokenContinues
  <1>5. CASE FamilyMarker(c)
    <2>1. PICK k, x : k = F(t.arg.family) /\ x = family_revoked(c)
      OBVIOUS
    <2>2. CASE x
      <3>1. PICK u : u = [t EXCEPT !.pc = 2]
        OBVIOUS
      <3>2. SameCall(t, u) /\ u.pc = 2 /\ u.writes = t.writes
        BY <1>2, <3>1 DEF IsTx, SameCall
      <3>3. Continue(c, u)
        <4>1. u = [t EXCEPT !.pc = 2, !.writes = IF x THEN @ ELSE Over(Only(k, TRUE), @)]
          BY <1>2, <2>2, <3>1 DEF IsTx
        <4> QED
          BY <1>1, <1>5, <2>1, <4>1 DEF FamilyMarker, F
      <3>4. \A y \in DOMAIN u.writes : Revokes(u, y, u.writes[y])
        BY <1>3, <3>2 DEF RevokeTx, Revokes, SameCall
      <3>5. TokenTx(u)
        BY <1>2, <1>3, <3>2, <3>4 DEF TokenTx, RevokeTx, Covers, SameCall
      <3> QED
        BY <1>1, <1>2, <3>2, <3>3, <3>5, TokenContinues
    <2>3. CASE ~x
      <3>1. [t EXCEPT !.pc = 2, !.writes = IF x THEN @ ELSE Over(Only(k, TRUE), @)]
              = [t EXCEPT !.pc = 2, !.writes = Over(Only(k, TRUE), t.writes)]
        BY <1>2, <2>3 DEF IsTx
      <3>2. Continue(c, [t EXCEPT !.pc = 2, !.writes = Over(Only(k, TRUE), t.writes)])
        BY <1>1, <1>5, <2>1, <3>1 DEF FamilyMarker, F
      <3>3. Revokes(t, k, TRUE)
        BY <2>1 DEF Revokes
      <3> QED
        BY <1>4, <3>2, <3>3
    <2> QED
      BY <2>2, <2>3
  <1>6. CASE RevokeOwnAccessToken(c)
    <2>1. PICK k : k = A(t.arg.pair)
      OBVIOUS
    <2>2. k \in AccessRows
      BY <1>1, <1>3, <1>6, <2>1, TokenKeys DEF RevokeOwnAccessToken, At, RevokeTx
    <2>3. [t EXCEPT !.pc = 2, !.writes = Over(Only(k, "revoked"), @)]
            = [t EXCEPT !.pc = 2, !.writes = Over(Only(k, "revoked"), t.writes)]
      BY <1>2 DEF IsTx
    <2>4. Continue(c, [t EXCEPT !.pc = 2, !.writes = Over(Only(k, "revoked"), t.writes)])
      BY <1>1, <1>6, <2>1, <2>3 DEF RevokeOwnAccessToken, A
    <2>5. Revokes(t, k, "revoked")
      BY <2>2 DEF Revokes
    <2> QED
      BY <1>4, <2>4, <2>5
  <1> QED
    BY <1>5, <1>6

(* A row that was to do is written.                                         *)
LEMMA RevokeNext ==
    ASSUME TokenInv, NEW c \in Connections, NEW t, t = tx[c], t # None, RevokeTx(t), t.pc \in {3, 4},
           NEW k \in t.todo, NEW v, Revokes(t, k, v),
           Continue(c, [t EXCEPT !.todo = @ \ {k}, !.writes = Over(Only(k, v), @)])
    PROVE  TokenInv'
  <1>1. TokenTx(t) /\ IsTx(t)
    BY DEF TokenInv, TokenTx
  <1>2. PICK w, left : w = Over(Only(k, v), t.writes) /\ left = t.todo \ {k}
    OBVIOUS
  <1>3. PICK u : u = [t EXCEPT !.todo = left, !.writes = w]
    OBVIOUS
  <1>4. Continue(c, u)
    <2>1. u = [t EXCEPT !.todo = @ \ {k}, !.writes = Over(Only(k, v), @)]
      BY <1>1, <1>2, <1>3 DEF IsTx
    <2> QED
      BY <2>1
  <1>5. SameCall(t, u) /\ u.pc = t.pc /\ u.todo = left /\ u.writes = w
    BY <1>1, <1>3 DEF IsTx, SameCall
  <1>6. /\ DOMAIN u.writes = {k} \cup DOMAIN t.writes
        /\ \A x \in DOMAIN u.writes : Revokes(u, x, u.writes[x])
    BY <1>2, <1>5, RevokesMore
  <1>7. Covers(u)
    <2>1. \A x : x \in t.todo \cup DOMAIN t.writes => x \in u.todo \cup DOMAIN u.writes
      BY <1>2, <1>5, <1>6
    <2>2. \A x : x \in DOMAIN t.writes => x \in DOMAIN u.writes
      BY <1>6
    <2>3. Covers(t)
      BY DEF RevokeTx
    <2> QED
      BY <1>5, <2>1, <2>2, <2>3 DEF Covers, SameCall
  <1>8. RevokeTx(u)
    BY <1>2, <1>5, <1>6, <1>7 DEF RevokeTx, SameCall
  <1>9. TokenTx(u)
    BY <1>1, <1>5, <1>8 DEF TokenTx, SameCall
  <1> QED
    BY <1>4, <1>5, <1>9, TokenContinues

LEMMA RevokeLists ==
    ASSUME TokenInv, NEW c \in Connections, NEW t, t = tx[c], t # None, RevokeTx(t),
           \/ /\ t.pc = 2
              /\ Continue(c, [t EXCEPT !.pc = 3, !.todo = Rows("access", FamilyPairs(c))])
           \/ /\ t.pc = 3 /\ t.todo = {}
              /\ Continue(c, [t EXCEPT !.pc = 4, !.todo =
                    {k \in Rows("refresh", FamilyPairs(c)) : ~db[k].revoked}])
    PROVE  TokenInv'
  <1>1. TokenTx(t) /\ IsTx(t)
    BY DEF TokenInv, TokenTx
  <1>2. \A p : p \in FamilyPairs(c) <=> p \in Pairs /\ db[R(p)] # None /\ db[R(p)].family = t.arg.family
    BY DEF FamilyPairs, R
  <1>3. CASE /\ t.pc = 2
             /\ Continue(c, [t EXCEPT !.pc = 3, !.todo = Rows("access", FamilyPairs(c))])
    <2>1. PICK todo : todo = Rows("access", FamilyPairs(c))
      OBVIOUS
    <2>2. PICK u : u = [t EXCEPT !.pc = 3, !.todo = todo]
      OBVIOUS
    <2>3. SameCall(t, u) /\ u.pc = 3 /\ u.todo = todo /\ u.writes = t.writes
      BY <1>1, <2>2 DEF IsTx, SameCall
    <2>4. todo \subseteq AccessRows /\ \A p \in FamilyPairs(c) : A(p) \in todo
      BY <1>2, <2>1 DEF Rows, A, AccessRows
    <2>5. Covers(u)
      BY <1>2, <2>3, <2>4 DEF Covers, Findable, SameCall
    <2>6. RevokeTx(u)
      BY <2>3, <2>4, <2>5 DEF RevokeTx, SameCall, Revokes
    <2>7. TokenTx(u)
      BY <1>1, <2>3, <2>6 DEF TokenTx, SameCall
    <2> QED
      BY <1>3, <2>1, <2>2, <2>3, <2>7, TokenContinues
  <1>4. CASE /\ t.pc = 3 /\ t.todo = {}
             /\ Continue(c, [t EXCEPT !.pc = 4, !.todo =
                   {k \in Rows("refresh", FamilyPairs(c)) : ~db[k].revoked}])
    <2>1. PICK todo : todo = {k \in Rows("refresh", FamilyPairs(c)) : ~db[k].revoked}
      OBVIOUS
    <2>2. PICK u : u = [t EXCEPT !.pc = 4, !.todo = todo]
      OBVIOUS
    <2>3. SameCall(t, u) /\ u.pc = 4 /\ u.todo = todo /\ u.writes = t.writes
      BY <1>1, <2>2 DEF IsTx, SameCall
    <2>4. /\ \A k \in todo : k \in RefreshRows /\ db[k] # None
          /\ \A p \in FamilyPairs(c) : ~db[R(p)].revoked => R(p) \in todo
      <3>1. \A k : k \in Rows("refresh", FamilyPairs(c)) <=> \E p \in FamilyPairs(c) : k = R(p)
        BY DEF Rows, R
      <3> QED
        BY <1>2, <2>1, <3>1, TokenKeys
    <2>5. Covers(u)
      <3>1. Covers(t)
        BY DEF RevokeTx
      <3> QED
        BY <1>2, <1>4, <2>3, <2>4, <3>1 DEF Covers, Findable, SameCall
    <2>6. RevokeTx(u)
      BY <2>3, <2>4, <2>5 DEF RevokeTx, SameCall, Revokes
    <2>7. TokenTx(u)
      BY <1>1, <2>3, <2>6 DEF TokenTx, SameCall
    <2> QED
      BY <1>4, <2>1, <2>2, <2>3, <2>7, TokenContinues
  <1> QED
    BY <1>3, <1>4

LEMMA RevokeCommits ==
    ASSUME TokenInv, NEW c \in Connections, NEW t, t = tx[c], t # None, RevokeTx(t), t.pc = 4,
           t.todo = {}, Commit(c, <<>>)
    PROVE  TokenInv'
  <1>1. PICK w : w = <<>>
    OBVIOUS
  <1>2. DOMAIN w = {}
    BY <1>1
  <1>3. Commit(c, w) /\ TxFun
    BY <1>1 DEF TokenInv
  <1>4. Stores(t, w)
    BY <1>3, Committed
  <1>5. /\ DOMAIN db' = DOMAIN t.writes \cup DOMAIN db
        /\ \A k \in DOMAIN db : db'[k] = IF k \in DOMAIN t.writes THEN t.writes[k] ELSE db[k]
    BY <1>2, <1>4 DEF Stores
  <1>6. \A k \in DOMAIN t.writes : Revokes(t, k, t.writes[k])
    BY DEF RevokeTx
  <1>7. DOMAIN t.writes \subseteq DOMAIN db
    BY <1>6, TokenKeys DEF Revokes, RevokesRow, RevokeTx, TokenInv, TokenRows
  <1>8. ASSUME NEW g \in Families
        PROVE  db'[F(g)] = db[F(g)] \/ (g = t.arg.family /\ db'[F(g)] = TRUE)
    <2>1. F(g) \in DOMAIN db
      BY TokenKeys DEF TokenInv, TokenRows
    <2>2. CASE F(g) \in DOMAIN t.writes
      <3>1. Revokes(t, F(g), t.writes[F(g)])
        BY <1>6, <2>2
      <3>2. F(g) \notin AccessRows /\ F(g) \notin RefreshRows
        BY TokenKeys
      <3>3. F(g) = F(t.arg.family) /\ t.writes[F(g)] = TRUE
        BY <3>1, <3>2 DEF Revokes, RevokesRow
      <3>4. g = t.arg.family
        BY <3>3, TokenKeys
      <3> QED
        BY <1>5, <2>1, <2>2, <3>3, <3>4
    <2> QED
      BY <1>5, <2>1, <2>2
  <1>9. ASSUME NEW k \in RefreshRows
        PROVE  IF k \in DOMAIN t.writes THEN RevokesRow(k, db'[k]) ELSE db'[k] = db[k]
    <2>1. k \in DOMAIN db /\ k # F(t.arg.family) /\ k \notin AccessRows
      BY TokenKeys DEF TokenInv, TokenRows, RevokeTx
    <2> QED
      BY <1>5, <1>6, <2>1 DEF Revokes
  <1>10. ASSUME NEW k \in AccessRows
         PROVE  IF k \in DOMAIN t.writes THEN db'[k] = "revoked" ELSE db'[k] = db[k]
    <2>1. k \in DOMAIN db /\ k # F(t.arg.family) /\ k \notin RefreshRows
      BY TokenKeys DEF TokenInv, TokenRows, RevokeTx
    <2> QED
      BY <1>5, <1>6, <2>1 DEF Revokes, RevokesRow
  <1>11. TokenRows'
    <2>1. DOMAIN db' = DOMAIN db
      BY <1>5, <1>7
    <2>2. \A g \in Families : db'[F(g)] \in BOOLEAN
      BY <1>8 DEF TokenInv, TokenRows
    <2>3. \A k \in RefreshRows : /\ db'[k] \in RefreshRecords \cup {None}
                                 /\ db'[k] # None => Counted(db'[k])
      BY <1>9 DEF RevokesRow, TokenInv, TokenRows
    <2> QED
      BY <2>1, <2>2, <2>3 DEF TokenInv, TokenRows
  <1>12. Grows(c, t)
    <2>1. \A k \in RefreshRows : db[k] # None =>
             /\ db'[k] # None /\ db'[k].family = db[k].family /\ db'[k].raced = db[k].raced
             /\ db[k].revoked => db'[k].revoked
      BY <1>9, NoneIsNoToken DEF RevokesRow
    <2>2. \A f \in Families : db'[F(f)] # db[F(f)] => t.scope = F(f)
      BY <1>8 DEF RevokeTx
    <2>3. \A k \in RefreshRows : db[k] = None => db'[k] = None
      BY <1>9 DEF RevokesRow
    <2> QED
      BY <2>1, <2>2, <2>3 DEF Grows
  <1>13. Dead'
    <2> SUFFICES ASSUME NEW q \in Pairs, db'[R(q)] # None, db'[F(db'[R(q)].family)], ~db'[R(q)].raced
                 PROVE  db'[R(q)].revoked /\ db'[A(q)] = "revoked"
      BY DEF Dead
    <2>1. PICK k, l, g : k = R(q) /\ l = A(q) /\ g = db[k].family
      OBVIOUS
    <2>2. k \in RefreshRows /\ l \in AccessRows
      BY <2>1, TokenKeys
    <2>3. /\ db[k] # None /\ db'[k].family = g /\ db'[k].raced = db[k].raced
          /\ db[k].revoked => db'[k].revoked
      BY <1>9, <1>12, <2>1, <2>2 DEF Grows, RevokesRow
    <2>4. g \in Families
      BY <2>1, <2>2, <2>3 DEF TokenInv, TokenRows, RefreshRecords
    <2>5. CASE db[F(g)]
      <3>1. db[k].revoked /\ db[l] = "revoked"
        BY <2>1, <2>3, <2>5 DEF TokenInv, Dead
      <3> QED
        BY <1>10, <2>1, <2>2, <2>3, <3>1
    <2>6. CASE ~db[F(g)]
      <3>1. g = t.arg.family
        BY <1>8, <2>1, <2>3, <2>4, <2>6
      <3>2. Findable(q, t.arg.family)
        BY <2>1, <2>3, <3>1 DEF Findable
      <3>3. l \in DOMAIN t.writes /\ (db[k].revoked \/ k \in DOMAIN t.writes)
        BY <2>1, <3>2 DEF RevokeTx, Covers
      <3> QED
        BY <1>9, <1>10, <2>1, <2>2, <2>3, <3>3 DEF RevokesRow
    <2> QED
      BY <2>5, <2>6
  <1> QED
    BY <1>3, <1>11, <1>12, <1>13, TokenCommit

LEMMA RevokeSteps ==
    ASSUME TokenInv, NEW c \in Connections, RevokeAccessTokens(c) \/ RevokeRefreshTokens(c)
    PROVE  TokenInv'
  <1>1. PICK t : t = tx[c]
    OBVIOUS
  <1>2. TokenTx(t) /\ IsTx(t) /\ t # None /\ t.op \in Revocations
    BY <1>1 DEF RevokeAccessTokens, RevokeRefreshTokens, At, TokenInv, TokenTx
  <1>3. RevokeTx(t)
    BY <1>2 DEF TokenTx, CreateTx, RefreshTx, Revocations
  <1>4. CASE \/ /\ t.pc = 2
                /\ Continue(c, [t EXCEPT !.pc = 3, !.todo = Rows("access", FamilyPairs(c))])
             \/ /\ t.pc = 3 /\ t.todo = {}
                /\ Continue(c, [t EXCEPT !.pc = 4, !.todo =
                      {k \in Rows("refresh", FamilyPairs(c)) : ~db[k].revoked}])
    BY <1>1, <1>2, <1>3, <1>4, RevokeLists
  <1>5. ASSUME NEW k \in t.todo, t.pc = 3,
               Continue(c, [t EXCEPT !.todo = @ \ {k}, !.writes = Over(Only(k, "revoked"), @)])
        PROVE  TokenInv'
    <2>1. Revokes(t, k, "revoked")
      BY <1>3, <1>5 DEF RevokeTx, Revokes
    <2> QED
      BY <1>1, <1>2, <1>3, <1>5, <2>1, RevokeNext
  <1>6. ASSUME NEW k \in t.todo, t.pc = 4,
               Continue(c, [t EXCEPT !.todo = @ \ {k}, !.writes =
                              Over(Only(k, [db[k] EXCEPT !.revoked = TRUE]), @)])
        PROVE  TokenInv'
    <2>1. PICK old : old = db[k]
      OBVIOUS
    <2>2. PICK row : row = [old EXCEPT !.revoked = TRUE]
      OBVIOUS
    <2>3. k \in RefreshRows /\ old # None
      BY <1>3, <1>6, <2>1 DEF RevokeTx
    <2>4. old \in RefreshRecords /\ Counted(old)
      BY <2>1, <2>3 DEF TokenInv, TokenRows
    <2>5. /\ row \in RefreshRecords /\ row.revoked /\ row.family = old.family /\ row.raced = old.raced
          /\ row.uses = old.uses /\ row.consumed = old.consumed
      BY <2>2, <2>4 DEF RefreshRecords
    <2>6. Revokes(t, k, row)
      BY <2>1, <2>3, <2>4, <2>5 DEF Revokes, RevokesRow, Counted
    <2>7. Continue(c, [t EXCEPT !.todo = @ \ {k}, !.writes = Over(Only(k, row), @)])
      BY <1>6, <2>1, <2>2
    <2> QED
      BY <1>1, <1>2, <1>3, <1>6, <2>6, <2>7, RevokeNext
  <1>7. CASE t.pc = 4 /\ t.todo = {} /\ Commit(c, <<>>)
    BY <1>1, <1>2, <1>3, <1>7, RevokeCommits
  <1>8. CASE RevokeAccessTokens(c)
    BY <1>1, <1>4, <1>5, <1>8 DEF RevokeAccessTokens, At
  <1>9. CASE RevokeRefreshTokens(c)
    BY <1>1, <1>4, <1>6, <1>7, <1>9 DEF RevokeRefreshTokens, At
  <1> QED
    BY <1>8, <1>9

-----------------------------------------------------------------------------
(* Client registrations, provider logins, codes.                            *)

StateRecords == [browser: Browsers, consumed: BOOLEAN, uses: Nat]
CodeRecords == [consumed: BOOLEAN, uses: Nat]
RegLock == Row("lock", "oauth_client_registration")
GlobalLock == Row("lock", "global")

Registered == {k \in ClientRows : db[k] # None}
Waiting == {k \in StateRows : db[k] # None /\ ~db[k].consumed}
WaitingOf(b) == {k \in Waiting : db[k].browser = b}

(* What a call knows once it has counted, because it holds the lock.        *)
ClientTx(t) ==
    /\ t.op = "create_oauth_client" /\ t.pc \in {1, 2, 3}
    /\ t.arg.client \in Clients
    /\ DOMAIN t.writes \subseteq AdvisoryLocks
    /\ t.pc # 1 => RegLock \in DOMAIN t.writes
    /\ t.pc = 3 => Cardinality(Registered) < MaxClients

StateTx(t) ==
    /\ t.op = "create_oauth_provider_state" /\ t.pc \in {1, 2, 3, 4}
    /\ t.arg.state \in States /\ t.arg.browser \in Browsers
    /\ DOMAIN t.writes \subseteq AdvisoryLocks \cup StateRows
    /\ \A k \in DOMAIN t.writes : k \in StateRows => t.writes[k] = None
    /\ t.pc # 1 => GlobalLock \in DOMAIN t.writes
    /\ t.pc = 4 => /\ Cardinality(Waiting) < MaxStates
                   /\ Cardinality(WaitingOf(t.arg.browser)) < MaxBrowserStates

TakeTx(t) ==
    /\ t.op = "consume" /\ t.pc \in {1, 2}
    /\ t.arg.row \in StateRows \cup CodeRows
    /\ DOMAIN t.writes = {}

SigninTx(t) == IsTx(t) /\ (ClientTx(t) \/ StateTx(t) \/ TakeTx(t))

(* Two calls never hold the same lock.                                      *)
Apart(s, t) == \A k \in AdvisoryLocks : ~(k \in DOMAIN s.writes /\ k \in DOMAIN t.writes)
Exclusive == \A c, d \in Connections : c # d /\ tx[c] # None /\ tx[d] # None => Apart(tx[c], tx[d])

SigninRows ==
    /\ DOMAIN db = UNION {ClientRows, StateRows, CodeRows, AdvisoryLocks}
    /\ \A k \in StateRows : /\ db[k] \in StateRecords \cup {None}
                            /\ db[k] # None => Counted(db[k])
    /\ \A k \in CodeRows : db[k] \in CodeRecords /\ Counted(db[k])

Limits ==
    /\ IsFiniteSet(Registered) /\ Cardinality(Registered) <= MaxClients
    /\ IsFiniteSet(Waiting) /\ Cardinality(Waiting) <= MaxStates
    /\ \A b \in Browsers : Cardinality(WaitingOf(b)) <= MaxBrowserStates

SigninInv ==
    /\ area = "signin" /\ TxFun /\ SigninRows
    /\ \A c \in Connections : tx[c] # None => SigninTx(tx[c])
    /\ Exclusive /\ Limits

LEMMA SigninKeys ==
    /\ \A x \in Clients : Row("client", x) \in ClientRows
    /\ \A x \in States : Row("state", x) \in StateRows
    /\ \A k \in ClientRows : k \notin StateRows /\ k \notin CodeRows /\ k \notin AdvisoryLocks
    /\ \A k \in StateRows : k \notin CodeRows /\ k \notin AdvisoryLocks /\ k[1] = "state"
    /\ \A k \in CodeRows : k \notin AdvisoryLocks /\ k[1] = "code"
    /\ \A b \in Browsers : Row("lock", b) \in AdvisoryLocks
    /\ RegLock \in AdvisoryLocks /\ GlobalLock \in AdvisoryLocks
  <1>1. \A tab, ks, k : k \in Rows(tab, ks) <=> \E x \in ks : k = Row(tab, x)
    BY DEF Rows
  <1>2. \A tab, x : Row(tab, x)[1] = tab
    BY DEF Row
  <1>3. /\ \A k \in ClientRows : k[1] = "client"
        /\ \A k \in StateRows : k[1] = "state"
        /\ \A k \in CodeRows : k[1] = "code"
        /\ \A k \in AdvisoryLocks : k[1] = "lock"
    BY <1>1, <1>2 DEF ClientRows, StateRows, CodeRows, AdvisoryLocks
  <1>4. /\ \A x \in Clients : Row("client", x) \in ClientRows
        /\ \A x \in States : Row("state", x) \in StateRows
    BY <1>1 DEF ClientRows, StateRows
  <1>5. /\ \A b \in Browsers : Row("lock", b) \in AdvisoryLocks
        /\ RegLock \in AdvisoryLocks /\ GlobalLock \in AdvisoryLocks
    BY <1>1 DEF AdvisoryLocks, RegLock, GlobalLock
  <1> QED
    BY <1>3, <1>4, <1>5

LEMMA Smaller ==
    ASSUME NEW S, NEW T, IsFiniteSet(S), T \subseteq S
    PROVE  /\ IsFiniteSet(T) /\ Cardinality(T) <= Cardinality(S)
           /\ Cardinality(T) \in Nat /\ Cardinality(S) \in Nat
  BY FS_Subset, FS_CardinalityType

LEMMA OneMore ==
    ASSUME NEW S, NEW T, NEW x, IsFiniteSet(S), T \subseteq S \cup {x}
    PROVE  /\ IsFiniteSet(T) /\ Cardinality(T) <= Cardinality(S) + 1
           /\ Cardinality(T) \in Nat /\ Cardinality(S) \in Nat
  <1>1. PICK U : U = S \cup {x}
    OBVIOUS
  <1>2. IsFiniteSet(U) /\ (Cardinality(U) = Cardinality(S) \/ Cardinality(U) = Cardinality(S) + 1)
    BY <1>1, FS_AddElement
  <1>3. Cardinality(S) \in Nat
    BY FS_CardinalityType
  <1>4. IsFiniteSet(T) /\ Cardinality(T) <= Cardinality(U) /\ Cardinality(T) \in Nat
    BY <1>1, <1>2, Smaller
  <1> QED
    BY <1>2, <1>3, <1>4

LEMMA SigninLocal ==
    ASSUME SigninInv, NEW c \in Connections, NEW t, tx' = [tx EXCEPT ![c] = t],
           t # None => SigninTx(t),
           t # None => \A d \in Connections : d # c /\ tx[d] # None => Apart(t, tx[d]),
           UNCHANGED <<db, area>>
    PROVE  SigninInv'
  <1>1. TxFun' /\ tx'[c] = t /\ \A d \in Connections : d # c => tx'[d] = tx[d]
    BY Moved DEF SigninInv
  <1>2. /\ Registered' = Registered /\ Waiting' = Waiting
        /\ \A b : WaitingOf(b)' = WaitingOf(b)
    BY DEF Registered, Waiting, WaitingOf
  <1>3. \A u : SigninTx(u)' <=> SigninTx(u)
    BY <1>2 DEF SigninTx, ClientTx, StateTx, TakeTx
  <1>4. ASSUME NEW d \in Connections, tx'[d] # None PROVE SigninTx(tx[d])'
    <2>1. PICK u : u = tx'[d]
      OBVIOUS
    <2>2. SigninTx(u)
      BY <1>1, <1>4, <2>1 DEF SigninInv
    <2>3. SigninTx(u)'
      BY <1>3, <2>2
    <2> QED
      BY <2>1, <2>3
  <1>5. Exclusive'
    <2>1. ASSUME NEW d \in Connections, d # c, tx[d] # None, t # None
          PROVE  Apart(t, tx[d]) /\ Apart(tx[d], t)
      BY <2>1 DEF Apart
    <2>2. ASSUME NEW a \in Connections, NEW d \in Connections, a # d, tx'[a] # None, tx'[d] # None
          PROVE  Apart(tx'[a], tx'[d])
      BY <1>1, <2>1, <2>2 DEF SigninInv, Exclusive
    <2> QED
      BY <2>2 DEF Exclusive, Apart
  <1>6. SigninRows' /\ Limits'
    BY <1>2 DEF SigninInv, SigninRows, Limits
  <1> QED
    BY <1>1, <1>4, <1>5, <1>6 DEF SigninInv

(* A commit leaves the counts of the others true: they do not hold the lock *)
(* under which it added a row.                                              *)
Fewer ==
    /\ Waiting' \subseteq Waiting
    /\ \A b \in Browsers : WaitingOf(b)' \subseteq WaitingOf(b)

LEMMA SigninCommit ==
    ASSUME SigninInv, NEW c \in Connections, NEW t, t = tx[c], t # None, NEW w, Commit(c, w),
           SigninRows', Limits',
           Registered' \subseteq Registered \/ RegLock \in DOMAIN t.writes,
           Fewer \/ GlobalLock \in DOMAIN t.writes
    PROVE  SigninInv'
  <1>1. SigninTx(t) /\ TxFun
    BY DEF SigninInv
  <1>2. TxFun' /\ tx'[c] = None /\ area' = area /\ MarksOthers(c, t)
    BY <1>1, Committed
  <1>3. ASSUME NEW d \in Connections, tx'[d] # None
        PROVE  /\ d # c /\ tx[d] # None /\ SigninTx(tx[d])
               /\ \E s, u : /\ s = tx[d] /\ u = tx'[d] /\ IsTx(u) /\ u.op = s.op
                            /\ u.arg = s.arg /\ u.pc = s.pc /\ u.writes = s.writes
    <2>1. d # c /\ tx[d] # None
      BY <1>2, <1>3 DEF MarksOthers
    <2>2. PICK s, u : s = tx[d] /\ u = tx'[d]
      OBVIOUS
    <2>3. SigninTx(s) /\ IsTx(s)
      BY <2>1, <2>2 DEF SigninInv, SigninTx
    <2>4. u = s \/ u = [s EXCEPT !.raced = TRUE]
      BY <1>2, <2>1, <2>2 DEF MarksOthers
    <2>5. IsTx(u) /\ u.op = s.op /\ u.arg = s.arg /\ u.pc = s.pc /\ u.writes = s.writes
      BY <2>3, <2>4 DEF IsTx
    <2> QED
      BY <2>1, <2>2, <2>3, <2>5
  <1>4. ASSUME NEW d \in Connections, tx'[d] # None PROVE SigninTx(tx[d])'
    <2>1. PICK s, u : /\ s = tx[d] /\ u = tx'[d] /\ IsTx(u) /\ u.op = s.op
                      /\ u.arg = s.arg /\ u.pc = s.pc /\ u.writes = s.writes
      BY <1>3, <1>4
    <2>2. d # c /\ tx[d] # None /\ SigninTx(s)
      BY <1>3, <1>4, <2>1
    <2> SUFFICES SigninTx(u)'
      BY <2>1
    <2>3. Apart(t, s)
      BY <2>1, <2>2 DEF SigninInv, Exclusive
    <2>4. CASE TakeTx(s)
      <3>1. TakeTx(u)'
        BY <2>1, <2>4 DEF TakeTx
      <3> QED
        BY <2>1, <3>1 DEF SigninTx
    <2>5. CASE ClientTx(s)
      <3>1. s.pc = 3 => Cardinality(Registered') < MaxClients
        <4> SUFFICES ASSUME s.pc = 3 PROVE Cardinality(Registered') < MaxClients
          OBVIOUS
        <4>1. PICK S, T : S = Registered /\ T = Registered'
          OBVIOUS
        <4>2. T \subseteq S /\ IsFiniteSet(S) /\ Cardinality(S) < MaxClients
          BY <2>3, <2>5, <4>1, SigninKeys DEF ClientTx, Apart, SigninInv, Limits
        <4>3. Cardinality(T) <= Cardinality(S) /\ Cardinality(T) \in Nat /\ Cardinality(S) \in Nat
          BY <4>2, Smaller
        <4> QED
          BY <4>1, <4>2, <4>3, StoreAssumption
      <3>2. ClientTx(u)'
        BY <2>1, <2>5, <3>1 DEF ClientTx
      <3> QED
        BY <2>1, <3>2 DEF SigninTx
    <2>6. CASE StateTx(s)
      <3>1. s.pc = 4 => /\ Cardinality(Waiting') < MaxStates
                        /\ Cardinality(WaitingOf(s.arg.browser)') < MaxBrowserStates
        <4> SUFFICES ASSUME s.pc = 4
                     PROVE  /\ Cardinality(Waiting') < MaxStates
                            /\ Cardinality(WaitingOf(s.arg.browser)') < MaxBrowserStates
          OBVIOUS
        <4>1. PICK b, S, T, U, V : /\ b = s.arg.browser /\ S = Waiting /\ T = Waiting'
                                   /\ U = WaitingOf(b) /\ V = WaitingOf(b)'
          OBVIOUS
        <4>2. /\ T \subseteq S /\ V \subseteq U /\ IsFiniteSet(S)
              /\ Cardinality(S) < MaxStates /\ Cardinality(U) < MaxBrowserStates
          BY <2>3, <2>6, <4>1, SigninKeys DEF StateTx, Apart, SigninInv, Limits, Fewer
        <4>3. U \subseteq S
          BY <4>1 DEF WaitingOf
        <4>4. IsFiniteSet(U) /\ Cardinality(T) <= Cardinality(S) /\ Cardinality(T) \in Nat
              /\ Cardinality(S) \in Nat
          BY <4>2, <4>3, Smaller
        <4>5. Cardinality(V) <= Cardinality(U) /\ Cardinality(V) \in Nat /\ Cardinality(U) \in Nat
          BY <4>2, <4>4, Smaller
        <4>6. Cardinality(T) < MaxStates /\ Cardinality(V) < MaxBrowserStates
          BY <4>2, <4>4, <4>5, StoreAssumption
        <4> QED
          BY <4>1, <4>6
      <3>2. StateTx(u)'
        BY <2>1, <2>6, <3>1 DEF StateTx
      <3> QED
        BY <2>1, <3>2 DEF SigninTx
    <2> QED
      BY <2>2, <2>4, <2>5, <2>6 DEF SigninTx
  <1>5. Exclusive'
    <2>1. ASSUME NEW a \in Connections, NEW d \in Connections, a # d, tx'[a] # None, tx'[d] # None
          PROVE  Apart(tx'[a], tx'[d])
      <3>1. tx[a] # None /\ tx'[a].writes = tx[a].writes
        BY <1>3, <2>1
      <3>2. tx[d] # None /\ tx'[d].writes = tx[d].writes
        BY <1>3, <2>1
      <3> QED
        BY <2>1, <3>1, <3>2 DEF SigninInv, Exclusive, Apart
    <2> QED
      BY <2>1 DEF Exclusive, Apart
  <1> QED
    BY <1>2, <1>4, <1>5 DEF SigninInv

LEMMA SigninContinues ==
    ASSUME SigninInv, NEW c \in Connections, tx[c] # None, NEW u, Continue(c, u), SigninTx(u),
           \A k \in AdvisoryLocks : k \in DOMAIN u.writes => k \in DOMAIN tx[c].writes \/ ~Blocked(c, k)
    PROVE  SigninInv'
  <1>1. tx' = [tx EXCEPT ![c] = u] /\ UNCHANGED <<db, area>>
    BY DEF Continue
  <1>2. ASSUME NEW d \in Connections, d # c, tx[d] # None PROVE Apart(u, tx[d])
    <2>1. \A k \in AdvisoryLocks : ~Blocked(c, k) => k \notin DOMAIN tx[d].writes
      BY <1>2 DEF Blocked
    <2>2. \A k \in AdvisoryLocks : k \in DOMAIN tx[c].writes => k \notin DOMAIN tx[d].writes
      BY <1>2 DEF SigninInv, Exclusive, Apart
    <2> QED
      BY <2>1, <2>2 DEF Apart
  <1> QED
    BY <1>1, <1>2, SigninLocal

LEMMA SigninRollback ==
    ASSUME SigninInv, NEW c \in Connections, Rollback(c)
    PROVE  SigninInv'
  <1>1. tx' = [tx EXCEPT ![c] = None] /\ UNCHANGED <<db, area>>
    BY DEF Rollback
  <1> QED
    BY <1>1, SigninLocal

LEMMA SigninBegins ==
    ASSUME SigninInv, NEW c \in Connections,
           \/ \E x \in Clients : create_oauth_client(c, x)
           \/ \E x \in States, b \in Browsers : \/ create_oauth_provider_state(c, x, b)
                                               \/ Consume(c, "signin", Row("state", x), b)
           \/ \E k \in Codes : Consume(c, "signin", Row("code", k), None)
    PROVE  SigninInv'
  <1>1. ASSUME NEW op, NEW scope, NEW arg, NEW t, t = NewCall(op, scope, arg),
               Begin(c, "signin", op, scope, arg), SigninTx(t), DOMAIN t.writes = {}
        PROVE  SigninInv'
    <2>1. tx' = [tx EXCEPT ![c] = t] /\ UNCHANGED <<db, area>>
      BY <1>1, BegunCall
    <2>2. \A d \in Connections : d # c /\ tx[d] # None => Apart(t, tx[d])
      BY <1>1 DEF Apart
    <2> QED
      BY <1>1, <2>1, <2>2, SigninLocal
  <1>2. ASSUME NEW x \in Clients, create_oauth_client(c, x) PROVE SigninInv'
    <2>1. PICK arg, scope : arg = [client |-> x] /\ scope = Row("scope", "clients")
      OBVIOUS
    <2>2. PICK t : t = NewCall("create_oauth_client", scope, arg)
      OBVIOUS
    <2>3. Begin(c, "signin", "create_oauth_client", scope, arg)
      BY <1>2, <2>1 DEF create_oauth_client
    <2>4. SigninTx(t) /\ DOMAIN t.writes = {}
      BY <2>1, <2>2 DEF SigninTx, ClientTx, NewCall, IsTx
    <2> QED
      BY <1>1, <2>2, <2>3, <2>4
  <1>3. ASSUME NEW x \in States, NEW b \in Browsers, create_oauth_provider_state(c, x, b)
        PROVE  SigninInv'
    <2>1. PICK arg, scope : arg = [state |-> x, browser |-> b] /\ scope = Row("scope", "states")
      OBVIOUS
    <2>2. PICK t : t = NewCall("create_oauth_provider_state", scope, arg)
      OBVIOUS
    <2>3. Begin(c, "signin", "create_oauth_provider_state", scope, arg)
      BY <1>3, <2>1 DEF create_oauth_provider_state
    <2>4. SigninTx(t) /\ DOMAIN t.writes = {}
      BY <2>1, <2>2 DEF SigninTx, StateTx, NewCall, IsTx
    <2> QED
      BY <1>1, <2>2, <2>3, <2>4
  <1>4. ASSUME NEW k \in StateRows \cup CodeRows, NEW b, Consume(c, "signin", k, b)
        PROVE  SigninInv'
    <2>1. PICK arg : arg = [row |-> k, browser |-> b]
      OBVIOUS
    <2>2. PICK t : t = NewCall("consume", k, arg)
      OBVIOUS
    <2>3. Begin(c, "signin", "consume", k, arg)
      BY <1>4, <2>1 DEF Consume
    <2>4. SigninTx(t) /\ DOMAIN t.writes = {}
      BY <2>1, <2>2 DEF SigninTx, TakeTx, NewCall, IsTx
    <2> QED
      BY <1>1, <2>2, <2>3, <2>4
  <1>5. /\ \A x \in States : Row("state", x) \in StateRows \cup CodeRows
        /\ \A x \in Codes : Row("code", x) \in StateRows \cup CodeRows
    BY DEF StateRows, CodeRows, Rows
  <1> QED
    BY <1>2, <1>3, <1>4, <1>5

LEMMA LockStep ==
    ASSUME SigninInv, NEW c \in Connections, NEW t, t = tx[c], t # None, ClientTx(t) \/ StateTx(t),
           NEW k \in AdvisoryLocks, NEW n, n \in {2, 3}, n = t.pc + 1,
           ClientTx(t) => n = 2 /\ k = RegLock, StateTx(t) => n = 3 \/ k = GlobalLock,
           Lock(c, k, [t EXCEPT !.pc = n])
    PROVE  SigninInv'
  <1>1. SigninTx(t) /\ IsTx(t)
    BY DEF SigninInv, SigninTx
  <1>2. PICK row, w : row = db[k] /\ w = Over(Only(k, row), t.writes)
    OBVIOUS
  <1>3. PICK u : u = [t EXCEPT !.pc = n, !.writes = w]
    OBVIOUS
  <1>4. Continue(c, u) /\ ~Blocked(c, k)
    <2>1. u = [[t EXCEPT !.pc = n] EXCEPT !.writes = Over(Only(k, row), @)]
      BY <1>1, <1>2, <1>3 DEF IsTx
    <2> QED
      BY <1>2, <2>1 DEF Lock
  <1>5. SameCall(t, u) /\ u.pc = n /\ u.writes = w
    BY <1>1, <1>3 DEF IsTx, SameCall
  <1>6. /\ DOMAIN w = {k} \cup DOMAIN t.writes
        /\ \A x \in DOMAIN w : x # k => w[x] = t.writes[x]
    BY <1>2 DEF Over, Only
  <1>7. k \notin StateRows
    BY SigninKeys
  <1>8. CASE ClientTx(t)
    <2>1. ClientTx(u)
      BY <1>5, <1>6, <1>8 DEF ClientTx, SameCall
    <2>2. SigninTx(u)
      BY <1>5, <2>1 DEF SigninTx, SameCall
    <2> QED
      BY <1>4, <1>5, <1>6, <2>2, SigninContinues
  <1>9. CASE StateTx(t)
    <2>1. StateTx(u)
      BY <1>5, <1>6, <1>7, <1>9 DEF StateTx, SameCall
    <2>2. SigninTx(u)
      BY <1>5, <2>1 DEF SigninTx, SameCall
    <2> QED
      BY <1>4, <1>5, <1>6, <2>2, SigninContinues
  <1> QED
    BY <1>8, <1>9

LEMMA CallOf ==
    ASSUME SigninInv, NEW c \in Connections, NEW t, t = tx[c], t # None
    PROVE  /\ SigninTx(t) /\ IsTx(t)
           /\ t.op = "create_oauth_client" => ClientTx(t) /\ ~StateTx(t)
           /\ t.op = "create_oauth_provider_state" => StateTx(t) /\ ~ClientTx(t)
           /\ t.op = "consume" => TakeTx(t)
  BY DEF SigninInv, SigninTx, ClientTx, StateTx, TakeTx

LEMMA LockSteps ==
    ASSUME SigninInv, NEW c \in Connections, RegistrationLock(c) \/ StateLocks(c)
    PROVE  SigninInv'
  <1>1. PICK t : t = tx[c]
    OBVIOUS
  <1>2. t # None
    BY <1>1 DEF RegistrationLock, StateLocks, At
  <1>3. CASE RegistrationLock(c)
    <2>1. t.op = "create_oauth_client" /\ t.pc = 1 /\ Lock(c, RegLock, [t EXCEPT !.pc = 2])
      BY <1>1, <1>3 DEF RegistrationLock, At, RegLock
    <2>2. ClientTx(t) /\ ~StateTx(t)
      BY <1>1, <1>2, <2>1, CallOf
    <2> QED
      BY <1>1, <1>2, <2>1, <2>2, SigninKeys, LockStep
  <1>4. CASE At(c, {"create_oauth_provider_state"}, 1) /\ Lock(c, GlobalLock, [t EXCEPT !.pc = 2])
    <2>1. t.op = "create_oauth_provider_state" /\ t.pc = 1
      BY <1>1, <1>4 DEF At
    <2>2. StateTx(t) /\ ~ClientTx(t)
      BY <1>1, <1>2, <2>1, CallOf
    <2> QED
      BY <1>1, <1>2, <1>4, <2>1, <2>2, SigninKeys, LockStep
  <1>5. CASE /\ At(c, {"create_oauth_provider_state"}, 2)
             /\ Lock(c, Row("lock", t.arg.browser), [t EXCEPT !.pc = 3])
    <2>1. t.op = "create_oauth_provider_state" /\ t.pc = 2
      BY <1>1, <1>5 DEF At
    <2>2. StateTx(t) /\ ~ClientTx(t)
      BY <1>1, <1>2, <2>1, CallOf
    <2>3. PICK k : k = Row("lock", t.arg.browser)
      OBVIOUS
    <2>4. k \in AdvisoryLocks
      BY <2>2, <2>3, SigninKeys DEF StateTx
    <2> QED
      BY <1>1, <1>2, <1>5, <2>1, <2>2, <2>3, <2>4, LockStep
  <1> QED
    BY <1>1, <1>3, <1>4, <1>5 DEF StateLocks, GlobalLock

LEMMA CountSteps ==
    ASSUME SigninInv, NEW c \in Connections, CountClients(c) \/ CountStates(c)
    PROVE  SigninInv'
  <1>1. PICK t : t = tx[c]
    OBVIOUS
  <1>2. t # None
    BY <1>1 DEF CountClients, CountStates, At
  <1>3. SigninTx(t) /\ IsTx(t)
    BY <1>1, <1>2, CallOf
  <1>4. CASE Rollback(c)
    BY <1>4, SigninRollback
  <1>5. CASE CountClients(c)
    <2>1. t.op = "create_oauth_client" /\ t.pc = 2
      BY <1>1, <1>5 DEF CountClients, At
    <2>2. ClientTx(t)
      BY <1>1, <1>2, <2>1, CallOf
    <2>3. PICK S : S = Registered
      OBVIOUS
    <2>4. \A k \in ClientRows : k \notin DOMAIN tx[c].writes
      BY <1>1, <2>2, SigninKeys DEF ClientTx
    <2>5. {k \in ClientRows : Sees(c, k) # None} = S
      BY <2>3, <2>4 DEF Sees, Registered
    <2>6. Cardinality(S) \in Nat
      BY <2>3, FS_CardinalityType DEF SigninInv, Limits
    <2>7. CASE ~(Cardinality(S) >= MaxClients) /\ Continue(c, [t EXCEPT !.pc = 3])
      <3>1. PICK u : u = [t EXCEPT !.pc = 3]
        OBVIOUS
      <3>2. SameCall(t, u) /\ u.pc = 3 /\ u.writes = t.writes
        BY <1>3, <3>1 DEF IsTx, SameCall
      <3>3. Cardinality(Registered) < MaxClients
        BY <2>3, <2>6, <2>7, StoreAssumption
      <3>4. ClientTx(u)
        BY <2>1, <2>2, <3>2, <3>3 DEF ClientTx, SameCall
      <3>5. SigninTx(u)
        BY <3>2, <3>4 DEF SigninTx, SameCall
      <3> QED
        BY <1>1, <1>2, <2>7, <3>1, <3>2, <3>5, SigninContinues
    <2> QED
      BY <1>1, <1>4, <1>5, <2>5, <2>7 DEF CountClients
  <1>6. CASE CountStates(c)
    <2>1. t.op = "create_oauth_provider_state" /\ t.pc = 3
      BY <1>1, <1>6 DEF CountStates, At
    <2>2. StateTx(t)
      BY <1>1, <1>2, <2>1, CallOf
    <2>3. PICK b, used, left, own :
             /\ b = t.arg.browser /\ used = {k \in StateRows : db[k] # None /\ db[k].consumed}
             /\ left = Waiting /\ own = WaitingOf(b)
      OBVIOUS
    <2>4. left = {k \in StateRows : db[k] # None} \ used
      BY <2>3 DEF Waiting
    <2>5. own = {k \in left : db[k].browser = tx[c].arg.browser}
      BY <1>1, <2>3 DEF WaitingOf
    <2>6. Cardinality(left) \in Nat /\ Cardinality(own) \in Nat
      <3>1. IsFiniteSet(left) /\ own \subseteq left
        BY <2>3, <2>5 DEF SigninInv, Limits
      <3> QED
        BY <3>1, Smaller
    <2>7. PICK none : none = [k \in used |-> None]
      OBVIOUS
    <2>8. CASE /\ ~(Cardinality(left) >= MaxStates) /\ ~(Cardinality(own) >= MaxBrowserStates)
               /\ Continue(c, [t EXCEPT !.pc = 4, !.writes = Over(none, @)])
      <3>1. PICK w : w = Over(none, t.writes)
        OBVIOUS
      <3>2. PICK u : u = [t EXCEPT !.pc = 4, !.writes = w]
        OBVIOUS
      <3>3. Continue(c, u)
        <4>1. u = [t EXCEPT !.pc = 4, !.writes = Over(none, @)]
          BY <1>3, <3>1, <3>2 DEF IsTx
        <4> QED
          BY <2>8, <4>1
      <3>4. SameCall(t, u) /\ u.pc = 4 /\ u.writes = w
        BY <1>3, <3>2 DEF IsTx, SameCall
      <3>5. DOMAIN none = used /\ \A k \in used : none[k] = None
        BY <2>7
      <3>6. /\ DOMAIN w = used \cup DOMAIN t.writes
            /\ \A k \in DOMAIN w : w[k] = IF k \in used THEN None ELSE t.writes[k]
        BY <3>1, <3>5 DEF Over
      <3>7. Cardinality(Waiting) < MaxStates /\ Cardinality(WaitingOf(b)) < MaxBrowserStates
        BY <2>3, <2>6, <2>8, StoreAssumption
      <3>8. used \subseteq StateRows
        BY <2>3
      <3>9. StateTx(u)
        BY <2>1, <2>2, <2>3, <3>4, <3>6, <3>7, <3>8 DEF StateTx, SameCall
      <3>10. SigninTx(u)
        BY <3>4, <3>9 DEF SigninTx, SameCall
      <3>11. \A k \in AdvisoryLocks : k \in DOMAIN u.writes => k \in DOMAIN t.writes
        BY <3>4, <3>6, <3>8, SigninKeys
      <3> QED
        BY <1>1, <1>2, <3>3, <3>10, <3>11, SigninContinues
    <2>9. \/ Rollback(c)
          \/ /\ ~(Cardinality(left) >= MaxStates) /\ ~(Cardinality(own) >= MaxBrowserStates)
             /\ Continue(c, [t EXCEPT !.pc = 4, !.writes = Over(none, @)])
      BY <1>1, <1>6, <2>3, <2>4, <2>5, <2>7 DEF CountStates
    <2> QED
      BY <1>4, <2>8, <2>9
  <1> QED
    BY <1>5, <1>6

LEMMA InsertClientStep ==
    ASSUME SigninInv, NEW c \in Connections, InsertClient(c)
    PROVE  SigninInv'
  <1>1. PICK t, k, w : t = tx[c] /\ k = Row("client", t.arg.client) /\ w = Only(k, TRUE)
    OBVIOUS
  <1>2. t # None /\ t.op = "create_oauth_client" /\ t.pc = 3 /\ Commit(c, w)
    BY <1>1 DEF InsertClient, At
  <1>3. ClientTx(t)
    BY <1>1, <1>2, CallOf
  <1>4. DOMAIN w = {k} /\ k \in ClientRows
    BY <1>1, <1>3, SigninKeys DEF Only, ClientTx
  <1>5. Stores(t, w)
    <2>1. TxFun
      BY DEF SigninInv
    <2> QED
      BY <1>1, <1>2, <2>1, Committed
  <1>6. /\ DOMAIN db' = DOMAIN db
        /\ \A l \in DOMAIN db : l # k /\ l \notin AdvisoryLocks => db'[l] = db[l]
    BY <1>3, <1>4, <1>5 DEF Stores, ClientTx, SigninInv, SigninRows
  <1>7. /\ \A l \in ClientRows : l # k => db'[l] = db[l]
        /\ \A l \in StateRows : db'[l] = db[l]
        /\ \A l \in CodeRows : db'[l] = db[l]
    BY <1>4, <1>6, SigninKeys DEF SigninInv, SigninRows
  <1>8. SigninRows'
    BY <1>6, <1>7 DEF SigninInv, SigninRows
  <1>9. PICK S, T : S = Registered /\ T = Registered'
    OBVIOUS
  <1>10. T \subseteq S \cup {k}
    BY <1>7, <1>9 DEF Registered
  <1>11. IsFiniteSet(S) /\ Cardinality(S) < MaxClients
    BY <1>2, <1>3, <1>9 DEF ClientTx, SigninInv, Limits
  <1>12. /\ IsFiniteSet(T) /\ Cardinality(T) <= Cardinality(S) + 1
         /\ Cardinality(T) \in Nat /\ Cardinality(S) \in Nat
    BY <1>10, <1>11, OneMore
  <1>13. Cardinality(T) <= MaxClients
    BY <1>11, <1>12, StoreAssumption
  <1>14. Waiting' = Waiting /\ \A b : WaitingOf(b)' = WaitingOf(b)
    <2>1. Waiting' = Waiting
      BY <1>7 DEF Waiting
    <2>2. \A l \in Waiting : db'[l] = db[l]
      BY <1>7 DEF Waiting
    <2> QED
      BY <2>1, <2>2 DEF WaitingOf
  <1>15. Limits'
    BY <1>9, <1>12, <1>13, <1>14 DEF SigninInv, Limits
  <1>16. Fewer /\ RegLock \in DOMAIN t.writes
    BY <1>2, <1>3, <1>14 DEF Fewer, ClientTx
  <1> QED
    BY <1>1, <1>2, <1>8, <1>15, <1>16, SigninCommit

LEMMA InsertStateStep ==
    ASSUME SigninInv, NEW c \in Connections, InsertState(c)
    PROVE  SigninInv'
  <1>1. PICK t, b, k, row :
           /\ t = tx[c] /\ b = t.arg.browser /\ k = Row("state", t.arg.state)
           /\ row = [browser |-> b, consumed |-> FALSE, uses |-> 0]
    OBVIOUS
  <1>2. PICK w : w = Only(k, row)
    OBVIOUS
  <1>3. t # None /\ t.op = "create_oauth_provider_state" /\ t.pc = 4 /\ Commit(c, w)
    BY <1>1, <1>2 DEF InsertState, At
  <1>4. StateTx(t) /\ b \in Browsers
    <2>1. StateTx(t)
      BY <1>1, <1>3, CallOf
    <2> QED
      BY <1>1, <2>1 DEF StateTx
  <1>5. DOMAIN w = {k} /\ w[k] = row /\ k \in StateRows
    BY <1>1, <1>2, <1>4, SigninKeys DEF Only, StateTx
  <1>6. row \in StateRecords /\ Counted(row) /\ row.browser = b
    BY <1>1, <1>4 DEF StateRecords, Counted
  <1>7. Stores(t, w)
    <2>1. TxFun
      BY DEF SigninInv
    <2> QED
      BY <1>1, <1>3, <2>1, Committed
  <1>8. /\ DOMAIN db' = DOMAIN db /\ db'[k] = row
        /\ \A l \in DOMAIN db : l # k /\ l \notin AdvisoryLocks =>
              db'[l] = db[l] \/ (l \in StateRows /\ db'[l] = None)
    BY <1>4, <1>5, <1>7 DEF Stores, StateTx, SigninInv, SigninRows
  <1>9. /\ \A l \in ClientRows : db'[l] = db[l]
        /\ \A l \in StateRows : l # k => db'[l] = db[l] \/ db'[l] = None
        /\ \A l \in CodeRows : db'[l] = db[l]
    BY <1>5, <1>8, SigninKeys DEF SigninInv, SigninRows
  <1>10. SigninRows'
    <2>1. ASSUME NEW l \in StateRows
          PROVE  db'[l] \in StateRecords \cup {None} /\ (db'[l] # None => Counted(db'[l]))
      BY <1>6, <1>8, <1>9 DEF SigninInv, SigninRows
    <2> QED
      BY <1>8, <1>9, <2>1 DEF SigninInv, SigninRows
  <1>11. Registered' = Registered
    BY <1>9 DEF Registered
  <1>12. PICK S, T, U, V : /\ S = Waiting /\ T = Waiting'
                           /\ U = WaitingOf(b) /\ V = WaitingOf(b)'
    OBVIOUS
  <1>13. /\ T \subseteq S \cup {k} /\ V \subseteq U \cup {k} /\ U \subseteq S
         /\ \A a : a # b => WaitingOf(a)' \subseteq WaitingOf(a)
    <2>1. \A l \in T : l # k => l \in S /\ db'[l] = db[l]
      BY <1>9, <1>12 DEF Waiting
    <2> QED
      BY <1>6, <1>8, <1>12, <2>1 DEF WaitingOf
  <1>14. /\ IsFiniteSet(S) /\ Cardinality(S) < MaxStates /\ Cardinality(U) < MaxBrowserStates
         /\ \A a \in Browsers : Cardinality(WaitingOf(a)) <= MaxBrowserStates
    BY <1>1, <1>3, <1>4, <1>12 DEF StateTx, SigninInv, Limits
  <1>15. IsFiniteSet(U)
    BY <1>13, <1>14, Smaller
  <1>16. /\ IsFiniteSet(T) /\ Cardinality(T) <= Cardinality(S) + 1
         /\ Cardinality(T) \in Nat /\ Cardinality(S) \in Nat
    BY <1>13, <1>14, OneMore
  <1>17. /\ Cardinality(V) <= Cardinality(U) + 1
         /\ Cardinality(V) \in Nat /\ Cardinality(U) \in Nat
    BY <1>13, <1>15, OneMore
  <1>18. Cardinality(T) <= MaxStates /\ Cardinality(V) <= MaxBrowserStates
    BY <1>14, <1>16, <1>17, StoreAssumption
  <1>19. ASSUME NEW a \in Browsers PROVE Cardinality(WaitingOf(a)') <= MaxBrowserStates
    <2>1. CASE a = b
      BY <1>12, <1>18, <2>1
    <2>2. CASE a # b
      <3>1. PICK P, Q : P = WaitingOf(a) /\ Q = WaitingOf(a)'
        OBVIOUS
      <3>2. Q \subseteq P /\ P \subseteq S /\ Cardinality(P) <= MaxBrowserStates
        BY <1>12, <1>13, <1>14, <2>2, <3>1 DEF WaitingOf
      <3>3. IsFiniteSet(P)
        BY <1>14, <3>2, Smaller
      <3>4. Cardinality(Q) <= Cardinality(P) /\ Cardinality(Q) \in Nat /\ Cardinality(P) \in Nat
        BY <3>2, <3>3, Smaller
      <3> QED
        BY <3>1, <3>2, <3>4, StoreAssumption
    <2> QED
      BY <2>1, <2>2
  <1>20. Limits'
    BY <1>11, <1>12, <1>16, <1>18, <1>19 DEF SigninInv, Limits
  <1>21. GlobalLock \in DOMAIN t.writes
    BY <1>3, <1>4 DEF StateTx
  <1> QED
    BY <1>1, <1>3, <1>10, <1>11, <1>20, <1>21, SigninCommit

(* A login or a code is given to the caller, and is no longer waiting.      *)
LEMMA TakeStep ==
    ASSUME SigninInv, NEW c \in Connections, NEW t, t = tx[c], t # None, TakeTx(t),
           NEW k, k = t.arg.row, NEW row, db[k] # None, row # None => Counted(row), row.consumed,
           k \in StateRows => row \in StateRecords,
           k \in CodeRows => row \in CodeRecords /\ Counted(row),
           Commit(c, Only(k, row))
    PROVE  SigninInv'
  <1>1. PICK w : w = Only(k, row)
    OBVIOUS
  <1>2. DOMAIN w = {k} /\ w[k] = row /\ k \in StateRows \cup CodeRows
    BY <1>1 DEF Only, TakeTx
  <1>3. Stores(t, w)
    <2>1. TxFun /\ Commit(c, w)
      BY <1>1 DEF SigninInv
    <2> QED
      BY <2>1, Committed
  <1>4. DOMAIN db' = DOMAIN db /\ db'[k] = row /\ \A l \in DOMAIN db : l # k => db'[l] = db[l]
    BY <1>2, <1>3 DEF Stores, TakeTx, SigninInv, SigninRows
  <1>5. /\ \A l \in ClientRows : db'[l] = db[l]
        /\ \A l \in StateRows : l # k => db'[l] = db[l]
        /\ \A l \in CodeRows : l # k => db'[l] = db[l]
    BY <1>2, <1>4, SigninKeys DEF SigninInv, SigninRows
  <1>6. SigninRows'
    <2>1. ASSUME NEW l \in StateRows
          PROVE  db'[l] \in StateRecords \cup {None} /\ (db'[l] # None => Counted(db'[l]))
      BY <1>4, <1>5 DEF SigninInv, SigninRows
    <2>2. ASSUME NEW l \in CodeRows PROVE db'[l] \in CodeRecords /\ Counted(db'[l])
      BY <1>4, <1>5 DEF SigninInv, SigninRows
    <2> QED
      BY <1>4, <2>1, <2>2 DEF SigninInv, SigninRows
  <1>7. Registered' = Registered
    BY <1>5 DEF Registered
  <1>8. Fewer
    <2>1. \A l \in Waiting' : l \in Waiting /\ db'[l] = db[l]
      BY <1>4, <1>5 DEF Waiting
    <2> QED
      BY <2>1 DEF Fewer, WaitingOf
  <1>9. PICK S, T : S = Waiting /\ T = Waiting'
    OBVIOUS
  <1>10. T \subseteq S /\ IsFiniteSet(S) /\ Cardinality(S) <= MaxStates
    BY <1>8, <1>9 DEF Fewer, SigninInv, Limits
  <1>11. /\ IsFiniteSet(T) /\ Cardinality(T) <= Cardinality(S)
         /\ Cardinality(T) \in Nat /\ Cardinality(S) \in Nat
    BY <1>10, Smaller
  <1>12. Cardinality(T) <= MaxStates
    BY <1>10, <1>11, StoreAssumption
  <1>13. ASSUME NEW a \in Browsers PROVE Cardinality(WaitingOf(a)') <= MaxBrowserStates
    <2>1. PICK P, Q : P = WaitingOf(a) /\ Q = WaitingOf(a)'
      OBVIOUS
    <2>2. Q \subseteq P /\ P \subseteq S /\ Cardinality(P) <= MaxBrowserStates
      BY <1>8, <1>9, <2>1 DEF Fewer, WaitingOf, SigninInv, Limits
    <2>3. IsFiniteSet(P)
      BY <1>10, <2>2, Smaller
    <2>4. Cardinality(Q) <= Cardinality(P) /\ Cardinality(Q) \in Nat /\ Cardinality(P) \in Nat
      BY <2>2, <2>3, Smaller
    <2> QED
      BY <2>1, <2>2, <2>4, StoreAssumption
  <1>14. Limits'
    BY <1>7, <1>9, <1>11, <1>12, <1>13 DEF SigninInv, Limits
  <1> QED
    BY <1>6, <1>7, <1>8, <1>14, SigninCommit

LEMMA TakeSteps ==
    ASSUME SigninInv, NEW c \in Connections, ConsumeFinds(c) \/ ConsumeTakes(c)
    PROVE  SigninInv'
  <1>1. PICK t, k : t = tx[c] /\ k = t.arg.row
    OBVIOUS
  <1>2. t # None /\ t.op = "consume"
    BY <1>1 DEF ConsumeFinds, ConsumeTakes, At
  <1>3. SigninTx(t) /\ IsTx(t) /\ TakeTx(t)
    BY <1>1, <1>2, CallOf
  <1>4. CASE Rollback(c)
    BY <1>4, SigninRollback
  <1>5. CASE Continue(c, [t EXCEPT !.pc = 2])
    <2>1. PICK u : u = [t EXCEPT !.pc = 2]
      OBVIOUS
    <2>2. SameCall(t, u) /\ u.pc = 2 /\ u.writes = t.writes
      BY <1>3, <2>1 DEF IsTx, SameCall
    <2>3. SigninTx(u)
      BY <1>3, <2>2 DEF SigninTx, TakeTx, SameCall
    <2> QED
      BY <1>1, <1>2, <1>5, <2>1, <2>2, <2>3, SigninContinues
  <1>6. CASE Consumable(t, db[k]) /\ Commit(c, Only(k, [db[k] EXCEPT !.consumed = TRUE, !.uses = @ + 1]))
    <2>1. PICK old, n : old = db[k] /\ n = old.uses + 1
      OBVIOUS
    <2>2. PICK row : row = [old EXCEPT !.consumed = TRUE, !.uses = n]
      OBVIOUS
    <2>3. old # None /\ ~old.consumed
      <3>1. t.arg.row[1] = "state" \/ t.arg.row[1] = "code"
        BY <1>3, SigninKeys DEF TakeTx
      <3> QED
        BY <1>6, <2>1, <3>1 DEF Consumable, consume_oauth_provider_state,
                                consume_oauth_authorization_code
    <2>4. /\ k \in StateRows => old \in StateRecords
          /\ k \in CodeRows => old \in CodeRecords
          /\ old.uses = 0
      BY <1>1, <1>3, <2>1, <2>3 DEF TakeTx, SigninInv, SigninRows, Counted
    <2>5. n = 1 /\ n \in Nat
      BY <2>1, <2>4
    <2>6. CASE k \in StateRows
      <3>1. row \in StateRecords /\ row.consumed = TRUE /\ row.uses = 1
        BY <2>2, <2>4, <2>5, <2>6 DEF StateRecords
      <3>2. row = [old EXCEPT !.consumed = TRUE, !.uses = @ + 1]
        BY <2>1, <2>2, <2>4, <2>6 DEF StateRecords
      <3>3. Counted(row) /\ k \notin CodeRows
        BY <2>6, <3>1, SigninKeys DEF Counted
      <3>4. Commit(c, Only(k, row))
        BY <1>6, <2>1, <3>2
      <3> QED
        BY <1>1, <1>2, <1>3, <2>1, <2>3, <3>1, <3>3, <3>4, TakeStep
    <2>7. CASE k \in CodeRows
      <3>1. row \in CodeRecords /\ row.consumed = TRUE /\ row.uses = 1
        BY <2>2, <2>4, <2>5, <2>7 DEF CodeRecords
      <3>2. row = [old EXCEPT !.consumed = TRUE, !.uses = @ + 1]
        BY <2>1, <2>2, <2>4, <2>7 DEF CodeRecords
      <3>3. Counted(row) /\ k \notin StateRows
        BY <2>7, <3>1, SigninKeys DEF Counted
      <3>4. Commit(c, Only(k, row))
        BY <1>6, <2>1, <3>2
      <3> QED
        BY <1>1, <1>2, <1>3, <2>1, <2>3, <3>1, <3>3, <3>4, TakeStep
    <2> QED
      BY <1>1, <1>3, <2>6, <2>7 DEF TakeTx
  <1> QED
    BY <1>1, <1>4, <1>5, <1>6 DEF ConsumeFinds, ConsumeTakes

-----------------------------------------------------------------------------
(* Every step.  The calls of an area have its operations, and no others.    *)

SigninStep(c) ==
    \/ \E client \in Clients : create_oauth_client(c, client)
    \/ \E x \in States, b \in Browsers : \/ create_oauth_provider_state(c, x, b)
                                        \/ Consume(c, "signin", Row("state", x), b)
    \/ \E k \in Codes : Consume(c, "signin", Row("code", k), None)
    \/ RegistrationLock(c) \/ StateLocks(c)
    \/ CountClients(c) \/ CountStates(c)
    \/ InsertClient(c) \/ InsertState(c)

TokenStep(c) ==
    \/ \E p \in Pairs : \/ Consume(c, "tokens", Row("refresh", p), None)
                        \/ revoke_oauth_authorization_for_access_token(c, p)
    \/ \E f \in Families : revoke_oauth_refresh_token_family(c, f)
    \/ \E f \in Families, p \in Pairs, u \in Users : create_oauth_refresh_token(c, p, f, u)
    \/ CheckFamily(c) \/ InsertRefreshToken(c)
    \/ FamilyMarker(c) \/ RevokeOwnAccessToken(c)
    \/ RevokeAccessTokens(c) \/ RevokeRefreshTokens(c)

MemoryStep(c) ==
    \/ \E m \in Memories, u \in Users, b \in Batches :
         \/ \E t \in Threads \cup {None}, i \in Sessions \cup {None}, held \in BOOLEAN :
              insert_new(c, m, u, t, i, held, b)
         \/ \E op \in Rewrites : Rewrite(c, op, m, u, b)
    \/ lookup_same_thread(c) \/ ReadPayload(c)
    \/ InsertMemory(c)
    \/ append_messages(c) \/ insert(c) \/ mark_chunks_state(c)

GraphStep(c) ==
    \/ \E r \in Relationships : upsert_graph_records(c, r)
    \/ UpsertRelationship(c) \/ supersede_conflicting_relationships(c)

SharedStep(c) == ConsumeFinds(c) \/ ConsumeTakes(c) \/ ensure_default_project(c) \/ Rollback(c)

LEMMA StepOfAnArea ==
    ASSUME Next
    PROVE  \E c \in Connections :
             SigninStep(c) \/ TokenStep(c) \/ MemoryStep(c) \/ GraphStep(c) \/ SharedStep(c)
  <1>1. PICK c \in Connections :
          \/ \E client \in Clients : create_oauth_client(c, client)
          \/ RegistrationLock(c) \/ CountClients(c) \/ InsertClient(c)
          \/ \E x \in States, b \in Browsers : \/ create_oauth_provider_state(c, x, b)
                                             \/ Consume(c, "signin", Row("state", x), b)
          \/ StateLocks(c) \/ CountStates(c) \/ InsertState(c)
          \/ \E k \in Codes : Consume(c, "signin", Row("code", k), None)
          \/ \E p \in Pairs : \/ Consume(c, "tokens", Row("refresh", p), None)
                              \/ revoke_oauth_authorization_for_access_token(c, p)
          \/ ConsumeFinds(c) \/ ConsumeTakes(c)
          \/ \E f \in Families : \/ revoke_oauth_refresh_token_family(c, f)
                                 \/ \E p \in Pairs, u \in Users :
                                      create_oauth_refresh_token(c, p, f, u)
          \/ ensure_default_project(c) \/ CheckFamily(c) \/ InsertRefreshToken(c)
          \/ FamilyMarker(c) \/ RevokeOwnAccessToken(c)
          \/ RevokeAccessTokens(c) \/ RevokeRefreshTokens(c)
          \/ \E m \in Memories, u \in Users, b \in Batches :
               \/ \E t \in Threads \cup {None}, i \in Sessions \cup {None}, held \in BOOLEAN :
                    insert_new(c, m, u, t, i, held, b)
               \/ \E op \in Rewrites : Rewrite(c, op, m, u, b)
          \/ lookup_same_thread(c) \/ InsertMemory(c) \/ ReadPayload(c)
          \/ append_messages(c) \/ insert(c) \/ mark_chunks_state(c)
          \/ \E r \in Relationships : upsert_graph_records(c, r)
          \/ UpsertRelationship(c) \/ supersede_conflicting_relationships(c)
          \/ Rollback(c)
    BY Zenon DEF Next, Call, Statement
  <1>2. SigninStep(c) \/ TokenStep(c) \/ MemoryStep(c) \/ GraphStep(c) \/ SharedStep(c)
    BY <1>1, ZenonT(60) DEF SigninStep, TokenStep, MemoryStep, GraphStep, SharedStep
  <1> QED
    BY <1>2

(* A step of connection c is the beginning of a call of the area, or the    *)
(* next statement of a call with one of the operations.                     *)
Belongs(c, a, ops) == area = a \/ (tx[c] # None /\ tx[c].op \in ops)

TokenOps == {"create_oauth_refresh_token"} \cup Revocations
MemoryOps == {"insert_new"} \cup Rewrites
SigninOps == {"create_oauth_client", "create_oauth_provider_state"}
GraphOps == {"upsert_graph_records"}

LEMMA StepsBelong ==
    ASSUME NEW c
    PROVE  /\ SigninStep(c) => Belongs(c, "signin", SigninOps)
           /\ TokenStep(c) => Belongs(c, "tokens", TokenOps)
           /\ MemoryStep(c) => Belongs(c, "memories", MemoryOps)
           /\ GraphStep(c) => Belongs(c, "graph", GraphOps)
           /\ ConsumeFinds(c) \/ ConsumeTakes(c) => tx[c] # None /\ tx[c].op = "consume"
           /\ ensure_default_project(c) =>
                tx[c] # None /\ tx[c].op \in {"create_oauth_refresh_token", "insert", "insert_new", "append_messages"}
  <1>1. SigninStep(c) => Belongs(c, "signin", SigninOps)
    BY DEF SigninStep, create_oauth_client, create_oauth_provider_state, Consume, Begin, At,
           RegistrationLock, StateLocks, CountClients, CountStates, InsertClient, InsertState,
           Belongs, SigninOps
  <1>2. TokenStep(c) => Belongs(c, "tokens", TokenOps)
    BY DEF TokenStep, Consume, revoke_oauth_authorization_for_access_token, Begin, At,
           revoke_oauth_refresh_token_family, create_oauth_refresh_token, CheckFamily,
           InsertRefreshToken, FamilyMarker, RevokeOwnAccessToken, RevokeAccessTokens,
           RevokeRefreshTokens, Belongs, TokenOps, Revocations
  <1>3. MemoryStep(c) => Belongs(c, "memories", MemoryOps)
    BY DEF MemoryStep, insert_new, Rewrite, lookup_same_thread, ReadPayload, InsertMemory,
           append_messages, insert, mark_chunks_state, At, Belongs, MemoryOps, Rewrites
  <1>4. GraphStep(c) => Belongs(c, "graph", GraphOps)
    BY DEF GraphStep, upsert_graph_records, UpsertRelationship,
           supersede_conflicting_relationships, Begin, At, Belongs, GraphOps
  <1>5. ConsumeFinds(c) \/ ConsumeTakes(c) => tx[c] # None /\ tx[c].op = "consume"
    BY DEF ConsumeFinds, ConsumeTakes, At
  <1>6. ensure_default_project(c) =>
          tx[c] # None /\ tx[c].op \in {"create_oauth_refresh_token", "insert", "insert_new", "append_messages"}
    BY DEF ensure_default_project, At
  <1> QED
    BY <1>1, <1>2, <1>3, <1>4, <1>5, <1>6

LEMMA SigninNext ==
    ASSUME SigninInv, Next
    PROVE  SigninInv'
  <1>1. PICK c \in Connections :
          SigninStep(c) \/ TokenStep(c) \/ MemoryStep(c) \/ GraphStep(c) \/ SharedStep(c)
    BY StepOfAnArea
  <1>2. area = "signin" /\ (tx[c] # None => tx[c].op \in SigninOps \cup {"consume"})
    BY DEF SigninInv, SigninTx, ClientTx, StateTx, TakeTx, SigninOps
  <1>3. ~TokenStep(c) /\ ~MemoryStep(c) /\ ~GraphStep(c) /\ ~ensure_default_project(c)
    BY <1>2, StepsBelong DEF Belongs, SigninOps, TokenOps, MemoryOps, GraphOps, Revocations, Rewrites
  <1>4. CASE SigninStep(c)
    BY <1>4, SigninBegins, LockSteps, CountSteps, InsertClientStep, InsertStateStep DEF SigninStep
  <1>5. CASE SharedStep(c)
    BY <1>3, <1>5, TakeSteps, SigninRollback DEF SharedStep
  <1> QED
    BY <1>1, <1>3, <1>4, <1>5

LEMMA TokenNext ==
    ASSUME TokenInv, Next
    PROVE  TokenInv'
  <1>1. PICK c \in Connections :
          SigninStep(c) \/ TokenStep(c) \/ MemoryStep(c) \/ GraphStep(c) \/ SharedStep(c)
    BY StepOfAnArea
  <1>2. area = "tokens" /\ (tx[c] # None => tx[c].op \in TokenOps \cup {"consume"})
    BY DEF TokenInv, TokenTx, CreateTx, RefreshTx, RevokeTx, TokenOps
  <1>3. ~SigninStep(c) /\ ~MemoryStep(c) /\ ~GraphStep(c)
    BY <1>2, StepsBelong DEF Belongs, SigninOps, TokenOps, MemoryOps, GraphOps, Revocations, Rewrites
  <1>4. CASE TokenStep(c)
    BY <1>4, TokenBegins, CreateReads, InsertTokenStep, RevokeMarks, RevokeSteps DEF TokenStep
  <1>5. CASE SharedStep(c)
    BY <1>5, ConsumeTokenSteps, CreateReads, TokenRollback DEF SharedStep
  <1> QED
    BY <1>1, <1>3, <1>4, <1>5

LEMMA MemoryNext ==
    ASSUME MemoryInv, Next
    PROVE  MemoryInv'
  <1>1. PICK c \in Connections :
          SigninStep(c) \/ TokenStep(c) \/ MemoryStep(c) \/ GraphStep(c) \/ SharedStep(c)
    BY StepOfAnArea
  <1>2. area = "memories" /\ (tx[c] # None => tx[c].op \in MemoryOps)
    BY DEF MemoryInv, MemoryTx, InsertTx, RewriteTx, MemoryOps
  <1>3. /\ ~SigninStep(c) /\ ~TokenStep(c) /\ ~GraphStep(c)
        /\ ~ConsumeFinds(c) /\ ~ConsumeTakes(c)
    BY <1>2, StepsBelong DEF Belongs, SigninOps, TokenOps, MemoryOps, GraphOps, Revocations, Rewrites
  <1>4. CASE MemoryStep(c)
    BY <1>4, MemoryBegins, MemoryReads, InsertMemoryStep, RewriteSteps DEF MemoryStep
  <1>5. CASE SharedStep(c)
    BY <1>3, <1>5, MemoryReads DEF SharedStep
  <1> QED
    BY <1>1, <1>3, <1>4, <1>5

LEMMA GraphNext ==
    ASSUME GraphInv, Next
    PROVE  GraphInv'
  <1>1. PICK c \in Connections :
          SigninStep(c) \/ TokenStep(c) \/ MemoryStep(c) \/ GraphStep(c) \/ SharedStep(c)
    BY StepOfAnArea
  <1>2. area = "graph" /\ (tx[c] # None => tx[c].op \in GraphOps)
    BY DEF GraphInv, GraphTx, GraphOps
  <1>3. /\ ~SigninStep(c) /\ ~TokenStep(c) /\ ~MemoryStep(c)
        /\ ~ConsumeFinds(c) /\ ~ConsumeTakes(c) /\ ~ensure_default_project(c)
    BY <1>2, StepsBelong DEF Belongs, SigninOps, TokenOps, MemoryOps, GraphOps, Revocations, Rewrites
  <1>4. CASE GraphStep(c)
    BY <1>4, GraphBegins, GraphMoves DEF GraphStep
  <1>5. CASE Rollback(c)
    <2>1. tx' = [tx EXCEPT ![c] = None] /\ UNCHANGED <<db, area>>
      BY <1>5 DEF Rollback
    <2> QED
      BY <2>1, GraphLocal
  <1> QED
    BY <1>1, <1>3, <1>4, <1>5 DEF SharedStep

-----------------------------------------------------------------------------
(* The theorems.                                                            *)

IInv == SigninInv \/ TokenInv \/ MemoryInv \/ GraphInv

(* The tables of an area.                                                   *)
LEMMA TablesOf ==
    /\ KeysOf("signin") = UNION {ClientRows, StateRows, CodeRows, AdvisoryLocks}
    /\ KeysOf("tokens") = UNION {Members, FamilyRows, RefreshRows, AccessRows}
    /\ KeysOf("memories") = Members \cup MemoryRows
    /\ KeysOf("graph") = RelationshipRows
  BY DEF KeysOf

(* A row is of one table.                                                   *)
LEMMA TableOfRow ==
    /\ \A k \in Members : k[1] = "member"
    /\ \A k \in ClientRows : k[1] = "client"
    /\ \A k \in StateRows : k[1] = "state"
    /\ \A k \in CodeRows : k[1] = "code"
    /\ \A k \in FamilyRows : k[1] = "family"
    /\ \A k \in RefreshRows : k[1] = "refresh"
    /\ \A k \in AccessRows : k[1] = "access"
    /\ \A k \in MemoryRows : k[1] = "memory"
    /\ \A k \in RelationshipRows : k[1] = "relationship"
    /\ \A k \in AdvisoryLocks : k[1] = "lock"
  <1>1. \A tab, ks : \A k \in Rows(tab, ks) : k[1] = tab
    BY DEF Rows, Row
  <1> QED
    BY <1>1 DEF Members, ClientRows, StateRows, CodeRows, FamilyRows, RefreshRows, AccessRows,
                MemoryRows, RelationshipRows, AdvisoryLocks

LEMMA InitSignin ==
    ASSUME Init, area = "signin"
    PROVE  SigninInv
  <1>1. TxFun /\ \A c \in Connections : tx[c] = None
    BY DEF Init, TxFun
  <1>2. DOMAIN db = UNION {ClientRows, StateRows, CodeRows, AdvisoryLocks}
    BY TablesOf DEF Init
  <1>3. /\ \A k \in ClientRows : db[k] = None
        /\ \A k \in StateRows : db[k] = None
        /\ \A k \in CodeRows : db[k] = [consumed |-> FALSE, uses |-> 0]
    BY <1>2, TableOfRow DEF Init
  <1>4. SigninRows
    <2>1. PICK row : row = [consumed |-> FALSE, uses |-> 0]
      OBVIOUS
    <2>2. row \in CodeRecords /\ Counted(row)
      BY <2>1 DEF CodeRecords, Counted
    <2>3. \A k \in CodeRows : db[k] = row
      BY <1>3, <2>1
    <2> QED
      BY <1>2, <1>3, <2>2, <2>3 DEF SigninRows
  <1>5. Registered = {} /\ Waiting = {} /\ \A b : WaitingOf(b) = {}
    BY <1>3 DEF Registered, Waiting, WaitingOf
  <1>6. Limits
    BY <1>5, FS_EmptySet, StoreAssumption DEF Limits
  <1> QED
    BY <1>1, <1>4, <1>6 DEF SigninInv, Exclusive

LEMMA InitTokens ==
    ASSUME Init, area = "tokens"
    PROVE  TokenInv
  <1>1. TxFun /\ \A c \in Connections : tx[c] = None
    BY DEF Init, TxFun
  <1>2. DOMAIN db = UNION {Members, FamilyRows, RefreshRows, AccessRows}
    BY TablesOf DEF Init
  <1>3. /\ \A k \in FamilyRows : db[k] = FALSE
        /\ \A k \in RefreshRows : db[k] = None
    BY <1>2, TableOfRow DEF Init
  <1>4. TokenRows /\ Dead
    BY <1>2, <1>3, TokenKeys DEF TokenRows, Dead
  <1> QED
    BY <1>1, <1>4 DEF TokenInv, Creates

LEMMA InitMemories ==
    ASSUME Init, area = "memories"
    PROVE  MemoryInv
  <1>1. TxFun /\ \A c \in Connections : tx[c] = None
    BY DEF Init, TxFun
  <1>2. DOMAIN db = Members \cup MemoryRows
    BY TablesOf DEF Init
  <1>3. \A k \in MemoryRows : db[k] = None
    BY <1>2, TableOfRow DEF Init
  <1>4. acked \in [Memories -> SUBSET Batches]
    BY DEF Init
  <1>5. Unique /\ Survive
    BY <1>3, MemoryKeys DEF Unique, Survive
  <1> QED
    BY <1>1, <1>2, <1>3, <1>4, <1>5 DEF MemoryInv, Inserts

LEMMA InitGraph ==
    ASSUME Init, area = "graph"
    PROVE  GraphInv
  <1>1. TxFun /\ \A c \in Connections : tx[c] = None
    BY DEF Init, TxFun
  <1>2. DOMAIN db = RelationshipRows
    BY TablesOf DEF Init
  <1>3. \A k \in RelationshipRows : db[k] = None
    BY <1>2, TableOfRow DEF Init
  <1> QED
    BY <1>1, <1>2, <1>3 DEF GraphInv, OneActive, IsActive

LEMMA Stutters ==
    ASSUME IInv, UNCHANGED vars
    PROVE  IInv'
  <1>1. SigninInv => SigninInv'
    <2>1. /\ Registered' = Registered /\ Waiting' = Waiting
          /\ \A b : WaitingOf(b)' = WaitingOf(b)
      BY DEF vars, Registered, Waiting, WaitingOf
    <2>2. \A t : SigninTx(t)' <=> SigninTx(t)
      BY <2>1 DEF SigninTx, ClientTx, StateTx, TakeTx
    <2>3. Limits => Limits'
      BY <2>1 DEF Limits
    <2>4. \A c \in Connections : SigninTx(tx[c]) => SigninTx(tx[c])'
      BY <2>2 DEF vars
    <2> QED
      BY <2>3, <2>4 DEF vars, SigninInv, TxFun, SigninRows, Exclusive, Apart
  <1>2. TokenInv => TokenInv'
    BY DEF vars, TokenInv, TxFun, TokenRows, TokenTx, CreateTx, RefreshTx, RevokeTx, Revokes, RevokesRow,
           Covers, Findable, Creates, Dead
  <1>3. MemoryInv => MemoryInv'
    BY DEF vars, MemoryInv, TxFun, MemoryTx, InsertTx, RewriteTx, Unthreaded, HeldIn, Inserts, Unique, Excused,
           Survive
  <1>4. GraphInv => GraphInv'
    BY DEF vars, GraphInv, TxFun, GraphTx, OneActive, IsActive
  <1> QED
    BY <1>1, <1>2, <1>3, <1>4 DEF IInv

(* The inductive invariant: the rows and the calls in flight are those of   *)
(* one area of the store, each call has exactly what its statements so far  *)
(* have read, locked and written, and the area's guarantee holds.           *)
THEOREM StoreIsConsistent == Spec => []IInv
  <1>1. Init => IInv
    <2> SUFFICES ASSUME Init PROVE IInv
      OBVIOUS
    <2>1. area \in {"signin", "tokens", "memories", "graph"}
      BY DEF Init, Areas
    <2> QED
      BY <2>1, InitSignin, InitTokens, InitMemories, InitGraph DEF IInv
  <1>2. IInv /\ [Next]_vars => IInv'
    <2> SUFFICES ASSUME IInv, [Next]_vars PROVE IInv'
      OBVIOUS
    <2>1. CASE Next
      BY <2>1, SigninNext, TokenNext, MemoryNext, GraphNext DEF IInv
    <2>2. CASE UNCHANGED vars
      BY <2>2, Stutters
    <2> QED
      BY <2>1, <2>2
  <1> QED
    BY <1>1, <1>2, PTL DEF Spec

(* In the other areas there are no clients and no logins.                   *)
LEMMA NoSignin ==
    ASSUME Stored(ClientRows) = {}, Stored(StateRows) = {},
           \A k \in Stored(StateRows \cup CodeRows \cup RefreshRows) : db[k].uses <= 1
    PROVE  LimitsHold
  <1>1. Cardinality({}) = 0
    BY FS_EmptySet
  <1>2. {k \in {} : ~db[k].consumed} = {} /\ \A b : {k \in {} : db[k].browser = b} = {}
    OBVIOUS
  <1>3. PICK none : none = {}
    OBVIOUS
  <1>4. Stored(ClientRows) = none /\ {k \in Stored(StateRows) : ~db[k].consumed} = none
    BY <1>2, <1>3
  <1>5. \A b : {k \in none : db[k].browser = b} = none
    BY <1>2, <1>3
  <1>6. /\ Cardinality(none) <= MaxClients /\ Cardinality(none) <= MaxStates
        /\ Cardinality(none) <= MaxBrowserStates
    BY <1>1, <1>3, StoreAssumption
  <1> QED
    BY <1>4, <1>5, <1>6 DEF LimitsHold

(* With any number of hubs that count at the same time, the quotas of       *)
(* registered clients and of logins under way hold, in total and for each   *)
(* browser, and a login, a code and a refresh token is handed to one        *)
(* caller: the advisory locks of create_oauth_client and                    *)
(* create_oauth_provider_state cover the count and the insert, and the      *)
(* UPDATE of a consume call looks at the row it has locked.                 *)
THEOREM QuotasHold == Spec => []LimitsHold
  <1>1. IInv => LimitsHold
    <2>1. ASSUME SigninInv PROVE LimitsHold
      <3>1. PICK keys : keys = DOMAIN db /\ keys = UNION {ClientRows, StateRows, CodeRows, AdvisoryLocks}
        BY <2>1 DEF SigninInv, SigninRows
      <3>2. /\ Stored(ClientRows) = Registered
            /\ {k \in Stored(StateRows) : ~db[k].consumed} = Waiting
        BY <3>1 DEF Stored, Registered, Waiting
      <3>3. \A b : {k \in Waiting : db[k].browser = b} = WaitingOf(b)
        BY DEF WaitingOf
      <3>4. \A k \in Stored(StateRows \cup CodeRows \cup RefreshRows) :
               db[k] # None /\ (k \in StateRows \/ k \in CodeRows)
        BY <3>1, TableOfRow DEF Stored
      <3>5. \A k \in Stored(StateRows \cup CodeRows \cup RefreshRows) : db[k].uses <= 1
        <4>1. \A k \in Stored(StateRows \cup CodeRows \cup RefreshRows) : Counted(db[k])
          BY <2>1, <3>4 DEF SigninInv, SigninRows
        <4> QED
          BY <4>1 DEF Counted
      <3> QED
        BY <2>1, <3>2, <3>3, <3>5 DEF LimitsHold, SigninInv, Limits
    <2>2. ASSUME TokenInv PROVE LimitsHold
      <3>1. PICK keys : keys = DOMAIN db /\ keys = UNION {Members, FamilyRows, RefreshRows, AccessRows}
        BY <2>2 DEF TokenInv, TokenRows
      <3>2. Stored(ClientRows) = {} /\ Stored(StateRows) = {}
        BY <3>1, TableOfRow DEF Stored
      <3>3. \A k \in Stored(StateRows \cup CodeRows \cup RefreshRows) : db[k] # None /\ k \in RefreshRows
        BY <3>1, TableOfRow DEF Stored
      <3>4. \A k \in Stored(StateRows \cup CodeRows \cup RefreshRows) : db[k].uses <= 1
        BY <2>2, <3>3 DEF TokenInv, TokenRows, Counted
      <3> QED
        BY <3>2, <3>4, NoSignin
    <2>3. ASSUME MemoryInv \/ GraphInv PROVE LimitsHold
      <3>1. PICK keys : keys = DOMAIN db /\ keys \subseteq UNION {Members, MemoryRows, RelationshipRows}
        BY <2>3 DEF MemoryInv, GraphInv
      <3>2. /\ Stored(ClientRows) = {} /\ Stored(StateRows) = {}
            /\ Stored(StateRows \cup CodeRows \cup RefreshRows) = {}
        BY <3>1, TableOfRow DEF Stored
      <3> QED
        BY <3>2, NoSignin
    <2> QED
      BY <2>1, <2>2, <2>3 DEF IInv
  <1> QED
    BY <1>1, StoreIsConsistent, PTL

(* Once a family is revoked, each of its refresh tokens is revoked, and the *)
(* access token issued with it, except those of a create call that          *)
(* overlapped with another call on the family: the UPDATEs of a revocation  *)
(* find every row of the family that a call without overlap stored, and a   *)
(* create call without overlap sees the family's marker.                    *)
THEOREM RevocationsReachAll == Spec => []RevokedFamilyIsDead
  <1>1. IInv => RevokedFamilyIsDead
    <2>1. ASSUME TokenInv PROVE RevokedFamilyIsDead
      <3> SUFFICES ASSUME NEW k \in Stored(RefreshRows),
                          db[Row("family", db[k].family)], ~db[k].raced
                   PROVE  db[k].revoked /\ db[Row("access", k[2])] = "revoked"
        BY DEF RevokedFamilyIsDead
      <3>1. k \in RefreshRows /\ db[k] # None
        BY DEF Stored
      <3>2. PICK p \in Pairs : k = R(p)
        BY <3>1, TokenKeys
      <3>3. k[2] = p
        BY <3>2 DEF R, Row
      <3> QED
        BY <2>1, <3>1, <3>2, <3>3 DEF TokenInv, Dead, F, A
    <2>2. ASSUME SigninInv \/ MemoryInv \/ GraphInv PROVE RevokedFamilyIsDead
      <3>1. PICK keys : /\ keys = DOMAIN db
                        /\ keys \subseteq UNION {ClientRows, StateRows, CodeRows, AdvisoryLocks,
                                                 Members, MemoryRows, RelationshipRows}
        BY <2>2 DEF SigninInv, SigninRows, MemoryInv, GraphInv
      <3>2. Stored(RefreshRows) = {}
        BY <3>1, TableOfRow DEF Stored
      <3> QED
        BY <3>2 DEF RevokedFamilyIsDead
    <2> QED
      BY <2>1, <2>2 DEF IInv
  <1> QED
    BY <1>1, StoreIsConsistent, PTL

(* What an append that returned has added stays in the stored transcript,   *)
(* whatever calls run at the same time, and the conversation_hash the next  *)
(* append compares is that of the transcript, as long as no upsert and no   *)
(* mark of the chunks wrote back a payload it had read before an append.    *)
THEOREM AppendsAreKept == Spec => []AppendsSurvive
  <1>1. IInv => AppendsSurvive
    <2>1. ASSUME MemoryInv PROVE AppendsSurvive
      <3> SUFFICES ASSUME NEW k \in Stored(MemoryRows), k[2] \notin clobbered
                   PROVE  acked[k[2]] \subseteq db[k].payload /\ db[k].column = db[k].payload
        BY DEF AppendsSurvive
      <3>1. k \in MemoryRows /\ db[k] # None
        BY DEF Stored
      <3>2. PICK m \in Memories : k = Row("memory", m)
        BY <3>1, MemoryKeys
      <3>3. k[2] = m
        BY <3>2 DEF Row
      <3> QED
        BY <2>1, <3>1, <3>2, <3>3 DEF MemoryInv, Survive
    <2>2. ASSUME SigninInv \/ TokenInv \/ GraphInv PROVE AppendsSurvive
      <3>1. PICK keys : /\ keys = DOMAIN db
                        /\ keys \subseteq UNION {ClientRows, StateRows, CodeRows, AdvisoryLocks, Members,
                                                 FamilyRows, RefreshRows, AccessRows, RelationshipRows}
        BY <2>2 DEF SigninInv, SigninRows, TokenInv, TokenRows, GraphInv
      <3>2. Stored(MemoryRows) = {}
        BY <3>1, TableOfRow DEF Stored
      <3> QED
        BY <3>2 DEF AppendsSurvive
    <2> QED
      BY <2>1, <2>2 DEF IInv
  <1> QED
    BY <1>1, StoreIsConsistent, PTL

(* An imported session has one memory, by the unique index.  Of the saves   *)
(* that look a thread up by its name, which hubs that do not trust appends  *)
(* and saves of imported sessions never do, one stores a memory, and of a   *)
(* conflict group of the graph one relationship is not superseded, unless   *)
(* two calls that stored them overlapped: nothing but the read before the   *)
(* write keeps those apart.  A memory of the thread that was held lifts the *)
(* promise for the thread.                                                  *)
THEOREM RowsAreUnique == Spec => []OneOfEach
  <1>1. IInv => OneOfEach
    <2>1. ASSUME MemoryInv PROVE OneOfEach
      <3>1. PICK keys : keys = DOMAIN db /\ keys = Members \cup MemoryRows
        BY <2>1 DEF MemoryInv
      <3>2. Stored(RelationshipRows) = {}
        BY <3>1, TableOfRow DEF Stored
      <3>3. \A k \in Stored(MemoryRows) : k \in MemoryRows /\ db[k] # None
        BY DEF Stored
      <3>4. \A thread : HeldIn(thread) =>
              \E h \in Stored(MemoryRows) : db[h].held /\ db[h].thread = thread
        BY <3>1 DEF HeldIn, Stored
      <3> QED
        BY <2>1, <3>2, <3>3, <3>4 DEF OneOfEach, MemoryInv, Unique, Excused
    <2>2. ASSUME GraphInv PROVE OneOfEach
      <3>1. PICK keys : keys = DOMAIN db /\ keys = RelationshipRows
        BY <2>2 DEF GraphInv
      <3>2. Stored(MemoryRows) = {}
        BY <3>1, TableOfRow DEF Stored
      <3>3. \A k \in Stored(RelationshipRows) : k \in RelationshipRows /\ db[k] # None
        BY DEF Stored
      <3> QED
        BY <2>2, <3>2, <3>3 DEF OneOfEach, GraphInv, OneActive, IsActive
    <2>3. ASSUME SigninInv \/ TokenInv PROVE OneOfEach
      <3>1. PICK keys : /\ keys = DOMAIN db
                        /\ keys \subseteq UNION {ClientRows, StateRows, CodeRows, AdvisoryLocks, Members,
                                                 FamilyRows, RefreshRows, AccessRows}
        BY <2>3 DEF SigninInv, SigninRows, TokenInv, TokenRows
      <3>2. Stored(MemoryRows) = {} /\ Stored(RelationshipRows) = {}
        BY <3>1, TableOfRow DEF Stored
      <3> QED
        BY <3>2 DEF OneOfEach
    <2> QED
      BY <2>1, <2>2, <2>3 DEF IInv
  <1> QED
    BY <1>1, StoreIsConsistent, PTL
=============================================================================
