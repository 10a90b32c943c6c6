----------------------- MODULE DerivedRecords_proofs -----------------------
(***************************************************************************)
(* Theorems about module DerivedRecords, for any number of workers,         *)
(* conversations, owners, values and batches; and, last, about module       *)
(* Imports, for any files, formats and uploads.                             *)
(***************************************************************************)
EXTENDS DerivedRecords, Imports, FiniteSetTheorems, SequenceTheorems,
        WellFoundedInduction, TLAPS

(* All workers are threads of one process, whose lock serialises them.      *)
OneProcess == \A v, w \in Workers : HubOf[v] = HubOf[w]

-----------------------------------------------------------------------------
(* The invariants.                                                          *)

FactTable(T) == DOMAIN T \subseteq FactIds /\ T \in [DOMAIN T -> FactRows]

GraphTable(T) ==
    DOMAIN T \subseteq Relationships /\ T \in [DOMAIN T -> [by: Relationships \cup {None}]]

TypeOK ==
    /\ msgs \in [Conversations -> Seq(Statements)]
    /\ status \in [Conversations -> {"absent", "pending_review", "active"}]
    /\ FactTable(facts) /\ GraphTable(graph)
    /\ job \in [Workers -> Jobs \cup {None}]
    /\ clock \in Nat /\ saves \in Nat /\ supersedes \in Nat /\ failures \in Nat

(* A save derives records of its own conversation only.                     *)
Own(j) ==
    /\ \A i \in 1 .. Len(j.facts) : j.facts[i] # None => j.facts[i].id.source = j.conv
    /\ \A i \in 1 .. Len(j.graph) : j.graph[i].source = j.conv

JobsOwn == \A w \in Workers : job[w] # None => Own(job[w])

Inv == TypeOK /\ JobsOwn /\ OneActiveObject

(* One save at a time.                                                      *)
Serial == \A v, w \in Workers : job[v] # None /\ job[w] # None => v = w

(* Only messages of released conversations make facts, and every stored     *)
(* fact was extracted before now from a message that is stored.             *)
Said(id) == id.index < Len(msgs[id.source]) /\ status[id.source] = "active"
Spoken(T) == \A id \in DOMAIN T : Said(id) /\ T[id].created < clock

(* What a fact finds in the table it is inserted into.                      *)
Fresh(T, f) ==
    \A g \in DOMAIN T : /\ T[g].created <= f.stamp
                        /\ g.source = f.id.source => g.index < f.id.index

InOrder(batch) ==
    \A i \in 1 .. Len(batch) : \A h \in 1 .. i - 1 :
        (batch[h] # None /\ batch[i] # None) =>
            batch[h].stamp = batch[i].stamp /\ batch[h].id.index < batch[i].id.index

Ready(j) ==
    /\ j.step = "approve" => status[j.conv] = "pending_review"
    /\ j.step = "facts" =>
          /\ InOrder(j.facts)
          /\ \A i \in 1 .. Len(j.facts) : j.facts[i] # None =>
                /\ Said(j.facts[i].id) /\ j.facts[i].stamp < clock
                /\ Fresh(facts, j.facts[i])

JobsReady == \A w \in Workers : job[w] # None => Ready(job[w])

IInv == Serial /\ Spoken(facts) /\ JobsReady /\ CorrectionWins

-----------------------------------------------------------------------------
(* Induction on the natural numbers, stated with the set of the numbers     *)
(* that have the property.                                                  *)

Below == OpToRel(<, Nat)

LEMMA LeastNumber ==
    ASSUME NEW T \in SUBSET Nat, T # {}
    PROVE  \E n \in T : \A m \in T : n <= m
  <1>1. IsWellFoundedOn(Below, Nat)
    BY NatLessThanWellFounded DEF Below
  <1>2. PICK n \in T : \A m \in T : ~ (<<m, n>> \in Below)
    BY <1>1, WFMin
  <1>3. \A m \in T : <<m, n>> \in Below <=> m < n
    BY DEF Below, OpToRel
  <1>4. \A m \in T : m \in Nat /\ n \in Nat /\ ~(m < n)
    BY <1>2, <1>3
  <1> QED
    BY <1>4

LEMMA SetInduction ==
    ASSUME NEW T, 0 \in T, \A n \in Nat : n \in T => n + 1 \in T
    PROVE  \A n \in Nat : n \in T
  <1> SUFFICES ASSUME NEW k \in Nat, k \notin T PROVE FALSE
    OBVIOUS
  <1>1. PICK n \in Nat \ T : \A m \in Nat \ T : n <= m
    BY LeastNumber
  <1>2. n # 0 /\ n - 1 \in Nat /\ n - 1 \in T
    BY <1>1
  <1> QED
    BY <1>2

-----------------------------------------------------------------------------
(* The two transactions are folds over their batch: there is a table after  *)
(* each record of the batch, and the last one is the result.                *)

FactSteps(table, batch, a) ==
    /\ a[0] = table
    /\ \A n \in 1 .. Len(batch) : a[n] = insert_fact(a[n - 1], batch[n])

GraphSteps(table, batch, a) ==
    /\ a[0] = upsert_relationships(table, batch)
    /\ \A n \in 1 .. Len(batch) :
          a[n] = supersede_conflicting_relationships(a[n - 1], batch[n])

LEMMA InsertFactsSteps ==
    ASSUME NEW table, NEW batch, Len(batch) \in Nat
    PROVE  \E a : FactSteps(table, batch, a) /\ insert_facts(table, batch) = a[Len(batch)]
  <1> DEFINE F(h, m) == [n \in 0 .. m |->
                           IF n = 0 THEN table ELSE insert_fact(h[n - 1], batch[n])]
             T == {m \in Nat : \E h : h = F(h, m)}
             g == CHOOSE h : h = F(h, Len(batch))
  <1>1. 0 \in T
    <2> DEFINE h == [n \in 0 .. 0 |-> table]
    <2>1. h = F(h, 0)
      OBVIOUS
    <2> QED
      BY <2>1
  <1>2. ASSUME NEW m \in Nat, m \in T PROVE m + 1 \in T
    <2>1. PICK h : h = F(h, m)
      BY <1>2
    <2>2. PICK x : x = insert_fact(h[m], batch[m + 1])
      OBVIOUS
    <2> DEFINE k == [n \in 0 .. m + 1 |-> IF n <= m THEN h[n] ELSE x]
    <2>3. ASSUME NEW n \in 0 .. m + 1
          PROVE  k[n] = IF n = 0 THEN table ELSE insert_fact(k[n - 1], batch[n])
      <3>1. CASE n = 0
        <4>1. h[0] = table
          BY <2>1
        <4> QED
          BY <3>1, <4>1
      <3>2. CASE n \in 1 .. m
        <4>1. h[n] = insert_fact(h[n - 1], batch[n])
          BY <2>1, <3>2
        <4>2. k[n] = h[n] /\ k[n - 1] = h[n - 1]
          BY <3>2
        <4> QED
          BY <3>2, <4>1, <4>2
      <3>3. CASE n = m + 1
        <4>1. k[n] = x /\ k[n - 1] = h[m]
          BY <3>3
        <4> QED
          BY <3>3, <4>1, <2>2
      <3> QED
        BY <3>1, <3>2, <3>3
    <2>4. k = F(k, m + 1)
      BY <2>3
    <2> HIDE DEF k, F
    <2> QED
      BY <2>4
  <1>3. \A m \in Nat : m \in T
    <2> HIDE DEF T
    <2> QED BY <1>1, <1>2, SetInduction
  <1>4. \E h : h = F(h, Len(batch))
    BY <1>3
  <1>5. g = F(g, Len(batch))
    <2> HIDE DEF F
    <2> QED BY <1>4
  <1>6. insert_facts(table, batch) = g[Len(batch)]
    BY DEF insert_facts
  <1> HIDE DEF g
  <1>7. \A n \in 0 .. Len(batch) :
           g[n] = IF n = 0 THEN table ELSE insert_fact(g[n - 1], batch[n])
    <2> SUFFICES ASSUME NEW n \in 0 .. Len(batch)
                 PROVE  g[n] = IF n = 0 THEN table ELSE insert_fact(g[n - 1], batch[n])
      OBVIOUS
    <2>1. F(g, Len(batch))[n] = IF n = 0 THEN table ELSE insert_fact(g[n - 1], batch[n])
      OBVIOUS
    <2> HIDE DEF F
    <2> QED BY <1>5, <2>1
  <1>8. FactSteps(table, batch, g)
    BY <1>7 DEF FactSteps
  <1> QED
    BY <1>6, <1>8

LEMMA UpsertGraphSteps ==
    ASSUME NEW table, NEW batch, Len(batch) \in Nat
    PROVE  \E a : /\ GraphSteps(table, batch, a)
                  /\ upsert_graph_records(table, batch) = a[Len(batch)]
  <1>0. PICK first : first = upsert_relationships(table, batch)
    OBVIOUS
  <1> DEFINE F(h, m) == [n \in 0 .. m |->
                           IF n = 0 THEN first
                           ELSE supersede_conflicting_relationships(h[n - 1], batch[n])]
             T == {m \in Nat : \E h : h = F(h, m)}
             g == CHOOSE h : h = F(h, Len(batch))
  <1>1. 0 \in T
    <2> DEFINE h == [n \in 0 .. 0 |-> first]
    <2>1. h = F(h, 0)
      OBVIOUS
    <2> QED
      BY <2>1
  <1>2. ASSUME NEW m \in Nat, m \in T PROVE m + 1 \in T
    <2>1. PICK h : h = F(h, m)
      BY <1>2
    <2>2. PICK x : x = supersede_conflicting_relationships(h[m], batch[m + 1])
      OBVIOUS
    <2> DEFINE k == [n \in 0 .. m + 1 |-> IF n <= m THEN h[n] ELSE x]
    <2>3. ASSUME NEW n \in 0 .. m + 1
          PROVE  k[n] = IF n = 0 THEN first
                        ELSE supersede_conflicting_relationships(k[n - 1], batch[n])
      <3>1. CASE n = 0
        <4>1. h[0] = first
          BY <2>1
        <4> QED
          BY <3>1, <4>1
      <3>2. CASE n \in 1 .. m
        <4>1. h[n] = supersede_conflicting_relationships(h[n - 1], batch[n])
          BY <2>1, <3>2
        <4>2. k[n] = h[n] /\ k[n - 1] = h[n - 1]
          BY <3>2
        <4> QED
          BY <3>2, <4>1, <4>2
      <3>3. CASE n = m + 1
        <4>1. k[n] = x /\ k[n - 1] = h[m]
          BY <3>3
        <4> QED
          BY <3>3, <4>1, <2>2
      <3> QED
        BY <3>1, <3>2, <3>3
    <2>4. k = F(k, m + 1)
      BY <2>3
    <2> HIDE DEF k, F
    <2> QED
      BY <2>4
  <1>3. \A m \in Nat : m \in T
    <2> HIDE DEF T
    <2> QED BY <1>1, <1>2, SetInduction
  <1>4. \E h : h = F(h, Len(batch))
    BY <1>3
  <1>5. g = F(g, Len(batch))
    <2> HIDE DEF F
    <2> QED BY <1>4
  <1>6. upsert_graph_records(table, batch) = g[Len(batch)]
    BY <1>0 DEF upsert_graph_records
  <1> HIDE DEF g
  <1>7. \A n \in 0 .. Len(batch) :
           g[n] = IF n = 0 THEN first
                  ELSE supersede_conflicting_relationships(g[n - 1], batch[n])
    <2> SUFFICES ASSUME NEW n \in 0 .. Len(batch)
                 PROVE  g[n] = IF n = 0 THEN first
                               ELSE supersede_conflicting_relationships(g[n - 1], batch[n])
      OBVIOUS
    <2>1. F(g, Len(batch))[n] = IF n = 0 THEN first
                                ELSE supersede_conflicting_relationships(g[n - 1], batch[n])
      OBVIOUS
    <2> HIDE DEF F
    <2> QED BY <1>5, <2>1
  <1>8. GraphSteps(table, batch, g)
    BY <1>0, <1>7 DEF GraphSteps
  <1> QED
    BY <1>6, <1>8

-----------------------------------------------------------------------------
(* One fact is inserted.                                                    *)

Corrected(id, f) ==
    /\ f.corrects # None /\ f.corrects \in TextsIn[id.value]
    /\ id.about = f.id.about /\ SameScope(id.source, f.id.source)

(* Row s is what is left of row r after fact f was stored beside it.        *)
Carried(r, s) ==
    /\ s \in FactRows /\ s.created = r.created /\ s.corrects = r.corrects
    /\ r.by # None => s.by # None

LEMMA RefreshRows ==
    ASSUME NEW T, FactTable(T), NEW f \in Facts, NEW id \in DOMAIN T
    PROVE  LET U == refresh_matching_fact_confirmation(T, f)
           IN  /\ DOMAIN U = DOMAIN T
               /\ U[id] \in FactRows /\ U[id].by = T[id].by /\ U[id].created = T[id].created
               /\ U[id].corrects = T[id].corrects
               /\ U[id] # T[id] => SameScope(id.source, f.id.source)
  <1>1. PICK r : r = T[id]
    OBVIOUS
  <1>2. r \in FactRows /\ f.stamp \in Nat
    BY <1>1 DEF FactTable, Facts
  <1>3. PICK s : s = [r EXCEPT !.confirmed = f.stamp]
    OBVIOUS
  <1>4. s \in FactRows /\ s.by = r.by /\ s.created = r.created /\ s.corrects = r.corrects
    BY <1>2, <1>3 DEF FactRows
  <1>5. PICK U : U = refresh_matching_fact_confirmation(T, f)
    OBVIOUS
  <1>6. DOMAIN U = DOMAIN T
    BY <1>5 DEF refresh_matching_fact_confirmation
  <1>7. U[id] = r \/ (U[id] = s /\ SameScope(id.source, f.id.source))
    BY <1>1, <1>3, <1>5 DEF refresh_matching_fact_confirmation
  <1>8. /\ U[id] \in FactRows /\ U[id].by = r.by /\ U[id].created = r.created
        /\ U[id].corrects = r.corrects
        /\ U[id] # r => SameScope(id.source, f.id.source)
    BY <1>2, <1>4, <1>7
  <1> QED
    BY <1>1, <1>5, <1>6, <1>8

LEMMA SupersedeRows ==
    ASSUME NEW T, FactTable(T), NEW f \in Facts, NEW id \in DOMAIN T
    PROVE  LET U == supersede_corrected_facts(T, f)
           IN  /\ DOMAIN U = DOMAIN T
               /\ Carried(T[id], U[id])
               /\ Corrected(id, f) => U[id].by # None
               /\ U[id] # T[id] => SameScope(id.source, f.id.source)
  <1>1. PICK r : r = T[id]
    OBVIOUS
  <1>2. r \in FactRows /\ f.id \in FactIds
    BY <1>1 DEF FactTable, Facts
  <1>3. f.id # None
    BY <1>2, NoneIsNoRecord
  <1>4. PICK s : s = [r EXCEPT !.by = f.id]
    OBVIOUS
  <1>5. s \in FactRows /\ s.by = f.id /\ s.created = r.created /\ s.corrects = r.corrects
    BY <1>2, <1>4 DEF FactRows
  <1>6. PICK U : U = supersede_corrected_facts(T, f)
    OBVIOUS
  <1>7. DOMAIN U = DOMAIN T
    BY <1>6 DEF supersede_corrected_facts
  <1>8. \/ U[id] = r /\ ~(r.by = None /\ Corrected(id, f))
        \/ U[id] = s /\ SameScope(id.source, f.id.source)
    BY <1>1, <1>4, <1>6 DEF supersede_corrected_facts, Corrected, ActiveIn, NamesCorrected
  <1>9. /\ Carried(r, U[id]) /\ (Corrected(id, f) => U[id].by # None)
        /\ U[id] # r => SameScope(id.source, f.id.source)
    BY <1>2, <1>3, <1>5, <1>8 DEF Carried
  <1> QED
    BY <1>1, <1>6, <1>7, <1>9

NewRow(T, f) ==
    [corrects |-> f.corrects, quality |-> f.quality, confirmed |-> f.stamp,
     created |-> IF f.id \in DOMAIN T THEN T[f.id].created ELSE f.stamp, by |-> None]

LEMMA NewRowType ==
    ASSUME NEW T, FactTable(T), NEW f \in Facts
    PROVE  NewRow(T, f) \in FactRows
  <1>1. /\ f.corrects \in Values \cup {None} /\ f.quality \in Qualities /\ f.stamp \in Nat
        /\ f.id \in DOMAIN T => T[f.id].created \in Nat
    BY DEF Facts, FactTable, FactRows
  <1>2. PICK n \in Nat : n = IF f.id \in DOMAIN T THEN T[f.id].created ELSE f.stamp
    BY <1>1
  <1> QED
    BY <1>1, <1>2 DEF NewRow, FactRows

(* What the table holds after insert_fact.                                  *)
LEMMA InsertFactRows ==
    ASSUME NEW T, FactTable(T), NEW f \in Facts
    PROVE  LET U == insert_fact(T, f)
           IN  /\ FactTable(U) /\ DOMAIN U = DOMAIN T \cup {f.id}
               /\ U[f.id].corrects = f.corrects
               /\ f.id \notin DOMAIN T => U[f.id].created = f.stamp
               /\ \A id \in DOMAIN T \ {f.id} :
                     /\ Carried(T[id], U[id])
                     /\ Corrected(id, f) => U[id].by # None
               /\ \A id \in DOMAIN T : U[id] # T[id] => SameScope(id.source, f.id.source)
  <1>1. PICK A : A = refresh_matching_fact_confirmation(T, f)
    OBVIOUS
  <1>2. /\ DOMAIN A = DOMAIN T /\ FactTable(A)
        /\ \A id \in DOMAIN T :
              /\ A[id].by = T[id].by /\ A[id].created = T[id].created
              /\ A[id].corrects = T[id].corrects
              /\ A[id] # T[id] => SameScope(id.source, f.id.source)
    <2>1. DOMAIN A = DOMAIN T /\ A = [id \in DOMAIN A |-> A[id]]
      BY <1>1 DEF refresh_matching_fact_confirmation
    <2>2. \A id \in DOMAIN T :
              /\ A[id] \in FactRows /\ A[id].by = T[id].by /\ A[id].created = T[id].created
              /\ A[id].corrects = T[id].corrects
              /\ A[id] # T[id] => SameScope(id.source, f.id.source)
      BY <1>1, RefreshRows
    <2>3. DOMAIN T \subseteq FactIds
      BY DEF FactTable
    <2> QED
      BY <2>1, <2>2, <2>3 DEF FactTable
  <1>3. PICK B : B = supersede_corrected_facts(A, f)
    OBVIOUS
  <1>4. /\ DOMAIN B = DOMAIN T /\ FactTable(B)
        /\ \A id \in DOMAIN T :
              /\ Carried(A[id], B[id])
              /\ Corrected(id, f) => B[id].by # None
              /\ B[id] # A[id] => SameScope(id.source, f.id.source)
    <2>1. DOMAIN B = DOMAIN T /\ B = [id \in DOMAIN B |-> B[id]]
      BY <1>2, <1>3 DEF supersede_corrected_facts
    <2>2. \A id \in DOMAIN T :
              /\ Carried(A[id], B[id])
              /\ Corrected(id, f) => B[id].by # None
              /\ B[id] # A[id] => SameScope(id.source, f.id.source)
      BY <1>2, <1>3, SupersedeRows
    <2>3. DOMAIN T \subseteq FactIds
      BY DEF FactTable
    <2> QED
      BY <2>1, <2>2, <2>3 DEF FactTable, Carried
  <1>5. PICK U : U = upsert_fact(B, f)
    OBVIOUS
  <1>6. insert_fact(T, f) = U
    <2>1. f # None
      BY NoneIsNoRecord
    <2> QED
      BY <2>1, <1>1, <1>3, <1>5 DEF insert_fact
  <1>7. PICK r : r = NewRow(B, f)
    OBVIOUS
  <1>8. r \in FactRows
    BY <1>4, <1>7, NewRowType
  <1>9. r.corrects = f.corrects /\ (f.id \notin DOMAIN T => r.created = f.stamp)
    BY <1>4, <1>7 DEF NewRow
  <1>10. U = [id \in DOMAIN T \cup {f.id} |-> IF id # f.id THEN B[id] ELSE r]
    BY <1>4, <1>5, <1>7 DEF upsert_fact, NewRow
  <1>11. /\ DOMAIN U = DOMAIN T \cup {f.id} /\ U[f.id] = r
         /\ \A id \in DOMAIN T \ {f.id} : U[id] = B[id]
    BY <1>10
  <1>12. FactTable(U)
    <2>1. DOMAIN T \subseteq FactIds /\ f.id \in FactIds
      BY DEF FactTable, Facts
    <2>2. \A id \in DOMAIN T : B[id] \in FactRows
      BY <1>4 DEF FactTable
    <2> QED
      BY <1>8, <1>10, <2>1, <2>2 DEF FactTable
  <1>13. \A id \in DOMAIN T \ {f.id} :
            Carried(T[id], U[id]) /\ (Corrected(id, f) => U[id].by # None)
    BY <1>2, <1>4, <1>11 DEF Carried
  <1>14. \A id \in DOMAIN T : U[id] # T[id] => SameScope(id.source, f.id.source)
    <2> SUFFICES ASSUME NEW id \in DOMAIN T, U[id] # T[id]
                 PROVE  SameScope(id.source, f.id.source)
      OBVIOUS
    <2>1. CASE id = f.id
      BY <2>1 DEF SameScope
    <2>2. CASE id # f.id
      BY <2>2, <1>2, <1>4, <1>11
    <2> QED
      BY <2>1, <2>2
  <1> QED
    BY <1>6, <1>9, <1>11, <1>12, <1>13, <1>14

(* The corrections of a table have superseded what is older.                *)
OlderIn(T, g, f) ==
    T[g].created < T[f].created \/ (g.source = f.source /\ g.index < f.index)

Wins(T) ==
    \A f \in DOMAIN T, g \in ActiveIn(T) :
        (/\ T[f].corrects # None /\ T[f].corrects \in TextsIn[g.value]
         /\ g.about = f.about /\ SameScope(g.source, f.source))
        => ~OlderIn(T, g, f)

LEMMA InsertFactWins ==
    ASSUME NEW T, FactTable(T), Wins(T), NEW f \in Facts, Fresh(T, f)
    PROVE  Wins(insert_fact(T, f))
  <1>1. PICK U : U = insert_fact(T, f)
    OBVIOUS
  <1>2. f.id \in FactIds /\ f.stamp \in Nat /\ f.id.index \in Nat
    BY DEF Facts, FactIds
  <1>3. f.id \notin DOMAIN T
    BY <1>2 DEF Fresh
  <1>4. /\ FactTable(U) /\ DOMAIN U = DOMAIN T \cup {f.id}
        /\ U[f.id].corrects = f.corrects /\ U[f.id].created = f.stamp
        /\ \A id \in DOMAIN T : Carried(T[id], U[id]) /\ (Corrected(id, f) => U[id].by # None)
    <2>1. LET V == insert_fact(T, f)
          IN  /\ FactTable(V) /\ DOMAIN V = DOMAIN T \cup {f.id}
              /\ V[f.id].corrects = f.corrects
              /\ f.id \notin DOMAIN T => V[f.id].created = f.stamp
              /\ \A id \in DOMAIN T \ {f.id} :
                    /\ Carried(T[id], V[id])
                    /\ Corrected(id, f) => V[id].by # None
      BY InsertFactRows
    <2> QED
      BY <1>1, <1>3, <2>1
  <1> SUFFICES ASSUME NEW h \in DOMAIN U, NEW g \in ActiveIn(U),
                      U[h].corrects # None, U[h].corrects \in TextsIn[g.value],
                      g.about = h.about, SameScope(g.source, h.source), OlderIn(U, g, h)
               PROVE  FALSE
    BY <1>1 DEF Wins
  <1>5. g \in DOMAIN U /\ U[g].by = None
    BY DEF ActiveIn
  <1>6. CASE h = f.id /\ g # f.id
    <2>1. g \in DOMAIN T
      BY <1>4, <1>5, <1>6
    <2>2. Corrected(g, f)
      BY <1>4, <1>6 DEF Corrected
    <2> QED
      BY <1>4, <1>5, <2>1, <2>2
  <1>7. CASE h = f.id /\ g = f.id
    BY <1>2, <1>4, <1>7 DEF OlderIn
  <1>8. CASE h # f.id /\ g = f.id
    <2>1. h \in DOMAIN T /\ h \in FactIds
      BY <1>4, <1>8 DEF FactTable
    <2>2. /\ U[h].created = T[h].created /\ T[h].created \in Nat /\ T[h].created <= f.stamp
          /\ h.source = f.id.source => h.index < f.id.index
          /\ h.index \in Nat
      BY <1>4, <2>1 DEF Carried, Fresh, FactTable, FactRows, FactIds
    <2> QED
      BY <1>2, <1>4, <1>8, <2>2 DEF OlderIn
  <1>9. CASE h # f.id /\ g # f.id
    <2>1. h \in DOMAIN T /\ g \in DOMAIN T
      BY <1>4, <1>5, <1>9
    <2>2. /\ U[h].created = T[h].created /\ U[h].corrects = T[h].corrects
          /\ U[g].created = T[g].created /\ T[g].by = None
      BY <1>4, <1>5, <2>1 DEF Carried
    <2>3. g \in ActiveIn(T) /\ OlderIn(T, g, h)
      BY <2>1, <2>2 DEF ActiveIn, OlderIn
    <2> QED
      BY <2>1, <2>2, <2>3 DEF Wins
  <1> QED
    BY <1>6, <1>7, <1>8, <1>9

-----------------------------------------------------------------------------
(* A batch of facts is inserted.                                            *)

LEMMA BatchEntry ==
    ASSUME NEW S, NEW batch \in Seq(S \cup {None}), NEW n \in 1 .. Len(batch),
           batch[n] # None
    PROVE  batch[n] \in S
  OBVIOUS

LEMMA InsertFactsScope ==
    ASSUME NEW T, FactTable(T), NEW batch \in Seq(Facts \cup {None}), NEW c,
           \A i \in 1 .. Len(batch) : batch[i] # None => batch[i].id.source = c
    PROVE  LET U == insert_facts(T, batch)
           IN  /\ FactTable(U) /\ DOMAIN T \subseteq DOMAIN U
               /\ \A id \in DOMAIN T : U[id] # T[id] => SameScope(id.source, c)
  <1>1. PICK a : FactSteps(T, batch, a) /\ insert_facts(T, batch) = a[Len(batch)]
    BY InsertFactsSteps
  <1> DEFINE Q(n) == /\ FactTable(a[n]) /\ DOMAIN T \subseteq DOMAIN a[n]
                     /\ \A id \in DOMAIN T : a[n][id] # T[id] => SameScope(id.source, c)
             N == {n \in Nat : n <= Len(batch) => Q(n)}
  <1>2. 0 \in N
    BY <1>1 DEF FactSteps
  <1>3. ASSUME NEW n \in Nat, n \in N PROVE n + 1 \in N
    <2> SUFFICES ASSUME n + 1 <= Len(batch) PROVE Q(n + 1)
      OBVIOUS
    <2>1. Q(n)
      BY <1>3
    <2>2. PICK A : A = a[n]
      OBVIOUS
    <2>3. PICK f : f = batch[n + 1]
      OBVIOUS
    <2>4. n + 1 \in 1 .. Len(batch) /\ a[n + 1] = insert_fact(A, f)
      BY <1>1, <2>2, <2>3 DEF FactSteps
    <2>5. CASE f = None
      <3>1. a[n + 1] = a[n]
        BY <2>2, <2>4, <2>5 DEF insert_fact
      <3> QED
        BY <2>1, <3>1
    <2>6. CASE f # None
      <3>1. f \in Facts /\ f.id.source = c
        BY <2>3, <2>4, <2>6, BatchEntry
      <3>2. PICK U : U = insert_fact(A, f)
        OBVIOUS
      <3>3. FactTable(A)
        BY <2>1, <2>2
      <3>4. /\ FactTable(U) /\ DOMAIN U = DOMAIN A \cup {f.id}
            /\ \A id \in DOMAIN A : U[id] # A[id] => SameScope(id.source, f.id.source)
        BY <3>1, <3>2, <3>3, InsertFactRows
      <3>5. /\ DOMAIN T \subseteq DOMAIN A
            /\ \A id \in DOMAIN T : A[id] # T[id] => SameScope(id.source, c)
        BY <2>1, <2>2
      <3>6. a[n + 1] = U
        BY <2>4, <3>2
      <3>7. /\ FactTable(U) /\ DOMAIN T \subseteq DOMAIN U
            /\ \A id \in DOMAIN T : U[id] # T[id] => SameScope(id.source, c)
        BY <3>1, <3>4, <3>5
      <3> QED
        BY <3>6, <3>7
    <2> QED
      BY <2>5, <2>6
  <1>4. \A n \in Nat : n \in N
    <2> HIDE DEF N
    <2> QED BY <1>2, <1>3, SetInduction
  <1>5. Q(Len(batch))
    BY <1>4
  <1> QED
    BY <1>1, <1>5

(* The facts of one save, inserted in the order of their messages into a    *)
(* table of older ones.                                                     *)
LEMMA InsertFactsWins ==
    ASSUME NEW T, FactTable(T), Wins(T), Spoken(T),
           NEW batch \in Seq(Facts \cup {None}), InOrder(batch),
           \A i \in 1 .. Len(batch) : batch[i] # None =>
              Fresh(T, batch[i]) /\ Said(batch[i].id) /\ batch[i].stamp < clock
    PROVE  LET U == insert_facts(T, batch)
           IN  /\ Wins(U) /\ Spoken(U)
               /\ \A id \in DOMAIN T : T[id].by # None => U[id].by # None
  <1>1. PICK a : FactSteps(T, batch, a) /\ insert_facts(T, batch) = a[Len(batch)]
    BY InsertFactsSteps
  <1> DEFINE Late(A, n) == \A i \in n + 1 .. Len(batch) : batch[i] # None => Fresh(A, batch[i])
             Kept(A) == /\ DOMAIN T \subseteq DOMAIN A
                        /\ \A id \in DOMAIN T : T[id].by # None => A[id].by # None
             Q(n) == /\ FactTable(a[n]) /\ Wins(a[n]) /\ Spoken(a[n])
                     /\ Late(a[n], n) /\ Kept(a[n])
             N == {n \in Nat : n <= Len(batch) => Q(n)}
  <1>2. 0 \in N
    BY <1>1 DEF FactSteps
  <1>3. ASSUME NEW n \in Nat, n \in N PROVE n + 1 \in N
    <2> SUFFICES ASSUME n + 1 <= Len(batch) PROVE Q(n + 1)
      OBVIOUS
    <2>1. Q(n)
      BY <1>3
    <2>2. PICK A : A = a[n]
      OBVIOUS
    <2>3. PICK f : f = batch[n + 1]
      OBVIOUS
    <2>4. n + 1 \in 1 .. Len(batch) /\ a[n + 1] = insert_fact(A, f)
      BY <1>1, <2>2, <2>3 DEF FactSteps
    <2>5. CASE f = None
      <3>1. a[n + 1] = a[n]
        BY <2>2, <2>4, <2>5 DEF insert_fact
      <3>2. Late(a[n], n + 1)
        BY <2>1
      <3> QED
        BY <2>1, <3>1, <3>2
    <2>6. CASE f # None
      <3>1. f \in Facts
        BY <2>3, <2>4, <2>6, BatchEntry
      <3>2. PICK U : U = insert_fact(A, f)
        OBVIOUS
      <3>3. FactTable(A) /\ Wins(A) /\ Spoken(A) /\ Kept(A)
        BY <2>1, <2>2
      <3>4. Fresh(A, f)
        BY <2>1, <2>2, <2>3, <2>4, <2>6
      <3>5. Wins(U)
        BY <3>1, <3>2, <3>3, <3>4, InsertFactWins
      <3>6. f.id \notin DOMAIN A
        BY <3>1, <3>4 DEF Fresh, Facts, FactIds
      <3>7. /\ FactTable(U) /\ DOMAIN U = DOMAIN A \cup {f.id}
            /\ f.id \notin DOMAIN A => U[f.id].created = f.stamp
            /\ \A id \in DOMAIN A \ {f.id} : Carried(A[id], U[id])
        BY <3>1, <3>2, <3>3, InsertFactRows
      <3>8. /\ U[f.id].created = f.stamp
            /\ \A id \in DOMAIN A : U[id].created = A[id].created /\
                                    (A[id].by # None => U[id].by # None)
        BY <3>6, <3>7 DEF Carried
      <3>9. Said(f.id) /\ f.stamp < clock
        BY <2>3, <2>4, <2>6
      <3>10. Spoken(U)
        BY <3>3, <3>7, <3>8, <3>9 DEF Spoken
      <3>11. Kept(U)
        BY <3>3, <3>7, <3>8
      <3>12. Late(U, n + 1)
        <4> SUFFICES ASSUME NEW i \in n + 1 + 1 .. Len(batch), batch[i] # None,
                            NEW g \in DOMAIN U
                     PROVE  /\ U[g].created <= batch[i].stamp
                            /\ g.source = batch[i].id.source => g.index < batch[i].id.index
          BY DEF Fresh
        <4>1. CASE g \in DOMAIN A
          <5>1. i \in n + 1 .. Len(batch) /\ Late(A, n)
            BY <2>1, <2>2
          <5>2. Fresh(A, batch[i])
            BY <5>1
          <5> QED
            BY <4>1, <5>2, <3>8 DEF Fresh
        <4>2. CASE g = f.id
          <5>1. i \in 1 .. Len(batch) /\ n + 1 \in 1 .. i - 1
            OBVIOUS
          <5>2. f.stamp = batch[i].stamp /\ f.id.index < batch[i].id.index /\ f.stamp \in Nat
            BY <5>1, <2>3, <2>6, <3>1 DEF InOrder, Facts
          <5> QED
            BY <4>2, <5>2, <3>8
        <4> QED
          BY <4>1, <4>2, <3>7
      <3>13. a[n + 1] = U
        BY <2>4, <3>2
      <3>14. FactTable(U)
        BY <3>7
      <3> HIDE DEF Late, Kept
      <3> QED
        BY <3>5, <3>10, <3>11, <3>12, <3>13, <3>14
    <2> QED
      BY <2>5, <2>6
  <1>4. \A n \in Nat : n \in N
    <2> HIDE DEF N
    <2> QED BY <1>2, <1>3, SetInduction
  <1>5. Q(Len(batch))
    BY <1>4
  <1> QED
    BY <1>1, <1>5

-----------------------------------------------------------------------------
(* A batch of relationships is stored.                                      *)

OneObject(T) ==
    \A r, q \in ActiveIn(T) :
        (r.about = q.about /\ SameScope(r.source, q.source)) => r.object = q.object

LEMMA UpsertRelationshipRows ==
    ASSUME NEW T, GraphTable(T), NEW batch \in Seq(Relationships)
    PROVE  LET U == upsert_relationships(T, batch)
           IN  /\ GraphTable(U) /\ DOMAIN T \subseteq DOMAIN U
               /\ \A id \in DOMAIN U : \/ \E i \in 1 .. Len(batch) : id = batch[i]
                                       \/ id \in DOMAIN T /\ U[id] = T[id]
  <1>1. PICK B : B = Range(batch)
    OBVIOUS
  <1>2. B \subseteq Relationships /\ \A id \in B : \E i \in 1 .. Len(batch) : id = batch[i]
    BY <1>1 DEF Range
  <1>3. PICK r : r = [by |-> None]
    OBVIOUS
  <1>4. r \in [by: Relationships \cup {None}]
    BY <1>3
  <1>5. PICK U : U = upsert_relationships(T, batch)
    OBVIOUS
  <1>6. U = [id \in DOMAIN T \cup B |-> IF id \in B THEN r ELSE T[id]]
    BY <1>1, <1>3, <1>5 DEF upsert_relationships
  <1>7. GraphTable(U)
    BY <1>2, <1>4, <1>6 DEF GraphTable
  <1>8. /\ DOMAIN U = DOMAIN T \cup B
        /\ \A id \in DOMAIN U : id \in B \/ (id \in DOMAIN T /\ U[id] = T[id])
    BY <1>6
  <1> QED
    BY <1>2, <1>5, <1>7, <1>8

LEMMA SupersedeRelationshipRows ==
    ASSUME NEW T, GraphTable(T), NEW r \in Relationships
    PROVE  LET U == supersede_conflicting_relationships(T, r)
           IN  /\ GraphTable(U) /\ DOMAIN U = DOMAIN T
               /\ \A id \in ActiveIn(U) : id \in ActiveIn(T) /\ ~InConflict(id, r)
               /\ \A id \in DOMAIN T : U[id] # T[id] => SameScope(id.source, r.source)
  <1>1. PICK s : s = [by |-> r]
    OBVIOUS
  <1>2. s \in [by: Relationships \cup {None}] /\ s.by = r
    BY <1>1
  <1>3. r # None
    BY NoneIsNoRecord
  <1>4. PICK U : U = supersede_conflicting_relationships(T, r)
    OBVIOUS
  <1>5. U = [id \in DOMAIN T |->
               IF id \in ActiveIn(T) /\ InConflict(id, r) THEN s ELSE T[id]]
    BY <1>1, <1>4 DEF supersede_conflicting_relationships
  <1>6. GraphTable(U) /\ DOMAIN U = DOMAIN T
    BY <1>2, <1>5 DEF GraphTable
  <1>7. ASSUME NEW id \in ActiveIn(U) PROVE id \in ActiveIn(T) /\ ~InConflict(id, r)
    <2>1. id \in DOMAIN T /\ U[id].by = None
      BY <1>6 DEF ActiveIn
    <2>2. ~(id \in ActiveIn(T) /\ InConflict(id, r))
      BY <1>2, <1>3, <1>5, <2>1
    <2>3. U[id] = T[id]
      BY <1>5, <2>1, <2>2
    <2> QED
      BY <2>1, <2>2, <2>3 DEF ActiveIn
  <1>8. \A id \in DOMAIN T : U[id] # T[id] => SameScope(id.source, r.source)
    BY <1>5 DEF InConflict
  <1> QED
    BY <1>4, <1>6, <1>7, <1>8

LEMMA UpsertGraphRows ==
    ASSUME NEW T, GraphTable(T), OneObject(T), NEW batch \in Seq(Relationships), NEW c,
           \A i \in 1 .. Len(batch) : batch[i].source = c
    PROVE  LET U == upsert_graph_records(T, batch)
           IN  /\ GraphTable(U) /\ OneObject(U) /\ DOMAIN T \subseteq DOMAIN U
               /\ \A id \in DOMAIN T : U[id] # T[id] => SameScope(id.source, c)
  <1>1. PICK a : GraphSteps(T, batch, a) /\ upsert_graph_records(T, batch) = a[Len(batch)]
    BY UpsertGraphSteps
  <1>2. PICK first : first = a[0]
    OBVIOUS
  <1>3. first = upsert_relationships(T, batch)
    BY <1>1, <1>2 DEF GraphSteps
  <1>4. /\ GraphTable(first) /\ DOMAIN T \subseteq DOMAIN first
        /\ \A id \in DOMAIN first : \/ \E i \in 1 .. Len(batch) : id = batch[i]
                                    \/ id \in DOMAIN T /\ first[id] = T[id]
    BY <1>3, UpsertRelationshipRows
  <1> DEFINE Apart(A, n) == \A id \in ActiveIn(A) :
                              /\ id \in ActiveIn(first)
                              /\ \A i \in 1 .. n : ~InConflict(id, batch[i])
             Mine(A) == \A id \in DOMAIN T : A[id] # T[id] => SameScope(id.source, c)
             Q(n) == /\ GraphTable(a[n]) /\ DOMAIN a[n] = DOMAIN first
                     /\ Apart(a[n], n) /\ Mine(a[n])
             N == {n \in Nat : n <= Len(batch) => Q(n)}
  <1>5. Mine(first)
    <2> SUFFICES ASSUME NEW id \in DOMAIN T, first[id] # T[id] PROVE SameScope(id.source, c)
      OBVIOUS
    <2>1. PICK i \in 1 .. Len(batch) : id = batch[i]
      BY <1>4
    <2> QED
      BY <2>1 DEF SameScope
  <1>6. 0 \in N
    <2>1. Apart(first, 0)
      OBVIOUS
    <2> HIDE DEF Apart, Mine
    <2> QED
      BY <2>1, <1>2, <1>4, <1>5
  <1>7. ASSUME NEW n \in Nat, n \in N PROVE n + 1 \in N
    <2> SUFFICES ASSUME n + 1 <= Len(batch) PROVE Q(n + 1)
      OBVIOUS
    <2>1. Q(n)
      BY <1>7
    <2>2. PICK A : A = a[n]
      OBVIOUS
    <2>3. PICK r : r = batch[n + 1]
      OBVIOUS
    <2>4. n + 1 \in 1 .. Len(batch)
      OBVIOUS
    <2>5. a[n + 1] = supersede_conflicting_relationships(A, r)
      BY <1>1, <2>2, <2>3, <2>4 DEF GraphSteps
    <2>6. r \in Relationships /\ r.source = c
      BY <2>3, <2>4
    <2>7. GraphTable(A) /\ DOMAIN A = DOMAIN first /\ Apart(A, n) /\ Mine(A)
      BY <2>1, <2>2
    <2>8. PICK U : U = supersede_conflicting_relationships(A, r)
      OBVIOUS
    <2>9. /\ GraphTable(U) /\ DOMAIN U = DOMAIN A
          /\ \A id \in ActiveIn(U) : id \in ActiveIn(A) /\ ~InConflict(id, r)
          /\ \A id \in DOMAIN A : U[id] # A[id] => SameScope(id.source, r.source)
      BY <2>6, <2>7, <2>8, SupersedeRelationshipRows
    <2>10. Mine(U)
      BY <1>4, <2>6, <2>7, <2>9
    <2>11. Apart(U, n + 1)
      <3> SUFFICES ASSUME NEW id \in ActiveIn(U)
                   PROVE  /\ id \in ActiveIn(first)
                          /\ \A i \in 1 .. n + 1 : ~InConflict(id, batch[i])
        OBVIOUS
      <3>1. id \in ActiveIn(first) /\ \A i \in 1 .. n : ~InConflict(id, batch[i])
        BY <2>7, <2>9
      <3>2. ~InConflict(id, batch[n + 1])
        BY <2>3, <2>9
      <3>3. \A i \in 1 .. n + 1 : i \in 1 .. n \/ i = n + 1
        OBVIOUS
      <3> QED
        BY <3>1, <3>2, <3>3
    <2>12. a[n + 1] = U
      BY <2>5, <2>8
    <2> HIDE DEF Apart, Mine
    <2> QED
      BY <2>7, <2>9, <2>10, <2>11, <2>12
  <1>8. \A n \in Nat : n \in N
    <2> HIDE DEF N
    <2> QED BY <1>6, <1>7, SetInduction
  <1>9. PICK U : U = upsert_graph_records(T, batch)
    OBVIOUS
  <1>10. GraphTable(U) /\ DOMAIN U = DOMAIN first /\ Apart(U, Len(batch)) /\ Mine(U)
    <2>1. Q(Len(batch))
      BY <1>8
    <2> QED
      BY <1>1, <1>9, <2>1
  <1>11. OneObject(U)
    <2> SUFFICES ASSUME NEW p \in ActiveIn(U), NEW q \in ActiveIn(U), p.about = q.about,
                        SameScope(p.source, q.source), p.object # q.object
                 PROVE  FALSE
      BY DEF OneObject
    <2>1. /\ p \in ActiveIn(first) /\ q \in ActiveIn(first)
          /\ \A i \in 1 .. Len(batch) : ~InConflict(p, batch[i]) /\ ~InConflict(q, batch[i])
      BY <1>10
    <2>2. ASSUME NEW i \in 1 .. Len(batch), batch[i] = p \/ batch[i] = q PROVE FALSE
      BY <2>1, <2>2 DEF InConflict, SameScope
    <2>3. p \in DOMAIN T /\ q \in DOMAIN T /\ first[p] = T[p] /\ first[q] = T[q]
      BY <1>4, <2>1, <2>2 DEF ActiveIn
    <2>4. p \in ActiveIn(T) /\ q \in ActiveIn(T)
      BY <2>1, <2>3 DEF ActiveIn
    <2> QED
      BY <2>4 DEF OneObject
  <1> QED
    BY <1>4, <1>9, <1>10, <1>11

-----------------------------------------------------------------------------
(* What a save derives.                                                     *)

LEMMA FactType ==
    ASSUME NEW s \in Statements, NEW c \in Conversations, NEW n \in Nat, NEW now \in Nat
    PROVE  LET f == fact(s, c, n, now)
           IN  f \in Facts /\ f.id.source = c /\ f.id.index = n /\ f.stamp = now
  <1>1. /\ s.about \in Attributes /\ s.value \in Values /\ s.corrects \in Values \cup {None}
        /\ s.role \in Roles
    BY DEF Statements
  <1>2. source_quality_for_fact(s) \in Qualities
    BY <1>1 DEF source_quality_for_fact, Qualities, Roles
  <1>3. PICK q \in Qualities : q = source_quality_for_fact(s)
    BY <1>2
  <1>4. PICK id : id = [about |-> s.about, value |-> s.value, source |-> c, index |-> n]
    OBVIOUS
  <1>5. id \in FactIds /\ id.source = c /\ id.index = n
    BY <1>1, <1>4 DEF FactIds
  <1>6. fact(s, c, n, now) = [id |-> id, corrects |-> s.corrects, quality |-> q, stamp |-> now]
    BY <1>3, <1>4 DEF fact
  <1> QED
    BY <1>1, <1>5, <1>6 DEF Facts

LEMMA ExtractFacts ==
    ASSUME NEW c \in Conversations, NEW new \in Seq(Statements), NEW start \in Nat,
           NEW now \in Nat
    PROVE  LET b == extract_facts_from_messages(c, new, start, now)
           IN  /\ b \in Seq(Facts \cup {None}) /\ Len(b) = Len(new)
               /\ \A i \in 1 .. Len(new) : b[i] # None =>
                     /\ b[i].id.source = c /\ b[i].id.index = start + i - 1
                     /\ b[i].stamp = now
  <1>1. DOMAIN new = 1 .. Len(new) /\ Len(new) \in Nat
    OBVIOUS
  <1>2. PICK all : all = [i \in 1 .. Len(new) |->
                            IF validate_fact_candidate(new[i])
                            THEN fact(new[i], c, start + i - 1, now) ELSE None]
    OBVIOUS
  <1>3. ASSUME NEW i \in 1 .. Len(new), all[i] # None
        PROVE  /\ all[i] \in Facts /\ all[i].id.source = c
               /\ all[i].id.index = start + i - 1 /\ all[i].stamp = now
    <2>1. new[i] \in Statements /\ start + i - 1 \in Nat
      OBVIOUS
    <2>2. all[i] = fact(new[i], c, start + i - 1, now)
      BY <1>2, <1>3
    <2> QED
      BY <2>1, <2>2, FactType
  <1>4. PICK b : b = dedupe_facts(all)
    OBVIOUS
  <1>5. DOMAIN b = 1 .. Len(new) /\ \A i \in 1 .. Len(new) : b[i] \in {None, all[i]}
    <2>1. DOMAIN all = 1 .. Len(new)
      BY <1>2
    <2> QED
      BY <1>4, <2>1 DEF dedupe_facts
  <1>6. b = [i \in 1 .. Len(new) |-> b[i]]
    <2>1. b = [i \in DOMAIN all |-> b[i]]
      BY <1>4 DEF dedupe_facts
    <2> QED
      BY <1>2, <2>1
  <1>7. \A i \in 1 .. Len(new) : b[i] \in Facts \cup {None}
    BY <1>3, <1>5
  <1>8. b \in Seq(Facts \cup {None}) /\ Len(b) = Len(new)
    BY <1>1, <1>6, <1>7
  <1>9. extract_facts_from_messages(c, new, start, now) = b
    BY <1>1, <1>2, <1>4 DEF extract_facts_from_messages
  <1> QED
    BY <1>3, <1>5, <1>8, <1>9

LEMMA ExtractGraph ==
    ASSUME NEW c \in Conversations, NEW new \in Seq(Statements), NEW start \in Nat
    PROVE  LET b == extract_memory_graph(c, new, start)
           IN  /\ b \in Seq(Relationships)
               /\ \A i \in 1 .. Len(b) : b[i].source = c
  <1>1. DOMAIN new = 1 .. Len(new) /\ Len(new) \in Nat
    OBVIOUS
  <1>2. PICK b : b = extract_memory_graph(c, new, start)
    OBVIOUS
  <1>3. b = [i \in 1 .. Len(new) |->
               [about |-> new[i].about, object |-> <<new[i].value, new[i].corrects>>,
                source |-> c, index |-> start + i - 1]]
    BY <1>1, <1>2 DEF extract_memory_graph
  <1>4. ASSUME NEW i \in 1 .. Len(new)
        PROVE  b[i] \in Relationships /\ b[i].source = c
    <2>1. new[i] \in Statements /\ start + i - 1 \in Nat
      OBVIOUS
    <2>2. /\ new[i].about \in Attributes /\ new[i].value \in Values
          /\ new[i].corrects \in Values \cup {None}
      BY <2>1 DEF Statements
    <2>3. <<new[i].value, new[i].corrects>> \in Values \X (Values \cup {None})
      BY <2>2
    <2> QED
      BY <1>3, <2>1, <2>2, <2>3 DEF Relationships
  <1>5. b \in Seq(Relationships) /\ Len(b) = Len(new)
    BY <1>1, <1>3, <1>4
  <1> QED
    BY <1>2, <1>4, <1>5

LEMMA DerivationType ==
    ASSUME clock \in Nat, NEW c \in Conversations, NEW new \in Seq(Statements),
           NEW start \in Nat
    PROVE  LET j == Derivation(c, new, start)
           IN  /\ j \in Jobs /\ Own(j) /\ j.conv = c /\ j.step = "facts"
               /\ InOrder(j.facts) /\ Len(j.facts) = Len(new)
               /\ \A i \in 1 .. Len(new) : j.facts[i] # None =>
                     /\ j.facts[i].id.source = c /\ j.facts[i].id.index = start + i - 1
                     /\ j.facts[i].stamp = clock
  <1>1. PICK now \in Nat : now = clock
    OBVIOUS
  <1>2. PICK b : b = extract_facts_from_messages(c, new, start, now)
    OBVIOUS
  <1>3. /\ b \in Seq(Facts \cup {None}) /\ Len(b) = Len(new)
        /\ \A i \in 1 .. Len(new) : b[i] # None =>
              b[i].id.source = c /\ b[i].id.index = start + i - 1 /\ b[i].stamp = now
    <2>1. LET e == extract_facts_from_messages(c, new, start, now)
          IN  /\ e \in Seq(Facts \cup {None}) /\ Len(e) = Len(new)
              /\ \A i \in 1 .. Len(new) : e[i] # None =>
                    /\ e[i].id.source = c /\ e[i].id.index = start + i - 1
                    /\ e[i].stamp = now
      BY ExtractFacts, SMT
    <2> QED
      BY <1>2, <2>1, Zenon
  <1>4. PICK r : r = extract_memory_graph(c, new, start)
    OBVIOUS
  <1>5. r \in Seq(Relationships) /\ \A i \in 1 .. Len(r) : r[i].source = c
    BY <1>4, ExtractGraph
  <1>6. PICK j : j = [conv |-> c, step |-> "facts", facts |-> b, graph |-> r]
    OBVIOUS
  <1>7. Derivation(c, new, start) = j
    BY <1>1, <1>2, <1>4, <1>6 DEF Derivation
  <1>8. j \in Jobs /\ j.conv = c /\ j.step = "facts" /\ j.facts = b /\ j.graph = r
    BY <1>3, <1>5, <1>6 DEF Jobs
  <1>9. InOrder(b)
    <2> SUFFICES ASSUME NEW i \in 1 .. Len(b), NEW h \in 1 .. i - 1, b[h] # None, b[i] # None
                 PROVE  b[h].stamp = b[i].stamp /\ b[h].id.index < b[i].id.index
      BY DEF InOrder
    <2>1. i \in 1 .. Len(new) /\ h \in 1 .. Len(new)
      BY <1>3
    <2>2. /\ b[h].stamp = now /\ b[i].stamp = now
          /\ b[h].id.index = start + h - 1 /\ b[i].id.index = start + i - 1
      BY <1>3, <2>1
    <2> QED
      BY <2>2
  <1>10. Own(j)
    BY <1>3, <1>5, <1>8 DEF Own
  <1> QED
    BY <1>1, <1>3, <1>7, <1>8, <1>9, <1>10

-----------------------------------------------------------------------------
(* Types, ownership of derived records and one active object, with any      *)
(* number of processes.                                                     *)

LEMMA InitInv ==
    Init => Inv
  <1> SUFFICES ASSUME Init PROVE Inv
    OBVIOUS
  <1>1. DOMAIN <<>> = {}
    OBVIOUS
  <1>2. FactTable(<<>>) /\ GraphTable(<<>>)
    BY <1>1 DEF FactTable, GraphTable
  <1>3. \A c \in Conversations : <<>> \in Seq(Statements)
    OBVIOUS
  <1>4. TypeOK
    BY <1>2, <1>3 DEF Init, TypeOK
  <1>5. JobsOwn
    BY DEF Init, JobsOwn
  <1>6. OneActiveObject
    BY <1>1 DEF Init, OneActiveObject, ActiveIn
  <1> QED
    BY <1>4, <1>5, <1>6 DEF Inv

(* A worker takes or drops a job while the tables stand still.              *)
LEMMA JobInv ==
    ASSUME Inv, NEW w \in Workers, NEW j \in Jobs \cup {None}, j # None => Own(j),
           job' = [job EXCEPT ![w] = j]
    PROVE  job' \in [Workers -> Jobs \cup {None}] /\ JobsOwn'
  <1>1. job \in [Workers -> Jobs \cup {None}]
    BY DEF Inv, TypeOK
  <1>2. \A v \in Workers : job'[v] = IF v = w THEN j ELSE job[v]
    BY <1>1
  <1>3. \A v \in Workers : job'[v] # None => Own(job'[v])
    BY <1>2 DEF Inv, JobsOwn
  <1>4. JobsOwn'
    BY <1>3 DEF JobsOwn, Own
  <1> QED
    BY <1>1, <1>4

LEMMA SameGraph ==
    ASSUME OneActiveObject, graph' = graph
    PROVE  OneActiveObject'
  BY DEF OneActiveObject, ActiveIn

LEMMA SaveInv ==
    ASSUME Inv, NEW w \in Workers, NEW c \in Conversations, NEW new \in Batches,
           Save(w, c, new)
    PROVE  Inv'
  <1>1. new \in Seq(Statements)
    BY BatchesAssumption
  <1>2. msgs[c] \in Seq(Statements) /\ Len(msgs[c]) \in Nat
    BY DEF Inv, TypeOK
  <1>3. PICK n \in Nat : n = Len(msgs[c])
    BY <1>2
  <1>4. PICK j : j = Derivation(c, new, n)
    OBVIOUS
  <1>5. j \in Jobs /\ Own(j)
    BY <1>1, <1>4, DerivationType DEF Inv, TypeOK
  <1>6. job' = [job EXCEPT ![w] = j]
    BY <1>3, <1>4 DEF Save
  <1>7. job' \in [Workers -> Jobs \cup {None}] /\ JobsOwn'
    BY <1>5, <1>6, JobInv
  <1>8. msgs[c] \o new \in Seq(Statements)
    BY <1>1, <1>2
  <1>9. TypeOK'
    BY <1>7, <1>8 DEF Inv, TypeOK, Save
  <1>10. OneActiveObject'
    BY SameGraph DEF Inv, Save
  <1> QED
    BY <1>7, <1>9, <1>10 DEF Inv

LEMMA HoldForReviewInv ==
    ASSUME Inv, NEW w \in Workers, NEW c \in Conversations, NEW new \in Batches,
           HoldForReview(w, c, new)
    PROVE  Inv'
  <1>1. new \in Seq(Statements)
    BY BatchesAssumption
  <1>2. TypeOK'
    BY <1>1 DEF Inv, TypeOK, HoldForReview
  <1>3. JobsOwn'
    BY DEF Inv, JobsOwn, Own, HoldForReview
  <1>4. OneActiveObject'
    BY SameGraph DEF Inv, HoldForReview
  <1> QED
    BY <1>2, <1>3, <1>4 DEF Inv

LEMMA CheckPendingInv ==
    ASSUME Inv, NEW w \in Workers, NEW c \in Conversations, CheckPending(w, c)
    PROVE  Inv'
  <1>1. PICK j : j = [conv |-> c, step |-> "approve", facts |-> <<>>, graph |-> <<>>]
    OBVIOUS
  <1>2. <<>> \in Seq(Facts \cup {None}) /\ <<>> \in Seq(Relationships) /\ Len(<<>>) = 0
    OBVIOUS
  <1>3. j \in Jobs
    BY <1>1, <1>2 DEF Jobs
  <1>4. Own(j)
    BY <1>1, <1>2 DEF Own
  <1>5. job' = [job EXCEPT ![w] = j]
    BY <1>1 DEF CheckPending
  <1>6. job' \in [Workers -> Jobs \cup {None}] /\ JobsOwn'
    BY <1>3, <1>4, <1>5, JobInv
  <1>7. TypeOK'
    BY <1>6 DEF Inv, TypeOK, CheckPending
  <1>8. OneActiveObject'
    BY SameGraph DEF Inv, CheckPending
  <1> QED
    BY <1>6, <1>7, <1>8 DEF Inv

LEMMA BusyJob ==
    ASSUME Inv, NEW w \in Workers, job[w] # None
    PROVE  job[w] \in Jobs /\ Own(job[w])
  BY DEF Inv, TypeOK, JobsOwn

LEMMA ApproveInv ==
    ASSUME Inv, NEW w \in Workers, Approve(w)
    PROVE  Inv'
  <1>1. job[w] \in Jobs
    BY BusyJob DEF Approve, At
  <1>2. PICK c \in Conversations : c = job[w].conv
    BY <1>1 DEF Jobs
  <1>3. PICK new \in Seq(Statements) : new = msgs[c]
    BY DEF Inv, TypeOK
  <1>4. PICK j : j = Derivation(c, new, 0)
    OBVIOUS
  <1>5. j \in Jobs /\ Own(j)
    BY <1>4, DerivationType DEF Inv, TypeOK
  <1>6. job' = [job EXCEPT ![w] = j] /\ status' = [status EXCEPT ![c] = "active"]
    BY <1>2, <1>3, <1>4 DEF Approve
  <1>7. job' \in [Workers -> Jobs \cup {None}] /\ JobsOwn'
    BY <1>5, <1>6, JobInv
  <1>8. TypeOK'
    <2>1. status' \in [Conversations -> {"absent", "pending_review", "active"}]
      BY <1>6 DEF Inv, TypeOK
    <2>2. clock' = clock + 1 /\ UNCHANGED <<msgs, facts, graph, saves, supersedes, failures>>
      BY DEF Approve
    <2> QED
      BY <1>7, <2>1, <2>2 DEF Inv, TypeOK
  <1>9. OneActiveObject'
    BY SameGraph DEF Inv, Approve
  <1> QED
    BY <1>7, <1>8, <1>9 DEF Inv

(* What StoreFacts does to the table, whatever else is going on.            *)
LEMMA StoreFactsRows ==
    ASSUME Inv, NEW w \in Workers, StoreFacts(w)
    PROVE  /\ FactTable(facts') /\ DOMAIN facts \subseteq DOMAIN facts'
           /\ \A id \in DOMAIN facts : facts'[id] # facts[id] =>
                                          SameScope(id.source, job[w].conv)
  <1>1. job[w] \in Jobs /\ Own(job[w])
    BY BusyJob DEF StoreFacts, At
  <1>2. PICK b : b = job[w].facts
    OBVIOUS
  <1>3. PICK c : c = job[w].conv
    OBVIOUS
  <1>4. PICK T : T = facts
    OBVIOUS
  <1>5. /\ b \in Seq(Facts \cup {None}) /\ FactTable(T)
        /\ \A i \in 1 .. Len(b) : b[i] # None => b[i].id.source = c
    BY <1>1, <1>2, <1>3, <1>4 DEF Jobs, Own, Inv, TypeOK
  <1>6. PICK U : U = insert_facts(T, b)
    OBVIOUS
  <1>7. /\ FactTable(U) /\ DOMAIN T \subseteq DOMAIN U
        /\ \A id \in DOMAIN T : U[id] # T[id] => SameScope(id.source, c)
    BY <1>5, <1>6, InsertFactsScope
  <1>8. facts' = U
    BY <1>2, <1>4, <1>6 DEF StoreFacts
  <1> QED
    BY <1>3, <1>4, <1>7, <1>8

LEMMA StoreFactsInv ==
    ASSUME Inv, NEW w \in Workers, StoreFacts(w)
    PROVE  Inv'
  <1>1. job[w] \in Jobs /\ Own(job[w])
    BY BusyJob DEF StoreFacts, At
  <1>2. PICK i : i = job[w]
    OBVIOUS
  <1>3. PICK j : j = [i EXCEPT !.step = "graph"]
    OBVIOUS
  <1>4. j \in Jobs /\ j.facts = i.facts /\ j.graph = i.graph /\ j.conv = i.conv
    BY <1>1, <1>2, <1>3 DEF Jobs
  <1>5. Own(j)
    BY <1>1, <1>2, <1>4 DEF Own
  <1>6. job' = [job EXCEPT ![w] = j]
    BY <1>2, <1>3 DEF StoreFacts
  <1>7. job' \in [Workers -> Jobs \cup {None}] /\ JobsOwn'
    BY <1>4, <1>5, <1>6, JobInv
  <1>8. FactTable(facts)'
    BY StoreFactsRows DEF FactTable
  <1>9. TypeOK'
    BY <1>7, <1>8 DEF Inv, TypeOK, StoreFacts
  <1>10. OneActiveObject'
    BY SameGraph DEF Inv, StoreFacts
  <1> QED
    BY <1>7, <1>9, <1>10 DEF Inv

LEMMA StoreGraphRows ==
    ASSUME Inv, NEW w \in Workers, StoreGraph(w)
    PROVE  /\ GraphTable(graph') /\ OneObject(graph') /\ DOMAIN graph \subseteq DOMAIN graph'
           /\ \A id \in DOMAIN graph : graph'[id] # graph[id] =>
                                          SameScope(id.source, job[w].conv)
  <1>1. job[w] \in Jobs /\ Own(job[w])
    BY BusyJob DEF StoreGraph, At
  <1>2. PICK b : b = job[w].graph
    OBVIOUS
  <1>3. PICK c : c = job[w].conv
    OBVIOUS
  <1>4. PICK T : T = graph
    OBVIOUS
  <1>5. /\ b \in Seq(Relationships) /\ GraphTable(T)
        /\ \A i \in 1 .. Len(b) : b[i].source = c
    BY <1>1, <1>2, <1>3, <1>4 DEF Jobs, Own, Inv, TypeOK
  <1>6. OneObject(T)
    BY <1>4 DEF Inv, OneActiveObject, OneObject
  <1>7. PICK U : U = upsert_graph_records(T, b)
    OBVIOUS
  <1>8. /\ GraphTable(U) /\ OneObject(U) /\ DOMAIN T \subseteq DOMAIN U
        /\ \A id \in DOMAIN T : U[id] # T[id] => SameScope(id.source, c)
    BY <1>5, <1>6, <1>7, UpsertGraphRows
  <1>9. graph' = U
    BY <1>2, <1>4, <1>7 DEF StoreGraph
  <1> QED
    BY <1>3, <1>4, <1>8, <1>9

LEMMA StoreGraphInv ==
    ASSUME Inv, NEW w \in Workers, StoreGraph(w)
    PROVE  Inv'
  <1>1. job' = [job EXCEPT ![w] = None]
    BY DEF StoreGraph
  <1>2. job' \in [Workers -> Jobs \cup {None}] /\ JobsOwn'
    BY <1>1, JobInv
  <1>3. GraphTable(graph') /\ OneObject(graph')
    BY StoreGraphRows
  <1>4. GraphTable(graph)' /\ OneActiveObject'
    BY <1>3 DEF GraphTable, OneObject, OneActiveObject, ActiveIn
  <1>5. TypeOK'
    BY <1>2, <1>4 DEF Inv, TypeOK, StoreGraph
  <1> QED
    BY <1>2, <1>4, <1>5 DEF Inv

LEMMA FailInv ==
    ASSUME Inv, NEW w \in Workers, Fail(w)
    PROVE  Inv'
  <1>1. job' = [job EXCEPT ![w] = None]
    BY DEF Fail
  <1>2. job' \in [Workers -> Jobs \cup {None}] /\ JobsOwn'
    BY <1>1, JobInv
  <1>3. TypeOK'
    BY <1>2 DEF Inv, TypeOK, Fail
  <1>4. OneActiveObject'
    BY SameGraph DEF Inv, Fail
  <1> QED
    BY <1>2, <1>3, <1>4 DEF Inv

(* A row superseded by hand keeps what it says and when it was stored.      *)
LEMMA FactSupersedeRows ==
    ASSUME Inv, NEW w \in Workers, NEW id \in DOMAIN facts,
           NEW by \in {Unknown} \cup DOMAIN facts, FactSupersede(w, id, by)
    PROVE  /\ FactTable(facts') /\ DOMAIN facts' = DOMAIN facts
           /\ \A x \in DOMAIN facts : Carried(facts[x], facts'[x])
           /\ facts'[id].by # None
           /\ \A x \in DOMAIN facts \ {id} : facts'[x] = facts[x]
  <1>1. FactTable(facts)
    BY DEF Inv, TypeOK
  <1>2. by \in FactIds \cup {Unknown}
    BY <1>1 DEF FactTable
  <1>3. by # None
    BY <1>2, NoneIsNoRecord
  <1>4. PICK r \in FactRows : r = facts[id]
    BY <1>1 DEF FactTable
  <1>5. PICK s : s = [r EXCEPT !.by = by]
    OBVIOUS
  <1>6. s \in FactRows /\ s.by = by /\ s.created = r.created /\ s.corrects = r.corrects
    BY <1>2, <1>5 DEF FactRows
  <1>7. facts' = [facts EXCEPT ![id] = s]
    BY <1>4, <1>5 DEF FactSupersede
  <1>8. /\ DOMAIN facts' = DOMAIN facts /\ facts'[id] = s
        /\ \A x \in DOMAIN facts \ {id} : facts'[x] = facts[x]
    BY <1>1, <1>7 DEF FactTable
  <1>9. FactTable(facts')
    BY <1>1, <1>6, <1>7 DEF FactTable
  <1>10. \A x \in DOMAIN facts : Carried(facts[x], facts'[x])
    BY <1>1, <1>3, <1>4, <1>6, <1>8 DEF Carried, FactTable
  <1> QED
    BY <1>3, <1>6, <1>8, <1>9, <1>10

LEMMA FactSupersedeInv ==
    ASSUME Inv, NEW w \in Workers, NEW id \in DOMAIN facts,
           NEW by \in {Unknown} \cup DOMAIN facts, FactSupersede(w, id, by)
    PROVE  Inv'
  <1>1. FactTable(facts)'
    BY FactSupersedeRows DEF FactTable
  <1>2. TypeOK'
    BY <1>1 DEF Inv, TypeOK, FactSupersede
  <1>3. JobsOwn'
    BY DEF Inv, JobsOwn, Own, FactSupersede
  <1>4. OneActiveObject'
    BY SameGraph DEF Inv, FactSupersede
  <1> QED
    BY <1>2, <1>3, <1>4 DEF Inv

LEMMA StutterInv ==
    ASSUME Inv, UNCHANGED vars
    PROVE  Inv'
  <1>1. TypeOK'
    BY DEF Inv, TypeOK, FactTable, GraphTable, vars
  <1>2. JobsOwn'
    BY DEF Inv, JobsOwn, Own, vars
  <1>3. OneActiveObject'
    BY SameGraph DEF Inv, vars
  <1> QED
    BY <1>1, <1>2, <1>3 DEF Inv

LEMMA NextInv ==
    Inv /\ [Next]_vars => Inv'
  <1> SUFFICES ASSUME Inv, [Next]_vars PROVE Inv'
    OBVIOUS
  <1>1. CASE UNCHANGED vars
    BY <1>1, StutterInv
  <1>2. CASE Next
    <2> PICK w \in Workers :
            \/ \E c \in Conversations, new \in Batches :
                  Save(w, c, new) \/ HoldForReview(w, c, new)
            \/ \E c \in Conversations : CheckPending(w, c)
            \/ Approve(w) \/ StoreFacts(w) \/ StoreGraph(w) \/ Fail(w)
            \/ \E id \in DOMAIN facts, by \in {Unknown} \cup DOMAIN facts :
                  FactSupersede(w, id, by)
      BY <1>2 DEF Next
    <2> QED
      BY SaveInv, HoldForReviewInv, CheckPendingInv, ApproveInv, StoreFactsInv,
         StoreGraphInv, FailInv, FactSupersedeInv
  <1> QED
    BY <1>1, <1>2

LEMMA InvHolds ==
    Spec => []Inv
  BY InitInv, NextInv, PTL DEF Spec

(* Every row, job and counter of the fact and relationship tables has its   *)
(* type in every reachable state.                                           *)
THEOREM TypesHold ==
    Spec => []TypeOK
  <1>1. Inv => TypeOK
    BY DEF Inv
  <1> QED
    BY <1>1, InvHolds, PTL

(* upsert_graph_records leaves at most one object of a conflict group       *)
(* active, whatever processes save at the same time and wherever they stop. *)
THEOREM OneActiveObjectHolds ==
    Spec => []OneActiveObject
  <1>1. Inv => OneActiveObject
    BY DEF Inv
  <1> QED
    BY <1>1, InvHolds, PTL

(* A row changes only in a step that stores what was derived from a         *)
(* conversation of the same owner and project.                              *)
LEMMA ScopeStep ==
    ASSUME Inv, Next, NEW w \in Workers, job[w] # None, job'[w] # job[w]
    PROVE  /\ \A id \in Stored : facts'[id] # facts[id] => SameScope(id.source, job[w].conv)
           /\ \A id \in DOMAIN graph : graph'[id] # graph[id] =>
                                            SameScope(id.source, job[w].conv)
  <1>1. job \in [Workers -> Jobs \cup {None}]
    BY DEF Inv, TypeOK
  <1>2. PICK v \in Workers :
            \/ \E c \in Conversations, new \in Batches :
                  Save(v, c, new) \/ HoldForReview(v, c, new)
            \/ \E c \in Conversations : CheckPending(v, c)
            \/ Approve(v) \/ StoreFacts(v) \/ StoreGraph(v) \/ Fail(v)
            \/ \E id \in DOMAIN facts, by \in {Unknown} \cup DOMAIN facts :
                  FactSupersede(v, id, by)
    BY DEF Next
  <1>3. CASE facts' = facts /\ graph' = graph
    BY <1>3
  <1>4. CASE StoreFacts(v)
    <2>1. PICK j : job' = [job EXCEPT ![v] = j]
      <3>1. PICK i : i = job[v]
        OBVIOUS
      <3>2. job' = [job EXCEPT ![v] = [i EXCEPT !.step = "graph"]]
        BY <1>4, <3>1 DEF StoreFacts
      <3> QED
        BY <3>2
    <2>2. v = w
      BY <1>1, <2>1
    <2>3. graph' = graph
      BY <1>4 DEF StoreFacts
    <2> QED
      BY <1>4, <2>2, <2>3, StoreFactsRows DEF Stored
  <1>5. CASE StoreGraph(v)
    <2>1. v = w
      BY <1>1, <1>5 DEF StoreGraph
    <2>2. facts' = facts
      BY <1>5 DEF StoreGraph
    <2> QED
      BY <1>5, <2>1, <2>2, StoreGraphRows
  <1>6. CASE \E id \in DOMAIN facts, by \in {Unknown} \cup DOMAIN facts : FactSupersede(v, id, by)
    BY <1>6 DEF FactSupersede
  <1> QED
    BY <1>2, <1>3, <1>4, <1>5, <1>6 DEF Save, HoldForReview, CheckPending, Approve, Fail

(* What insert_facts and upsert_graph_records change while they store what  *)
(* one conversation said belongs to that conversation's owner and project.  *)
THEOREM ScopesHold ==
    Spec => ScopesAreSeparate
  <1>1. Inv /\ [Next]_vars =>
          [\A w \in Workers : (job[w] # None /\ job'[w] # job[w]) =>
              /\ \A id \in Stored : facts'[id] # facts[id] => SameScope(id.source, job[w].conv)
              /\ \A id \in DOMAIN graph : graph'[id] # graph[id] =>
                                               SameScope(id.source, job[w].conv)]_vars
    BY ScopeStep
  <1> QED
    BY <1>1, InvHolds, PTL DEF Spec, ScopesAreSeparate

-----------------------------------------------------------------------------
(* Corrections and supersessions, in one process.                           *)

LEMMA InitIInv ==
    Init => IInv
  <1> SUFFICES ASSUME Init PROVE IInv
    OBVIOUS
  <1>1. DOMAIN facts = {}
    BY DEF Init
  <1>2. Serial /\ JobsReady
    BY DEF Init, Serial, JobsReady
  <1>3. Spoken(facts) /\ CorrectionWins
    BY <1>1 DEF Spoken, CorrectionWins, Stored, Active, ActiveIn
  <1> QED
    BY <1>2, <1>3 DEF IInv

(* The lock is free: nobody is busy.                                        *)
LEMMA Idle ==
    ASSUME OneProcess, NEW w \in Workers, LockFree(w)
    PROVE  \A v \in Workers : job[v] = None
  BY DEF OneProcess, LockFree

(* The only busy worker goes on with j, or stops.                           *)
LEMMA OnlyJob ==
    ASSUME Inv, NEW w \in Workers, \A v \in Workers \ {w} : job[v] = None, NEW j,
           job' = [job EXCEPT ![w] = j], j # None => Ready(j)'
    PROVE  Serial' /\ JobsReady'
  <1>1. job \in [Workers -> Jobs \cup {None}]
    BY DEF Inv, TypeOK
  <1>2. job'[w] = j /\ \A v \in Workers \ {w} : job'[v] = None
    BY <1>1
  <1>3. Serial'
    BY <1>2 DEF Serial
  <1>4. JobsReady'
    <2> SUFFICES ASSUME NEW v \in Workers, job'[v] # None PROVE Ready(job[v])'
      BY DEF JobsReady
    <2>1. v = w /\ job'[v] = j
      BY <1>2
    <2>2. Ready(j)'
      BY <2>1
    <2> QED
      BY <2>1, <2>2 DEF Ready
  <1> QED
    BY <1>3, <1>4

LEMMA OnlyBusy ==
    ASSUME IInv, NEW w \in Workers, job[w] # None
    PROVE  Ready(job[w]) /\ \A v \in Workers \ {w} : job[v] = None
  BY DEF IInv, Serial, JobsReady

(* The facts do not change, and what they were said in stays.               *)
LEMMA SameFacts ==
    ASSUME Inv, IInv, facts' = facts, clock' \in {clock, clock + 1},
           msgs' \in [Conversations -> Seq(Statements)],
           \A c \in Conversations : status[c] = "active" =>
               status'[c] = "active" /\ Len(msgs[c]) <= Len(msgs'[c])
    PROVE  Spoken(facts)' /\ CorrectionWins'
  <1>1. CorrectionWins'
    BY DEF IInv, CorrectionWins, Stored, Active, ActiveIn, Older
  <1>2. Spoken(facts)'
    <2> SUFFICES ASSUME NEW id \in DOMAIN facts
                 PROVE  /\ id.index < Len(msgs'[id.source]) /\ status'[id.source] = "active"
                        /\ facts[id].created < clock'
      BY DEF Spoken, Said
    <2>1. /\ id.index < Len(msgs[id.source]) /\ status[id.source] = "active"
          /\ facts[id].created < clock
      BY DEF IInv, Spoken, Said
    <2>2. /\ id.index \in Nat /\ id.source \in Conversations /\ facts[id].created \in Nat
          /\ clock \in Nat
      BY DEF Inv, TypeOK, FactTable, FactIds, FactRows
    <2>3. Len(msgs[id.source]) \in Nat /\ Len(msgs'[id.source]) \in Nat
      BY <2>2 DEF Inv, TypeOK
    <2> QED
      BY <2>1, <2>2, <2>3
  <1> QED
    BY <1>1, <1>2

(* A derivation finds only older facts, and of its conversation only those  *)
(* of earlier messages.                                                     *)
LEMMA DerivationReady ==
    ASSUME Inv, IInv, NEW c \in Conversations, NEW new \in Seq(Statements), NEW start \in Nat,
           \A id \in DOMAIN facts : id.source = c => id.index < start,
           NEW j, j = Derivation(c, new, start),
           facts' = facts, clock' = clock + 1, status'[c] = "active",
           msgs'[c] \in Seq(Statements), Len(msgs'[c]) = start + Len(new)
    PROVE  Ready(j)'
  <1>1. clock \in Nat
    BY DEF Inv, TypeOK
  <1>2. /\ j.conv = c /\ j.step = "facts"
        /\ InOrder(j.facts) /\ Len(j.facts) = Len(new)
        /\ \A i \in 1 .. Len(new) : j.facts[i] # None =>
              /\ j.facts[i].id.source = c /\ j.facts[i].id.index = start + i - 1
              /\ j.facts[i].stamp = clock
    BY <1>1, DerivationType
  <1>3. ASSUME NEW i \in 1 .. Len(j.facts), j.facts[i] # None
        PROVE  /\ Said(j.facts[i].id)' /\ j.facts[i].stamp < clock'
               /\ Fresh(facts, j.facts[i])'
    <2>1. PICK f : f = j.facts[i]
      OBVIOUS
    <2>2. f.id.source = c /\ f.id.index = start + i - 1 /\ f.stamp = clock
      BY <1>2, <1>3, <2>1
    <2>3. Said(f.id)'
      <3>1. i \in Nat /\ i <= Len(new) /\ Len(new) \in Nat
        BY <1>2
      <3>2. f.id.index < Len(msgs'[c])
        BY <2>2, <3>1
      <3> QED
        BY <2>2, <3>2 DEF Said
    <2>4. f.stamp < clock'
      BY <1>1, <2>2
    <2>5. ASSUME NEW g \in DOMAIN facts
          PROVE  /\ facts[g].created <= f.stamp
                 /\ g.source = f.id.source => g.index < f.id.index
      <3>1. facts[g].created < clock /\ facts[g].created \in Nat /\ g.index \in Nat
        BY DEF Inv, IInv, Spoken, TypeOK, FactTable, FactRows, FactIds
      <3>2. i \in Nat /\ i >= 1
        BY <1>2
      <3> QED
        BY <1>1, <2>2, <3>1, <3>2
    <2>6. Fresh(facts, f)'
      BY <2>5 DEF Fresh
    <2> QED
      BY <2>1, <2>3, <2>4, <2>6
  <1>4. InOrder(j.facts)'
    BY <1>2 DEF InOrder
  <1> QED
    BY <1>2, <1>3, <1>4 DEF Ready

LEMMA SaveIInv ==
    ASSUME OneProcess, Inv, IInv, NEW w \in Workers, NEW c \in Conversations,
           NEW new \in Batches, Save(w, c, new)
    PROVE  IInv'
  <1>1. new \in Seq(Statements) /\ Len(new) \in Nat
    BY BatchesAssumption
  <1>2. msgs \in [Conversations -> Seq(Statements)] /\ msgs[c] \in Seq(Statements)
    BY DEF Inv, TypeOK
  <1>3. PICK n \in Nat : n = Len(msgs[c])
    BY <1>2
  <1>4. PICK j : j = Derivation(c, new, n)
    OBVIOUS
  <1>5. \A v \in Workers : job[v] = None
    BY Idle DEF Save
  <1>6. /\ facts' = facts /\ clock' = clock + 1 /\ job' = [job EXCEPT ![w] = j]
        /\ msgs' = [msgs EXCEPT ![c] = msgs[c] \o new]
        /\ status' = [status EXCEPT ![c] = "active"]
    BY <1>3, <1>4 DEF Save
  <1>7. msgs[c] \o new \in Seq(Statements) /\ Len(msgs[c] \o new) = n + Len(new)
    BY <1>1, <1>2, <1>3
  <1>8. /\ msgs' \in [Conversations -> Seq(Statements)]
        /\ msgs'[c] \in Seq(Statements) /\ Len(msgs'[c]) = n + Len(new)
        /\ \A d \in Conversations \ {c} : msgs'[d] = msgs[d]
    BY <1>2, <1>6, <1>7
  <1>9. status'[c] = "active" /\ \A d \in Conversations \ {c} : status'[d] = status[d]
    BY <1>6 DEF Inv, TypeOK
  <1>10. \A d \in Conversations : status[d] = "active" =>
             status'[d] = "active" /\ Len(msgs[d]) <= Len(msgs'[d])
    <2> SUFFICES ASSUME NEW d \in Conversations, status[d] = "active"
                 PROVE  status'[d] = "active" /\ Len(msgs[d]) <= Len(msgs'[d])
      OBVIOUS
    <2>1. CASE d = c
      BY <1>1, <1>3, <1>8, <1>9, <2>1
    <2>2. CASE d # c
      <3>1. Len(msgs[d]) \in Nat /\ msgs'[d] = msgs[d]
        BY <1>2, <1>8, <2>2
      <3> QED
        BY <1>9, <2>2, <3>1
    <2> QED
      BY <2>1, <2>2
  <1>11. Spoken(facts)' /\ CorrectionWins'
    BY <1>6, <1>8, <1>10, SameFacts
  <1>12. \A id \in DOMAIN facts : id.source = c => id.index < n
    BY <1>3 DEF IInv, Spoken, Said
  <1>13. Ready(j)'
    BY <1>1, <1>4, <1>6, <1>8, <1>9, <1>12, DerivationReady
  <1>14. Serial' /\ JobsReady'
    BY <1>5, <1>6, <1>13, OnlyJob
  <1> QED
    BY <1>11, <1>14 DEF IInv

LEMMA ApproveIInv ==
    ASSUME OneProcess, Inv, IInv, NEW w \in Workers, Approve(w)
    PROVE  IInv'
  <1>1. job[w] \in Jobs /\ job[w].step = "approve"
    BY BusyJob DEF Approve, At
  <1>2. Ready(job[w]) /\ \A v \in Workers \ {w} : job[v] = None
    BY OnlyBusy DEF Approve, At
  <1>3. PICK c \in Conversations : c = job[w].conv
    BY <1>1 DEF Jobs
  <1>4. status[c] = "pending_review"
    BY <1>1, <1>2, <1>3 DEF Ready
  <1>5. PICK new \in Seq(Statements) : new = msgs[c]
    BY DEF Inv, TypeOK
  <1>6. PICK j : j = Derivation(c, new, 0)
    OBVIOUS
  <1>7. /\ facts' = facts /\ clock' = clock + 1 /\ job' = [job EXCEPT ![w] = j]
        /\ msgs' = msgs /\ status' = [status EXCEPT ![c] = "active"]
    BY <1>3, <1>5, <1>6 DEF Approve
  <1>8. msgs' \in [Conversations -> Seq(Statements)] /\ msgs'[c] \in Seq(Statements)
    BY <1>7 DEF Inv, TypeOK
  <1>9. status'[c] = "active" /\ \A d \in Conversations \ {c} : status'[d] = status[d]
    BY <1>7 DEF Inv, TypeOK
  <1>10. \A d \in Conversations : status[d] = "active" =>
             status'[d] = "active" /\ Len(msgs[d]) <= Len(msgs'[d])
    BY <1>7, <1>8, <1>9
  <1>11. Spoken(facts)' /\ CorrectionWins'
    BY <1>7, <1>8, <1>10, SameFacts
  <1>12. \A id \in DOMAIN facts : id.source = c => id.index < 0
    BY <1>4 DEF IInv, Spoken, Said
  <1>13. Len(msgs'[c]) = 0 + Len(new)
    BY <1>5, <1>7
  <1>14. Ready(j)'
    BY <1>6, <1>7, <1>8, <1>9, <1>12, <1>13, DerivationReady
  <1>15. Serial' /\ JobsReady'
    BY <1>2, <1>7, <1>14, OnlyJob
  <1> QED
    BY <1>11, <1>15 DEF IInv

LEMMA HoldForReviewIInv ==
    ASSUME OneProcess, Inv, IInv, NEW w \in Workers, NEW c \in Conversations,
           NEW new \in Batches, HoldForReview(w, c, new)
    PROVE  IInv'
  <1>1. new \in Seq(Statements)
    BY BatchesAssumption
  <1>2. \A v \in Workers : job[v] = None
    BY Idle DEF HoldForReview
  <1>3. /\ facts' = facts /\ clock' = clock /\ job' = job /\ status[c] = "absent"
        /\ msgs' = [msgs EXCEPT ![c] = new]
        /\ status' = [status EXCEPT ![c] = "pending_review"]
    BY DEF HoldForReview
  <1>4. msgs \in [Conversations -> Seq(Statements)]
    BY DEF Inv, TypeOK
  <1>5. /\ msgs' \in [Conversations -> Seq(Statements)]
        /\ \A d \in Conversations \ {c} : msgs'[d] = msgs[d]
    BY <1>1, <1>3, <1>4
  <1>6. \A d \in Conversations \ {c} : status'[d] = status[d]
    BY <1>3 DEF Inv, TypeOK
  <1>7. \A d \in Conversations : status[d] = "active" =>
             status'[d] = "active" /\ Len(msgs[d]) <= Len(msgs'[d])
    <2> SUFFICES ASSUME NEW d \in Conversations, status[d] = "active"
                 PROVE  status'[d] = "active" /\ Len(msgs[d]) <= Len(msgs'[d])
      OBVIOUS
    <2>1. d # c
      BY <1>3
    <2>2. Len(msgs[d]) \in Nat /\ msgs'[d] = msgs[d]
      BY <1>4, <1>5, <2>1
    <2> QED
      BY <1>6, <2>1, <2>2
  <1>8. Spoken(facts)' /\ CorrectionWins'
    BY <1>3, <1>5, <1>7, SameFacts
  <1>9. Serial' /\ JobsReady'
    BY <1>2, <1>3 DEF Serial, JobsReady
  <1> QED
    BY <1>8, <1>9 DEF IInv

LEMMA CheckPendingIInv ==
    ASSUME OneProcess, Inv, IInv, NEW w \in Workers, NEW c \in Conversations,
           CheckPending(w, c)
    PROVE  IInv'
  <1>1. PICK j : j = [conv |-> c, step |-> "approve", facts |-> <<>>, graph |-> <<>>]
    OBVIOUS
  <1>2. \A v \in Workers : job[v] = None
    BY Idle DEF CheckPending
  <1>3. /\ facts' = facts /\ clock' = clock /\ job' = [job EXCEPT ![w] = j]
        /\ msgs' = msgs /\ status' = status /\ status[c] = "pending_review"
    BY <1>1 DEF CheckPending
  <1>4. Ready(j)'
    BY <1>1, <1>3 DEF Ready
  <1>5. Serial' /\ JobsReady'
    BY <1>2, <1>3, <1>4, OnlyJob
  <1>6. Spoken(facts)' /\ CorrectionWins'
    <2>1. /\ msgs' \in [Conversations -> Seq(Statements)]
          /\ \A d \in Conversations : Len(msgs[d]) \in Nat
      BY <1>3 DEF Inv, TypeOK
    <2> QED
      BY <1>3, <2>1, SameFacts
  <1> QED
    BY <1>5, <1>6 DEF IInv

LEMMA StoreFactsIInv ==
    ASSUME OneProcess, Inv, IInv, NEW w \in Workers, StoreFacts(w)
    PROVE  IInv' /\ \A id \in DOMAIN facts : facts[id].by # None => facts'[id].by # None
  <1>1. job[w] \in Jobs /\ job[w].step = "facts"
    BY BusyJob DEF StoreFacts, At
  <1>2. Ready(job[w]) /\ \A v \in Workers \ {w} : job[v] = None
    BY OnlyBusy DEF StoreFacts, At
  <1>3. PICK b : b = job[w].facts
    OBVIOUS
  <1>4. PICK T : T = facts
    OBVIOUS
  <1>5. b \in Seq(Facts \cup {None}) /\ InOrder(b)
    BY <1>1, <1>2, <1>3 DEF Jobs, Ready
  <1>6. \A i \in 1 .. Len(b) : b[i] # None =>
              Fresh(T, b[i]) /\ Said(b[i].id) /\ b[i].stamp < clock
    BY <1>1, <1>2, <1>3, <1>4 DEF Ready
  <1>7. FactTable(T) /\ Wins(T) /\ Spoken(T)
    <2>1. FactTable(T) /\ Spoken(T)
      BY <1>4 DEF Inv, TypeOK, IInv
    <2>2. Wins(T)
      BY <1>4 DEF IInv, CorrectionWins, Wins, Stored, Active, Older, OlderIn
    <2> QED
      BY <2>1, <2>2
  <1>8. PICK U : U = insert_facts(T, b)
    OBVIOUS
  <1>9. /\ Wins(U) /\ Spoken(U)
        /\ \A id \in DOMAIN T : T[id].by # None => U[id].by # None
    BY <1>5, <1>6, <1>7, <1>8, InsertFactsWins
  <1>10. facts' = U /\ UNCHANGED <<msgs, status, clock>>
    BY <1>3, <1>4, <1>8 DEF StoreFacts
  <1>11. CorrectionWins'
    BY <1>9, <1>10 DEF CorrectionWins, Wins, Stored, Active, ActiveIn, Older, OlderIn
  <1>12. Spoken(facts)'
    BY <1>9, <1>10 DEF Spoken, Said
  <1>13. PICK i : i = job[w]
    OBVIOUS
  <1>14. PICK j : j = [i EXCEPT !.step = "graph"]
    OBVIOUS
  <1>15. j.step = "graph"
    BY <1>1, <1>13, <1>14 DEF Jobs
  <1>16. job' = [job EXCEPT ![w] = j]
    BY <1>13, <1>14 DEF StoreFacts
  <1>17. Ready(j)'
    BY <1>15 DEF Ready
  <1>18. Serial' /\ JobsReady'
    BY <1>2, <1>16, <1>17, OnlyJob
  <1> QED
    BY <1>4, <1>9, <1>10, <1>11, <1>12, <1>18 DEF IInv

LEMMA EndIInv ==
    ASSUME OneProcess, Inv, IInv, NEW w \in Workers, StoreGraph(w) \/ Fail(w)
    PROVE  IInv'
  <1>1. /\ job' = [job EXCEPT ![w] = None] /\ job[w] # None
        /\ facts' = facts /\ clock' = clock /\ msgs' = msgs /\ status' = status
    BY DEF StoreGraph, Fail, At
  <1>2. \A v \in Workers \ {w} : job[v] = None
    BY <1>1, OnlyBusy
  <1>3. PICK j : j = None
    OBVIOUS
  <1>4. job' = [job EXCEPT ![w] = j] /\ (j # None => Ready(j)')
    BY <1>1, <1>3
  <1>5. Serial' /\ JobsReady'
    BY <1>2, <1>4, OnlyJob
  <1>6. Spoken(facts)' /\ CorrectionWins'
    <2>1. /\ msgs' \in [Conversations -> Seq(Statements)]
          /\ \A d \in Conversations : Len(msgs[d]) \in Nat
      BY <1>1 DEF Inv, TypeOK
    <2> QED
      BY <1>1, <2>1, SameFacts
  <1> QED
    BY <1>5, <1>6 DEF IInv

LEMMA FactSupersedeIInv ==
    ASSUME OneProcess, Inv, IInv, NEW w \in Workers, NEW id \in DOMAIN facts,
           NEW by \in {Unknown} \cup DOMAIN facts, FactSupersede(w, id, by)
    PROVE  IInv' /\ \A x \in DOMAIN facts : facts[x].by # None => facts'[x].by # None
  <1>1. \A v \in Workers : job[v] = None
    BY Idle DEF FactSupersede
  <1>2. UNCHANGED <<msgs, status, job, clock>>
    BY DEF FactSupersede
  <1>3. Serial' /\ JobsReady'
    BY <1>1, <1>2 DEF Serial, JobsReady
  <1>4. DOMAIN facts' = DOMAIN facts /\ \A x \in DOMAIN facts : Carried(facts[x], facts'[x])
    BY FactSupersedeRows
  <1>5. \A x \in DOMAIN facts : /\ facts'[x].created = facts[x].created
                                /\ facts'[x].corrects = facts[x].corrects
                                /\ facts[x].by # None => facts'[x].by # None
    BY <1>4 DEF Carried
  <1>6. Spoken(facts)'
    BY <1>2, <1>4, <1>5 DEF IInv, Spoken, Said
  <1>7. CorrectionWins'
    <2>1. Active' \subseteq Active /\ Stored' = Stored
      BY <1>4, <1>5 DEF Active, ActiveIn, Stored
    <2> SUFFICES ASSUME NEW f \in Stored, NEW g \in Active',
                        facts'[f].corrects # None, facts'[f].corrects \in TextsIn[g.value],
                        g.about = f.about, SameScope(g.source, f.source), Older(g, f)'
                 PROVE  FALSE
      BY <2>1 DEF CorrectionWins
    <2>2. g \in Active /\ g \in DOMAIN facts /\ f \in DOMAIN facts
      BY <2>1 DEF Active, ActiveIn, Stored
    <2>3. Older(g, f)
      BY <1>5, <2>2 DEF Older
    <2> QED
      BY <1>5, <2>2, <2>3 DEF IInv, CorrectionWins
  <1> QED
    BY <1>3, <1>5, <1>6, <1>7 DEF IInv

(* A step keeps the invariant, and no superseded fact comes back.           *)
LEMMA NextIInv ==
    ASSUME OneProcess, Inv, IInv, [Next]_vars
    PROVE  IInv' /\ \A id \in Stored \ Active : facts'[id].by # None
  <1> SUFFICES IInv' /\ \A id \in DOMAIN facts : facts[id].by # None => facts'[id].by # None
    BY DEF Stored, Active, ActiveIn
  <1>1. CASE UNCHANGED vars
    <2>1. Serial' /\ JobsReady'
      BY <1>1 DEF IInv, Serial, JobsReady, Ready, InOrder, Said, Fresh, vars
    <2>2. Spoken(facts)' /\ CorrectionWins'
      BY <1>1 DEF IInv, Spoken, Said, CorrectionWins, Stored, Active, ActiveIn, Older, vars
    <2>3. facts' = facts
      BY <1>1 DEF vars
    <2> QED
      BY <2>1, <2>2, <2>3 DEF IInv
  <1>2. CASE Next
    <2>1. PICK w \in Workers :
            \/ \E c \in Conversations, new \in Batches :
                  Save(w, c, new) \/ HoldForReview(w, c, new)
            \/ \E c \in Conversations : CheckPending(w, c)
            \/ Approve(w) \/ StoreFacts(w) \/ StoreGraph(w) \/ Fail(w)
            \/ \E id \in DOMAIN facts, by \in {Unknown} \cup DOMAIN facts :
                  FactSupersede(w, id, by)
      BY <1>2 DEF Next
    <2>2. CASE StoreFacts(w)
      BY <2>2, StoreFactsIInv
    <2>3. CASE \E id \in DOMAIN facts, by \in {Unknown} \cup DOMAIN facts :
                  FactSupersede(w, id, by)
      BY <2>3, FactSupersedeIInv
    <2>4. CASE \/ \E c \in Conversations, new \in Batches :
                     Save(w, c, new) \/ HoldForReview(w, c, new)
               \/ \E c \in Conversations : CheckPending(w, c)
               \/ Approve(w) \/ StoreGraph(w) \/ Fail(w)
      <3>1. IInv'
        BY <2>4, SaveIInv, HoldForReviewIInv, CheckPendingIInv, ApproveIInv, EndIInv
      <3>2. facts' = facts
        BY <2>4 DEF Save, HoldForReview, CheckPending, Approve, StoreGraph, Fail
      <3> QED
        BY <3>1, <3>2
    <2> QED
      BY <2>1, <2>2, <2>3, <2>4
  <1> QED
    BY <1>1, <1>2

(* In one process a stored correction has superseded every older fact of    *)
(* its owner and project that names the corrected value, through appends,   *)
(* approvals of held memories, failed saves and supersessions by hand.      *)
THEOREM CorrectionWinsHolds ==
    ASSUME OneProcess
    PROVE  Spec => []CorrectionWins
  <1>1. Inv /\ IInv /\ [Next]_vars => IInv'
    BY NextIInv
  <1>2. IInv => CorrectionWins
    BY DEF IInv
  <1> QED
    BY <1>1, <1>2, InitIInv, InvHolds, PTL DEF Spec

(* In one process no insert_facts and no fact_supersede makes a superseded  *)
(* fact active again.                                                       *)
THEOREM SupersededStaysHolds ==
    ASSUME OneProcess
    PROVE  Spec => SupersededStays
  <1>1. Inv /\ IInv /\ [Next]_vars => IInv'
    BY NextIInv
  <1>2. Inv /\ IInv /\ [Next]_vars => [\A id \in Stored \ Active : facts'[id].by # None]_vars
    BY NextIInv
  <1> QED
    BY <1>1, <1>2, InitIInv, InvHolds, PTL DEF Spec, SupersededStays

-----------------------------------------------------------------------------
(* Imports, whose state is none of the above.  First, what the importers    *)
(* return.                                                                  *)

Sequence(s) == \E S : s \in Seq(S)

LEMMA SequenceShape ==
    ASSUME NEW s, Sequence(s)
    PROVE  /\ Len(s) \in Nat /\ DOMAIN s = 1 .. Len(s)
           /\ s = [i \in 1 .. Len(s) |-> s[i]]
  BY DEF Sequence

LEMMA FunctionIsSequence ==
    ASSUME NEW n \in Nat, NEW f, f = [i \in 1 .. n |-> f[i]]
    PROVE  Sequence(f) /\ Len(f) = n
  <1>1. PICK S : S = {f[i] : i \in 1 .. n}
    OBVIOUS
  <1>2. f \in [1 .. n -> S]
    BY <1>1
  <1>3. f \in Seq(S)
    BY <1>2
  <1> QED
    BY <1>2, <1>3 DEF Sequence

(* A choice of entries of a sequence is finite, and its arrangement is a    *)
(* sequence.                                                                *)
LEMMA PartIsFinite ==
    ASSUME NEW s, Sequence(s), NEW I \in SUBSET DOMAIN s
    PROVE  Cardinality(I) \in Nat
  <1>1. Len(s) \in Nat /\ DOMAIN s = 1 .. Len(s)
    BY SequenceShape
  <1>2. IsFiniteSet(1 .. Len(s))
    BY <1>1, FS_Interval
  <1>3. IsFiniteSet(I)
    BY <1>1, <1>2, FS_Subset
  <1> QED
    BY <1>3, FS_CardinalityType

LEMMA PartIsSequence ==
    ASSUME NEW s, Sequence(s), NEW t, NEW I \in SUBSET DOMAIN s
    PROVE  Sequence(Selected(t, I))
  <1>1. PICK n \in Nat : n = Cardinality(I)
    BY PartIsFinite
  <1>2. PICK f : f = Selected(t, I)
    OBVIOUS
  <1>3. f = [i \in 1 .. n |-> f[i]]
    BY <1>1, <1>2 DEF Selected, Arranged
  <1> QED
    BY <1>2, <1>3, FunctionIsSequence

LEMMA RangeIsSequence ==
    ASSUME NEW s, Sequence(s), NEW f, f = [i \in DOMAIN s |-> f[i]]
    PROVE  Sequence(f)
  BY SequenceShape, FunctionIsSequence

LEMMA SliceIsSequence ==
    ASSUME NEW s, NEW m \in Int, NEW n \in Int
    PROVE  Sequence(SubSeq(s, m, n))
  <1>1. PICK S : S = {s[i] : i \in m .. n}
    OBVIOUS
  <1>2. SubSeq(s, m, n) \in Seq(S)
    BY <1>1, SubSeqProperties
  <1> QED
    BY <1>2 DEF Sequence

(* Conversations that were read, each with a list of messages.              *)
Parsed(payloads) ==
    Sequence(payloads) /\ \A k \in 1 .. Len(payloads) : Sequence(payloads[k].messages)

Imported(result) == result = Refused \/ Parsed(result)

LEMMA OneConversation ==
    ASSUME NEW session, NEW messages, Sequence(messages)
    PROVE  Parsed(<<Payload(session, messages)>>)
  <1>1. PICK p : p = Payload(session, messages)
    OBVIOUS
  <1>2. p.messages = messages
    BY <1>1 DEF Payload
  <1>3. <<p>> = [i \in 1 .. 1 |-> <<p>>[i]]
    OBVIOUS
  <1>4. Sequence(<<p>>) /\ Len(<<p>>) = 1
    BY <1>3, FunctionIsSequence
  <1> QED
    BY <1>1, <1>2, <1>4 DEF Parsed

LEMMA MessagesAreSequence ==
    ASSUME NEW log, Sequence(log)
    PROVE  Sequence(MessagesIn(log))
  BY PartIsSequence DEF MessagesIn, Where

LEMMA ClaudeCode ==
    ASSUME NEW log, Sequence(log)
    PROVE  Imported(claude_code_session_jsonl(log))
  <1> DEFINE texts == Where(MessagesIn(log), LAMBDA r : claude_text(r) # <<>>)
             kept == claude_is_duplicate(texts)
  <1>1. Sequence(texts)
    BY MessagesAreSequence, PartIsSequence DEF Where
  <1> HIDE DEF texts
  <1>2. Sequence(kept)
    BY <1>1, PartIsSequence DEF claude_is_duplicate, FirstOfEach
  <1> HIDE DEF kept
  <1>3. Sequence(Transcript(kept, claude_text))
    BY <1>2, RangeIsSequence DEF Transcript
  <1> QED
    BY <1>3, OneConversation DEF claude_code_session_jsonl, Imported, texts, kept

LEMMA CopilotCLI ==
    ASSUME NEW log, Sequence(log)
    PROVE  Imported(copilot_cli_events_jsonl(log))
  <1> DEFINE visible == Where(MessagesIn(log), LAMBDA r :
                            ~ copilot_is_internal_message(r) /\ copilot_text(r) # <<>>)
             kept == FirstOfEach(visible, copilot_message_identity)
  <1>1. Sequence(visible)
    BY MessagesAreSequence, PartIsSequence DEF Where
  <1> HIDE DEF visible
  <1>2. Sequence(kept)
    BY <1>1, PartIsSequence DEF FirstOfEach
  <1> HIDE DEF kept
  <1>3. Sequence(Transcript(kept, copilot_text))
    BY <1>2, RangeIsSequence DEF Transcript
  <1> QED
    BY <1>3, OneConversation DEF copilot_cli_events_jsonl, Imported, visible, kept
LEMMA Codex ==
    ASSUME NEW log, Sequence(log)
    PROVE  Imported(codex_rollout_jsonl(log))
  <1> DEFINE candidates == Where(MessagesIn(log), LAMBDA r : codex_text(r) # <<>>)
             kept == Selected(candidates, {i \in DOMAIN candidates : LastUserOfTurn(candidates, i)})
  <1>1. Sequence(candidates)
    BY MessagesAreSequence, PartIsSequence DEF Where
  <1> HIDE DEF candidates
  <1>2. Sequence(kept)
    BY <1>1, PartIsSequence
  <1> HIDE DEF kept
  <1>3. Sequence(Transcript(kept, codex_text))
    BY <1>2, RangeIsSequence DEF Transcript
  <1> QED
    BY <1>3, OneConversation DEF codex_rollout_jsonl, Imported, candidates, kept

LEMMA DeepseekHarness ==
    ASSUME NEW log, Sequence(log)
    PROVE  Imported(deepseek_harness_session_jsonl(log))
  <1> SUFFICES ASSUME log # <<>> PROVE Imported(deepseek_harness_session_jsonl(log))
    BY DEF deepseek_harness_session_jsonl, Imported
  <1> DEFINE events == Tail(log)
             visible == Where(MessagesIn(events), LAMBDA r : ~ (r.role = "user" /\ r.internal))
             texts == Where(visible, LAMBDA r : harness_text(r) # <<>>)
             kept == FirstOfEach(texts, RecordId)
  <1>1. Sequence(events)
    BY DEF Sequence
  <1> HIDE DEF events
  <1>2. Sequence(visible)
    BY <1>1, MessagesAreSequence, PartIsSequence DEF Where
  <1> HIDE DEF visible
  <1>3. Sequence(texts)
    BY <1>2, PartIsSequence DEF Where
  <1> HIDE DEF texts
  <1>4. Sequence(kept)
    BY <1>3, PartIsSequence DEF FirstOfEach
  <1> HIDE DEF kept
  <1>5. Sequence(Transcript(kept, harness_text))
    BY <1>4, RangeIsSequence DEF Transcript
  <1> QED
    BY <1>5, OneConversation
    DEF deepseek_harness_session_jsonl, Imported, events, visible, texts, kept

LEMMA Pi ==
    ASSUME NEW log, Sequence(log)
    PROVE  Imported(pi_session_jsonl(log))
  <1> DEFINE entries == pi_split_header(log)
             path == pi_active_path(entries)
             spoken == Where(path, LAMBDA r : r.kind = "message" /\ r.role \in KnownRoles)
             kept == Where(spoken, LAMBDA r : pi_text(r) # <<>>)
  <1> SUFFICES ASSUME entries # Refused PROVE Imported(pi_session_jsonl(log))
    BY DEF pi_session_jsonl, Imported
  <1>1. Sequence(entries)
    <2>1. Len(log) \in Nat
      BY SequenceShape
    <2>2. \E n \in Nat : entries = SubSeq(log, n + 1, Len(log))
      BY DEF pi_split_header
    <2> QED
      BY <2>1, <2>2, SliceIsSequence
  <1> HIDE DEF entries
  <1>2. Sequence(path)
    <2> DEFINE up == Ancestors(entries, Len(entries))
               places == [n \in 1 .. Len(entries) |-> up[n - 1]]
               chosen == Where(places, LAMBDA i : i # 0)
               climbed == [n \in DOMAIN chosen |-> entries[chosen[n]]]
    <2> HIDE DEF up
    <2>1. Len(entries) \in Nat
      BY <1>1, SequenceShape
    <2>2. Sequence(places)
      BY <2>1, FunctionIsSequence
    <2> HIDE DEF places
    <2>3. Sequence(chosen)
      BY <2>2, PartIsSequence DEF Where
    <2> HIDE DEF chosen
    <2>4. Sequence(climbed)
      BY <2>3, RangeIsSequence
    <2> HIDE DEF climbed
    <2>5. Len(climbed) \in Nat
      BY <2>4, SequenceShape
    <2>6. Sequence(Reverse(climbed))
      BY <2>5, FunctionIsSequence DEF Reverse
    <2> QED
      BY <2>6 DEF pi_active_path, up, places, chosen, climbed
  <1> HIDE DEF path
  <1>3. Sequence(spoken)
    BY <1>2, PartIsSequence DEF Where
  <1> HIDE DEF spoken
  <1>4. Sequence(kept)
    BY <1>3, PartIsSequence DEF Where
  <1> HIDE DEF kept
  <1>5. Sequence(Transcript(kept, pi_text))
    BY <1>4, RangeIsSequence DEF Transcript
  <1> QED
    BY <1>5, OneConversation DEF pi_session_jsonl, Imported, entries, path, spoken, kept

LEMMA QwenCode ==
    ASSUME NEW log, Sequence(log)
    PROVE  Imported(qwen_code_session_export(log))
  <1> DEFINE messages == MessagesIn(log)
             texts == Where(messages, LAMBDA r : qwen_text(r) # <<>> /\ ~ qwen_ill_formed(r))
             kept == FirstOfEach(texts, RecordId)
  <1>1. Sequence(messages)
    BY MessagesAreSequence
  <1> HIDE DEF messages
  <1>2. Sequence(texts)
    BY <1>1, PartIsSequence DEF Where
  <1> HIDE DEF texts
  <1>3. Sequence(kept)
    BY <1>2, PartIsSequence DEF FirstOfEach
  <1> HIDE DEF kept
  <1>4. Sequence(Transcript(kept, qwen_text))
    BY <1>3, RangeIsSequence DEF Transcript
  <1> QED
    BY <1>4, OneConversation
    DEF qwen_code_session_export, qwen_payload, Imported, messages, texts, kept

LEMMA GeminiMessages ==
    ASSUME NEW log, Sequence(log), gemini_messages(log) # Refused
    PROVE  Sequence(gemini_messages(log))
  <1> DEFINE known == Where(MessagesIn(log), LAMBDA r : r.role \in KnownRoles)
             kept == Where(known, LAMBDA r :
                         gemini_text(r) # <<>> /\ ~ gemini_is_session_context(r))
  <1>1. Sequence(known)
    BY MessagesAreSequence, PartIsSequence DEF Where
  <1> HIDE DEF known
  <1>2. Sequence(kept)
    BY <1>1, PartIsSequence DEF Where
  <1> HIDE DEF kept
  <1> QED
    BY <1>2 DEF gemini_messages, known, kept

LEMMA GeminiCLI ==
    ASSUME NEW log, Sequence(log)
    PROVE  Imported(gemini_cli_session_json(log))
  <1> DEFINE kept == gemini_messages(log)
  <1> SUFFICES ASSUME kept # Refused PROVE Imported(gemini_cli_session_json(log))
    BY DEF gemini_cli_session_json, gemini_import_session_document,
           gemini_import_shared_history, Imported
  <1>1. Sequence(kept)
    BY GeminiMessages
  <1> HIDE DEF kept
  <1>2. Sequence(Transcript(kept, gemini_text))
    BY <1>1, RangeIsSequence DEF Transcript
  <1> QED
    BY <1>2, OneConversation
    DEF gemini_cli_session_json, gemini_import_session_document,
        gemini_import_shared_history, Imported, kept
(* Several conversations of one file.                                       *)
LEMMA SeveralConversations ==
    ASSUME NEW n \in Nat, NEW f, f = [k \in 1 .. n |-> f[k]],
           \A k \in 1 .. n : Sequence(f[k].messages)
    PROVE  Parsed(f)
  BY FunctionIsSequence DEF Parsed

LEMMA HermesPayload ==
    ASSUME NEW session, NEW messages, Sequence(messages),
           hermes_payload(session, messages) # Refused
    PROVE  Sequence(hermes_payload(session, messages).messages)
  <1> DEFINE candidates == Where(messages, LAMBDA r : r.turn = Missing)
             visible == Where(candidates, LAMBDA r :
                            hermes_is_visible(r) /\ r.role \in KnownRoles /\ hermes_text(r) # <<>>)
             kept == FirstOfEach(visible, RecordId)
  <1>1. Sequence(candidates)
    BY PartIsSequence DEF Where
  <1> HIDE DEF candidates
  <1>2. Sequence(visible)
    BY <1>1, PartIsSequence DEF Where
  <1> HIDE DEF visible
  <1>3. Sequence(kept)
    BY <1>2, PartIsSequence DEF FirstOfEach
  <1> HIDE DEF kept
  <1>4. Sequence(Transcript(kept, hermes_text))
    BY <1>3, RangeIsSequence DEF Transcript
  <1>5. hermes_payload(session, messages) = Payload(session, Transcript(kept, hermes_text))
    BY DEF hermes_payload, candidates, visible, kept
  <1> QED
    BY <1>4, <1>5 DEF Payload

LEMMA HermesLines ==
    ASSUME NEW log, Sequence(log), NEW h
    PROVE  Sequence(hermes_lines(log, h))
  BY PartIsSequence DEF hermes_lines

LEMMA Hermes ==
    ASSUME NEW log, Sequence(log), NEW schema
    PROVE  Imported(hermes_session_jsonl(log, schema))
  <1> DEFINE read == hermes_apply_override(log, schema)
             at == {h \in DOMAIN read : read[h].kind = "header"}
             heads == Selected([h \in DOMAIN read |-> h], at)
             payloads == [k \in DOMAIN heads |->
                 hermes_payload(read[heads[k]].session, hermes_lines(read, heads[k]))]
  <1> SUFFICES ASSUME hermes_session_jsonl(log, schema) # Refused
               PROVE  Parsed(hermes_session_jsonl(log, schema))
    BY DEF Imported
  <1>1. Sequence(read)
    BY RangeIsSequence DEF hermes_apply_override
  <1>2. hermes_session_jsonl(log, schema) = payloads
        /\ \A k \in DOMAIN payloads : payloads[k] # Refused
    BY DEF hermes_session_jsonl
  <1> HIDE DEF read
  <1>3. Sequence(heads)
    BY <1>1, PartIsSequence
  <1> HIDE DEF heads
  <1>4. \A k \in DOMAIN heads : Sequence(payloads[k].messages)
    BY <1>1, <1>2, HermesLines, HermesPayload
  <1>5. PICK n \in Nat : n = Len(heads) /\ DOMAIN heads = 1 .. n
    BY <1>3, SequenceShape
  <1>6. payloads = [k \in 1 .. n |-> payloads[k]]
    BY <1>5
  <1> HIDE DEF payloads
  <1> QED
    BY <1>2, <1>4, <1>5, <1>6, SeveralConversations

LEMMA OpenCode ==
    ASSUME NEW log, Sequence(log)
    PROVE  Imported(opencode_session_json(log))
  <1> DEFINE messages == SubSeq(log, 2, Len(log))
             kept == Where(messages, LAMBDA r : opencode_text(r) # <<>>)
  <1>1. Sequence(messages)
    BY SequenceShape, SliceIsSequence
  <1> HIDE DEF messages
  <1>2. Sequence(kept)
    BY <1>1, PartIsSequence DEF Where
  <1> HIDE DEF kept
  <1>3. Sequence(Transcript(kept, opencode_text))
    BY <1>2, RangeIsSequence DEF Transcript
  <1> QED
    BY <1>3, OneConversation DEF opencode_session_json, Imported, messages, kept

LEMMA DeepseekShare ==
    ASSUME NEW log, Sequence(log)
    PROVE  Imported(deepseek_share_json(log))
  <1> DEFINE messages == SubSeq(log, 2, Len(log))
  <1>1. Sequence(messages)
    BY SequenceShape, SliceIsSequence
  <1> HIDE DEF messages
  <1>2. Sequence(Transcript(messages, deepseek_text))
    BY <1>1, RangeIsSequence DEF Transcript
  <1> QED
    BY <1>2, OneConversation DEF deepseek_share_json, Imported, messages

LEMMA CSVRows ==
    ASSUME NEW rows, Sequence(rows), NEW conversation
    PROVE  Sequence(csv_rows(rows, conversation))
  <1>1. PICK I \in SUBSET DOMAIN rows : I = {i \in DOMAIN rows : rows[i].parent = conversation}
    OBVIOUS
  <1>2. PICK n \in Nat : n = Cardinality(I)
    BY PartIsFinite
  <1>3. PICK f : f = csv_rows(rows, conversation)
    OBVIOUS
  <1>4. f = [k \in 1 .. n |-> f[k]]
    BY <1>1, <1>2, <1>3 DEF csv_rows, Arranged
  <1> QED
    BY <1>3, <1>4, FunctionIsSequence

LEMMA CopilotActivity ==
    ASSUME NEW log, Sequence(log)
    PROVE  Imported(copilot_activity_csv(log))
  <1> DEFINE rows == Where(log, LAMBDA r : csv_text(r) # <<>>)
             conversations == FirstOfEach(rows, LAMBDA r : r.parent)
             payloads == [k \in DOMAIN conversations |->
                 Payload(Missing, Transcript(csv_rows(rows, conversations[k].parent), csv_text))]
  <1> SUFFICES ASSUME copilot_activity_csv(log) # Refused
               PROVE  Parsed(copilot_activity_csv(log))
    BY DEF Imported
  <1>1. copilot_activity_csv(log) = payloads
    BY DEF copilot_activity_csv
  <1>2. Sequence(rows)
    BY PartIsSequence DEF Where
  <1> HIDE DEF rows
  <1>3. Sequence(conversations)
    BY <1>2, PartIsSequence DEF FirstOfEach
  <1> HIDE DEF conversations
  <1>4. ASSUME NEW k \in DOMAIN conversations PROVE Sequence(payloads[k].messages)
    <2>1. PICK t : t = csv_rows(rows, conversations[k].parent)
      OBVIOUS
    <2>2. Sequence(t)
      BY <1>2, <2>1, CSVRows
    <2>3. Sequence(Transcript(t, csv_text))
      BY <2>2, RangeIsSequence DEF Transcript
    <2> QED
      BY <2>1, <2>3 DEF Payload
  <1>5. PICK n \in Nat : n = Len(conversations) /\ DOMAIN conversations = 1 .. n
    BY <1>3, SequenceShape
  <1>6. payloads = [k \in 1 .. n |-> payloads[k]]
    BY <1>5
  <1> HIDE DEF payloads
  <1> QED
    BY <1>1, <1>4, <1>5, <1>6, SeveralConversations

-----------------------------------------------------------------------------
(* The two importers that fold over their records: there is a state after   *)
(* each record, and the last one is the result.                             *)

DroidSteps(log, a) ==
    /\ a[0] = droid_start
    /\ \A n \in 1 .. Len(log) : a[n] = droid_frame(a[n - 1], log[n])

ManualSteps(log, a) ==
    /\ a[0] = <<>>
    /\ \A n \in 1 .. Len(log) : a[n] = manual_line(a[n - 1], log[n])

DroidResult(stream) ==
    IF stream.bad \/ stream.messages = <<>> THEN Refused
    ELSE <<Payload(stream.session, stream.messages)>>

ManualResult(messages) ==
    IF messages \in {Refused, <<>>} \/ \E i \in DOMAIN messages : messages[i].text = <<>>
    THEN Refused ELSE <<Payload(Missing, messages)>>

LEMMA DroidStreamSteps ==
    ASSUME NEW log, Len(log) \in Nat
    PROVE  \E a : DroidSteps(log, a) /\ droid_import_stream(log) = DroidResult(a[Len(log)])
  <1> DEFINE F(h, m) == [n \in 0 .. m |->
                           IF n = 0 THEN droid_start ELSE droid_frame(h[n - 1], log[n])]
             T == {m \in Nat : \E h : h = F(h, m)}
             g == CHOOSE h : h = F(h, Len(log))
  <1>1. 0 \in T
    <2> DEFINE h == [n \in 0 .. 0 |-> droid_start]
    <2>1. h = F(h, 0)
      OBVIOUS
    <2> QED
      BY <2>1
  <1>2. ASSUME NEW m \in Nat, m \in T PROVE m + 1 \in T
    <2>1. PICK h : h = F(h, m)
      BY <1>2
    <2>2. PICK x : x = droid_frame(h[m], log[m + 1])
      OBVIOUS
    <2> DEFINE k == [n \in 0 .. m + 1 |-> IF n <= m THEN h[n] ELSE x]
    <2>3. ASSUME NEW n \in 0 .. m + 1
          PROVE  k[n] = IF n = 0 THEN droid_start ELSE droid_frame(k[n - 1], log[n])
      <3>1. CASE n = 0
        <4>1. h[0] = droid_start
          BY <2>1
        <4> QED
          BY <3>1, <4>1
      <3>2. CASE n \in 1 .. m
        <4>1. h[n] = droid_frame(h[n - 1], log[n])
          BY <2>1, <3>2
        <4>2. k[n] = h[n] /\ k[n - 1] = h[n - 1]
          BY <3>2
        <4> QED
          BY <3>2, <4>1, <4>2
      <3>3. CASE n = m + 1
        <4>1. k[n] = x /\ k[n - 1] = h[m]
          BY <3>3
        <4> QED
          BY <3>3, <4>1, <2>2
      <3> QED
        BY <3>1, <3>2, <3>3
    <2>4. k = F(k, m + 1)
      BY <2>3
    <2> HIDE DEF k, F
    <2> QED
      BY <2>4
  <1>3. \A m \in Nat : m \in T
    <2> HIDE DEF T
    <2> QED BY <1>1, <1>2, SetInduction
  <1>4. \E h : h = F(h, Len(log))
    BY <1>3
  <1>5. g = F(g, Len(log))
    <2> HIDE DEF F
    <2> QED BY <1>4
  <1>6. droid_import_stream(log) = DroidResult(g[Len(log)])
    BY DEF droid_import_stream, DroidResult
  <1> HIDE DEF g
  <1>7. \A n \in 0 .. Len(log) : g[n] = IF n = 0 THEN droid_start ELSE droid_frame(g[n - 1], log[n])
    <2> SUFFICES ASSUME NEW n \in 0 .. Len(log)
                 PROVE  g[n] = IF n = 0 THEN droid_start ELSE droid_frame(g[n - 1], log[n])
      OBVIOUS
    <2>1. F(g, Len(log))[n] = IF n = 0 THEN droid_start ELSE droid_frame(g[n - 1], log[n])
      OBVIOUS
    <2> HIDE DEF F
    <2> QED BY <1>5, <2>1
  <1>8. DroidSteps(log, g)
    BY <1>7 DEF DroidSteps
  <1> QED
    BY <1>6, <1>8

LEMMA ManualPasteSteps ==
    ASSUME NEW log, Len(log) \in Nat
    PROVE  \E a : ManualSteps(log, a) /\ manual_paste(log) = ManualResult(a[Len(log)])
  <1> DEFINE F(h, m) == [n \in 0 .. m |->
                           IF n = 0 THEN <<>> ELSE manual_line(h[n - 1], log[n])]
             T == {m \in Nat : \E h : h = F(h, m)}
             g == CHOOSE h : h = F(h, Len(log))
  <1>1. 0 \in T
    <2> DEFINE h == [n \in 0 .. 0 |-> <<>>]
    <2>1. h = F(h, 0)
      OBVIOUS
    <2> QED
      BY <2>1
  <1>2. ASSUME NEW m \in Nat, m \in T PROVE m + 1 \in T
    <2>1. PICK h : h = F(h, m)
      BY <1>2
    <2>2. PICK x : x = manual_line(h[m], log[m + 1])
      OBVIOUS
    <2> DEFINE k == [n \in 0 .. m + 1 |-> IF n <= m THEN h[n] ELSE x]
    <2>3. ASSUME NEW n \in 0 .. m + 1
          PROVE  k[n] = IF n = 0 THEN <<>> ELSE manual_line(k[n - 1], log[n])
      <3>1. CASE n = 0
        <4>1. h[0] = <<>>
          BY <2>1
        <4> QED
          BY <3>1, <4>1
      <3>2. CASE n \in 1 .. m
        <4>1. h[n] = manual_line(h[n - 1], log[n])
          BY <2>1, <3>2
        <4>2. k[n] = h[n] /\ k[n - 1] = h[n - 1]
          BY <3>2
        <4> QED
          BY <3>2, <4>1, <4>2
      <3>3. CASE n = m + 1
        <4>1. k[n] = x /\ k[n - 1] = h[m]
          BY <3>3
        <4> QED
          BY <3>3, <4>1, <2>2
      <3> QED
        BY <3>1, <3>2, <3>3
    <2>4. k = F(k, m + 1)
      BY <2>3
    <2> HIDE DEF k, F
    <2> QED
      BY <2>4
  <1>3. \A m \in Nat : m \in T
    <2> HIDE DEF T
    <2> QED BY <1>1, <1>2, SetInduction
  <1>4. \E h : h = F(h, Len(log))
    BY <1>3
  <1>5. g = F(g, Len(log))
    <2> HIDE DEF F
    <2> QED BY <1>4
  <1>6. manual_paste(log) = ManualResult(g[Len(log)])
    BY DEF manual_paste, ManualResult
  <1> HIDE DEF g
  <1>7. \A n \in 0 .. Len(log) : g[n] = IF n = 0 THEN <<>> ELSE manual_line(g[n - 1], log[n])
    <2> SUFFICES ASSUME NEW n \in 0 .. Len(log)
                 PROVE  g[n] = IF n = 0 THEN <<>> ELSE manual_line(g[n - 1], log[n])
      OBVIOUS
    <2>1. F(g, Len(log))[n] = IF n = 0 THEN <<>> ELSE manual_line(g[n - 1], log[n])
      OBVIOUS
    <2> HIDE DEF F
    <2> QED BY <1>5, <2>1
  <1>8. ManualSteps(log, g)
    BY <1>7 DEF ManualSteps
  <1> QED
    BY <1>6, <1>8

(* The state of a Droid stream.                                             *)
Streamed(state) ==
    \E messages, pending, blocks, session, bad :
        /\ state = [messages |-> messages, pending |-> pending, blocks |-> blocks,
                    session |-> session, bad |-> bad]
        /\ Sequence(messages)

LEMMA TurnIsAdded ==
    ASSUME NEW s, NEW x, NEW y, Sequence(s)
    PROVE  Sequence(s \o <<x, y>>)
  <1>1. PICK S : s \in Seq(S)
    BY DEF Sequence
  <1>2. s \in Seq(S \cup {x, y}) /\ <<x, y>> \in Seq(S \cup {x, y})
    BY <1>1
  <1>3. s \o <<x, y>> \in Seq(S \cup {x, y})
    BY <1>2
  <1> QED
    BY <1>3 DEF Sequence

LEMMA FrameKeepsStream ==
    ASSUME NEW state, Streamed(state), NEW r
    PROVE  Streamed(droid_frame(state, r))
  <1>1. PICK messages, pending, blocks, session, bad :
           /\ state = [messages |-> messages, pending |-> pending, blocks |-> blocks,
                       session |-> session, bad |-> bad]
           /\ Sequence(messages)
    BY DEF Streamed
  <1>2. PICK turn : turn = droid_turn(state, r)
    OBVIOUS
  <1>3. Sequence(turn)
    <2>1. state.messages = messages
      BY <1>1
    <2>2. \E x, y : turn = state.messages \o <<x, y>> \/ turn = state.messages
      BY <1>2 DEF droid_turn
    <2> QED
      BY <1>1, <2>1, <2>2, TurnIsAdded
  <1>4. \E m, p, b, s, d :
           /\ droid_frame(state, r) = [messages |-> m, pending |-> p, blocks |-> b,
                                       session |-> s, bad |-> d]
           /\ m = messages \/ m = turn
    BY <1>1, <1>2 DEF droid_frame
  <1> QED
    BY <1>1, <1>3, <1>4 DEF Streamed

LEMMA DroidStream ==
    ASSUME NEW log, Sequence(log)
    PROVE  Imported(droid_import_stream(log))
  <1>1. Len(log) \in Nat
    BY SequenceShape
  <1>2. PICK a : DroidSteps(log, a) /\ droid_import_stream(log) = DroidResult(a[Len(log)])
    BY <1>1, DroidStreamSteps
  <1> DEFINE T == {n \in Nat : n <= Len(log) => Streamed(a[n])}
  <1>3. 0 \in T
    <2>1. Sequence(<<>>)
      BY DEF Sequence
    <2>2. Streamed(droid_start)
      BY <2>1 DEF Streamed, droid_start
    <2> QED
      BY <1>2, <2>2 DEF DroidSteps
  <1>4. ASSUME NEW n \in Nat, n \in T PROVE n + 1 \in T
    <2> SUFFICES ASSUME n + 1 <= Len(log) PROVE Streamed(a[n + 1])
      OBVIOUS
    <2>1. Streamed(a[n]) /\ n + 1 \in 1 .. Len(log)
      BY <1>1, <1>4
    <2>2. a[n + 1] = droid_frame(a[n], log[n + 1])
      BY <1>2, <2>1 DEF DroidSteps
    <2> QED
      BY <2>1, <2>2, FrameKeepsStream
  <1>5. \A n \in Nat : n \in T
    <2> HIDE DEF T
    <2> QED BY <1>3, <1>4, SetInduction
  <1>6. Streamed(a[Len(log)])
    BY <1>1, <1>5
  <1>7. Sequence(a[Len(log)].messages)
    BY <1>6 DEF Streamed
  <1> QED
    BY <1>2, <1>7, OneConversation DEF DroidResult, Imported

LEMMA DroidExec ==
    ASSUME NEW log, Sequence(log)
    PROVE  Imported(droid_exec_json(log))
  <1>1. Imported(droid_import_one_shot(log))
    <2>1. \A x, y : Sequence(<<x, y>>)
      <3> SUFFICES ASSUME NEW x, NEW y PROVE Sequence(<<x, y>>)
        OBVIOUS
      <3>1. <<x, y>> \in Seq({x, y})
        OBVIOUS
      <3> QED
        BY <3>1 DEF Sequence
    <2> QED
      BY <2>1, OneConversation DEF droid_import_one_shot, Imported
  <1> QED
    BY <1>1, DroidStream DEF droid_exec_json, Imported

LEMMA LineKeepsMessages ==
    ASSUME NEW messages, messages = Refused \/ Sequence(messages), NEW r
    PROVE  manual_line(messages, r) = Refused \/ Sequence(manual_line(messages, r))
  <1> SUFFICES ASSUME manual_line(messages, r) # Refused
               PROVE  Sequence(manual_line(messages, r))
    OBVIOUS
  <1>1. messages # Refused /\ Sequence(messages)
    BY DEF manual_line
  <1>2. ASSUME NEW m PROVE Sequence(Append(messages, m))
    <2>1. PICK S : messages \in Seq(S)
      BY <1>1 DEF Sequence
    <2>2. messages \in Seq(S \cup {m})
      BY <2>1
    <2>3. Append(messages, m) \in Seq(S \cup {m})
      BY <2>2
    <2> QED
      BY <2>3 DEF Sequence
  <1>3. ASSUME NEW i, NEW m PROVE Sequence([messages EXCEPT ![i] = m])
    <2>1. PICK f : f = [messages EXCEPT ![i] = m]
      OBVIOUS
    <2>2. messages = [k \in DOMAIN messages |-> messages[k]]
      BY <1>1, SequenceShape
    <2>3. f = [k \in DOMAIN messages |-> f[k]]
      BY <2>1, <2>2
    <2> QED
      BY <1>1, <2>1, <2>3, RangeIsSequence
  <1>4. \/ \E m : manual_line(messages, r) = Append(messages, m)
        \/ manual_line(messages, r) = messages
        \/ \E i, m : manual_line(messages, r) = [messages EXCEPT ![i] = m]
    BY DEF manual_line
  <1>5. CASE \E m : manual_line(messages, r) = Append(messages, m)
    BY <1>2, <1>5
  <1>6. CASE \E i, m : manual_line(messages, r) = [messages EXCEPT ![i] = m]
    <2>1. PICK i, m : manual_line(messages, r) = [messages EXCEPT ![i] = m]
      BY <1>6
    <2>2. Sequence([messages EXCEPT ![i] = m])
      BY <1>3
    <2> QED
      BY <2>1, <2>2
  <1> QED
    BY <1>1, <1>4, <1>5, <1>6

LEMMA ManualPaste ==
    ASSUME NEW log, Sequence(log)
    PROVE  Imported(manual_paste(log))
  <1>1. Len(log) \in Nat
    BY SequenceShape
  <1>2. PICK a : ManualSteps(log, a) /\ manual_paste(log) = ManualResult(a[Len(log)])
    BY <1>1, ManualPasteSteps
  <1> DEFINE T == {n \in Nat : n <= Len(log) => a[n] = Refused \/ Sequence(a[n])}
  <1>3. 0 \in T
    <2>1. Sequence(<<>>)
      BY DEF Sequence
    <2> QED
      BY <1>2, <2>1 DEF ManualSteps
  <1>4. ASSUME NEW n \in Nat, n \in T PROVE n + 1 \in T
    <2> SUFFICES ASSUME n + 1 <= Len(log) PROVE a[n + 1] = Refused \/ Sequence(a[n + 1])
      OBVIOUS
    <2>1. (a[n] = Refused \/ Sequence(a[n])) /\ n + 1 \in 1 .. Len(log)
      BY <1>1, <1>4
    <2>2. a[n + 1] = manual_line(a[n], log[n + 1])
      BY <1>2, <2>1 DEF ManualSteps
    <2> QED
      BY <2>1, <2>2, LineKeepsMessages
  <1>5. \A n \in Nat : n \in T
    <2> HIDE DEF T
    <2> QED BY <1>3, <1>4, SetInduction
  <1>6. a[Len(log)] = Refused \/ Sequence(a[Len(log)])
    BY <1>1, <1>5
  <1> QED
    BY <1>2, <1>6, OneConversation DEF ManualResult, Imported

(* Whatever the records are, an importer refuses them or returns            *)
(* conversations whose messages are a list.                                 *)
LEMMA ImportersParse ==
    ASSUME NEW f \in Formats, NEW log, Sequence(log), NEW schema
    PROVE  Imported(import_text_with_schema(f, log, schema))
  <1>1. Imported(get_importer(f, log, schema))
    BY ClaudeCode, CopilotCLI, Codex, DeepseekHarness, Pi, QwenCode, DroidExec, GeminiCLI,
       Hermes, OpenCode, DeepseekShare, ManualPaste, CopilotActivity
    DEF get_importer, Formats
  <1> QED
    BY <1>1 DEF import_text_with_schema, Imported

-----------------------------------------------------------------------------
(* The invariant of the imports.                                            *)

FileRows == [log: Seq(Records), mtime: Int, version: Nat, archived: BOOLEAN]

(* What discovery recorded of a file is what the file holds, unless it was  *)
(* written since.                                                           *)
Recorded(a) ==
    /\ a.path \in Paths /\ a.version \in Nat
    /\ a.version <= files[a.path].version
    /\ a.version = files[a.path].version => a.seen = files[a.path].log

ScanFields == {"pc", "ohMyPi", "now", "todo", "at", "archived", "header", "reason", "safe",
               "unsafe", "artifact", "text"}
ScanSteps == {"off", "next", "age", "stat", "confirm", "read", "verify"}

ScanOK ==
    /\ DOMAIN scan = ScanFields
    /\ scan.pc \in ScanSteps
    /\ scan.todo \subseteq Paths
    /\ scan.pc \in {"age", "stat"} => scan.at \in Paths
    /\ scan.pc \in {"next", "age", "stat"} => \A a \in scan.safe : Recorded(a)
    /\ scan.pc \in {"confirm", "read", "verify"} => Recorded(scan.artifact)
    /\ (scan.pc = "verify" /\ files[scan.artifact.path].version = scan.artifact.version)
         => scan.text = scan.artifact.seen
    /\ scan.pc \in {"next", "age", "stat", "confirm", "read"} => scan.text = Missing
    /\ ImportsWhatWasDiscovered

(* One memory for a session.                                                *)
MemoriesOK(S) ==
    /\ \A m \in S : Sequence(m.messages)
    /\ \A m, n \in S : m.session = n.session /\ m.session # Missing => m = n

HeldIn(S, messages) == \E m \in S : IsPrefix(messages, m.messages)

Outcomes == {"inserted", "appended", "stale", "deduplicated", "conflict", "error"}

(* What was reported as stored is stored.                                   *)
ImportOK(S, j) ==
    /\ DOMAIN j = {"pc", "payloads", "results", "answer"}
    /\ Parsed(j.payloads)
    /\ j.results \in Seq(Outcomes) /\ Len(j.results) <= Len(j.payloads)
    /\ \A k \in 1 .. Len(j.results) :
          j.results[k] \notin {"conflict", "error"} => HeldIn(S, j.payloads[k].messages)
    /\ j.answer = "ok" =>
          /\ Len(j.results) = Len(j.payloads)
          /\ \A k \in 1 .. Len(j.results) : j.results[k] \notin {"conflict", "error"}

ImportsInv ==
    /\ format \in ImportFormats /\ wallClock \in Int
    /\ files \in [Paths -> FileRows]
    /\ ScanOK
    /\ MemoriesOK(stored)
    /\ DOMAIN running = Importer /\ \A i \in Importer : ImportOK(stored, running[i])

-----------------------------------------------------------------------------
(* Prefixes, and what storing a conversation keeps.                         *)

LEMMA SequencesShareASet ==
    ASSUME NEW s, NEW t, Sequence(s), Sequence(t)
    PROVE  \E S : s \in Seq(S) /\ t \in Seq(S)
  <1>1. PICK S : s \in Seq(S)
    BY DEF Sequence
  <1>2. PICK T : t \in Seq(T)
    BY DEF Sequence
  <1>3. s \in Seq(S \cup T) /\ t \in Seq(S \cup T)
    BY <1>1, <1>2
  <1> QED
    BY <1>3

LEMMA PrefixEntries ==
    ASSUME NEW s, NEW t, Sequence(s), Sequence(t)
    PROVE  IsPrefix(s, t) <=> Len(s) <= Len(t) /\ \A i \in 1 .. Len(s) : s[i] = t[i]
  <1>1. PICK S : s \in Seq(S) /\ t \in Seq(S)
    BY SequencesShareASet
  <1>2. Len(s) \in Nat /\ Len(t) \in Nat
    BY <1>1
  <1>3. SubSeq(s, 1, Len(s)) = s
    BY <1>1
  <1>4. ASSUME Len(s) <= Len(t)
        PROVE  /\ SubSeq(t, 1, Len(s)) \in Seq(S) /\ Len(SubSeq(t, 1, Len(s))) = Len(s)
               /\ \A i \in 1 .. Len(s) : SubSeq(t, 1, Len(s))[i] = t[i]
    BY <1>1, <1>2, <1>4
  <1>5. PICK u : u = SubSeq(t, 1, Len(s))
    OBVIOUS
  <1>6. ASSUME Len(s) <= Len(t), \A i \in 1 .. Len(s) : s[i] = t[i]
        PROVE  s = u
    <2>1. u \in Seq(S) /\ Len(u) = Len(s) /\ \A i \in 1 .. Len(s) : u[i] = s[i]
      BY <1>4, <1>5, <1>6
    <2> QED
      BY <1>1, <2>1, SeqEqual
  <1> QED
    BY <1>2, <1>3, <1>4, <1>5, <1>6 DEF IsPrefix

LEMMA PrefixTransitive ==
    ASSUME NEW s, NEW t, NEW u, Sequence(s), Sequence(t), Sequence(u),
           IsPrefix(s, t), IsPrefix(t, u)
    PROVE  IsPrefix(s, u)
  <1>1. Len(s) \in Nat /\ Len(t) \in Nat /\ Len(u) \in Nat
    BY SequenceShape
  <1>2. Len(s) <= Len(t) /\ \A i \in 1 .. Len(s) : s[i] = t[i]
    BY PrefixEntries
  <1>3. Len(t) <= Len(u) /\ \A i \in 1 .. Len(t) : t[i] = u[i]
    BY PrefixEntries
  <1>4. Len(s) <= Len(u) /\ \A i \in 1 .. Len(s) : s[i] = u[i]
    BY <1>1, <1>2, <1>3
  <1> QED
    BY <1>4, PrefixEntries

LEMMA PrefixReflexive ==
    ASSUME NEW s, Sequence(s) PROVE IsPrefix(s, s)
  BY SequenceShape, PrefixEntries

(* A memory is only replaced by a longer one of its session, so what was    *)
(* held stays held.                                                         *)
LEMMA IngestKeeps ==
    ASSUME MemoriesOK(stored), NEW p, Sequence(p.messages)
    PROVE  LET after == Ingested(p, ingest_outcome(p))
           IN  /\ MemoriesOK(after)
               /\ \A s : Sequence(s) /\ HeldIn(stored, s) => HeldIn(after, s)
               /\ ingest_outcome(p) # "conflict" => HeldIn(after, p.messages)
               /\ ingest_outcome(p) \in Outcomes
  <1> DEFINE same == {m \in stored : p.session # Missing /\ m.session = p.session}
             outcome == ingest_outcome(p)
             after == Ingested(p, outcome)
  <1>0. IsPrefix(p.messages, p.messages)
    BY PrefixReflexive
  <1>1. CASE \E m \in stored : m.messages = p.messages
    <2>1. outcome = "deduplicated" /\ after = stored
      BY <1>1 DEF ingest_outcome, Ingested
    <2> QED
      BY <1>0, <1>1, <2>1 DEF HeldIn, Outcomes
  <1>2. CASE ~(\E m \in stored : m.messages = p.messages) /\ same = {}
    <2>1. outcome = "inserted" /\ after = stored \cup {p}
      BY <1>2 DEF ingest_outcome, Ingested
    <2>2. MemoriesOK(after)
      BY <1>2, <2>1 DEF MemoriesOK
    <2> QED
      BY <1>0, <2>1, <2>2 DEF HeldIn, Outcomes
  <1>3. CASE /\ ~(\E m \in stored : m.messages = p.messages) /\ same # {}
             /\ \E m \in same : IsPrefix(m.messages, p.messages)
    <2>1. outcome = "appended"
      BY <1>3 DEF ingest_outcome
    <2>2. after = {m \in stored : m.session # p.session} \cup {p}
      BY <2>1 DEF Ingested
    <2>3. MemoriesOK(after)
      BY <2>2 DEF MemoriesOK
    <2>4. ASSUME NEW s, Sequence(s), HeldIn(stored, s) PROVE HeldIn(after, s)
      <3>1. PICK m \in stored : IsPrefix(s, m.messages)
        BY <2>4 DEF HeldIn
      <3>2. CASE m.session # p.session
        BY <2>2, <3>1, <3>2 DEF HeldIn
      <3>3. CASE m.session = p.session
        <4>1. IsPrefix(m.messages, p.messages) /\ Sequence(m.messages)
          BY <1>3, <3>3 DEF MemoriesOK
        <4>2. IsPrefix(s, p.messages)
          BY <2>4, <3>1, <4>1, PrefixTransitive
        <4> QED
          BY <2>2, <4>2 DEF HeldIn
      <3> QED
        BY <3>2, <3>3
    <2> QED
      BY <1>0, <2>1, <2>2, <2>3, <2>4 DEF HeldIn, Outcomes
  <1>4. CASE /\ ~(\E m \in stored : m.messages = p.messages) /\ same # {}
             /\ ~(\E m \in same : IsPrefix(m.messages, p.messages))
    <2>1. \/ outcome = "stale" /\ \E m \in stored : IsPrefix(p.messages, m.messages)
          \/ outcome = "conflict"
      BY <1>4 DEF ingest_outcome
    <2>2. after = stored
      BY <2>1 DEF Ingested
    <2> QED
      BY <2>1, <2>2 DEF HeldIn, Outcomes
  <1> QED
    BY <1>1, <1>2, <1>3, <1>4

-----------------------------------------------------------------------------
(* Each action keeps the invariant.                                         *)

LEMMA NewImport ==
    ASSUME NEW S, NEW payloads, Parsed(payloads)
    PROVE  /\ ImportOK(S, [NewJob EXCEPT !.pc = "store", !.payloads = payloads])
           /\ ImportOK(S, [NewJob EXCEPT !.answer = "refused"])
           /\ ImportOK(S, NewJob)
  <1>1. Parsed(<<>>)
    BY DEF Sequence, Parsed
  <1>2. Len(payloads) \in Nat
    BY SequenceShape DEF Parsed
  <1>3. ASSUME NEW j, DOMAIN j = {"pc", "payloads", "results", "answer"}, Parsed(j.payloads),
               Len(j.payloads) \in Nat, j.results = <<>>, j.answer # "ok"
        PROVE  ImportOK(S, j)
    BY <1>3 DEF ImportOK
  <1>4. PICK j : j = [NewJob EXCEPT !.pc = "store", !.payloads = payloads]
    OBVIOUS
  <1>5. PICK k : k = [NewJob EXCEPT !.answer = "refused"]
    OBVIOUS
  <1>6. PICK n : n = NewJob
    OBVIOUS
  <1>7. /\ DOMAIN j = {"pc", "payloads", "results", "answer"} /\ j.payloads = payloads
        /\ j.results = <<>> /\ j.answer = Missing
    BY <1>4 DEF NewJob
  <1>8. /\ DOMAIN k = {"pc", "payloads", "results", "answer"} /\ k.payloads = <<>>
        /\ k.results = <<>> /\ k.answer = "refused"
    BY <1>5 DEF NewJob
  <1>9. /\ DOMAIN n = {"pc", "payloads", "results", "answer"} /\ n.payloads = <<>>
        /\ n.results = <<>> /\ n.answer = Missing
    BY <1>6 DEF NewJob
  <1>10. Missing # "ok" /\ Len(<<>>) \in Nat
    BY ImportsAssumption
  <1>11. ImportOK(S, j)
    BY <1>2, <1>3, <1>7, <1>10
  <1>12. ImportOK(S, k) /\ ImportOK(S, n)
    BY <1>1, <1>3, <1>8, <1>9, <1>10
  <1> QED
    BY <1>4, <1>5, <1>6, <1>11, <1>12

LEMMA EmptyIsParsed == Parsed(<<>>)
  BY DEF Sequence, Parsed

LEMMA NewScanOK ==
    ASSUME scan' = NewScan PROVE ScanOK'
  <1>1. scan' = [pc |-> "off", ohMyPi |-> FALSE, now |-> 0, todo |-> {}, at |-> Missing,
            archived |-> {}, header |-> Missing, reason |-> Missing, safe |-> {}, unsafe |-> {},
            artifact |-> Missing, text |-> Missing]
    BY DEF NewScan
  <1> QED
    BY <1>1 DEF ScanOK, ScanFields, ScanSteps, ImportsWhatWasDiscovered

LEMMA ImportsInitOK == ImportsInit => ImportsInv
  <1> SUFFICES ASSUME ImportsInit PROVE ImportsInv
    OBVIOUS
  <1>1. format \in ImportFormats /\ wallClock \in Int
    BY ImportsAssumption DEF ImportsInit
  <1>2. files \in [Paths -> FileRows]
    <2>1. files \in [Paths -> Files]
      BY <1>1, ImportsAssumption DEF ImportsInit
    <2>2. Files \subseteq FileRows
      BY ImportsAssumption DEF Files, FileRows
    <2> QED
      BY <2>1, <2>2
  <1>3. ScanOK
    <2>1. scan = [pc |-> "off", ohMyPi |-> FALSE, now |-> 0, todo |-> {}, at |-> Missing,
              archived |-> {}, header |-> Missing, reason |-> Missing, safe |-> {},
              unsafe |-> {}, artifact |-> Missing, text |-> Missing]
      BY DEF ImportsInit, NewScan
    <2> QED
      BY <2>1 DEF ScanOK, ScanFields, ScanSteps, ImportsWhatWasDiscovered
  <1>4. MemoriesOK(stored)
    BY DEF ImportsInit, MemoriesOK
  <1>5. DOMAIN running = Importer /\ \A i \in Importer : ImportOK(stored, running[i])
    BY EmptyIsParsed, NewImport DEF ImportsInit
  <1> QED
    BY <1>1, <1>2, <1>3, <1>4, <1>5 DEF ImportsInv

(* The client writes to a file, or moves it: the version grows.             *)
LEMMA FileChanges ==
    ASSUME ImportsInv, NEW p \in Paths, NEW row \in FileRows,
           row.version = files[p].version + 1, files' = [files EXCEPT ![p] = row],
           UNCHANGED <<format, wallClock, stored, scan, running>>
    PROVE  ImportsInv'
  <1>1. files' \in [Paths -> FileRows]
    BY DEF ImportsInv
  <1>2. ASSUME NEW a, Recorded(a) PROVE Recorded(a)'
    <2>1. files[a.path] \in FileRows
      BY <1>2 DEF Recorded, ImportsInv
    <2> QED
      BY <1>2, <2>1 DEF Recorded, ImportsInv, FileRows
  <1>3. ASSUME NEW a, Recorded(a), files'[a.path].version = a.version
        PROVE  files[a.path].version = a.version
    <2>1. a.path \in Paths /\ files[a.path].version \in Nat /\ a.version \in Nat
          /\ a.version <= files[a.path].version
      BY <1>3 DEF Recorded, ImportsInv, FileRows
    <2>2. a.path # p
      BY <1>3, <2>1 DEF ImportsInv
    <2> QED
      BY <1>3, <2>1, <2>2 DEF ImportsInv
  <1>4. ScanOK'
    <2>1. ScanOK
      BY DEF ImportsInv
    <2>2. (\A a \in scan.safe : Recorded(a)) => \A a \in scan.safe : Recorded(a)'
      BY <1>2
    <2>3. Recorded(scan.artifact) => Recorded(scan.artifact)'
      BY <1>2
    <2>4. (Recorded(scan.artifact) /\ files'[scan.artifact.path].version = scan.artifact.version)
             => files[scan.artifact.path].version = scan.artifact.version
      BY <1>3
    <2>5. (\A a \in scan.safe : Recorded(a)) => (\A a \in scan.safe : Recorded(a))'
      BY <2>2
    <2>6. Recorded(scan.artifact) => Recorded(scan.artifact)'
      BY <2>3
    <2> HIDE DEF Recorded
    <2> QED
      BY <2>1, <2>4, <2>5, <2>6 DEF ScanOK, ImportsWhatWasDiscovered
  <1> QED
    BY <1>1, <1>4 DEF ImportsInv

LEMMA ClientSteps ==
    ASSUME ImportsInv, NEW p \in OpenPaths,
           ClientAppends(p) \/ ClientCompletesLine(p) \/ ClientArchives(p)
    PROVE  ImportsInv'
  <1>1. p \in Paths /\ format \in ImportFormats /\ wallClock \in Int
        /\ files[p] \in FileRows
    BY ImportsAssumption DEF ImportsInv
  <1>2. files[p].log \in Seq(Records) /\ files[p].version + 1 \in Nat
    BY <1>1 DEF FileRows
  <1>3. UNCHANGED <<format, wallClock, stored, scan, running>>
          \/ ~(ClientAppends(p) \/ ClientCompletesLine(p) \/ ClientArchives(p))
    BY DEF ClientAppends, ClientCompletesLine, ClientArchives
  <1>4. ASSUME NEW log \in Seq(Records), Written(p, log),
               UNCHANGED <<format, wallClock, stored, scan, running>>
        PROVE  ImportsInv'
    <2>1. PICK row : row = [files[p] EXCEPT !.log = log, !.mtime = wallClock, !.version = @ + 1]
      OBVIOUS
    <2>2. row \in FileRows /\ row.version = files[p].version + 1
      BY <1>1, <1>2, <2>1 DEF FileRows
    <2>3. files' = [files EXCEPT ![p] = row]
      BY <1>1, <1>4, <2>1 DEF Written, ImportsInv, FileRows
    <2> QED
      BY <1>1, <1>4, <2>2, <2>3, FileChanges
  <1>5. CASE ClientAppends(p)
    <2>1. PICK r \in FirstRecords[format] \cup LaterRecords[format] :
             Written(p, Append(files[p].log, r))
      BY <1>5 DEF ClientAppends
    <2>2. r \in Records
      BY <1>1, <2>1, ImportsAssumption
    <2>3. Append(files[p].log, r) \in Seq(Records)
      BY <1>2, <2>2
    <2> QED
      BY <1>3, <1>4, <1>5, <2>1, <2>3
  <1>6. CASE ClientCompletesLine(p)
    <2>1. PICK r \in LaterRecords[format] :
             files[p].log # <<>> /\ Written(p, Append(Front(files[p].log), r))
      BY <1>6 DEF ClientCompletesLine
    <2>2. r \in Records
      BY <1>1, <2>1, ImportsAssumption
    <2>3. Front(files[p].log) \in Seq(Records)
      BY <1>2, <2>1 DEF Front
    <2>4. Append(Front(files[p].log), r) \in Seq(Records)
      BY <2>2, <2>3
    <2> QED
      BY <1>3, <1>4, <1>6, <2>1, <2>4
  <1>7. CASE ClientArchives(p)
    <2>1. PICK row : row = [files[p] EXCEPT !.archived = TRUE, !.version = @ + 1]
      OBVIOUS
    <2>2. row \in FileRows /\ row.version = files[p].version + 1
      BY <1>1, <1>2, <2>1 DEF FileRows
    <2>3. files' = [files EXCEPT ![p] = row]
      BY <1>1, <1>7, <2>1 DEF ClientArchives, ImportsInv, FileRows
    <2> QED
      BY <1>1, <1>3, <1>7, <2>2, <2>3, FileChanges
  <1> QED
    BY <1>5, <1>6, <1>7

(* Time passes.                                                             *)
LEMMA TickStep ==
    ASSUME ImportsInv, Tick PROVE ImportsInv'
  <1>1. UNCHANGED <<format, files, stored, scan, running>> /\ wallClock' \in Int
    BY DEF Tick, ImportsInv
  <1> QED
    BY <1>1 DEF ImportsInv, ScanOK, Recorded, ImportsWhatWasDiscovered

(* A step of discovery or of an import: the files stay.                     *)
LEMMA ImportStep ==
    ASSUME ImportsInv, UNCHANGED <<format, files, wallClock>>, ScanOK',
           MemoriesOK(stored'), DOMAIN running' = Importer,
           \A i \in Importer : ImportOK(stored', running'[i])
    PROVE  ImportsInv'
  BY DEF ImportsInv

LEMMA ScanStep ==
    ASSUME ImportsInv, UNCHANGED <<format, files, wallClock, stored, running>>, ScanOK'
    PROVE  ImportsInv'
  BY DEF ImportsInv

(* An import that is refused or begins.                                     *)
LEMMA Begins ==
    ASSUME ImportsInv, UNCHANGED <<format, files, wallClock, stored>>, ScanOK',
           NEW i \in Importer, NEW payloads, Parsed(payloads),
           FailImport(i) \/ Begin(i, payloads)
    PROVE  ImportsInv'
  <1>1. PICK j : running' = [running EXCEPT ![i] = j] /\ ImportOK(stored, j)
    BY NewImport DEF FailImport, Begin
  <1> QED
    BY <1>1 DEF ImportsInv

LEMMA Abandons ==
    ASSUME ImportsInv, UNCHANGED <<format, files, wallClock, stored>>, Abandon
    PROVE  ImportsInv'
  <1>1. ScanOK' /\ FailImport("cli")
    BY NewScanOK DEF Abandon
  <1> QED
    BY <1>1, Begins, EmptyIsParsed DEF Importer

LEMMA ScanUnchanged ==
    ASSUME ImportsInv, UNCHANGED <<files, scan>> PROVE ScanOK'
  BY DEF ImportsInv, ScanOK, Recorded, ImportsWhatWasDiscovered

LEMMA RecordedStays ==
    ASSUME UNCHANGED files, NEW a, Recorded(a) PROVE Recorded(a)'
  BY DEF Recorded

LEMMA StartDiscoveryStep ==
    ASSUME ImportsInv, StartDiscovery PROVE ImportsInv'
  <1>1. PICK omp : scan' = [NewScan EXCEPT !.pc = "next", !.ohMyPi = omp, !.now = wallClock,
                                  !.todo = {p \in Paths : files[p].log # <<>>},
                                  !.archived = {p \in Paths : files[p].archived}]
    BY DEF StartDiscovery
  <1>2. /\ DOMAIN scan' = ScanFields /\ scan'.pc = "next" /\ scan'.todo \subseteq Paths
        /\ scan'.safe = {} /\ scan'.text = Missing
    BY <1>1 DEF NewScan, ScanFields
  <1>3. ScanOK'
    BY <1>2 DEF ScanOK, ScanSteps, ImportsWhatWasDiscovered
  <1> QED
    BY <1>3, ScanStep DEF StartDiscovery

LEMMA InspectFileStep ==
    ASSUME ImportsInv, InspectFile PROVE ImportsInv'
  <1>1. UNCHANGED <<format, files, wallClock, stored>> /\ ScanOK /\ scan.pc = "next"
    BY DEF InspectFile, ImportsInv
  <1>2. CASE Abandon
    BY <1>1, <1>2, Abandons
  <1>3. CASE ~Abandon
    <2>1. PICK p, header, at :
             /\ p \in scan.todo
             /\ scan' = [scan EXCEPT !.todo = @ \ {p}, !.at = p, !.header = header, !.pc = at]
             /\ at \in {"next", "age"}
             /\ UNCHANGED running
      BY <1>3 DEF InspectFile
    <2>2. /\ DOMAIN scan' = ScanFields /\ scan'.pc = at /\ scan'.todo \subseteq Paths
          /\ scan'.at = p /\ p \in Paths /\ scan'.safe = scan.safe /\ scan'.text = scan.text
      BY <1>1, <2>1 DEF ScanOK, ScanFields
    <2>3. (\A a \in scan.safe : Recorded(a))'
      BY <1>1, <2>2, RecordedStays DEF ScanOK
    <2>4. ScanOK'
      BY <1>1, <2>1, <2>2, <2>3 DEF ScanOK, ScanSteps, ImportsWhatWasDiscovered
    <2> QED
      BY <1>1, <2>1, <2>4, ScanStep
  <1> QED
    BY <1>2, <1>3

LEMMA AgeOfFileStep ==
    ASSUME ImportsInv, AgeOfFile PROVE ImportsInv'
  <1>1. UNCHANGED <<format, files, wallClock, stored>> /\ ScanOK /\ scan.pc = "age"
    BY DEF AgeOfFile, ImportsInv
  <1>2. CASE Abandon
    BY <1>1, <1>2, Abandons
  <1>3. CASE ~Abandon
    <2> DEFINE reason == safe_reason(files[scan.at], scan.header, scan.now)
               unsafe == IF reason # Missing THEN scan.unsafe
                         ELSE scan.unsafe \cup {scan.header.time}
               at == IF reason = Missing THEN "next" ELSE "stat"
    <2>1. /\ scan' = [scan EXCEPT !.reason = reason, !.unsafe = unsafe, !.pc = at]
          /\ at \in {"next", "stat"}
          /\ UNCHANGED running
      BY <1>3 DEF AgeOfFile
    <2> HIDE DEF reason, unsafe, at
    <2>2. /\ DOMAIN scan' = ScanFields /\ scan'.pc = at /\ scan'.todo = scan.todo
          /\ scan'.at = scan.at /\ scan'.safe = scan.safe /\ scan'.text = scan.text
      BY <1>1, <2>1 DEF ScanOK, ScanFields
    <2>3. (\A a \in scan.safe : Recorded(a))'
      BY <1>1, <2>2, RecordedStays DEF ScanOK
    <2>4. ScanOK'
      BY <1>1, <2>1, <2>2, <2>3 DEF ScanOK, ScanSteps, ImportsWhatWasDiscovered
    <2> QED
      BY <1>1, <2>1, <2>4, ScanStep
  <1> QED
    BY <1>2, <1>3

(* What is recorded is what the file holds now.                             *)
LEMMA StatFileStep ==
    ASSUME ImportsInv, StatFile PROVE ImportsInv'
  <1>1. UNCHANGED <<format, files, wallClock, stored>> /\ ScanOK /\ scan.pc = "stat"
    BY DEF StatFile, ImportsInv
  <1>2. CASE Abandon
    BY <1>1, <1>2, Abandons
  <1>3. CASE ~Abandon
    <2>1. PICK a : a = DiscoveredArtifact(scan.at)
      OBVIOUS
    <2>2. /\ scan' = [scan EXCEPT !.pc = "next", !.safe = @ \cup {a}]
          /\ UNCHANGED running
      BY <1>3, <2>1 DEF StatFile
    <2>3. /\ DOMAIN scan' = ScanFields /\ scan'.pc = "next" /\ scan'.todo = scan.todo
          /\ scan'.safe = scan.safe \cup {a} /\ scan'.text = scan.text
      BY <1>1, <2>2 DEF ScanOK, ScanFields
    <2>4. Recorded(a)
      <3>1. scan.at \in Paths /\ files[scan.at].version \in Nat
        BY <1>1 DEF ScanOK, ImportsInv, FileRows
      <3>2. a.path = scan.at /\ a.version = files[scan.at].version /\ a.seen = files[scan.at].log
        BY <2>1 DEF DiscoveredArtifact
      <3> QED
        BY <3>1, <3>2 DEF Recorded
    <2>5. (\A b \in scan.safe : Recorded(b))'
      BY <1>1, <2>3, <2>4, RecordedStays DEF ScanOK
    <2>6. ScanOK'
      BY <1>1, <2>3, <2>5 DEF ScanOK, ScanSteps, ImportsWhatWasDiscovered
    <2> QED
      BY <1>1, <2>2, <2>6, ScanStep
  <1> QED
    BY <1>2, <1>3

LEMMA DiscoverLatestStep ==
    ASSUME ImportsInv, discover_latest PROVE ImportsInv'
  <1>1. UNCHANGED <<format, files, wallClock, stored>> /\ ScanOK /\ scan.pc = "next"
    BY DEF discover_latest, ImportsInv
  <1>2. CASE Abandon
    BY <1>1, <1>2, Abandons
  <1>3. CASE ~Abandon
    <2> DEFINE newest == {a \in scan.safe : \A b \in scan.safe : b.time <= a.time}
    <2>1. newest # {}
      <3>1. Cardinality(newest) = 1
        BY <1>3 DEF discover_latest
      <3> QED
        BY <3>1, FS_EmptySet
    <2>2. PICK a : a = CHOOSE b \in newest : TRUE
      OBVIOUS
    <2>3. /\ scan' = [scan EXCEPT !.artifact = a, !.pc = "confirm"]
          /\ UNCHANGED running
      BY <1>3, <2>2 DEF discover_latest
    <2>4. a \in scan.safe
      BY <2>1, <2>2
    <2>5. /\ DOMAIN scan' = ScanFields /\ scan'.pc = "confirm" /\ scan'.todo = scan.todo
          /\ scan'.artifact = a /\ scan'.text = scan.text
      BY <1>1, <2>3 DEF ScanOK, ScanFields
    <2>6. Recorded(scan.artifact)'
      BY <1>1, <2>4, <2>5, RecordedStays DEF ScanOK
    <2>7. ScanOK'
      BY <1>1, <2>5, <2>6 DEF ScanOK, ScanSteps, ImportsWhatWasDiscovered
    <2> QED
      BY <1>1, <2>3, <2>7, ScanStep
  <1> QED
    BY <1>2, <1>3

LEMMA ConfirmStep ==
    ASSUME ImportsInv, Confirm PROVE ImportsInv'
  <1>1. UNCHANGED <<format, files, wallClock, stored>> /\ ScanOK /\ scan.pc = "confirm"
    BY DEF Confirm, ImportsInv
  <1>2. CASE Abandon
    BY <1>1, <1>2, Abandons
  <1>3. CASE ~Abandon
    <2>1. scan' = [scan EXCEPT !.pc = "read"] /\ UNCHANGED running
      BY <1>3 DEF Confirm
    <2>2. /\ DOMAIN scan' = ScanFields /\ scan'.pc = "read" /\ scan'.todo = scan.todo
          /\ scan'.artifact = scan.artifact /\ scan'.text = scan.text
      BY <1>1, <2>1 DEF ScanOK, ScanFields
    <2>3. Recorded(scan.artifact)'
      BY <1>1, <2>2, RecordedStays DEF ScanOK
    <2>4. ScanOK'
      BY <1>1, <2>2, <2>3 DEF ScanOK, ScanSteps, ImportsWhatWasDiscovered
    <2> QED
      BY <1>1, <2>1, <2>4, ScanStep
  <1> QED
    BY <1>2, <1>3

(* What is read is what was recorded, unless the file was written since.    *)
LEMMA ReadTextStep ==
    ASSUME ImportsInv, ReadText PROVE ImportsInv'
  <1>1. UNCHANGED <<format, files, wallClock, stored, running>> /\ ScanOK /\ scan.pc = "read"
    BY DEF ReadText, ImportsInv
  <1>2. scan' = [scan EXCEPT !.text = files[scan.artifact.path].log, !.pc = "verify"]
    BY DEF ReadText
  <1>3. /\ DOMAIN scan' = ScanFields /\ scan'.pc = "verify" /\ scan'.todo = scan.todo
        /\ scan'.artifact = scan.artifact /\ scan'.text = files[scan.artifact.path].log
    BY <1>1, <1>2 DEF ScanOK, ScanFields
  <1>4. Recorded(scan.artifact) /\ Recorded(scan.artifact)'
    BY <1>1, <1>3, RecordedStays DEF ScanOK
  <1>5. files[scan.artifact.path].version = scan.artifact.version
          => files[scan.artifact.path].log = scan.artifact.seen
    BY <1>4 DEF Recorded
  <1>6. ScanOK'
    BY <1>1, <1>3, <1>4, <1>5 DEF ScanOK, ScanSteps, ImportsWhatWasDiscovered
  <1> QED
    BY <1>1, <1>6, ScanStep

(* The file was not written since it was recorded: the text is what it held.*)
LEMMA ExecuteImportStep ==
    ASSUME ImportsInv, execute_import PROVE ImportsInv'
  <1>1. UNCHANGED <<format, files, wallClock, stored>> /\ ScanOK /\ scan.pc = "verify"
    BY DEF execute_import, ImportsInv
  <1>2. CASE Abandon
    BY <1>1, <1>2, Abandons
  <1>3. CASE ~Abandon
    <2>1. PICK payloads : payloads = import_text_with_schema(format, scan.text, Missing)
      OBVIOUS
    <2>2. /\ verify_unchanged(scan.artifact) /\ payloads # Refused
          /\ scan' = [scan EXCEPT !.pc = "off"] /\ Begin("cli", payloads)
      BY <1>3, <2>1 DEF execute_import
    <2>3. Recorded(scan.artifact) /\ scan.text = scan.artifact.seen
          /\ scan.text = files[scan.artifact.path].log
      BY <1>1, <2>2 DEF ScanOK, verify_unchanged, Recorded
    <2>4. Sequence(scan.text)
      BY <2>3 DEF Recorded, ImportsInv, FileRows, Sequence
    <2>5. Parsed(payloads)
      BY <2>1, <2>2, <2>4, ImportersParse, ImportsAssumption DEF ImportsInv, Imported
    <2>6. /\ DOMAIN scan' = ScanFields /\ scan'.pc = "off" /\ scan'.todo = scan.todo
          /\ scan'.artifact = scan.artifact /\ scan'.text = scan.text
      BY <1>1, <2>2 DEF ScanOK, ScanFields
    <2>7. ScanOK'
      BY <1>1, <2>3, <2>6 DEF ScanOK, ScanSteps, ImportsWhatWasDiscovered
    <2> QED
      BY <1>1, <2>2, <2>5, <2>7, Begins DEF Importer
  <1> QED
    BY <1>2, <1>3

LEMMA UploadStep ==
    ASSUME ImportsInv, NEW p \in Paths, Upload(p) PROVE ImportsInv'
  <1>1. UNCHANGED <<format, files, wallClock, stored, scan>>
    BY DEF Upload
  <1>2. ScanOK'
    BY <1>1, ScanUnchanged
  <1>3. CASE FailImport("http")
    BY <1>1, <1>2, <1>3, Begins, EmptyIsParsed DEF Importer
  <1>4. CASE ~FailImport("http")
    <2>1. PICK schema, payloads :
             /\ payloads = import_text_with_schema(format, files[p].log, schema)
             /\ payloads # Refused /\ Begin("http", payloads)
      BY <1>4 DEF Upload
    <2>2. Sequence(files[p].log)
      BY DEF ImportsInv, FileRows, Sequence
    <2>3. Parsed(payloads)
      BY <2>1, <2>2, ImportersParse, ImportsAssumption DEF ImportsInv, Imported
    <2> QED
      BY <1>1, <1>2, <2>1, <2>3, Begins DEF Importer
  <1> QED
    BY <1>3, <1>4

(* An import reports one more outcome.                                      *)
LEMMA Reported ==
    ASSUME NEW S, NEW j, ImportOK(S, j), Len(j.results) < Len(j.payloads),
           NEW outcome \in Outcomes,
           outcome \notin {"conflict", "error"} =>
             HeldIn(S, j.payloads[Len(j.results) + 1].messages),
           NEW k, DOMAIN k = DOMAIN j, k.payloads = j.payloads,
           k.results = Append(j.results, outcome), k.answer # "ok"
    PROVE  ImportOK(S, k)
  <1>1. Len(j.payloads) \in Nat
    BY SequenceShape DEF ImportOK, Parsed
  <1>2. j.results \in Seq(Outcomes)
    BY DEF ImportOK
  <1>3. /\ k.results \in Seq(Outcomes) /\ Len(k.results) = Len(j.results) + 1
        /\ \A n \in 1 .. Len(j.results) : k.results[n] = j.results[n]
        /\ k.results[Len(j.results) + 1] = outcome
    BY <1>2
  <1>4. Len(j.results) \in Nat
    BY <1>2
  <1>5. ASSUME NEW n \in 1 .. Len(k.results), k.results[n] \notin {"conflict", "error"}
        PROVE  HeldIn(S, k.payloads[n].messages)
    <2>1. CASE n \in 1 .. Len(j.results)
      BY <1>3, <1>5, <2>1 DEF ImportOK
    <2>2. CASE n = Len(j.results) + 1
      BY <1>3, <1>5, <2>2
    <2> QED
      BY <1>3, <1>4, <2>1, <2>2
  <1> QED
    BY <1>1, <1>3, <1>4, <1>5 DEF ImportOK

(* The other import keeps what it reported.                                 *)
LEMMA StillHeld ==
    ASSUME NEW S, NEW T, NEW j, ImportOK(S, j),
           \A s : Sequence(s) /\ HeldIn(S, s) => HeldIn(T, s)
    PROVE  ImportOK(T, j)
  <1>1. \A k \in 1 .. Len(j.payloads) : Sequence(j.payloads[k].messages)
    BY DEF ImportOK, Parsed
  <1>2. Len(j.payloads) \in Nat /\ Len(j.results) \in Nat /\ Len(j.results) <= Len(j.payloads)
    BY SequenceShape DEF ImportOK, Parsed
  <1>3. \A k \in 1 .. Len(j.results) :
           j.results[k] \notin {"conflict", "error"} => HeldIn(T, j.payloads[k].messages)
    BY <1>1, <1>2 DEF ImportOK
  <1> QED
    BY <1>3 DEF ImportOK

LEMMA NotAnswered ==
    ASSUME NEW S, NEW j, ImportOK(S, j), Len(j.results) < Len(j.payloads)
    PROVE  j.answer # "ok"
  <1>1. Len(j.payloads) \in Nat /\ Len(j.results) \in Nat
    BY SequenceShape DEF ImportOK, Parsed
  <1> QED
    BY <1>1 DEF ImportOK

LEMMA StoreNextStep ==
    ASSUME ImportsInv, NEW i \in Importer, StoreNext(i) PROVE ImportsInv'
  <1>1. PICK j : j = running[i]
    OBVIOUS
  <1>2. PICK p : p = j.payloads[Len(j.results) + 1]
    OBVIOUS
  <1>3. PICK outcome : outcome = ingest_outcome(p)
    OBVIOUS
  <1>4. /\ Len(j.results) < Len(j.payloads) /\ stored' = Ingested(p, outcome)
        /\ running' = [running EXCEPT ![i].results = Append(@, outcome)]
        /\ UNCHANGED <<format, files, wallClock, scan>>
    BY <1>1, <1>2, <1>3 DEF StoreNext
  <1>5. ImportOK(stored, j) /\ DOMAIN running = Importer /\ MemoriesOK(stored)
    BY <1>1 DEF ImportsInv
  <1>6. Sequence(p.messages)
    <2>1. Len(j.payloads) \in Nat /\ Len(j.results) \in Nat
      BY <1>5, SequenceShape DEF ImportOK, Parsed
    <2> QED
      BY <1>2, <1>4, <1>5, <2>1 DEF ImportOK, Parsed
  <1>7. /\ MemoriesOK(stored') /\ outcome \in Outcomes
        /\ \A s : Sequence(s) /\ HeldIn(stored, s) => HeldIn(stored', s)
        /\ outcome # "conflict" => HeldIn(stored', p.messages)
    BY <1>3, <1>4, <1>5, <1>6, IngestKeeps
  <1>8. ImportOK(stored', j)
    BY <1>5, <1>7, StillHeld
  <1>9. PICK k : k = [j EXCEPT !.results = Append(j.results, outcome)]
    OBVIOUS
  <1>10. /\ DOMAIN k = DOMAIN j /\ k.payloads = j.payloads
         /\ k.results = Append(j.results, outcome) /\ k.answer = j.answer
    BY <1>5, <1>9 DEF ImportOK
  <1>11. ImportOK(stored', k)
    BY <1>2, <1>4, <1>5, <1>7, <1>8, <1>10, NotAnswered, Reported
  <1>12. running' = [running EXCEPT ![i] = k]
    BY <1>1, <1>4, <1>5, <1>9
  <1>13. \A g \in Importer : ImportOK(stored', running'[g])
    <2> SUFFICES ASSUME NEW g \in Importer PROVE ImportOK(stored', running'[g])
      OBVIOUS
    <2>1. CASE g = i
      BY <1>5, <1>11, <1>12, <2>1
    <2>2. CASE g # i
      <3>1. running'[g] = running[g] /\ ImportOK(stored, running[g])
        BY <1>5, <1>12, <2>2 DEF ImportsInv
      <3> QED
        BY <1>7, <3>1, StillHeld
    <2> QED
      BY <2>1, <2>2
  <1> QED
    BY <1>4, <1>5, <1>7, <1>12, <1>13, ScanUnchanged, ImportStep

LEMMA StoreFailsStep ==
    ASSUME ImportsInv, NEW i \in Importer, StoreFails(i) PROVE ImportsInv'
  <1>1. UNCHANGED <<format, files, wallClock, stored, scan>> /\ ScanOK'
    BY ScanUnchanged DEF StoreFails
  <1>2. CASE FailImport(i)
    BY <1>1, <1>2, Begins, EmptyIsParsed
  <1>3. CASE ~FailImport(i)
    <2>1. PICK j : j = running[i]
      OBVIOUS
    <2>2. ImportOK(stored, j) /\ DOMAIN running = Importer /\ MemoriesOK(stored)
      BY <2>1 DEF ImportsInv
    <2>3. Len(j.results) < Len(j.payloads)
      BY <2>1 DEF StoreFails
    <2>4. PICK k :
             /\ running' = [running EXCEPT ![i] = k] /\ DOMAIN k = DOMAIN j
             /\ k.payloads = j.payloads /\ k.results = Append(j.results, "error")
             /\ k.answer = j.answer \/ k.answer = "partial"
      <3>1. CASE i = "cli"
        <4>1. PICK k : k = [j EXCEPT !.results = Append(j.results, "error")]
          OBVIOUS
        <4>2. running' = [running EXCEPT ![i] = k]
          BY <2>1, <2>2, <3>1, <4>1 DEF StoreFails
        <4>3. /\ DOMAIN k = DOMAIN j /\ k.payloads = j.payloads
              /\ k.results = Append(j.results, "error") /\ k.answer = j.answer
          BY <2>2, <4>1 DEF ImportOK
        <4> QED
          BY <4>2, <4>3
      <3>2. CASE i # "cli"
        <4>1. running' = [running EXCEPT ![i].pc = "idle",
                              ![i].results = Append(j.results, "error"), ![i].answer = "partial"]
          BY <1>3, <2>1, <3>2 DEF StoreFails
        <4>2. PICK k : k = [j EXCEPT !.pc = "idle", !.results = Append(j.results, "error"),
                                     !.answer = "partial"]
          OBVIOUS
        <4>3. running' = [running EXCEPT ![i] = k]
          BY <2>1, <2>2, <4>1, <4>2
        <4>4. /\ DOMAIN k = DOMAIN j /\ k.payloads = j.payloads
              /\ k.results = Append(j.results, "error") /\ k.answer = "partial"
          BY <2>2, <4>2 DEF ImportOK
        <4> QED
          BY <4>3, <4>4
      <3> QED
        BY <3>1, <3>2
    <2>5. ImportOK(stored, k)
      BY <2>2, <2>3, <2>4, NotAnswered, Reported DEF Outcomes
    <2>6. \A g \in Importer : ImportOK(stored', running'[g])
      BY <1>1, <2>2, <2>4, <2>5 DEF ImportsInv
    <2> QED
      BY <1>1, <2>2, <2>4, <2>6, ImportStep
  <1> QED
    BY <1>2, <1>3

LEMMA AnswerStep ==
    ASSUME ImportsInv, NEW i \in Importer, Answer(i) PROVE ImportsInv'
  <1>1. UNCHANGED <<format, files, wallClock, stored, scan>> /\ ScanOK'
    BY ScanUnchanged DEF Answer
  <1>2. PICK j : j = running[i]
    OBVIOUS
  <1>3. ImportOK(stored, j) /\ DOMAIN running = Importer /\ MemoriesOK(stored)
    BY <1>2 DEF ImportsInv
  <1>4. Len(j.results) = Len(j.payloads)
    BY <1>2 DEF Answer
  <1>5. PICK k : k = [j EXCEPT !.pc = "idle", !.answer = ImportStatus(j.results)]
    OBVIOUS
  <1>6. running' = [running EXCEPT ![i] = k]
    BY <1>2, <1>3, <1>5 DEF Answer
  <1>7. /\ DOMAIN k = DOMAIN j /\ k.payloads = j.payloads /\ k.results = j.results
        /\ k.answer = ImportStatus(j.results)
    BY <1>3, <1>5 DEF ImportOK
  <1>8. k.answer = "ok" =>
           \A n \in 1 .. Len(j.results) : j.results[n] \notin {"conflict", "error"}
    <2>1. DOMAIN j.results = 1 .. Len(j.results)
      BY <1>3 DEF ImportOK
    <2> QED
      BY <1>7, <2>1 DEF ImportStatus
  <1>9. ImportOK(stored, k)
    BY <1>3, <1>4, <1>7, <1>8 DEF ImportOK
  <1>10. \A g \in Importer : ImportOK(stored', running'[g])
    BY <1>1, <1>3, <1>6, <1>9 DEF ImportsInv
  <1> QED
    BY <1>1, <1>3, <1>6, <1>10, ImportStep

LEMMA ImportsNextOK == ImportsInv /\ [ImportsNext]_importsVars => ImportsInv'
  <1> SUFFICES ASSUME ImportsInv, [ImportsNext]_importsVars PROVE ImportsInv'
    OBVIOUS
  <1>1. CASE UNCHANGED importsVars
    <2>1. UNCHANGED <<format, files, wallClock, stored, scan, running>>
      BY <1>1 DEF importsVars
    <2> QED
      BY <2>1, ScanUnchanged DEF ImportsInv
  <1>2. CASE \E p \in OpenPaths : ClientAppends(p) \/ ClientCompletesLine(p) \/ ClientArchives(p)
    BY <1>2, ClientSteps
  <1>3. CASE Tick \/ StartDiscovery \/ InspectFile \/ AgeOfFile \/ StatFile
    BY <1>3, TickStep, StartDiscoveryStep, InspectFileStep, AgeOfFileStep, StatFileStep
  <1>4. CASE discover_latest \/ Confirm \/ ReadText \/ execute_import
    BY <1>4, DiscoverLatestStep, ConfirmStep, ReadTextStep, ExecuteImportStep
  <1>5. CASE \E p \in Paths : Upload(p)
    BY <1>5, UploadStep
  <1>6. CASE \E i \in Importer : StoreNext(i) \/ StoreFails(i) \/ Answer(i)
    BY <1>6, StoreNextStep, StoreFailsStep, AnswerStep
  <1> QED
    BY <1>1, <1>2, <1>3, <1>4, <1>5, <1>6 DEF ImportsNext

LEMMA ImportsInvariant == ImportsSpec => []ImportsInv
  BY ImportsInitOK, ImportsNextOK, PTL DEF ImportsSpec

(* What aim import latest parses is what the file held when discovery       *)
(* recorded it, for any number of files and writes: the version is compared *)
(* after the read, and every write changes it (import_discovery.py,         *)
(* verify_unchanged).                                                       *)
THEOREM DiscoveredTextIsImported == ImportsSpec => []ImportsWhatWasDiscovered
  <1>1. ImportsInv => ImportsWhatWasDiscovered
    BY DEF ImportsInv, ScanOK
  <1> QED
    BY <1>1, ImportsInvariant, PTL

(* An import answered ok has every conversation of its text in the hub at   *)
(* its length or longer, for every format, any files, and both interfaces   *)
(* at the same time: a memory is only replaced by an extension of it        *)
(* (mvp_ingestion.py, the outcomes of a snapshot).                          *)
THEOREM AnsweredImportsAreStored == ImportsSpec => []OkMeansStored
  <1>1. ASSUME ImportsInv PROVE OkMeansStored
    <2> SUFFICES ASSUME NEW i \in Importer, running[i].answer = "ok",
                        NEW k \in DOMAIN running[i].payloads
                 PROVE  HeldIn(stored, running[i].payloads[k].messages)
      BY DEF OkMeansStored, HeldIn
    <2>1. PICK j : j = running[i]
      OBVIOUS
    <2>2. ImportOK(stored, j)
      BY <1>1, <2>1 DEF ImportsInv
    <2>3. DOMAIN j.payloads = 1 .. Len(j.payloads)
      BY <2>2, SequenceShape DEF ImportOK, Parsed
    <2>4. k \in 1 .. Len(j.results) /\ j.results[k] \notin {"conflict", "error"}
      BY <2>1, <2>2, <2>3 DEF ImportOK
    <2> QED
      BY <2>1, <2>2, <2>4 DEF ImportOK
  <1> QED
    BY <1>1, ImportsInvariant, PTL
=============================================================================
