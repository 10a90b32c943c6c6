-------------------------- MODULE Ingestion_proofs --------------------------
(***************************************************************************)
(* Theorems about module Ingestion, for any number of workers, hubs,        *)
(* memories, messages, failures and crashes.                                *)
(***************************************************************************)
EXTENDS Ingestion, WellFoundedInduction, SequenceTheorems, TLAPS

-----------------------------------------------------------------------------
(* Induction on the natural numbers, stated with the set of the numbers     *)
(* that have the property.                                                  *)

Below == OpToRel(<, Nat)

LEMMA LeastNumber ==
    ASSUME NEW T \in SUBSET Nat, T # {}
    PROVE  \E n \in T : \A m \in T : n <= m
  <1>1. IsWellFoundedOn(Below, Nat)
    BY NatLessThanWellFounded DEF Below
  <1>2. PICK n \in T : \A m \in T : ~ (<<m, n>> \in Below)
    BY <1>1, WFMin
  <1>3. \A m \in T : <<m, n>> \in Below <=> m < n
    BY DEF Below, OpToRel
  <1>4. \A m \in T : m \in Nat /\ n \in Nat /\ ~(m < n)
    BY <1>2, <1>3
  <1> QED
    BY <1>4

LEMMA SetInduction ==
    ASSUME NEW T, 0 \in T, \A n \in Nat : n \in T => n + 1 \in T
    PROVE  \A n \in Nat : n \in T
  <1> SUFFICES ASSUME NEW k \in Nat, k \notin T PROVE FALSE
    OBVIOUS
  <1>1. PICK n \in Nat \ T : \A m \in Nat \ T : n <= m
    BY LeastNumber
  <1>2. n # 0 /\ n - 1 \in Nat /\ n - 1 \in T
    BY <1>1
  <1> QED
    BY <1>2

(* The partial results of FlattenSeq(s).                                    *)
Partial(s, f, n) ==
    \A i \in 1 .. n : f[i] = IF i = 1 THEN s[i] ELSE f[i - 1] \o s[i]

LEMMA PartialExists ==
    ASSUME NEW S, NEW s \in Seq(Seq(S))
    PROVE  \E f \in [1 .. Len(s) -> Seq(S)] : Partial(s, f, Len(s))
  <1> DEFINE T == {n \in Nat : n <= Len(s) => \E f \in [1 .. n -> Seq(S)] : Partial(s, f, n)}
  <1>1. 0 \in T
    <2>1. [i \in 1 .. 0 |-> <<>>] \in [1 .. 0 -> Seq(S)]
      OBVIOUS
    <2>2. Partial(s, [i \in 1 .. 0 |-> <<>>], 0)
      BY DEF Partial
    <2> QED
      BY <2>1, <2>2
  <1>2. ASSUME NEW n \in Nat, n \in T PROVE n + 1 \in T
    <2> SUFFICES ASSUME n + 1 <= Len(s)
                 PROVE  \E g \in [1 .. n + 1 -> Seq(S)] : Partial(s, g, n + 1)
      OBVIOUS
    <2>1. PICK f \in [1 .. n -> Seq(S)] : Partial(s, f, n)
      BY <1>2
    <2> DEFINE x == IF n = 0 THEN s[1] ELSE f[n] \o s[n + 1]
               g == [i \in 1 .. n + 1 |-> IF i <= n THEN f[i] ELSE x]
    <2>2. \A i \in 1 .. n + 1 : s[i] \in Seq(S)
      OBVIOUS
    <2>3. x \in Seq(S)
      BY <2>2
    <2>4. g \in [1 .. n + 1 -> Seq(S)]
      BY <2>3
    <2>5. ASSUME NEW i \in 1 .. n + 1
          PROVE  g[i] = IF i = 1 THEN s[i] ELSE g[i - 1] \o s[i]
      <3>1. CASE i <= n
        <4>1. i \in 1 .. n
          BY <3>1
        <4>2. f[i] = IF i = 1 THEN s[i] ELSE f[i - 1] \o s[i]
          BY <2>1, <4>1 DEF Partial
        <4>3. g[i] = f[i] /\ (i # 1 => g[i - 1] = f[i - 1])
          BY <3>1
        <4> QED
          BY <4>2, <4>3
      <3>2. CASE i = n + 1
        <4>1. g[i] = x /\ (i # 1 => g[i - 1] = f[n])
          BY <3>2
        <4> QED
          BY <4>1, <3>2
      <3> QED
        BY <3>1, <3>2
    <2>6. Partial(s, g, n + 1)
      BY <2>5 DEF Partial
    <2> QED
      BY <2>4, <2>6
  <1>3. \A n \in Nat : n \in T
    <2> HIDE DEF T
    <2> QED BY <1>1, <1>2, SetInduction
  <1> QED
    BY <1>3

LEMMA PartialUnique ==
    ASSUME NEW s, NEW f, NEW g, NEW n \in Nat, Partial(s, f, n), Partial(s, g, n)
    PROVE  \A i \in 1 .. n : f[i] = g[i]
  <1> DEFINE T == {k \in Nat : k \in 1 .. n => f[k] = g[k]}
  <1>1. 0 \in T
    OBVIOUS
  <1>2. ASSUME NEW k \in Nat, k \in T PROVE k + 1 \in T
    <2> SUFFICES ASSUME k + 1 \in 1 .. n PROVE f[k + 1] = g[k + 1]
      OBVIOUS
    <2>1. /\ f[k + 1] = IF k + 1 = 1 THEN s[k + 1] ELSE f[k + 1 - 1] \o s[k + 1]
          /\ g[k + 1] = IF k + 1 = 1 THEN s[k + 1] ELSE g[k + 1 - 1] \o s[k + 1]
      BY DEF Partial
    <2>2. k + 1 # 1 => f[k + 1 - 1] = g[k + 1 - 1]
      BY <1>2
    <2> QED
      BY <2>1, <2>2
  <1>3. \A k \in Nat : k \in T
    <2> HIDE DEF T
    <2> QED BY <1>1, <1>2, SetInduction
  <1> QED
    BY <1>3

LEMMA FlattenValue ==
    ASSUME NEW S, NEW s \in Seq(Seq(S)), NEW f \in [1 .. Len(s) -> Seq(S)],
           Partial(s, f, Len(s)), Len(s) # 0
    PROVE  FlattenSeq(s) = f[Len(s)]
  <1> DEFINE F(h) == [i \in 1 .. Len(s) |-> IF i = 1 THEN s[i] ELSE h[i - 1] \o s[i]]
             g == CHOOSE h : h = F(h)
  <1>1. FlattenSeq(s) = g[Len(s)]
    BY DEF FlattenSeq
  <1>2. f = F(f)
    BY DEF Partial
  <1>3. g = F(g)
    <2> HIDE DEF F
    <2> QED BY <1>2
  <1>4. Partial(s, g, Len(s))
    <2> SUFFICES ASSUME NEW i \in 1 .. Len(s)
                 PROVE  g[i] = IF i = 1 THEN s[i] ELSE g[i - 1] \o s[i]
      BY DEF Partial
    <2> HIDE DEF g
    <2>1. F(g)[i] = IF i = 1 THEN s[i] ELSE g[i - 1] \o s[i]
      OBVIOUS
    <2> HIDE DEF F
    <2> QED BY <1>3, <2>1
  <1> HIDE DEF g
  <1>5. \A i \in 1 .. Len(s) : g[i] = f[i]
    BY <1>4, PartialUnique
  <1> QED
    BY <1>1, <1>5

LEMMA FlattenType ==
    ASSUME NEW S, NEW s \in Seq(Seq(S))
    PROVE  FlattenSeq(s) \in Seq(S)
  <1>1. CASE Len(s) = 0
    BY <1>1 DEF FlattenSeq
  <1>2. CASE Len(s) # 0
    <2>1. PICK f \in [1 .. Len(s) -> Seq(S)] : Partial(s, f, Len(s))
      BY PartialExists
    <2>2. FlattenSeq(s) = f[Len(s)]
      BY <1>2, <2>1, FlattenValue
    <2>3. Len(s) \in 1 .. Len(s)
      BY <1>2
    <2> QED
      BY <2>2, <2>3
  <1> QED
    BY <1>1, <1>2

LEMMA FlattenAppend ==
    ASSUME NEW S, NEW s \in Seq(Seq(S)), NEW x \in Seq(S)
    PROVE  FlattenSeq(Append(s, x)) = FlattenSeq(s) \o x
  <1>0. PICK t : t = Append(s, x)
    OBVIOUS
  <1>1. t \in Seq(Seq(S)) /\ Len(t) = Len(s) + 1 /\ t[Len(t)] = x
        /\ \A i \in 1 .. Len(s) : t[i] = s[i]
    BY <1>0
  <1>2. PICK g : g \in [1 .. Len(t) -> Seq(S)] /\ Partial(t, g, Len(t))
    BY <1>1, PartialExists
  <1>3. FlattenSeq(t) = g[Len(t)]
    BY <1>1, <1>2, FlattenValue
  <1>4. CASE Len(s) = 0
    <2>1. s = <<>> /\ FlattenSeq(s) = <<>>
      BY <1>4 DEF FlattenSeq
    <2>2. g[1] = x
      BY <1>1, <1>2, <1>4 DEF Partial
    <2> QED
      BY <1>1, <1>3, <1>4, <2>1, <2>2, <1>0
  <1>5. CASE Len(s) # 0
    <2>1. PICK f \in [1 .. Len(s) -> Seq(S)] : Partial(s, f, Len(s))
      BY PartialExists
    <2>2. FlattenSeq(s) = f[Len(s)]
      BY <1>5, <2>1, FlattenValue
    <2>3. Partial(s, g, Len(s))
      <3>1. \A i \in 1 .. Len(s) : i \in 1 .. Len(t) /\ t[i] = s[i]
        BY <1>1
      <3> QED
        BY <1>2, <3>1 DEF Partial
    <2>4. f[Len(s)] = g[Len(s)]
      <3>1. Len(s) \in Nat /\ Partial(s, f, Len(s)) /\ Partial(s, g, Len(s))
        BY <2>1, <2>3
      <3>2. \A i \in 1 .. Len(s) : f[i] = g[i]
        BY ONLY <3>1, PartialUnique
      <3> QED
        BY <1>5, <3>2
    <2>5. g[Len(t)] = g[Len(s)] \o x
      <3>1. Len(t) \in 1 .. Len(t) /\ Len(t) # 1 /\ Len(t) - 1 = Len(s)
        BY <1>1, <1>5
      <3>2. g[Len(t)] = g[Len(t) - 1] \o t[Len(t)]
        BY <1>2, <3>1 DEF Partial
      <3> QED
        BY <3>1, <3>2, <1>1
    <2> QED
      BY <1>3, <2>2, <2>4, <2>5, <1>0
  <1> QED
    BY <1>4, <1>5

LEMMA Associative ==
    ASSUME NEW S
    PROVE  \A a, b, c \in Seq(S) : (a \o b) \o c = a \o (b \o c)
  BY ConcatAssociative

LEMMA ConcatAppend ==
    ASSUME NEW S, NEW s \in Seq(S), NEW t \in Seq(S), NEW x \in S
    PROVE  s \o Append(t, x) = Append(s \o t, x)
  OBVIOUS

LEMMA SplitLast ==
    ASSUME NEW S, NEW s \in Seq(S), s # <<>>
    PROVE  \E t \in Seq(S), x \in S : s = Append(t, x) /\ x = s[Len(s)]
  <1>1. /\ SubSeq(s, 1, Len(s) - 1) \in Seq(S) /\ s[Len(s)] \in S
        /\ s = Append(SubSeq(s, 1, Len(s) - 1), s[Len(s)])
    OBVIOUS
  <1> QED
    BY <1>1

LEMMA FlattenConcat ==
    ASSUME NEW S, NEW s \in Seq(Seq(S)), NEW t \in Seq(Seq(S))
    PROVE  FlattenSeq(s \o t) = FlattenSeq(s) \o FlattenSeq(t)
  <1> DEFINE P(u) == FlattenSeq(s \o u) = FlattenSeq(s) \o FlattenSeq(u)
             T == {n \in Nat : \A u \in Seq(Seq(S)) : Len(u) = n => P(u)}
  <1>1. 0 \in T
    <2> SUFFICES ASSUME NEW u \in Seq(Seq(S)), Len(u) = 0 PROVE P(u)
      OBVIOUS
    <2>1. u = <<>> /\ s \o u = s /\ FlattenSeq(u) = <<>>
      BY DEF FlattenSeq
    <2>2. FlattenSeq(s) \in Seq(S)
      BY FlattenType
    <2> QED
      BY <2>1, <2>2
  <1>2. ASSUME NEW n \in Nat, n \in T PROVE n + 1 \in T
    <2> SUFFICES ASSUME NEW u \in Seq(Seq(S)), Len(u) = n + 1 PROVE P(u)
      OBVIOUS
    <2> DEFINE v == SubSeq(u, 1, n)  x == u[n + 1]
    <2>1. v \in Seq(Seq(S)) /\ Len(v) = n /\ x \in Seq(S) /\ u = Append(v, x)
      OBVIOUS
    <2>a. s \o v \in Seq(Seq(S))
      BY <2>1
    <2>b. s \o u = Append(s \o v, x)
      <3> HIDE DEF v, x
      <3> QED
        BY <2>1, ConcatAppend
    <2>2. P(v)
      BY <1>2, <2>1
    <2>3. FlattenSeq(s) \in Seq(S) /\ FlattenSeq(v) \in Seq(S)
      BY <2>1, FlattenType
    <2> HIDE DEF v, x
    <2>4. FlattenSeq(u) = FlattenSeq(v) \o x
      BY <2>1, FlattenAppend
    <2>5. FlattenSeq(s \o u) = FlattenSeq(s \o v) \o x
      BY <2>1, <2>a, <2>b, FlattenAppend
    <2>6. (FlattenSeq(s) \o FlattenSeq(v)) \o x = FlattenSeq(s) \o (FlattenSeq(v) \o x)
      <3>1. PICK a, b : a = FlattenSeq(s) /\ b = FlattenSeq(v)
        OBVIOUS
      <3>2. a \in Seq(S) /\ b \in Seq(S) /\ x \in Seq(S)
        BY <2>1, <2>3, <3>1
      <3>3. (a \o b) \o x = a \o (b \o x)
        BY ONLY <3>2, Associative
      <3> QED
        BY <3>1, <3>3
    <2> QED
      BY <2>2, <2>4, <2>5, <2>6
  <1>3. \A n \in Nat : n \in T
    <2> HIDE DEF T
    <2> QED BY <1>1, <1>2, SetInduction
  <1> QED
    BY <1>3

-----------------------------------------------------------------------------
(* Chunks.  Owners names the message each token window belongs to, and Keys *)
(* the chunk ids of a manifest in their order.                              *)

Copy(m) == [k \in 1 .. Windows[m] |-> m]
Copies(msgs) == [i \in DOMAIN msgs |-> Copy(msgs[i])]
Owners(msgs) == FlattenSeq(Copies(msgs))
Keys(cs) == [i \in DOMAIN cs |-> ChunkId(cs[i])]
ChunkKeys == Ids \X Nat \X Msgs

LEMMA CopyType ==
    ASSUME NEW m \in Msgs
    PROVE  Copy(m) \in Seq(Msgs) /\ Len(Copy(m)) \in Nat \ {0}
  <1>1. Windows[m] \in Nat \ {0}
    BY IngestionAssumption
  <1> QED
    BY <1>1 DEF Copy

LEMMA CopiesType ==
    ASSUME NEW msgs \in Seq(Msgs)
    PROVE  /\ Copies(msgs) \in Seq(Seq(Msgs)) /\ Len(Copies(msgs)) = Len(msgs)
           /\ \A i \in 1 .. Len(msgs) : Copies(msgs)[i] = Copy(msgs[i])
  <1>1. \A i \in 1 .. Len(msgs) : msgs[i] \in Msgs /\ Copy(msgs[i]) \in Seq(Msgs)
    BY CopyType
  <1> QED
    BY <1>1 DEF Copies

LEMMA OwnersType ==
    ASSUME NEW msgs \in Seq(Msgs)
    PROVE  Owners(msgs) \in Seq(Msgs)
  BY CopiesType, FlattenType DEF Owners

LEMMA OwnersConcat ==
    ASSUME NEW a \in Seq(Msgs), NEW b \in Seq(Msgs)
    PROVE  Owners(a \o b) = Owners(a) \o Owners(b)
  <1>0. PICK c : c = a \o b
    OBVIOUS
  <1>1. /\ c \in Seq(Msgs) /\ Len(c) = Len(a) + Len(b)
        /\ \A i \in 1 .. Len(c) : c[i] = IF i <= Len(a) THEN a[i] ELSE b[i - Len(a)]
    BY <1>0
  <1>2. PICK x, y, z : x = Copies(a) /\ y = Copies(b) /\ z = Copies(c)
    OBVIOUS
  <1>3. /\ x \in Seq(Seq(Msgs)) /\ y \in Seq(Seq(Msgs)) /\ z \in Seq(Seq(Msgs))
        /\ Len(x) = Len(a) /\ Len(y) = Len(b) /\ Len(z) = Len(c)
        /\ \A i \in 1 .. Len(a) : x[i] = Copy(a[i])
        /\ \A i \in 1 .. Len(b) : y[i] = Copy(b[i])
        /\ \A i \in 1 .. Len(c) : z[i] = Copy(c[i])
    BY <1>1, <1>2, CopiesType
  <1>a. PICK v : v = x \o y
    OBVIOUS
  <1>b. /\ v \in Seq(Seq(Msgs)) /\ Len(v) = Len(x) + Len(y)
        /\ \A i \in 1 .. Len(v) : v[i] = IF i <= Len(x) THEN x[i] ELSE y[i - Len(x)]
    <2>1. x \in Seq(Seq(Msgs)) /\ y \in Seq(Seq(Msgs))
      BY <1>3
    <2> QED
      BY <1>a, <2>1, ConcatProperties
  <1>c. Len(a) \in Nat /\ Len(b) \in Nat
    OBVIOUS
  <1>4. ASSUME NEW i \in 1 .. Len(z) PROVE z[i] = v[i]
    <2>0. i \in 1 .. Len(c) /\ i \in 1 .. Len(v) /\ Len(c) = Len(a) + Len(b)
      BY <1>1, <1>3, <1>b
    <2>1. CASE i <= Len(a)
      <3>1. i \in 1 .. Len(a)
        BY <2>0, <2>1, <1>c
      <3> QED
        BY <1>1, <1>3, <1>b, <2>0, <2>1, <3>1
    <2>2. CASE ~(i <= Len(a))
      <3>1. i - Len(a) \in 1 .. Len(b)
        BY <2>0, <2>2, <1>c
      <3>2. c[i] = b[i - Len(a)] /\ v[i] = y[i - Len(a)]
        BY <1>1, <1>3, <1>b, <2>0, <2>2
      <3> QED
        BY <1>3, <2>0, <3>1, <3>2
    <2> QED
      BY <2>1, <2>2
  <1>5. z = v
    <2>1. Len(z) = Len(v)
      BY <1>1, <1>3, <1>b
    <2> QED
      BY <1>3, <1>b, <1>4, <2>1, SeqEqual
  <1> QED
    BY <1>0, <1>2, <1>3, <1>5, <1>a, FlattenConcat DEF Owners

LEMMA OwnersNonempty ==
    ASSUME NEW msgs \in Seq(Msgs), msgs # <<>>
    PROVE  Owners(msgs) # <<>>
  <1>1. PICK y, n : y = Copies(msgs) /\ n = Len(msgs)
    OBVIOUS
  <1>2. /\ y \in Seq(Seq(Msgs)) /\ Len(y) = n /\ n \in Nat \ {0}
        /\ msgs[n] \in Msgs /\ y[n] = Copy(msgs[n])
    BY <1>1, CopiesType
  <1>3. PICK s \in Seq(Seq(Msgs)), x \in Seq(Msgs) : y = Append(s, x) /\ x = y[Len(y)]
    <2>1. y # <<>>
      BY <1>2
    <2> QED
      BY <1>2, <2>1, SplitLast
  <1>4. s \in Seq(Seq(Msgs)) /\ x \in Seq(Msgs) /\ y = Append(s, x) /\ Len(x) \in Nat \ {0}
    BY <1>2, <1>3, CopyType
  <1>5. FlattenSeq(y) = FlattenSeq(s) \o x /\ FlattenSeq(s) \in Seq(Msgs)
    BY <1>4, FlattenAppend, FlattenType
  <1> QED
    BY <1>1, <1>4, <1>5 DEF Owners

LEMMA ChunksAre ==
    ASSUME NEW id \in Ids, NEW msgs \in Seq(Msgs), NEW start \in Nat
    PROVE  LET cs == chunk_selected_messages(id, msgs, start)
           IN  /\ cs \in Seq(Chunks) /\ Len(cs) = Len(Owners(msgs))
               /\ \A i \in 1 .. Len(cs) : ChunkId(cs[i]) = <<id, start + i - 1, Owners(msgs)[i]>>
  <1>1. PICK o \in Seq(Msgs) : o = Owners(msgs)
    BY OwnersType
  <1> DEFINE at(j) == [conv |-> id, index |-> start + j - 1, msg |-> o[j], state |-> "pending_index"]
  <1>2. chunk_selected_messages(id, msgs, start) = [j \in 1 .. Len(o) |-> at(j)]
    <2>1. chunk_selected_messages(id, msgs, start) = [j \in DOMAIN o |-> at(j)]
      BY <1>1 DEF chunk_selected_messages, Owners, Copies, Copy
    <2>2. DOMAIN o = 1 .. Len(o)
      OBVIOUS
    <2> QED
      BY <2>1, <2>2
  <1>3. \A j \in 1 .. Len(o) : at(j) \in Chunks
    BY DEF Chunks, IndexStates
  <1>4. \A j \in 1 .. Len(o) : ChunkId(at(j)) = <<id, start + j - 1, o[j]>>
    BY DEF ChunkId
  <1> HIDE DEF at
  <1>5. [j \in 1 .. Len(o) |-> at(j)] \in Seq(Chunks) /\ Len([j \in 1 .. Len(o) |-> at(j)]) = Len(o)
    BY <1>3
  <1> QED
    BY <1>1, <1>2, <1>4, <1>5

LEMMA LargestValue ==
    ASSUME NEW len \in Nat \ {0}, NEW f \in [1 .. len -> Nat]
    PROVE  \E k \in 1 .. len : \A i \in 1 .. len : f[i] <= f[k]
  <1> DEFINE P(n) == \E k \in 1 .. n : \A i \in 1 .. n : f[i] <= f[k]
             T == {n \in Nat : n + 1 <= len => P(n + 1)}
  <1>0. \A i \in 1 .. len : f[i] \in Nat
    OBVIOUS
  <1>1. 0 \in T
    <2>1. P(1)
      BY <1>0
    <2> QED
      BY <2>1
  <1>2. ASSUME NEW n \in Nat, n \in T PROVE n + 1 \in T
    <2> SUFFICES ASSUME n + 1 + 1 <= len PROVE P(n + 1 + 1)
      OBVIOUS
    <2>1. PICK k \in 1 .. n + 1 : \A i \in 1 .. n + 1 : f[i] <= f[k]
      BY <1>2
    <2>2. f[k] \in Nat /\ f[n + 2] \in Nat /\ \A i \in 1 .. n + 2 : f[i] \in Nat
      BY <1>0
    <2>3. CASE f[n + 2] <= f[k]
      <3>1. k \in 1 .. n + 2 /\ \A i \in 1 .. n + 2 : f[i] <= f[k]
        BY <2>1, <2>2, <2>3
      <3> QED
        BY <3>1
    <2>4. CASE f[k] <= f[n + 2]
      <3>1. n + 2 \in 1 .. n + 2 /\ \A i \in 1 .. n + 2 : f[i] <= f[n + 2]
        BY <2>1, <2>2, <2>4
      <3> QED
        BY <3>1
    <2> QED
      BY <2>2, <2>3, <2>4
  <1>3. \A n \in Nat : n \in T
    <2> HIDE DEF T
    <2> QED BY <1>1, <1>2, SetInduction
  <1>4. PICK n \in Nat : n + 1 = len
    <2>1. len - 1 \in Nat /\ (len - 1) + 1 = len
      OBVIOUS
    <2> QED
      BY <2>1
  <1>5. n \in T /\ n + 1 <= len
    <2> HIDE DEF T
    <2> QED BY <1>3, <1>4
  <1>6. P(n + 1)
    BY <1>5
  <1> HIDE DEF P
  <1>7. P(len)
    BY <1>4, <1>6
  <1> QED
    BY <1>7 DEF P

LEMMA LargestIndex ==
    ASSUME NEW m \in Seq(Chunks), m # <<>>
    PROVE  Max({m[i].index : i \in DOMAIN m}) \in Nat
  <1>0. PICK f : f = [i \in 1 .. Len(m) |-> m[i].index]
    OBVIOUS
  <1>1. f \in [1 .. Len(m) -> Nat] /\ DOMAIN m = 1 .. Len(m) /\ Len(m) \in Nat \ {0}
    <2>1. \A i \in 1 .. Len(m) : m[i] \in Chunks
      OBVIOUS
    <2>2. \A i \in 1 .. Len(m) : m[i].index \in Nat
      BY <2>1 DEF Chunks
    <2> QED
      BY <1>0, <2>2
  <1>4. PICK k \in 1 .. Len(m) : \A i \in 1 .. Len(m) : f[i] <= f[k]
    BY <1>1, LargestValue
  <1>5. PICK X : X = {m[i].index : i \in DOMAIN m}
    OBVIOUS
  <1>6. X = {f[i] : i \in 1 .. Len(m)}
    BY <1>0, <1>1, <1>5
  <1>7. \E x \in X : \A y \in X : x >= y
    <2>1. f[k] \in X /\ \A y \in X : f[k] >= y
      BY <1>1, <1>4, <1>6
    <2> QED
      BY <2>1
  <1>8. Max(X) \in X
    BY <1>7 DEF Max
  <1>9. Max(X) \in Nat
    BY <1>1, <1>6, <1>8
  <1> QED
    BY <1>5, <1>9

LEMMA NextChunkIndexType ==
    ASSUME NEW m \in Seq(Chunks), NEW n \in Nat
    PROVE  NextChunkIndex(m, n) \in Nat
  BY LargestIndex DEF NextChunkIndex

(* A mark changes the state of chunks and nothing else of a manifest.       *)
LEMMA MarkedAsKeeps ==
    ASSUME NEW m \in Seq(Chunks), NEW ids, NEW state \in IndexStates
    PROVE  /\ MarkedAs(m, ids, state) \in Seq(Chunks)
           /\ Keys(MarkedAs(m, ids, state)) = Keys(m)
           /\ MarkedAs(m, ids, state) = <<>> <=> m = <<>>
  <1> DEFINE at(i) == IF ChunkId(m[i]) \in ids THEN [m[i] EXCEPT !.state = state] ELSE m[i]
  <1>1. \A i \in 1 .. Len(m) : at(i) \in Chunks /\ ChunkId(at(i)) = ChunkId(m[i])
    <2> SUFFICES ASSUME NEW i \in 1 .. Len(m)
                 PROVE  at(i) \in Chunks /\ ChunkId(at(i)) = ChunkId(m[i])
      OBVIOUS
    <2>1. m[i] \in Chunks
      OBVIOUS
    <2> QED
      BY <2>1 DEF Chunks, ChunkId
  <1>2. MarkedAs(m, ids, state) = [i \in 1 .. Len(m) |-> at(i)]
    BY DEF MarkedAs
  <1> HIDE DEF at
  <1>3. PICK n : n = [i \in 1 .. Len(m) |-> at(i)]
    OBVIOUS
  <1>4. n \in Seq(Chunks) /\ Len(n) = Len(m) /\ \A i \in 1 .. Len(m) : n[i] = at(i)
    BY <1>1, <1>3
  <1>5. Keys(n) = Keys(m)
    BY <1>1, <1>4 DEF Keys
  <1> QED
    BY <1>2, <1>3, <1>4, <1>5

LEMMA ChunkIdsType ==
    ASSUME NEW m \in Seq(Chunks)
    PROVE  ChunkIds(m) \subseteq ChunkKeys
  <1> SUFFICES ASSUME NEW i \in DOMAIN m PROVE ChunkId(m[i]) \in ChunkKeys
    BY DEF ChunkIds
  <1>1. m[i] \in Chunks
    OBVIOUS
  <1>2. m[i].conv \in Ids /\ m[i].index \in Nat /\ m[i].msg \in Msgs
    BY <1>1 DEF Chunks
  <1> QED
    BY <1>2 DEF ChunkId, ChunkKeys

LEMMA SameKeysSameIds ==
    ASSUME NEW m \in Seq(Chunks), NEW n \in Seq(Chunks), Keys(m) = Keys(n)
    PROVE  ChunkIds(m) = ChunkIds(n) /\ Len(m) = Len(n)
  <1>1. DOMAIN Keys(m) = 1 .. Len(m) /\ DOMAIN Keys(n) = 1 .. Len(n)
    BY DEF Keys
  <1>2. Len(m) = Len(n)
    BY <1>1
  <1>3. \A i \in 1 .. Len(m) : ChunkId(m[i]) = ChunkId(n[i])
    BY <1>1, <1>2 DEF Keys
  <1> QED
    BY <1>2, <1>3 DEF ChunkIds

(* A manifest that numbers its chunks as a fresh chunking goes on where the *)
(* chunking of the longer transcript does.                                  *)
LEMMA AppendedChunking ==
    ASSUME NEW id \in Ids, NEW a \in Seq(Msgs), NEW b \in Seq(Msgs), NEW m \in Seq(Chunks),
           m # <<>> \/ a = <<>>,
           m # <<>> => Keys(m) = Keys(chunk_selected_messages(id, a, 0)),
           NEW n \in Nat, m = <<>> => n = 0
    PROVE  Keys(m \o chunk_selected_messages(id, b, NextChunkIndex(m, n)))
             = Keys(chunk_selected_messages(id, a \o b, 0))
  <1>1. PICK fa, fc : /\ fa = chunk_selected_messages(id, a, 0)
                      /\ fc = chunk_selected_messages(id, a \o b, 0)
    OBVIOUS
  <1>2. PICK oa, ob, oc : oa = Owners(a) /\ ob = Owners(b) /\ oc = Owners(a \o b)
    OBVIOUS
  <1>3. oa \in Seq(Msgs) /\ ob \in Seq(Msgs) /\ oc = oa \o ob
    BY <1>2, OwnersType, OwnersConcat
  <1>4. /\ fa \in Seq(Chunks) /\ Len(fa) = Len(oa)
        /\ \A i \in 1 .. Len(fa) : ChunkId(fa[i]) = <<id, 0 + i - 1, oa[i]>>
    BY <1>1, <1>2, ChunksAre
  <1>5. /\ fc \in Seq(Chunks) /\ Len(fc) = Len(oc)
        /\ \A i \in 1 .. Len(fc) : ChunkId(fc[i]) = <<id, 0 + i - 1, oc[i]>>
    <2>1. a \o b \in Seq(Msgs)
      OBVIOUS
    <2> QED
      BY <1>1, <1>2, <2>1, ChunksAre
  <1>6. Len(m) = Len(oa) /\ \A i \in 1 .. Len(m) : ChunkId(m[i]) = <<id, i - 1, oa[i]>>
    <2>1. CASE m # <<>>
      <3>1. Keys(m) = Keys(fa)
        BY <1>1, <2>1
      <3>2. Len(m) = Len(fa)
        BY <1>4, <3>1, SameKeysSameIds
      <3>3. \A i \in 1 .. Len(m) : ChunkId(m[i]) = Keys(m)[i] /\ ChunkId(fa[i]) = Keys(fa)[i]
        BY <1>4, <3>2 DEF Keys
      <3> QED
        BY <1>4, <3>1, <3>2, <3>3
    <2>2. CASE m = <<>>
      <3>1. a = <<>>
        BY <2>2
      <3>2. Copies(a) = <<>>
        BY <3>1 DEF Copies
      <3>3. oa = <<>>
        BY <1>2, <3>2 DEF Owners, FlattenSeq
      <3> QED
        BY <2>2, <3>3
    <2> QED
      BY <2>1, <2>2
  <1>7. NextChunkIndex(m, n) = Len(m)
    <2>1. CASE m # <<>>
      <3>1. PICK X : X = {m[i].index : i \in DOMAIN m}
        OBVIOUS
      <3>2. \A i \in 1 .. Len(m) : m[i].index = i - 1
        BY <1>6 DEF ChunkId
      <3>3. Len(m) - 1 \in X /\ \A x \in X : x \in Nat /\ x <= Len(m) - 1
        BY <2>1, <3>1, <3>2
      <3>4. Max(X) = Len(m) - 1
        BY <3>3 DEF Max
      <3> QED
        BY <2>1, <3>1, <3>4 DEF NextChunkIndex
    <2>2. CASE m = <<>>
      BY <2>2 DEF NextChunkIndex
    <2> QED
      BY <2>1, <2>2
  <1>8. PICK fb : fb = chunk_selected_messages(id, b, Len(m))
    OBVIOUS
  <1>9. /\ fb \in Seq(Chunks) /\ Len(fb) = Len(ob)
        /\ \A i \in 1 .. Len(fb) : ChunkId(fb[i]) = <<id, Len(m) + i - 1, ob[i]>>
    BY <1>2, <1>8, ChunksAre
  <1>10. PICK u : u = m \o fb
    OBVIOUS
  <1>11. /\ u \in Seq(Chunks) /\ Len(u) = Len(m) + Len(fb)
         /\ \A i \in 1 .. Len(u) : u[i] = IF i <= Len(m) THEN m[i] ELSE fb[i - Len(m)]
    <2>1. fb \in Seq(Chunks) /\ m \in Seq(Chunks)
      BY <1>9
    <2> QED
      BY ONLY <1>10, <2>1, ConcatProperties
  <1>12. Len(oc) = Len(oa) + Len(ob)
         /\ \A i \in 1 .. Len(oc) : oc[i] = IF i <= Len(oa) THEN oa[i] ELSE ob[i - Len(oa)]
    BY <1>3, ConcatProperties
  <1>13. ASSUME NEW i \in 1 .. Len(u) PROVE ChunkId(u[i]) = ChunkId(fc[i])
    <2>1. i \in 1 .. Len(fc) /\ i \in 1 .. Len(oc) /\ Len(m) \in Nat /\ Len(fb) \in Nat
      BY <1>5, <1>6, <1>9, <1>11, <1>12
    <2>2. CASE i <= Len(m)
      <3>1. i \in 1 .. Len(m)
        BY <2>1, <2>2
      <3>2. ChunkId(u[i]) = <<id, i - 1, oa[i]>> /\ ChunkId(fc[i]) = <<id, 0 + i - 1, oa[i]>>
        BY <1>5, <1>6, <1>11, <1>12, <2>1, <2>2, <3>1
      <3> QED
        BY <2>1, <3>2
    <2>3. CASE ~(i <= Len(m))
      <3>1. PICK k : k = i - Len(m)
        OBVIOUS
      <3>2. k \in 1 .. Len(fb) /\ i = Len(m) + k
        BY <1>11, <2>1, <2>3, <3>1
      <3>3. ChunkId(u[i]) = <<id, Len(m) + k - 1, ob[k]>>
        BY <1>9, <1>11, <2>3, <3>1, <3>2
      <3>4. ChunkId(fc[i]) = <<id, 0 + i - 1, ob[k]>>
        BY <1>5, <1>6, <1>12, <2>1, <2>3, <3>1
      <3> QED
        BY <2>1, <3>2, <3>3, <3>4
    <2> QED
      BY <2>2, <2>3
  <1>14. Len(u) = Len(fc)
    BY <1>5, <1>6, <1>9, <1>11, <1>12
  <1>15. Keys(u) = Keys(fc)
    BY <1>5, <1>11, <1>13, <1>14 DEF Keys
  <1> QED
    BY <1>1, <1>7, <1>8, <1>10, <1>15

-----------------------------------------------------------------------------
(* Types, and what every job knows wherever it stands, however many hubs    *)
(* share the stores.                                                        *)

Reading == {"inspect", "repair", "refresh", "complete"}
Carrying == {"append", "rewrite", "resave", "approve", "reject"}
Indexing == {"embed", "upsert", "mark_indexed", "mark_failed", "facts"}
Ingesting == {"lookup", "complete", "existing", "same_thread", "append", "rewrite",
              "summarize", "resave", "insert", "facts"}
Busy == Reading \cup Carrying \cup Indexing \cup Ingesting \cup
        {"review", "hold", "resolve", "decide", "approve_facts", "retrieve",
         "reindex", "list", "next", "done"}

StoreTypes ==
    /\ convs \in [Ids -> Conversations \cup {None}]
    /\ facts \in [Ids -> SUBSET Nat]
    /\ summaries \in [Ids -> Seq(Msgs) \cup {None}]
    /\ vectors \in [Ids -> SUBSET ChunkKeys]

WorkerTypes ==
    /\ lock \in [Hubs -> Workers \cup {None}]
    /\ pc \in [Workers -> Busy \cup {"idle"}]
    /\ job \in [Workers -> Jobs \cup {None}]
    /\ \A w \in Workers : pc[w] = "idle" <=> job[w] = None

TypeOK == StoreTypes /\ WorkerTypes

(* Somebody submitted this transcript to this project.                      *)
Submitted(c) == \E r \in Requests : r.project = c.project /\ r.msgs = c.msgs

StoredOK == \A id \in Stored : convs[id].id = id /\ Submitted(convs[id])

(* The operations that run each step.                                       *)
OpOK(at, op) ==
    /\ at \in Ingesting => op \in {"ingest", "approve"}
    /\ at \in {"inspect", "repair", "refresh"} => op \in {"ingest", "approve", "retrieve"}
    /\ at = "resolve" => op \in {"ingest", "approve", "hold"}
    /\ at \in {"review", "hold"} => op \in {"ingest", "hold"}
    /\ at \in {"embed", "upsert", "mark_indexed", "mark_failed"} =>
         op \in {"ingest", "approve", "reindex"}
    /\ at = "decide" => op \in {"approve", "reject"}
    /\ at \in {"approve", "approve_facts"} => op = "approve"
    /\ at = "reject" => op = "reject"
    /\ at = "retrieve" => op = "retrieve"
    /\ at \in {"reindex", "list", "next"} => op = "reindex"

(* The request is a payload: a submitted one, or that of the memory that    *)
(* approve has stored.                                                      *)
Payloading(at, op) ==
    \/ op \in {"ingest", "hold"}
    \/ op = "approve" /\ at \notin {"decide", "approve", "done"}

JobOK(at, j) ==
    /\ OpOK(at, j.op)
    /\ j.op # "reindex" => j.req # None
    /\ Payloading(at, j.op) => Submitted(j.req)
    /\ j.dup # None => j.dup \in Stored
    /\ j.read # None => j.read.id \in Stored /\ Submitted(j.read)
    /\ at \in Reading => j.dup # None /\ j.read # None /\ j.read.id = j.dup
    /\ at \in Carrying => j.read # None
    /\ at \in Indexing => j.target \in Stored
    /\ at = "append" => /\ j.read.project = j.req.project
                        /\ IsStrictPrefix(j.read.msgs, j.req.msgs)
    /\ at = "rewrite" =>
         /\ j.target = j.read.id /\ j.extract = {}
         /\ j.chunks = chunk_selected_messages(j.read.id, j.read.msgs, 0)
    /\ at \in {"approve", "reject"} => j.read.status \in Reviewable
    /\ at \in {"append", "rewrite"} => j.read.status = "active"
    /\ at = "resave" \/ (at = "summarize" /\ j.read # None) =>
         j.target = j.read.id /\ j.extract # {} /\ j.read.status = "active"
    /\ \A c \in j.todo : c.id \in Stored
    /\ j.op = "reindex" /\ at # "done" => j.outcome \in {None, "error"}

JobsOK == \A w \in Workers : pc[w] # "idle" => JobOK(pc[w], job[w])

Inv == TypeOK /\ StoredOK /\ JobsOK

-----------------------------------------------------------------------------
(* Frames: how the invariant survives a step that ends in Step or Return.   *)

LEMMA StoredIs ==
    ASSUME StoreTypes, NEW id \in Stored
    PROVE  id \in Ids /\ convs[id] \in Conversations /\ convs[id] # None
  BY DEF Stored, StoreTypes

LEMMA Running ==
    ASSUME Inv, NEW w \in Workers, pc[w] # "idle"
    PROVE  job[w] \in Jobs /\ job[w] # None /\ pc[w] \in Busy /\ JobOK(pc[w], job[w])
  BY DEF Inv, TypeOK, WorkerTypes, JobsOK

LEMMA JobKept ==
    ASSUME Stored \subseteq Stored', NEW at, NEW j, JobOK(at, j)
    PROVE  JobOK(at, j)'
  BY DEF JobOK

LEMMA NoneIsNoJob ==
    ASSUME NEW j \in Jobs PROVE j # None
  BY NoneIsNoRecord

LEMMA StepKeeps ==
    ASSUME Inv, NEW w \in Workers, NEW j \in Jobs, NEW at \in Busy, Step(w, j, at),
           StoreTypes', StoredOK', Stored \subseteq Stored', JobOK(at, j)'
    PROVE  Inv'
  <1>1. WorkerTypes'
    <2>1. at # "idle"
      BY DEF Busy, Reading, Carrying, Indexing, Ingesting
    <2>2. j # None
      BY NoneIsNoJob
    <2> QED
      BY <2>1, <2>2 DEF Inv, TypeOK, WorkerTypes, Step
  <1>2. JobsOK'
    <2> SUFFICES ASSUME NEW v \in Workers, pc'[v] # "idle" PROVE JobOK(pc[v], job[v])'
      BY DEF JobsOK
    <2>1. CASE v = w
      <3>1. pc'[v] = at /\ job'[v] = j
        BY <2>1 DEF Step, Inv, TypeOK, WorkerTypes
      <3> QED
        BY <3>1
    <2>2. CASE v # w
      <3>1. pc'[v] = pc[v] /\ job'[v] = job[v]
        BY <2>2 DEF Step, Inv, TypeOK, WorkerTypes
      <3>2. PICK a, k : a = pc[v] /\ k = job[v]
        OBVIOUS
      <3>3. JobOK(a, k)
        BY <3>1, <3>2 DEF Inv, JobsOK
      <3>4. JobOK(a, k)'
        BY <3>3, JobKept
      <3> QED
        BY <3>1, <3>2, <3>4
    <2> QED
      BY <2>1, <2>2
  <1> QED
    BY <1>1, <1>2 DEF Inv, TypeOK

LEMMA StepOnly ==
    ASSUME Inv, NEW w \in Workers, NEW j \in Jobs, NEW at \in Busy, Step(w, j, at),
           UNCHANGED stores, JobOK(at, j)
    PROVE  Inv'
  <1>1. StoreTypes' /\ StoredOK' /\ Stored' = Stored
    BY DEF Inv, TypeOK, StoreTypes, StoredOK, Stored, stores
  <1>2. JobOK(at, j)'
    BY <1>1, JobKept
  <1> QED
    BY <1>1, <1>2, StepKeeps

(* Where an operation goes when it returns.                                 *)
Answered(j, outcome) ==
    IF j.op = "approve" /\ outcome # "error" THEN "approve_facts" ELSE "done"

LEMMA ReturnOK ==
    ASSUME NEW at, NEW j \in Jobs, NEW outcome \in Outcomes, JobOK(at, j),
           j.op = "approve" /\ outcome # "error" => Payloading(at, j.op)
    PROVE  /\ [j EXCEPT !.outcome = outcome] \in Jobs
           /\ Answered(j, outcome) \in Busy
           /\ JobOK(Answered(j, outcome), [j EXCEPT !.outcome = outcome])
  <1>1. PICK k : k = [j EXCEPT !.outcome = outcome]
    OBVIOUS
  <1>2. /\ k \in Jobs /\ k.op = j.op /\ k.req = j.req /\ k.dup = j.dup /\ k.read = j.read
        /\ k.target = j.target /\ k.todo = j.todo
    BY <1>1 DEF Jobs
  <1>3. JobOK(Answered(j, outcome), k)
    BY <1>2 DEF JobOK, Answered, OpOK, Payloading, Reading, Carrying, Indexing, Ingesting
  <1> QED
    BY <1>1, <1>2, <1>3 DEF Answered, Busy

LEMMA ReturnOnly ==
    ASSUME Inv, NEW w \in Workers, NEW at, NEW j \in Jobs, NEW outcome \in Outcomes,
           Return(w, j, outcome), UNCHANGED stores, JobOK(at, j),
           j.op = "approve" /\ outcome # "error" => Payloading(at, j.op)
    PROVE  Inv'
  <1>1. PICK k, b : k = [j EXCEPT !.outcome = outcome] /\ b = Answered(j, outcome)
    OBVIOUS
  <1>2. k \in Jobs /\ b \in Busy /\ JobOK(b, k)
    BY <1>1, ReturnOK
  <1>3. Step(w, k, b)
    BY <1>1 DEF Return, Answered
  <1> QED
    BY <1>2, <1>3, StepOnly

(* A conversation is stored whole.                                          *)
LEMMA PutKeeps ==
    ASSUME Inv, NEW c \in Conversations, Submitted(c), convs' = [convs EXCEPT ![c.id] = c],
           UNCHANGED <<facts, summaries, vectors>>
    PROVE  StoreTypes' /\ StoredOK' /\ Stored \subseteq Stored' /\ c.id \in Stored'
  <1>1. c.id \in Ids /\ c # None
    BY NoneIsNoRecord DEF Conversations
  <1> QED
    BY <1>1 DEF Inv, TypeOK, StoreTypes, StoredOK, Stored

(* The manifest of a conversation is marked.                                *)
LEMMA MarkKeeps ==
    ASSUME Inv, NEW id \in Stored, NEW ids, NEW state \in IndexStates, MarkChunks(id, ids, state),
           UNCHANGED <<facts, summaries, vectors>>
    PROVE  /\ StoreTypes' /\ StoredOK' /\ Stored' = Stored
           /\ \A x \in Stored : /\ convs'[x].status = convs[x].status
                                /\ [convs'[x] EXCEPT !.chunks = <<>>]
                                     = [convs[x] EXCEPT !.chunks = <<>>]
                                /\ Keys(convs'[x].chunks) = Keys(convs[x].chunks)
  <1>1. PICK c, m : c = convs[id] /\ m = MarkedAs(convs[id].chunks, ids, state)
    OBVIOUS
  <1>2. c \in Conversations /\ id \in Ids
    BY <1>1, StoredIs DEF Inv, TypeOK
  <1>3. m \in Seq(Chunks) /\ Keys(m) = Keys(c.chunks)
    <2>1. c.chunks \in Seq(Chunks)
      BY <1>2 DEF Conversations
    <2> QED
      BY <1>1, <2>1, MarkedAsKeeps
  <1>4. PICK d : d = [c EXCEPT !.chunks = m]
    OBVIOUS
  <1>5. /\ d \in Conversations /\ d.id = c.id /\ d.status = c.status /\ d.chunks = m
        /\ d.project = c.project /\ d.msgs = c.msgs
        /\ [d EXCEPT !.chunks = <<>>] = [c EXCEPT !.chunks = <<>>]
    BY <1>2, <1>3, <1>4 DEF Conversations
  <1>6. convs' = [convs EXCEPT ![id] = d]
    BY <1>1, <1>4, <1>2 DEF MarkChunks, Inv, TypeOK, StoreTypes
  <1>7. d # None
    BY <1>5, NoneIsNoRecord
  <1>8. Submitted(d) /\ d.id = id
    BY <1>1, <1>5 DEF Inv, StoredOK, Submitted
  <1>9. StoreTypes' /\ Stored' = Stored
    BY <1>2, <1>5, <1>6, <1>7 DEF Inv, TypeOK, StoreTypes, Stored
  <1>10. convs'[id] = d /\ \A x \in Stored \ {id} : convs'[x] = convs[x]
    BY <1>2, <1>6 DEF Inv, TypeOK, StoreTypes, Stored
  <1>11. StoredOK'
    BY <1>8, <1>9, <1>10 DEF Inv, StoredOK
  <1> QED
    BY <1>1, <1>3, <1>5, <1>9, <1>10, <1>11

-----------------------------------------------------------------------------
(* The steps of an ingestion.                                               *)

LEMMA LookupKeeps ==
    ASSUME Inv, NEW w \in Workers, Lookup(w)
    PROVE  Inv'
  <1>1. PICK j : j = job[w]
    OBVIOUS
  <1>2. j \in Jobs /\ JobOK("lookup", j)
    <2>1. pc[w] = "lookup"
      BY DEF Lookup
    <2> QED
      BY <1>1, <2>1, Running
  <1>3. UNCHANGED stores
    BY DEF Lookup
  <1>4. CASE Step(w, j, "existing")
    <2>1. JobOK("existing", j) /\ "existing" \in Busy
      BY <1>2 DEF JobOK, OpOK, Payloading, Reading, Carrying, Indexing, Ingesting, Busy
    <2> QED
      BY <1>2, <1>3, <1>4, <2>1, StepOnly
  <1>5. ASSUME NEW id \in Stored, NEW at \in {"inspect", "complete"},
               Step(w, [j EXCEPT !.dup = id, !.read = convs[id]], at)
        PROVE  Inv'
    <2>1. PICK k, c : k = [j EXCEPT !.dup = id, !.read = c] /\ c = convs[id]
      OBVIOUS
    <2>2. c \in Conversations /\ id \in Ids /\ c.id = id /\ Submitted(c) /\ c # None /\ id # None
      BY <2>1, StoredIs, IngestionAssumption DEF Inv, TypeOK, StoredOK
    <2>3. k \in Jobs /\ k = [j EXCEPT !.dup = id, !.read = c]
      BY <1>2, <2>1, <2>2 DEF Jobs
    <2>4. k.op = j.op /\ k.req = j.req /\ k.dup = id /\ k.read = c /\ k.todo = j.todo
      BY <1>2, <2>3 DEF Jobs
    <2>5. JobOK(at, k) /\ at \in Busy
      BY <1>2, <2>2, <2>4 DEF JobOK, OpOK, Payloading, Reading, Carrying, Indexing, Ingesting, Busy
    <2> QED
      BY <1>3, <1>5, <2>1, <2>3, <2>5, StepOnly
  <1> QED
    BY <1>1, <1>4, <1>5 DEF Lookup, ByHash


LEMMA RetrieveKeeps ==
    ASSUME Inv, NEW w \in Workers, Retrieve(w)
    PROVE  Inv'
  <1>1. PICK j : j = job[w]
    OBVIOUS
  <1>2. j \in Jobs /\ JobOK("retrieve", j)
    <2>1. pc[w] = "retrieve"
      BY DEF Retrieve
    <2> QED
      BY <1>1, <2>1, Running
  <1>3. UNCHANGED stores /\ j.op = "retrieve"
    BY <1>2 DEF Retrieve, JobOK, OpOK, Payloading, Reading, Carrying, Indexing, Ingesting
  <1>4. ASSUME NEW outcome \in {"error", "retrieved"}, Return(w, j, outcome) PROVE Inv'
    <2>1. outcome \in Outcomes
      BY DEF Outcomes
    <2> QED
      BY <1>2, <1>3, <1>4, <2>1, ReturnOnly
  <1>5. ASSUME convs[j.req.id] # None,
               Step(w, [j EXCEPT !.dup = convs[j.req.id].id, !.read = convs[j.req.id]], "inspect")
        PROVE  Inv'
    <2>1. PICK k, c, id : /\ k = [j EXCEPT !.dup = c.id, !.read = c] /\ c = convs[j.req.id]
                          /\ id = j.req.id
      OBVIOUS
    <2>2. id \in Stored
      BY <1>2, <1>3, <1>5, <2>1, NoneIsNoRecord DEF Jobs, Payloads, JobOK, Stored
    <2>3. c \in Conversations /\ id \in Ids /\ c.id = id /\ Submitted(c) /\ c # None /\ id # None
      BY <2>1, <2>2, StoredIs, IngestionAssumption DEF Inv, TypeOK, StoredOK
    <2>4. k \in Jobs /\ k.op = j.op /\ k.req = j.req /\ k.dup = id /\ k.read = c /\ k.todo = j.todo
      BY <1>2, <2>1, <2>3 DEF Jobs
    <2>5. JobOK("inspect", k) /\ "inspect" \in Busy
      BY <1>2, <1>3, <2>2, <2>3, <2>4 DEF JobOK, OpOK, Payloading, Reading, Carrying, Indexing, Ingesting, Busy
    <2> QED
      BY <1>3, <1>5, <2>1, <2>4, <2>5, StepOnly
  <1> QED
    BY <1>1, <1>4, <1>5 DEF Retrieve


LEMMA AfterRepairKeeps ==
    ASSUME Inv, NEW w \in Workers, NEW j \in Jobs, AfterRepair(w, j), UNCHANGED stores,
           JobOK("refresh", j)
    PROVE  Inv'
  <1>1. CASE j.op = "retrieve"
    <2>1. Return(w, j, "retrieved") /\ "retrieved" \in Outcomes
      BY <1>1 DEF AfterRepair, Outcomes
    <2> QED
      BY <1>1, <2>1, ReturnOnly
  <1>2. CASE j.op # "retrieve"
    <2>1. Step(w, j, "complete")
      BY <1>2 DEF AfterRepair
    <2>2. JobOK("complete", j) /\ "complete" \in Busy
      BY <1>2 DEF JobOK, OpOK, Payloading, Reading, Carrying, Indexing, Ingesting, Busy
    <2> QED
      BY <2>1, <2>2, StepOnly
  <1> QED
    BY <1>1, <1>2

LEMMA InspectKeeps ==
    ASSUME Inv, NEW w \in Workers, Inspect(w)
    PROVE  Inv'
  <1>1. PICK j : j = job[w]
    OBVIOUS
  <1>2. j \in Jobs /\ JobOK("inspect", j)
    <2>1. pc[w] = "inspect"
      BY DEF Inspect
    <2> QED
      BY <1>1, <2>1, Running
  <1>3. UNCHANGED stores
    BY DEF Inspect
  <1>4. CASE AfterRepair(w, j)
    <2>1. JobOK("refresh", j)
      BY <1>2 DEF JobOK, OpOK, Payloading, Reading, Carrying, Indexing, Ingesting
    <2> QED
      BY <1>2, <1>3, <1>4, <2>1, AfterRepairKeeps
  <1>5. CASE Step(w, [j EXCEPT !.marks = RepairableChunks(j)], "repair")
    <2>1. PICK k, x : k = [j EXCEPT !.marks = x] /\ x = RepairableChunks(j)
      OBVIOUS
    <2>2. x \subseteq ChunkKeys
      <3>1. j.read \in Conversations /\ j.read.chunks \in Seq(Chunks)
        BY <1>2 DEF Jobs, JobOK, Reading, Conversations
      <3>2. ChunkIds(j.read.chunks) \subseteq ChunkKeys
        BY <3>1, ChunkIdsType
      <3> QED
        BY <2>1, <3>2 DEF RepairableChunks
    <2>3. /\ k \in Jobs /\ k.op = j.op /\ k.req = j.req /\ k.dup = j.dup /\ k.read = j.read
          /\ k.todo = j.todo
      BY <1>2, <2>1, <2>2 DEF Jobs, ChunkKeys
    <2>4. JobOK("repair", k) /\ "repair" \in Busy
      BY <1>2, <2>3 DEF JobOK, OpOK, Payloading, Reading, Carrying, Indexing, Ingesting, Busy
    <2> QED
      BY <1>3, <1>5, <2>1, <2>3, <2>4, StepOnly
  <1> QED
    BY <1>1, <1>4, <1>5 DEF Inspect


LEMMA RepairKeeps ==
    ASSUME Inv, NEW w \in Workers, Repair(w)
    PROVE  Inv'
  <1>1. PICK j : j = job[w]
    OBVIOUS
  <1>2. j \in Jobs /\ JobOK("repair", j)
    <2>1. pc[w] = "repair"
      BY DEF Repair
    <2> QED
      BY <1>1, <2>1, Running
  <1>3. j.dup \in Stored /\ "indexed" \in IndexStates /\ MarkChunks(j.dup, j.marks, "indexed")
        /\ UNCHANGED <<facts, summaries, vectors>>
    BY <1>1, <1>2 DEF Repair, JobOK, Reading, IndexStates
  <1>4. StoreTypes' /\ StoredOK' /\ Stored' = Stored
    BY <1>3, MarkKeeps
  <1>5. JobOK("refresh", j)' /\ "refresh" \in Busy
    <2>1. JobOK("refresh", j)
      BY <1>2 DEF JobOK, OpOK, Payloading, Reading, Carrying, Indexing, Ingesting
    <2> QED
      BY <1>4, <2>1, JobKept DEF Busy, Reading
  <1>6. Step(w, j, "refresh")
    BY <1>1 DEF Repair
  <1> QED
    BY <1>2, <1>4, <1>5, <1>6, StepKeeps


LEMMA RefreshKeeps ==
    ASSUME Inv, NEW w \in Workers, Refresh(w)
    PROVE  Inv'
  <1>1. PICK j : j = job[w]
    OBVIOUS
  <1>2. j \in Jobs /\ JobOK("refresh", j)
    <2>1. pc[w] = "refresh"
      BY DEF Refresh
    <2> QED
      BY <1>1, <2>1, Running
  <1>3. PICK k, c : k = [j EXCEPT !.read = c] /\ c = convs[j.dup]
    OBVIOUS
  <1>4. j.dup \in Stored
    BY <1>2 DEF JobOK, Reading
  <1>5. c \in Conversations /\ c.id = j.dup /\ Submitted(c) /\ c # None
    BY <1>3, <1>4, StoredIs DEF Inv, TypeOK, StoredOK
  <1>6. k \in Jobs /\ k.op = j.op /\ k.req = j.req /\ k.dup = j.dup /\ k.read = c /\ k.todo = j.todo
    BY <1>2, <1>3, <1>5 DEF Jobs
  <1>7. JobOK("refresh", k)
    BY <1>2, <1>4, <1>5, <1>6 DEF JobOK, OpOK, Payloading, Reading, Carrying, Indexing, Ingesting
  <1>8. AfterRepair(w, k) /\ UNCHANGED stores
    BY <1>1, <1>3 DEF Refresh
  <1> QED
    BY <1>6, <1>7, <1>8, AfterRepairKeeps


LEMMA CompleteKeeps ==
    ASSUME Inv, NEW w \in Workers, Complete(w)
    PROVE  Inv'
  <1>1. PICK j : j = job[w]
    OBVIOUS
  <1>2. j \in Jobs /\ JobOK("complete", j)
    <2>1. pc[w] = "complete"
      BY DEF Complete
    <2> QED
      BY <1>1, <2>1, Running
  <1>3. UNCHANGED stores /\ j.dup \in Stored /\ j.dup \in Ids /\ j.read # None
    BY <1>2 DEF Complete, JobOK, Reading, Stored
  <1>4. CASE Return(w, [j EXCEPT !.target = j.dup], "deduplicated")
    <2>1. PICK k : k = [j EXCEPT !.target = j.dup]
      OBVIOUS
    <2>2. /\ k \in Jobs /\ k.op = j.op /\ k.req = j.req /\ k.dup = j.dup /\ k.read = j.read
          /\ k.todo = j.todo
      BY <1>2, <1>3, <2>1 DEF Jobs
    <2>3. JobOK("complete", k) /\ "deduplicated" \in Outcomes /\ (k.op = "approve" => Payloading("complete", k.op))
      BY <1>2, <2>2 DEF JobOK, OpOK, Payloading, Reading, Carrying, Indexing, Ingesting, Outcomes
    <2> QED
      BY <1>3, <1>4, <2>1, <2>2, <2>3, ReturnOnly
  <1>5. CASE Step(w, [j EXCEPT !.req.id = j.dup], "existing")
    <2>1. PICK k, r : k = [j EXCEPT !.req = r] /\ r = [j.req EXCEPT !.id = j.dup]
      OBVIOUS
    <2>2. j.req \in Payloads
      BY <1>2 DEF Jobs, JobOK, OpOK, Payloading, Reading, Carrying, Indexing, Ingesting
    <2>3. r \in Payloads /\ r.project = j.req.project /\ r.msgs = j.req.msgs
      BY <1>3, <2>1, <2>2 DEF Payloads
    <2>4. /\ k \in Jobs /\ k.op = j.op /\ k.req = r /\ k.dup = j.dup /\ k.read = j.read
          /\ k.todo = j.todo
      BY <1>2, <2>1, <2>3 DEF Jobs
    <2>5. k = [j EXCEPT !.req.id = j.dup]
      BY <1>2, <2>1 DEF Jobs
    <2>6. r # None /\ (Submitted(j.req) => Submitted(r))
      BY <2>3, NoneIsNoRecord DEF Submitted
    <2>7. JobOK("existing", k) /\ "existing" \in Busy
      BY <1>2, <2>4, <2>6 DEF JobOK, OpOK, Payloading, Reading, Carrying, Indexing, Ingesting, Busy
    <2> QED
      BY <1>3, <1>5, <2>4, <2>5, <2>7, StepOnly
  <1> QED
    BY <1>1, <1>4, <1>5 DEF Complete


LEMMA ExistingKeeps ==
    ASSUME Inv, NEW w \in Workers, Existing(w)
    PROVE  Inv'
  <1>1. PICK j : j = job[w]
    OBVIOUS
  <1>2. j \in Jobs /\ JobOK("existing", j)
    <2>1. pc[w] = "existing"
      BY DEF Existing
    <2> QED
      BY <1>1, <2>1, Running
  <1>3. UNCHANGED stores
    BY DEF Existing
  <1>4. CASE Return(w, j, "error")
    BY <1>2, <1>3, <1>4, ReturnOnly DEF Outcomes
  <1>5. CASE Step(w, j, "same_thread")
    <2>1. JobOK("same_thread", j) /\ "same_thread" \in Busy
      BY <1>2 DEF JobOK, OpOK, Payloading, Reading, Carrying, Indexing, Ingesting, Busy
    <2> QED
      BY <1>2, <1>3, <1>5, <2>1, StepOnly
  <1> QED
    BY <1>1, <1>4, <1>5 DEF Existing

LEMMA ReindexingIs ==
    ASSUME NEW j \in Jobs, j.req \in Payloads, NEW id \in Ids, NEW target \in Ids
    PROVE  LET k == Reindexing(j, id, target)
           IN  /\ k \in Jobs /\ k.op = j.op /\ k.req = j.req /\ k.dup = j.dup /\ k.read = j.read
               /\ k.todo = j.todo /\ k.target = target /\ k.extract = {}
               /\ k.chunks = chunk_selected_messages(id, j.req.msgs, 0)
  <1>1. PICK cs : cs = chunk_selected_messages(id, j.req.msgs, 0)
    OBVIOUS
  <1>2. cs \in Seq(Chunks)
    <2>1. j.req.msgs \in Seq(Msgs)
      BY DEF Payloads
    <2> QED
      BY <1>1, <2>1, ChunksAre
  <1> QED
    BY <1>1, <1>2 DEF Reindexing, Jobs

LEMMA RelationIs ==
    ASSUME NEW s, NEW t
    PROVE  /\ SnapshotRelation(s, t) \in {"equal", "append", "stale", "divergent"}
           /\ SnapshotRelation(s, t) = "equal" <=> s = t
           /\ SnapshotRelation(s, t) = "append" => IsStrictPrefix(s, t)
  BY DEF SnapshotRelation, IsStrictPrefix

(* The conversations _lookup_same_thread answers with.                      *)
LEMMA SameThreadIs ==
    ASSUME NEW j, NEW id \in SameThread(j), id # None
    PROVE  /\ id \in Stored /\ convs[id].project = j.req.project /\ convs[id].status = "active"
           /\ ~TrustedAppends => SessionOf(j) # None /\ convs[id].session = SessionOf(j)
  BY DEF SameThread, BySession, conversation_allowed

(* The outcomes of a classification.                                        *)
Found(w, j, id, c) ==
    \/ Return(w, [[j EXCEPT !.read = c] EXCEPT !.target = id], "stale")
    \/ Return(w, [j EXCEPT !.read = c], "error")
    \/ IsStrictPrefix(c.msgs, j.req.msgs) /\ Step(w, [j EXCEPT !.read = c], "append")
    \/ /\ c.msgs = j.req.msgs /\ j.dup = None
       /\ Return(w, [[j EXCEPT !.read = c] EXCEPT !.target = id], "deduplicated")
    \/ /\ c.msgs = j.req.msgs /\ j.dup # None
       /\ Step(w, Reindexing([j EXCEPT !.read = c], id, id), "rewrite")

LEMMA Classified ==
    ASSUME NEW w \in Workers, Classify(w), NEW j, j = job[w]
    PROVE  \/ Return(w, j, "error")
           \/ None \in SameThread(j) /\ Step(w, [j EXCEPT !.read = None], "summarize")
           \/ \E id \in SameThread(j) : id # None /\ Found(w, j, id, convs[id])
  <1>1. PICK id \in SameThread(j) :
             IF id = None
             THEN IF j.attempts > 0 THEN Return(w, j, "error")
                  ELSE Step(w, [j EXCEPT !.read = None], "summarize")
             ELSE LET c == convs[id]
                      k == [j EXCEPT !.read = c]
                      relation == SnapshotRelation(c.msgs, j.req.msgs)
                  IN  CASE relation = "stale" ->
                             Return(w, [k EXCEPT !.target = id], "stale")
                        [] relation = "divergent" -> Return(w, k, "error")
                        [] relation = "append" -> Step(w, k, "append")
                        [] relation = "equal" /\ j.dup = None ->
                             Return(w, [k EXCEPT !.target = id], "deduplicated")
                        [] OTHER -> Step(w, Reindexing(k, id, id), "rewrite")
    BY DEF Classify
  <1>2. CASE id = None
    BY <1>1, <1>2
  <1>3. CASE id # None
    <2>1. PICK c, relation : c = convs[id] /\ relation = SnapshotRelation(c.msgs, j.req.msgs)
      OBVIOUS
    <2>2. /\ relation \in {"equal", "append", "stale", "divergent"}
          /\ relation = "equal" <=> c.msgs = j.req.msgs
          /\ relation = "append" => IsStrictPrefix(c.msgs, j.req.msgs)
      BY <2>1, RelationIs
    <2>3. CASE relation = "stale"
      BY <1>1, <1>3, <2>1, <2>3 DEF Found
    <2>4. CASE relation = "divergent"
      BY <1>1, <1>3, <2>1, <2>4 DEF Found
    <2>5. CASE relation = "append"
      BY <1>1, <1>3, <2>1, <2>2, <2>5 DEF Found
    <2>6. CASE relation = "equal" /\ j.dup = None
      BY <1>1, <1>3, <2>1, <2>2, <2>6 DEF Found
    <2>7. CASE relation = "equal" /\ j.dup # None
      BY <1>1, <1>3, <2>1, <2>2, <2>7 DEF Found
    <2> QED
      BY <2>2, <2>3, <2>4, <2>5, <2>6, <2>7
  <1> QED
    BY <1>2, <1>3

LEMMA ClassifyKeeps ==
    ASSUME Inv, NEW w \in Workers, Classify(w)
    PROVE  Inv'
  <1>1. PICK j : j = job[w]
    OBVIOUS
  <1>2. j \in Jobs /\ JobOK("same_thread", j)
    <2>1. pc[w] = "same_thread"
      BY DEF Classify
    <2> QED
      BY <1>1, <2>1, Running
  <1>3. UNCHANGED stores /\ j.req \in Payloads
    BY <1>2 DEF Classify, Jobs, JobOK, OpOK, Payloading, Reading, Carrying, Indexing, Ingesting
  <1>4. CASE Return(w, j, "error")
    BY <1>2, <1>3, <1>4, ReturnOnly DEF Outcomes
  <1>5. CASE Step(w, [j EXCEPT !.read = None], "summarize")
    <2>1. PICK k : k = [j EXCEPT !.read = None]
      OBVIOUS
    <2>2. k \in Jobs /\ k.op = j.op /\ k.req = j.req /\ k.dup = j.dup /\ k.read = None /\ k.todo = j.todo
      BY <1>2, <2>1 DEF Jobs
    <2>3. JobOK("summarize", k) /\ "summarize" \in Busy
      BY <1>2, <2>2 DEF JobOK, OpOK, Payloading, Reading, Carrying, Indexing, Ingesting, Busy
    <2> QED
      BY <1>3, <1>5, <2>1, <2>2, <2>3, StepOnly
  <1>6. ASSUME NEW id \in SameThread(j), id # None, Found(w, j, id, convs[id]) PROVE Inv'
    <2>1. PICK c, k : c = convs[id] /\ k = [j EXCEPT !.read = c]
      OBVIOUS
    <2>2. id \in Stored /\ c.project = j.req.project /\ c.status = "active"
      BY <1>6, <2>1, SameThreadIs
    <2>3. c \in Conversations /\ id \in Ids /\ c.id = id /\ Submitted(c) /\ c # None
      BY <2>1, <2>2, StoredIs DEF Inv, TypeOK, StoredOK
    <2>4. k \in Jobs /\ k.op = j.op /\ k.req = j.req /\ k.dup = j.dup /\ k.read = c /\ k.todo = j.todo
      BY <1>2, <2>1, <2>3 DEF Jobs
    <2>5. JobOK("same_thread", k) /\ Payloading("same_thread", k.op)
      BY <1>2, <2>2, <2>3, <2>4 DEF JobOK, OpOK, Payloading, Reading, Carrying, Indexing, Ingesting
    <2>6. PICK m : m = [k EXCEPT !.target = id]
      OBVIOUS
    <2>7. /\ m \in Jobs /\ m.op = j.op /\ m.req = j.req /\ m.dup = j.dup /\ m.read = c /\ m.todo = j.todo
      BY <2>3, <2>4, <2>6 DEF Jobs
    <2>8. JobOK("same_thread", m) /\ Payloading("same_thread", m.op)
      BY <1>2, <2>2, <2>3, <2>7 DEF JobOK, OpOK, Payloading, Reading, Carrying, Indexing, Ingesting
    <2>9. ASSUME NEW outcome \in {"stale", "deduplicated"}, Return(w, m, outcome) PROVE Inv'
      <3>1. outcome \in Outcomes
        BY DEF Outcomes
      <3> QED
        BY <1>3, <2>7, <2>8, <2>9, <3>1, ReturnOnly
    <2>10. CASE Return(w, k, "error")
      BY <1>3, <2>4, <2>5, <2>10, ReturnOnly DEF Outcomes
    <2>11. CASE IsStrictPrefix(c.msgs, j.req.msgs) /\ Step(w, k, "append")
      <3>1. JobOK("append", k) /\ "append" \in Busy
        BY <2>2, <2>3, <2>4, <2>5, <2>11 DEF JobOK, OpOK, Payloading, Reading, Carrying, Indexing, Ingesting, Busy
      <3> QED
        BY <1>3, <2>4, <2>11, <3>1, StepOnly
    <2>12. CASE c.msgs = j.req.msgs /\ Step(w, Reindexing(k, id, id), "rewrite")
      <3>1. PICK n : n = Reindexing(k, id, id)
        OBVIOUS
      <3>2. /\ n \in Jobs /\ n.op = j.op /\ n.req = j.req /\ n.dup = j.dup /\ n.read = c
            /\ n.todo = j.todo /\ n.chunks = chunk_selected_messages(id, j.req.msgs, 0)
            /\ n.target = id /\ n.extract = {}
        BY <1>3, <2>3, <2>4, <3>1, ReindexingIs
      <3>3. JobOK("rewrite", n) /\ "rewrite" \in Busy
        BY <1>2, <2>2, <2>3, <2>12, <3>2 DEF JobOK, OpOK, Payloading, Reading, Carrying, Indexing, Ingesting, Busy
      <3> QED
        BY <1>3, <2>12, <3>1, <3>2, <3>3, StepOnly
    <2> QED
      BY <1>6, <2>1, <2>6, <2>9, <2>10, <2>11, <2>12 DEF Found
  <1> QED
    BY <1>1, <1>4, <1>5, <1>6, Classified


(* An operation returns, and the stores may have changed.                   *)
LEMMA ReturnKeeps ==
    ASSUME Inv, NEW w \in Workers, NEW at, NEW j \in Jobs, NEW outcome \in Outcomes,
           Return(w, j, outcome), StoreTypes', StoredOK', Stored \subseteq Stored', JobOK(at, j),
           j.op = "approve" /\ outcome # "error" => Payloading(at, j.op)
    PROVE  Inv'
  <1>1. PICK k, b : k = [j EXCEPT !.outcome = outcome] /\ b = Answered(j, outcome)
    OBVIOUS
  <1>2. k \in Jobs /\ b \in Busy /\ JobOK(b, k)
    BY <1>1, ReturnOK
  <1>3. Step(w, k, b)
    BY <1>1 DEF Return, Answered
  <1>4. JobOK(b, k)'
    BY <1>2, JobKept
  <1> QED
    BY <1>2, <1>3, <1>4, StepKeeps

LEMMA RewriteKeeps ==
    ASSUME Inv, NEW w \in Workers, Rewrite(w)
    PROVE  Inv'
  <1>1. PICK j : j = job[w]
    OBVIOUS
  <1>2. j \in Jobs /\ JobOK("rewrite", j)
    <2>1. pc[w] = "rewrite"
      BY DEF Rewrite
    <2> QED
      BY <1>1, <2>1, Running
  <1>3. j.read \in Conversations /\ Submitted(j.read)
    BY <1>2 DEF Jobs, JobOK, Carrying
  <1>4. PICK c : c = [j.read EXCEPT !.chunks = j.chunks]
    OBVIOUS
  <1>5. c \in Conversations /\ c.id = j.read.id /\ c.project = j.read.project /\ c.msgs = j.read.msgs
    BY <1>2, <1>3, <1>4 DEF Jobs, Conversations
  <1>6. Submitted(c)
    BY <1>3, <1>5 DEF Submitted
  <1>7. CASE Return(w, j, "error") /\ UNCHANGED convs
    <2>1. UNCHANGED stores /\ "error" \in Outcomes
      BY <1>7 DEF Rewrite, stores, Outcomes
    <2> QED
      BY <1>2, <1>7, <2>1, ReturnOnly
  <1>8. CASE Step(w, j, "embed") /\ convs' = [convs EXCEPT ![c.id] = c]
    <2>1. StoreTypes' /\ StoredOK' /\ Stored \subseteq Stored' /\ c.id \in Stored'
      BY <1>5, <1>6, <1>8, PutKeeps DEF Rewrite
    <2>2. JobOK("rewrite", j)'
      BY <1>2, <2>1, JobKept
    <2>3. "embed" \in Busy
      BY DEF Busy, Indexing
    <2>4. j.target \in Stored'
      BY <1>2, <1>5, <2>1 DEF JobOK
    <2>5. JobOK("embed", j)'
      BY <2>2, <2>4 DEF JobOK, OpOK, Payloading, Reading, Carrying, Indexing, Ingesting
    <2> QED
      BY <1>2, <1>8, <2>1, <2>3, <2>5, StepKeeps
  <1> QED
    BY <1>1, <1>4, <1>7, <1>8 DEF Rewrite

(* What _append_conversation makes of a stored snapshot and a longer one.   *)
LEMMA AppendedIs ==
    ASSUME NEW c \in Conversations, NEW r \in Payloads, IsStrictPrefix(c.msgs, r.msgs)
    PROVE  LET new == SubSeq(r.msgs, Len(c.msgs) + 1, Len(r.msgs))
               u == Appended(c, r)
           IN  /\ new \in Seq(Msgs) /\ r.msgs = c.msgs \o new /\ Len(c.msgs) < Len(r.msgs)
               /\ u \in Conversations /\ u.id = c.id /\ u.project = c.project
               /\ u.msgs = r.msgs /\ u.status = c.status /\ u.session = c.session
               /\ u.chunks = c.chunks \o chunk_selected_messages(c.id, new,
                                            NextChunkIndex(c.chunks, Len(c.msgs)))
  <1>1. PICK s, t, new : /\ s = c.msgs /\ t = r.msgs
                         /\ new = SubSeq(t, Len(s) + 1, Len(t))
    OBVIOUS
  <1>2. /\ s \in Seq(Msgs) /\ t \in Seq(Msgs) /\ c.chunks \in Seq(Chunks) /\ c.id \in Ids
        /\ r.thread \in Threads \cup {None}
    BY <1>1 DEF Conversations, Payloads
  <1>3. Len(s) <= Len(t) /\ SubSeq(s, 1, Len(s)) = SubSeq(t, 1, Len(s)) /\ s # t
    BY <1>1 DEF IsStrictPrefix, IsPrefix
  <1>4. new \in Seq(Msgs)
    BY <1>1, <1>2
  <1>5. t = s \o new
    <2>1. SubSeq(s, 1, Len(s)) = s
      BY <1>2
    <2>2. SubSeq(t, 1, Len(s)) \o SubSeq(t, Len(s) + 1, Len(t)) = SubSeq(t, 1, Len(t))
      <3>1. 1 \in 1 .. Len(t) + 1 /\ Len(s) \in 1 - 1 .. Len(t) /\ Len(t) \in Len(s) .. Len(t)
        BY <1>2, <1>3
      <3> QED
        BY <1>2, <3>1, ConcatAdjacentSubSeq
    <2>3. SubSeq(t, 1, Len(t)) = t
      BY <1>2
    <2> QED
      BY <1>1, <1>3, <2>1, <2>2, <2>3
  <1>6. Len(s) < Len(t)
    <2> SUFFICES ASSUME Len(s) = Len(t) PROVE FALSE
      BY <1>2, <1>3
    <2>1. s = t
      BY <1>2, <1>3
    <2> QED
      BY <1>3, <2>1
  <1>7. PICK cs : cs = chunk_selected_messages(c.id, new, NextChunkIndex(c.chunks, Len(c.msgs)))
    OBVIOUS
  <1>8. cs \in Seq(Chunks)
    <2>1. NextChunkIndex(c.chunks, Len(c.msgs)) \in Nat
      <3>1. Len(c.msgs) \in Nat
        BY <1>1, <1>2
      <3> QED
        BY <1>2, <3>1, NextChunkIndexType
    <2> QED
      BY <1>2, <1>4, <1>7, <2>1, ChunksAre
  <1>9. PICK all, th : all = c.chunks \o cs /\ th = IF c.thread = None THEN r.thread ELSE c.thread
    OBVIOUS
  <1>10. all \in Seq(Chunks) /\ th \in Threads \cup {None}
    BY <1>2, <1>8, <1>9 DEF Conversations
  <1>11. Appended(c, r) = [c EXCEPT !.msgs = t, !.chunks = all, !.thread = th]
    BY <1>1, <1>5, <1>7, <1>9 DEF Appended
  <1>12. PICK u : u = [c EXCEPT !.msgs = t, !.chunks = all, !.thread = th]
    OBVIOUS
  <1>13. /\ u \in Conversations /\ u.id = c.id /\ u.project = c.project /\ u.msgs = t
         /\ u.status = c.status /\ u.session = c.session /\ u.chunks = all
    BY <1>2, <1>10, <1>12 DEF Conversations
  <1> QED
    BY <1>1, <1>4, <1>5, <1>6, <1>7, <1>9, <1>11, <1>12, <1>13

(* The job after a successful append.                                       *)
AfterAppend(j) ==
    LET c == j.read
        u == Appended(c, j.req)
    IN  [j EXCEPT !.read = u, !.target = c.id, !.replace = ReplacesVectors(c),
                  !.chunks = SubSeq(u.chunks, Len(c.chunks) + 1, Len(u.chunks)),
                  !.extract = (Len(c.msgs) + 1) .. Len(u.msgs)]

LEMMA AfterAppendIs ==
    ASSUME NEW j \in Jobs, JobOK("append", j)
    PROVE  LET u == Appended(j.read, j.req)
               k == AfterAppend(j)
           IN  /\ j.read \in Conversations /\ j.req \in Payloads
               /\ u \in Conversations /\ u.id = j.read.id /\ u.project = j.read.project
               /\ u.msgs = j.req.msgs /\ u.status = j.read.status /\ u.session = j.read.session
               /\ Submitted(u)
               /\ k \in Jobs /\ k.op = j.op /\ k.req = j.req /\ k.dup = j.dup /\ k.read = u
               /\ k.todo = j.todo /\ k.target = j.read.id /\ k.extract # {}
  <1>1. /\ j.read \in Conversations /\ j.req \in Payloads /\ Submitted(j.req)
        /\ j.read.project = j.req.project /\ IsStrictPrefix(j.read.msgs, j.req.msgs)
    BY DEF Jobs, JobOK, OpOK, Payloading, Reading, Carrying, Indexing, Ingesting
  <1>2. PICK c, r, u : c = j.read /\ r = j.req /\ u = Appended(c, r)
    OBVIOUS
  <1>3. /\ u \in Conversations /\ u.id = c.id /\ u.project = c.project /\ u.msgs = r.msgs
        /\ u.status = c.status /\ u.session = c.session /\ Len(c.msgs) < Len(r.msgs)
    BY <1>1, <1>2, AppendedIs
  <1>4. PICK cs, xs, rp : /\ cs = SubSeq(u.chunks, Len(c.chunks) + 1, Len(u.chunks))
                          /\ xs = (Len(c.msgs) + 1) .. Len(u.msgs) /\ rp = ReplacesVectors(c)
    OBVIOUS
  <1>5. cs \in Seq(Chunks) /\ xs \in SUBSET Nat /\ xs # {} /\ rp \in BOOLEAN /\ c.id \in Ids
    <2>1. /\ u.chunks \in Seq(Chunks) /\ c.chunks \in Seq(Chunks) /\ u.msgs \in Seq(Msgs)
          /\ c.msgs \in Seq(Msgs) /\ c.id \in Ids
      BY <1>1, <1>2, <1>3 DEF Conversations
    <2>2. cs \in Seq(Chunks)
      BY <1>4, <2>1
    <2>3. xs \in SUBSET Nat /\ Len(u.msgs) \in xs
      BY <1>3, <1>4, <2>1
    <2> QED
      BY <1>4, <2>1, <2>2, <2>3 DEF ReplacesVectors
  <1>6. AfterAppend(j) = [j EXCEPT !.read = u, !.target = c.id, !.replace = rp, !.chunks = cs,
                                   !.extract = xs]
    BY <1>2, <1>4 DEF AfterAppend
  <1>7. PICK k : k = [j EXCEPT !.read = u, !.target = c.id, !.replace = rp, !.chunks = cs,
                               !.extract = xs]
    OBVIOUS
  <1>8. /\ k \in Jobs /\ k.op = j.op /\ k.req = j.req /\ k.dup = j.dup /\ k.read = u
        /\ k.todo = j.todo /\ k.target = c.id /\ k.extract = xs
    BY <1>3, <1>5, <1>7 DEF Jobs
  <1>9. Submitted(u)
    BY <1>1, <1>2, <1>3 DEF Submitted
  <1> QED
    BY <1>1, <1>2, <1>3, <1>5, <1>6, <1>7, <1>8, <1>9

LEMMA AppendCases ==
    ASSUME NEW w \in Workers, AppendMessages(w), NEW j, j = job[w]
    PROVE  \/ /\ HashUnchanged(j.read) /\ Clashes(Appended(j.read, j.req)) = {}
              /\ Step(w, AfterAppend(j), "summarize")
              /\ convs' = [convs EXCEPT ![j.read.id] = Appended(j.read, j.req)]
           \/ UNCHANGED convs /\ HashUnchanged(j.read) /\ Return(w, j, "error")
           \/ UNCHANGED convs /\ ~HashUnchanged(j.read) /\ RetryAppend(w, j)
  BY DEF AppendMessages, AfterAppend

LEMMA AppendKeeps ==
    ASSUME Inv, NEW w \in Workers, AppendMessages(w)
    PROVE  Inv'
  <1>1. PICK j : j = job[w]
    OBVIOUS
  <1>2. j \in Jobs /\ JobOK("append", j)
    <2>1. pc[w] = "append"
      BY DEF AppendMessages
    <2> QED
      BY <1>1, <2>1, Running
  <1>3. UNCHANGED <<facts, summaries, vectors>>
    BY DEF AppendMessages
  <1>4. CASE /\ Step(w, AfterAppend(j), "summarize")
             /\ convs' = [convs EXCEPT ![j.read.id] = Appended(j.read, j.req)]
    <2>1. PICK u, k : u = Appended(j.read, j.req) /\ k = AfterAppend(j)
      OBVIOUS
    <2>2. /\ u \in Conversations /\ Submitted(u) /\ u.id = j.read.id /\ u.status = j.read.status
          /\ k.target = j.read.id /\ k.extract # {}
          /\ k \in Jobs /\ k.op = j.op /\ k.req = j.req /\ k.dup = j.dup /\ k.read = u
          /\ k.todo = j.todo
      BY <1>2, <2>1, AfterAppendIs
    <2>3. StoreTypes' /\ StoredOK' /\ Stored \subseteq Stored' /\ u.id \in Stored'
      BY <1>3, <1>4, <2>1, <2>2, PutKeeps
    <2>4. JobOK("append", j)'
      BY <1>2, <2>3, JobKept
    <2>5. JobOK("summarize", k)' /\ "summarize" \in Busy
      BY <2>2, <2>3, <2>4 DEF JobOK, OpOK, Payloading, Reading, Carrying, Indexing, Ingesting, Busy
    <2> QED
      BY <1>4, <2>1, <2>2, <2>3, <2>5, StepKeeps
  <1>5. CASE UNCHANGED convs /\ Return(w, j, "error")
    <2>1. UNCHANGED stores /\ "error" \in Outcomes
      BY <1>3, <1>5 DEF stores, Outcomes
    <2> QED
      BY <1>2, <1>5, <2>1, ReturnOnly
  <1>6. CASE UNCHANGED convs /\ RetryAppend(w, j)
    <2>1. UNCHANGED stores /\ "error" \in Outcomes
      BY <1>3, <1>6 DEF stores, Outcomes
    <2>2. PICK k : k = [j EXCEPT !.attempts = j.attempts + 1]
      OBVIOUS
    <2>3. /\ k \in Jobs /\ k.op = j.op /\ k.req = j.req /\ k.dup = j.dup /\ k.read = j.read
          /\ k.todo = j.todo
      BY <1>2, <2>2 DEF Jobs
    <2>4. JobOK("same_thread", k) /\ "same_thread" \in Busy
      BY <1>2, <2>3 DEF JobOK, OpOK, Payloading, Reading, Carrying, Indexing, Ingesting, Busy
    <2>5. CASE Return(w, k, "error")
      BY <2>1, <2>3, <2>4, <2>5, ReturnOnly
    <2>6. CASE Step(w, k, "same_thread")
      BY <2>1, <2>3, <2>4, <2>6, StepOnly
    <2> QED
      BY <1>6, <2>2, <2>5, <2>6 DEF RetryAppend
  <1> QED
    BY <1>1, <1>4, <1>5, <1>6, AppendCases


LEMMA SummarizeKeeps ==
    ASSUME Inv, NEW w \in Workers, Summarize(w)
    PROVE  Inv'
  <1>1. PICK j : j = job[w]
    OBVIOUS
  <1>2. j \in Jobs /\ JobOK("summarize", j)
    <2>1. pc[w] = "summarize"
      BY DEF Summarize
    <2> QED
      BY <1>1, <2>1, Running
  <1>3. UNCHANGED <<convs, facts, vectors>>
    BY DEF Summarize
  <1>4. j.req \in Payloads /\ j.req.id \in Ids /\ (j.dup # None => j.dup \in Stored /\ j.dup \in Ids)
    BY <1>2 DEF Jobs, JobOK, OpOK, Payloading, Reading, Carrying, Indexing, Ingesting, Payloads, Stored
  <1>5. StoreTypes' /\ StoredOK' /\ Stored' = Stored
    <2>1. PICK c : c = Summarized(j)
      OBVIOUS
    <2>2. c.msgs \in Seq(Msgs)
      BY <1>2, <1>4, <2>1 DEF Summarized, Jobs, Conversations, Payloads
    <2>3. summaries' = [summaries EXCEPT ![c.id] = c.msgs]
      BY <1>1, <2>1 DEF Summarize
    <2> QED
      BY <1>3, <2>2, <2>3 DEF Inv, TypeOK, StoreTypes, StoredOK, Stored
  <1>6. ASSUME NEW at \in {"resave", "insert"}, Step(w, j, at), at = "resave" => j.read # None
        PROVE  Inv'
    <2>1. JobOK(at, j) /\ at \in Busy
      BY <1>2, <1>6 DEF JobOK, OpOK, Payloading, Reading, Carrying, Indexing, Ingesting, Busy
    <2>2. JobOK(at, j)'
      BY <1>5, <2>1, JobKept
    <2> QED
      BY <1>2, <1>5, <1>6, <2>1, <2>2, StepKeeps
  <1>7. CASE j.dup # None /\ Step(w, Reindexing(j, j.req.id, j.dup), "embed")
    <2>1. PICK k : k = Reindexing(j, j.req.id, j.dup)
      OBVIOUS
    <2>2. /\ k \in Jobs /\ k.op = j.op /\ k.req = j.req /\ k.dup = j.dup /\ k.read = j.read
          /\ k.todo = j.todo /\ k.target = j.dup
      BY <1>2, <1>4, <1>7, <2>1, ReindexingIs
    <2>3. JobOK("embed", k) /\ "embed" \in Busy
      BY <1>2, <1>4, <1>7, <2>2 DEF JobOK, OpOK, Payloading, Reading, Carrying, Indexing, Ingesting, Busy
    <2>4. JobOK("embed", k)'
      BY <1>5, <2>3, JobKept
    <2> QED
      BY <1>5, <1>7, <2>1, <2>2, <2>3, <2>4, StepKeeps
  <1> QED
    BY <1>1, <1>6, <1>7 DEF Summarize


LEMMA ResaveKeeps ==
    ASSUME Inv, NEW w \in Workers, Resave(w)
    PROVE  Inv'
  <1>1. PICK j : j = job[w]
    OBVIOUS
  <1>2. j \in Jobs /\ JobOK("resave", j)
    <2>1. pc[w] = "resave"
      BY DEF Resave
    <2> QED
      BY <1>1, <2>1, Running
  <1>3. UNCHANGED <<facts, summaries, vectors>> /\ Step(w, j, "embed")
    BY <1>1 DEF Resave
  <1>4. j.read \in Conversations /\ Submitted(j.read)
    BY <1>2 DEF Jobs, JobOK, Carrying
  <1>5. StoreTypes' /\ StoredOK' /\ Stored \subseteq Stored'
    <2>1. CASE convs' = [convs EXCEPT ![j.read.id] = j.read]
      BY <1>3, <1>4, <2>1, PutKeeps
    <2>2. CASE UNCHANGED convs
      BY <1>3, <2>2 DEF Inv, TypeOK, StoreTypes, StoredOK, Stored
    <2> QED
      BY <1>1, <2>1, <2>2 DEF Resave
  <1>6. JobOK("resave", j)'
    BY <1>2, <1>5, JobKept
  <1>7. JobOK("embed", j)' /\ "embed" \in Busy
    BY <1>6 DEF JobOK, OpOK, Payloading, Reading, Carrying, Indexing, Ingesting, Busy
  <1> QED
    BY <1>2, <1>3, <1>5, <1>7, StepKeeps

-----------------------------------------------------------------------------
(* Storing a new memory, and indexing it.                                   *)

(* A new row is stored, or its conflict has to be resolved.                 *)
LEMMA InsertNewKeeps ==
    ASSUME Inv, NEW w \in Workers, NEW k \in Jobs, NEW c \in Conversations, NEW next \in Busy,
           Submitted(c), InsertNew(w, k, c, next), JobOK("resolve", k),
           c.id \in Stored' /\ JobOK("resolve", k)' => JobOK(next, k)'
    PROVE  Inv'
  <1>1. UNCHANGED <<facts, summaries, vectors>>
    BY DEF InsertNew
  <1>2. CASE Step(w, k, next) /\ convs' = [convs EXCEPT ![c.id] = c]
    <2>1. StoreTypes' /\ StoredOK' /\ Stored \subseteq Stored' /\ c.id \in Stored'
      BY <1>1, <1>2, PutKeeps
    <2>2. JobOK("resolve", k)'
      BY <2>1, JobKept
    <2> QED
      BY <1>2, <2>1, <2>2, StepKeeps
  <1>3. CASE Step(w, k, "resolve") /\ UNCHANGED convs
    <2>1. UNCHANGED stores /\ "resolve" \in Busy
      BY <1>1, <1>3 DEF stores, Busy
    <2> QED
      BY <1>3, <2>1, StepOnly
  <1> QED
    BY <1>2, <1>3 DEF InsertNew

LEMMA ConversationIs ==
    ASSUME NEW r \in Payloads, Submitted(r), NEW session \in Sessions \cup {None},
           NEW status \in Statuses, NEW chunks \in Seq(Chunks)
    PROVE  LET c == Conversation(r, session, status, chunks)
           IN  /\ c \in Conversations /\ Submitted(c) /\ c.id = r.id /\ c.project = r.project
               /\ c.msgs = r.msgs /\ c.session = session /\ c.status = status /\ c.chunks = chunks
  BY DEF Conversation, Conversations, Payloads, Submitted

LEMMA InsertKeeps ==
    ASSUME Inv, NEW w \in Workers, Insert(w)
    PROVE  Inv'
  <1>1. PICK j : j = job[w]
    OBVIOUS
  <1>2. j \in Jobs /\ JobOK("insert", j)
    <2>1. pc[w] = "insert"
      BY DEF Insert
    <2> QED
      BY <1>1, <2>1, Running
  <1>3. PICK cs : cs = chunk_selected_messages(j.req.id, j.req.msgs, 0)
    OBVIOUS
  <1>4. /\ j.req \in Payloads /\ j.req.id \in Ids /\ j.req.msgs \in Seq(Msgs) /\ Submitted(j.req)
        /\ SessionOf(j) \in Sessions \cup {None}
    BY <1>2 DEF Jobs, JobOK, OpOK, Payloading, Reading, Carrying, Indexing, Ingesting, Payloads, SessionOf
  <1>5. cs \in Seq(Chunks) /\ DOMAIN j.req.msgs \in SUBSET Nat /\ "active" \in Statuses
    BY <1>3, <1>4, ChunksAre DEF Statuses
  <1>6. PICK k, c : /\ k = [j EXCEPT !.target = j.req.id, !.chunks = cs, !.extract = DOMAIN j.req.msgs]
                    /\ c = Conversation(j.req, SessionOf(j), "active", cs)
    OBVIOUS
  <1>7. c \in Conversations /\ Submitted(c) /\ c.id = j.req.id
    BY <1>4, <1>5, <1>6, ConversationIs
  <1>8. k \in Jobs /\ k.target = j.req.id
        /\ k.op = j.op /\ k.req = j.req /\ k.dup = j.dup /\ k.read = j.read /\ k.todo = j.todo
    BY <1>2, <1>4, <1>5, <1>6 DEF Jobs
  <1>9. InsertNew(w, k, c, "embed")
    BY <1>1, <1>3, <1>6 DEF Insert
  <1>10. JobOK("resolve", k) /\ "embed" \in Busy
    BY <1>2, <1>8 DEF JobOK, OpOK, Payloading, Reading, Carrying, Indexing, Ingesting, Busy
  <1>11. k.op \in {"ingest", "approve"}
    BY <1>2, <1>8 DEF JobOK, OpOK, Payloading, Reading, Carrying, Indexing, Ingesting
  <1>12. c.id \in Stored' /\ JobOK("resolve", k)' => JobOK("embed", k)'
    BY <1>7, <1>8, <1>11 DEF JobOK, OpOK, Payloading, Reading, Carrying, Indexing, Ingesting
  <1> QED
    BY <1>7, <1>8, <1>9, <1>10, <1>12, InsertNewKeeps


LEMMA HoldKeeps ==
    ASSUME Inv, NEW w \in Workers, Hold(w)
    PROVE  Inv'
  <1>1. PICK j : j = job[w]
    OBVIOUS
  <1>2. j \in Jobs /\ JobOK("hold", j)
    <2>1. pc[w] = "hold"
      BY DEF Hold
    <2> QED
      BY <1>1, <2>1, Running
  <1>3. /\ j.req \in Payloads /\ j.req.id \in Ids /\ Submitted(j.req)
        /\ SessionOf(j) \in Sessions \cup {None}
    BY <1>2 DEF Jobs, JobOK, OpOK, Payloading, Reading, Carrying, Indexing, Ingesting, Payloads, SessionOf
  <1>4. HeldStatus(j.req) \in Statuses /\ <<>> \in Seq(Chunks)
    BY DEF HeldStatus, Statuses
  <1>5. PICK k, c : /\ k = [j EXCEPT !.target = j.req.id, !.outcome = "held"]
                    /\ c = Conversation(j.req, SessionOf(j), HeldStatus(j.req), <<>>)
    OBVIOUS
  <1>6. c \in Conversations /\ Submitted(c) /\ c.id = j.req.id
    BY <1>3, <1>4, <1>5, ConversationIs
  <1>7. k \in Jobs /\ k.target = j.req.id
        /\ k.op = j.op /\ k.req = j.req /\ k.dup = j.dup /\ k.read = j.read /\ k.todo = j.todo
    BY <1>2, <1>3, <1>5 DEF Jobs, Outcomes
  <1>8. InsertNew(w, k, c, "done")
    BY <1>1, <1>5 DEF Hold
  <1>9. JobOK("resolve", k) /\ "done" \in Busy
    BY <1>2, <1>7 DEF JobOK, OpOK, Payloading, Reading, Carrying, Indexing, Ingesting, Busy
  <1>10. k.op # "approve" /\ k.op # "reject"
    BY <1>2, <1>7 DEF JobOK, OpOK, Payloading, Reading, Carrying, Indexing, Ingesting
  <1>11. c.id \in Stored' /\ JobOK("resolve", k)' => JobOK("done", k)'
    BY <1>10 DEF JobOK, OpOK, Payloading, Reading, Carrying, Indexing, Ingesting
  <1> QED
    BY <1>6, <1>7, <1>8, <1>9, <1>11, InsertNewKeeps


LEMMA ResolveKeeps ==
    ASSUME Inv, NEW w \in Workers, Resolve(w)
    PROVE  Inv'
  <1>1. PICK j : j = job[w]
    OBVIOUS
  <1>2. j \in Jobs /\ JobOK("resolve", j)
    <2>1. pc[w] = "resolve"
      BY DEF Resolve
    <2> QED
      BY <1>1, <2>1, Running
  <1>3. UNCHANGED stores /\ j.req \in Payloads /\ j.req.id \in Ids
    BY <1>2 DEF Resolve, Jobs, JobOK, OpOK, Payloading, Reading, Carrying, Indexing, Ingesting, Payloads
  <1>4. CASE Return(w, j, "error")
    BY <1>2, <1>3, <1>4, ReturnOnly DEF Outcomes
  <1>5. ASSUME NEW id \in Stored, Return(w, [j EXCEPT !.target = id], "held")
        PROVE  Inv'
    <2>1. PICK k : k = [j EXCEPT !.target = id]
      OBVIOUS
    <2>2. k \in Jobs
          /\ k.op = j.op /\ k.req = j.req /\ k.dup = j.dup /\ k.read = j.read /\ k.todo = j.todo
      BY <1>2, <2>1 DEF Jobs, Stored
    <2>3. JobOK("resolve", k) /\ Payloading("resolve", k.op) /\ "held" \in Outcomes
      BY <1>2, <2>2 DEF JobOK, OpOK, Payloading, Reading, Carrying, Indexing, Ingesting, Outcomes
    <2> QED
      BY <1>3, <1>5, <2>1, <2>2, <2>3, ReturnOnly
  <1>6. ASSUME NEW id \in Stored, j.op # "hold", Step(w, Reindexing(j, j.req.id, id), "embed")
        PROVE  Inv'
    <2>1. PICK k : k = Reindexing(j, j.req.id, id)
      OBVIOUS
    <2>2. id \in Ids
      BY DEF Stored
    <2>3. k \in Jobs /\ k.target = id
          /\ k.op = j.op /\ k.req = j.req /\ k.dup = j.dup /\ k.read = j.read /\ k.todo = j.todo
      BY <1>2, <1>3, <2>1, <2>2, ReindexingIs
    <2>4. JobOK("embed", k) /\ "embed" \in Busy
      BY <1>2, <1>6, <2>3 DEF JobOK, OpOK, Payloading, Reading, Carrying, Indexing, Ingesting, Busy
    <2> QED
      BY <1>3, <1>6, <2>1, <2>3, <2>4, StepOnly
  <1> QED
    BY <1>1, <1>4, <1>5, <1>6 DEF Resolve, ByHash


(* The vectors of one memory change.                                        *)
LEMMA VectorsKeep ==
    ASSUME Inv, NEW id \in Ids, NEW x \in SUBSET ChunkKeys,
           vectors' = [vectors EXCEPT ![id] = x], UNCHANGED <<convs, facts, summaries>>
    PROVE  StoreTypes' /\ StoredOK' /\ Stored' = Stored
  BY DEF Inv, TypeOK, StoreTypes, StoredOK, Stored

LEMMA DeleteKeeps ==
    ASSUME Inv, NEW w \in Workers, DeleteVectors(w)
    PROVE  Inv'
  <1>1. PICK j, at : j = job[w] /\ at = pc[w]
    OBVIOUS
  <1>2. j \in Jobs /\ JobOK(at, j) /\ at \in {"embed"}
    <2>1. pc[w] \in {"embed"}
      BY DEF DeleteVectors
    <2>2. pc[w] # "idle"
      BY <2>1
    <2> QED
      BY <1>1, <2>1, <2>2, Running
  <1>3. j.target \in Stored /\ j.target \in Ids /\ ChunkIds(j.chunks) \subseteq ChunkKeys
    BY <1>2, ChunkIdsType DEF JobOK, Indexing, Stored, Jobs
  <1>4. StoreTypes' /\ StoredOK' /\ Stored' = Stored
    <2>1. vectors' = [vectors EXCEPT ![j.target] = {}] /\ UNCHANGED <<convs, facts, summaries>>
      BY <1>1 DEF DeleteVectors
    <2>2. {} \in SUBSET ChunkKeys
      OBVIOUS
    <2> QED
      BY <1>3, <2>1, <2>2, VectorsKeep
  <1>5. JobOK("upsert", j) /\ "upsert" \in Busy
    BY <1>2 DEF JobOK, OpOK, Payloading, Reading, Carrying, Indexing, Ingesting, Busy
  <1>6. JobOK("upsert", j)' /\ Step(w, j, "upsert")
    BY <1>1, <1>4, <1>5, JobKept DEF DeleteVectors
  <1> QED
    BY <1>2, <1>4, <1>5, <1>6, StepKeeps

LEMMA UpsertKeeps ==
    ASSUME Inv, NEW w \in Workers, UpsertVectors(w)
    PROVE  Inv'
  <1>1. PICK j, at : j = job[w] /\ at = pc[w]
    OBVIOUS
  <1>2. j \in Jobs /\ JobOK(at, j) /\ at \in {"embed", "upsert"}
    <2>1. pc[w] \in {"embed", "upsert"}
      BY DEF UpsertVectors
    <2>2. pc[w] # "idle"
      BY <2>1
    <2> QED
      BY <1>1, <2>1, <2>2, Running
  <1>3. j.target \in Stored /\ j.target \in Ids /\ ChunkIds(j.chunks) \subseteq ChunkKeys
    BY <1>2, ChunkIdsType DEF JobOK, Indexing, Stored, Jobs
  <1>4. StoreTypes' /\ StoredOK' /\ Stored' = Stored
    <2>1. PICK x : x = vectors[j.target] \cup ChunkIds(j.chunks)
      OBVIOUS
    <2>2. x \in SUBSET ChunkKeys
      BY <1>3, <2>1 DEF Inv, TypeOK, StoreTypes
    <2>3. vectors' = [vectors EXCEPT ![j.target] = x] /\ UNCHANGED <<convs, facts, summaries>>
      BY <1>1, <2>1 DEF UpsertVectors
    <2> QED
      BY <1>3, <2>2, <2>3, VectorsKeep
  <1>5. JobOK("mark_indexed", j) /\ "mark_indexed" \in Busy
    BY <1>2 DEF JobOK, OpOK, Payloading, Reading, Carrying, Indexing, Ingesting, Busy
  <1>6. JobOK("mark_indexed", j)' /\ Step(w, j, "mark_indexed")
    BY <1>1, <1>4, <1>5, JobKept DEF UpsertVectors
  <1> QED
    BY <1>2, <1>4, <1>5, <1>6, StepKeeps

LEMMA ProviderFailsKeeps ==
    ASSUME Inv, NEW w \in Workers, ProviderFails(w)
    PROVE  Inv'
  <1>1. PICK j, at : j = job[w] /\ at = pc[w]
    OBVIOUS
  <1>2. j \in Jobs /\ JobOK(at, j) /\ at \in {"embed", "upsert", "mark_indexed"}
    <2>1. pc[w] \in {"embed", "upsert", "mark_indexed"}
      BY DEF ProviderFails
    <2>2. pc[w] # "idle"
      BY <2>1
    <2> QED
      BY <1>1, <2>1, <2>2, Running
  <1>3. j.target \in Stored /\ j.target \in Ids /\ ChunkIds(j.chunks) \subseteq ChunkKeys
    BY <1>2, ChunkIdsType DEF JobOK, Indexing, Stored, Jobs
  <1>4. StoreTypes' /\ StoredOK' /\ Stored' = Stored
    <2>1. CASE UNCHANGED vectors
      BY <2>1 DEF ProviderFails, Inv, TypeOK, StoreTypes, StoredOK, Stored
    <2>2. ASSUME NEW some \in SUBSET ChunkIds(j.chunks),
                 vectors' = [vectors EXCEPT ![j.target] = @ \cup some]
          PROVE  StoreTypes' /\ StoredOK' /\ Stored' = Stored
      <3>1. PICK x : x = vectors[j.target] \cup some
        OBVIOUS
      <3>2. x \in SUBSET ChunkKeys
        BY <1>3, <3>1 DEF Inv, TypeOK, StoreTypes
      <3>3. vectors' = [vectors EXCEPT ![j.target] = x] /\ UNCHANGED <<convs, facts, summaries>>
        BY <1>1, <2>2, <3>1 DEF ProviderFails
      <3> QED
        BY <1>3, <3>2, <3>3, VectorsKeep
    <2> QED
      BY <1>1, <2>1, <2>2 DEF ProviderFails
  <1>5. JobOK("mark_failed", j) /\ "mark_failed" \in Busy
    BY <1>2 DEF JobOK, OpOK, Payloading, Reading, Carrying, Indexing, Ingesting, Busy
  <1>6. JobOK("mark_failed", j)' /\ Step(w, j, "mark_failed")
    BY <1>1, <1>4, <1>5, JobKept DEF ProviderFails
  <1> QED
    BY <1>2, <1>4, <1>5, <1>6, StepKeeps

LEMMA MarkIndexedKeeps ==
    ASSUME Inv, NEW w \in Workers, MarkIndexed(w)
    PROVE  Inv'
  <1>1. PICK j : j = job[w]
    OBVIOUS
  <1>2. j \in Jobs /\ JobOK("mark_indexed", j)
    <2>1. pc[w] = "mark_indexed"
      BY DEF MarkIndexed
    <2> QED
      BY <1>1, <2>1, Running
  <1>3. /\ j.target \in Stored /\ "indexed" \in IndexStates
        /\ MarkChunks(j.target, ChunkIds(j.chunks), "indexed")
        /\ UNCHANGED <<facts, summaries, vectors>>
    BY <1>1, <1>2 DEF MarkIndexed, JobOK, Indexing, IndexStates
  <1>4. StoreTypes' /\ StoredOK' /\ Stored' = Stored
    BY <1>3, MarkKeeps
  <1>5. PICK at : at = IF j.op = "reindex" THEN "next" ELSE "facts"
    OBVIOUS
  <1>6. JobOK(at, j) /\ at \in Busy
    BY <1>2, <1>5 DEF JobOK, OpOK, Payloading, Reading, Carrying, Indexing, Ingesting, Busy
  <1>7. JobOK(at, j)' /\ Step(w, j, at)
    BY <1>1, <1>4, <1>5, <1>6, JobKept DEF MarkIndexed
  <1> QED
    BY <1>2, <1>4, <1>6, <1>7, StepKeeps


LEMMA MarkFailedKeeps ==
    ASSUME Inv, NEW w \in Workers, MarkFailed(w)
    PROVE  Inv'
  <1>1. PICK j : j = job[w]
    OBVIOUS
  <1>2. j \in Jobs /\ JobOK("mark_failed", j)
    <2>1. pc[w] = "mark_failed"
      BY DEF MarkFailed
    <2> QED
      BY <1>1, <2>1, Running
  <1>3. /\ j.target \in Stored /\ "indexing_failed" \in IndexStates
        /\ MarkChunks(j.target, ChunkIds(j.chunks), "indexing_failed")
        /\ UNCHANGED <<facts, summaries, vectors>>
    BY <1>1, <1>2 DEF MarkFailed, JobOK, Indexing, IndexStates
  <1>4. StoreTypes' /\ StoredOK' /\ Stored' = Stored
    BY <1>3, MarkKeeps
  <1>5. CASE j.op = "reindex" /\ Step(w, [j EXCEPT !.outcome = "error"], "next")
    <2>1. PICK k : k = [j EXCEPT !.outcome = "error"]
      OBVIOUS
    <2>2. k \in Jobs
          /\ k.op = j.op /\ k.req = j.req /\ k.dup = j.dup /\ k.read = j.read /\ k.todo = j.todo
          /\ k.outcome = "error"
      BY <1>2, <2>1 DEF Jobs, Outcomes
    <2>3. JobOK("next", k) /\ "next" \in Busy
      BY <1>2, <1>5, <2>2 DEF JobOK, OpOK, Payloading, Reading, Carrying, Indexing, Ingesting, Busy
    <2>4. JobOK("next", k)'
      BY <1>4, <2>3, JobKept
    <2> QED
      BY <1>4, <1>5, <2>1, <2>2, <2>3, <2>4, StepKeeps
  <1>6. CASE Return(w, j, "error")
    BY <1>2, <1>4, <1>6, ReturnKeeps DEF Outcomes
  <1> QED
    BY <1>1, <1>5, <1>6 DEF MarkFailed


(* Facts are recorded for one memory.                                       *)
LEMMA FactsKeep ==
    ASSUME Inv, NEW id, NEW x \in SUBSET Nat, facts' = [facts EXCEPT ![id] = @ \cup x],
           UNCHANGED <<convs, summaries, vectors>>
    PROVE  StoreTypes' /\ StoredOK' /\ Stored' = Stored
  BY DEF Inv, TypeOK, StoreTypes, StoredOK, Stored

LEMMA ExtractFactsKeeps ==
    ASSUME Inv, NEW w \in Workers, ExtractFacts(w)
    PROVE  Inv'
  <1>1. PICK j : j = job[w]
    OBVIOUS
  <1>2. j \in Jobs /\ JobOK("facts", j)
    <2>1. pc[w] = "facts"
      BY DEF ExtractFacts
    <2> QED
      BY <1>1, <2>1, Running
  <1>3. StoreTypes' /\ StoredOK' /\ Stored' = Stored
    <2>1. j.extract \in SUBSET Nat
      BY <1>2 DEF Jobs
    <2> QED
      BY <1>1, <2>1, FactsKeep DEF ExtractFacts
  <1>4. PICK outcome \in Outcomes : Return(w, j, outcome)
    BY <1>1 DEF ExtractFacts, Outcomes
  <1>5. Payloading("facts", j.op) \/ j.op # "approve"
    BY DEF Payloading
  <1> QED
    BY <1>2, <1>3, <1>4, <1>5, ReturnKeeps

-----------------------------------------------------------------------------
(* Reviews and the reindex.                                                 *)

LEMMA ReviewKeeps ==
    ASSUME Inv, NEW w \in Workers, Review(w)
    PROVE  Inv'
  <1>1. PICK j : j = job[w]
    OBVIOUS
  <1>2. j \in Jobs /\ JobOK("review", j)
    <2>1. pc[w] = "review"
      BY DEF Review
    <2> QED
      BY <1>1, <2>1, Running
  <1>3. UNCHANGED stores
    BY DEF Review
  <1>4. CASE Return(w, j, "error")
    BY <1>2, <1>3, <1>4, ReturnOnly DEF Outcomes
  <1>5. CASE Step(w, j, "hold")
    <2>1. JobOK("hold", j) /\ "hold" \in Busy
      BY <1>2 DEF JobOK, OpOK, Payloading, Reading, Carrying, Indexing, Ingesting, Busy
    <2> QED
      BY <1>2, <1>3, <1>5, <2>1, StepOnly
  <1> QED
    BY <1>1, <1>4, <1>5 DEF Review


LEMMA DecideKeeps ==
    ASSUME Inv, NEW w \in Workers, Decide(w)
    PROVE  Inv'
  <1>1. PICK j : j = job[w]
    OBVIOUS
  <1>2. j \in Jobs /\ JobOK("decide", j)
    <2>1. pc[w] = "decide"
      BY DEF Decide
    <2> QED
      BY <1>1, <2>1, Running
  <1>3. UNCHANGED stores /\ j.op \in {"approve", "reject"} /\ j.req \in Payloads /\ j.req.id \in Ids
    BY <1>2 DEF Decide, Jobs, JobOK, OpOK, Payloading, Reading, Carrying, Indexing, Ingesting, Payloads
  <1>4. CASE Return(w, j, "error")
    BY <1>2, <1>3, <1>4, ReturnOnly DEF Outcomes
  <1>5. ASSUME convs[j.req.id] # None, convs[j.req.id].status \in Reviewable,
               Step(w, [j EXCEPT !.read = convs[j.req.id], !.target = convs[j.req.id].id], j.op)
        PROVE  Inv'
    <2>1. PICK c, k, id : /\ c = convs[j.req.id] /\ k = [j EXCEPT !.read = c, !.target = c.id]
                          /\ id = j.req.id
      OBVIOUS
    <2>2. id \in Stored
      BY <1>3, <1>5, <2>1 DEF Stored
    <2>3. c \in Conversations /\ id \in Ids /\ c.id = id /\ Submitted(c) /\ c # None
      BY <2>1, <2>2, StoredIs DEF Inv, TypeOK, StoredOK
    <2>4. k \in Jobs /\ k.op = j.op /\ k.req = j.req /\ k.dup = j.dup /\ k.read = c /\ k.todo = j.todo
      BY <1>2, <2>1, <2>3 DEF Jobs
    <2>5. JobOK(j.op, k) /\ j.op \in Busy
      BY <1>2, <1>3, <1>5, <2>1, <2>2, <2>3, <2>4 DEF JobOK, OpOK, Payloading, Reading, Carrying, Indexing, Ingesting, Busy
    <2> QED
      BY <1>3, <1>5, <2>1, <2>4, <2>5, StepOnly
  <1> QED
    BY <1>1, <1>4, <1>5 DEF Decide


(* The job with which an approved memory is ingested.                       *)
LEMMA NewJobIs ==
    ASSUME NEW op \in Ops, NEW r \in Payloads \cup {None}
    PROVE  LET k == NewJob(op, r)
           IN  /\ k \in Jobs /\ k.op = op /\ k.req = r /\ k.dup = None /\ k.read = None
               /\ k.target = None /\ k.todo = {} /\ k.extract = {} /\ k.outcome = None
  BY DEF NewJob, Jobs

(* The memory that approve stores.                                          *)
Approved(c) == [c EXCEPT !.status = "active", !.sensitive = FALSE]

LEMMA ApprovedIs ==
    ASSUME NEW c \in Conversations, Submitted(c)
    PROVE  LET d == Approved(c)
               r == PayloadOf(d)
           IN  /\ d \in Conversations /\ Submitted(d) /\ d.id = c.id /\ d.project = c.project
               /\ d.msgs = c.msgs /\ d.status = "active" /\ d.session = c.session
               /\ d.chunks = c.chunks
               /\ r \in Payloads /\ Submitted(r) /\ r.id = c.id /\ r.project = c.project
               /\ r.msgs = c.msgs /\ r.sensitive = FALSE /\ r # None
  <1>1. PICK d, r : d = Approved(c) /\ r = PayloadOf(d)
    OBVIOUS
  <1>2. /\ d \in Conversations /\ d.id = c.id /\ d.project = c.project /\ d.msgs = c.msgs
        /\ d.status = "active" /\ d.sensitive = FALSE /\ d.session = c.session /\ d.chunks = c.chunks
    BY <1>1 DEF Approved, Conversations, Statuses
  <1>3. /\ r \in Payloads /\ r.id = d.id /\ r.project = d.project /\ r.msgs = d.msgs
        /\ r.sensitive = d.sensitive
    BY <1>1, <1>2 DEF PayloadOf, Conversations, Payloads
  <1>4. Submitted(d) /\ Submitted(r) /\ r # None
    BY <1>2, <1>3, NoneIsNoRecord DEF Submitted
  <1> QED
    BY <1>1, <1>2, <1>3, <1>4

LEMMA ApproveKeeps ==
    ASSUME Inv, NEW w \in Workers, Approve(w)
    PROVE  Inv'
  <1>1. PICK j : j = job[w]
    OBVIOUS
  <1>2. j \in Jobs /\ JobOK("approve", j)
    <2>1. pc[w] = "approve"
      BY DEF Approve
    <2> QED
      BY <1>1, <2>1, Running
  <1>3. /\ j.read \in Conversations /\ Submitted(j.read) /\ j.op = "approve"
        /\ UNCHANGED <<facts, summaries, vectors>>
    BY <1>2 DEF Jobs, JobOK, OpOK, Payloading, Reading, Carrying, Indexing, Ingesting, Approve
  <1>4. PICK c, r, k : c = Approved(j.read) /\ r = PayloadOf(c) /\ k = NewJob("approve", r)
    OBVIOUS
  <1>5. /\ c \in Conversations /\ Submitted(c) /\ c.id = j.read.id
        /\ r \in Payloads /\ Submitted(r) /\ r.id = j.read.id /\ r # None
    BY <1>3, <1>4, ApprovedIs
  <1>6. CASE Return(w, j, "error") /\ UNCHANGED convs
    <2>1. UNCHANGED stores /\ "error" \in Outcomes
      BY <1>3, <1>6 DEF stores, Outcomes
    <2> QED
      BY <1>2, <1>6, <2>1, ReturnOnly
  <1>7. CASE Step(w, k, "lookup") /\ convs' = [convs EXCEPT ![c.id] = c]
    <2>1. StoreTypes' /\ StoredOK' /\ Stored \subseteq Stored' /\ c.id \in Stored'
      BY <1>3, <1>5, <1>7, PutKeeps
    <2>2. /\ k \in Jobs /\ k.op = "approve" /\ k.req = r /\ k.dup = None /\ k.read = None
          /\ k.todo = {}
      BY <1>4, <1>5, NewJobIs DEF Ops
    <2>3. JobOK("lookup", k)' /\ "lookup" \in Busy
      BY <1>5, <2>2 DEF JobOK, OpOK, Payloading, Reading, Carrying, Indexing, Ingesting, Busy
    <2> QED
      BY <1>7, <2>1, <2>2, <2>3, StepKeeps
  <1> QED
    BY <1>1, <1>4, <1>6, <1>7 DEF Approve, Approved


LEMMA ApproveFactsKeeps ==
    ASSUME Inv, NEW w \in Workers, ApproveFacts(w)
    PROVE  Inv'
  <1>1. PICK j : j = job[w]
    OBVIOUS
  <1>2. j \in Jobs /\ JobOK("approve_facts", j)
    <2>1. pc[w] = "approve_facts"
      BY DEF ApproveFacts
    <2> QED
      BY <1>1, <2>1, Running
  <1>3. StoreTypes' /\ StoredOK' /\ Stored' = Stored
    <2>1. j.req \in Payloads /\ j.req.msgs \in Seq(Msgs)
      BY <1>2 DEF Jobs, JobOK, OpOK, Payloading, Reading, Carrying, Indexing, Ingesting, Payloads
    <2>2. PICK x : x = DOMAIN j.req.msgs
      OBVIOUS
    <2>3. x \in SUBSET Nat
      BY <2>1, <2>2
    <2>4. facts' = [facts EXCEPT ![j.req.id] = @ \cup x] /\ UNCHANGED <<convs, summaries, vectors>>
      BY <1>1, <2>2 DEF ApproveFacts
    <2> QED
      BY <2>3, <2>4, FactsKeep
  <1>4. JobOK("done", j) /\ "done" \in Busy
    BY <1>2 DEF JobOK, OpOK, Payloading, Reading, Carrying, Indexing, Ingesting, Busy
  <1>5. JobOK("done", j)' /\ Step(w, j, "done")
    BY <1>1, <1>3, <1>4, JobKept DEF ApproveFacts
  <1> QED
    BY <1>2, <1>3, <1>4, <1>5, StepKeeps


LEMMA RejectKeeps ==
    ASSUME Inv, NEW w \in Workers, Reject(w)
    PROVE  Inv'
  <1>1. PICK j : j = job[w]
    OBVIOUS
  <1>2. j \in Jobs /\ JobOK("reject", j)
    <2>1. pc[w] = "reject"
      BY DEF Reject
    <2> QED
      BY <1>1, <2>1, Running
  <1>3. /\ j.read \in Conversations /\ Submitted(j.read) /\ j.op = "reject"
        /\ UNCHANGED <<facts, summaries, vectors>>
    BY <1>2 DEF Jobs, JobOK, OpOK, Payloading, Reading, Carrying, Indexing, Ingesting, Reject
  <1>4. PICK c : c = [j.read EXCEPT !.status = "rejected"]
    OBVIOUS
  <1>5. c \in Conversations /\ c.id = j.read.id /\ c.project = j.read.project /\ c.msgs = j.read.msgs
    BY <1>3, <1>4 DEF Conversations, Statuses
  <1>6. Submitted(c) /\ "error" \in Outcomes /\ "rejected" \in Outcomes
    BY <1>3, <1>5 DEF Submitted, Outcomes
  <1>7. CASE Return(w, j, "error") /\ UNCHANGED convs
    <2>1. UNCHANGED stores
      BY <1>3, <1>7 DEF stores
    <2> QED
      BY <1>2, <1>6, <1>7, <2>1, ReturnOnly
  <1>8. CASE Return(w, j, "rejected") /\ convs' = [convs EXCEPT ![c.id] = c]
    <2>1. StoreTypes' /\ StoredOK' /\ Stored \subseteq Stored'
      BY <1>3, <1>5, <1>6, <1>8, PutKeeps
    <2> QED
      BY <1>2, <1>3, <1>6, <1>8, <2>1, ReturnKeeps
  <1> QED
    BY <1>1, <1>4, <1>7, <1>8 DEF Reject


LEMMA ReindexKeeps ==
    ASSUME Inv, NEW w \in Workers, Reindex(w)
    PROVE  Inv'
  <1>1. PICK j : j = job[w]
    OBVIOUS
  <1>2. j \in Jobs /\ JobOK("reindex", j)
    <2>1. pc[w] = "reindex"
      BY DEF Reindex
    <2> QED
      BY <1>1, <2>1, Running
  <1>3. PICK k, b : k = [j EXCEPT !.replace = b] /\ b = (\E id \in Ids : vectors[id] # {})
    OBVIOUS
  <1>4. b \in BOOLEAN
    BY <1>3
  <1>5. k \in Jobs
        /\ k.op = j.op /\ k.req = j.req /\ k.dup = j.dup /\ k.read = j.read /\ k.todo = j.todo
        /\ k.outcome = j.outcome
    BY <1>2, <1>3, <1>4 DEF Jobs
  <1>6. JobOK("list", k) /\ "list" \in Busy
    BY <1>2, <1>5 DEF JobOK, OpOK, Payloading, Reading, Carrying, Indexing, Ingesting, Busy
  <1>7. Step(w, k, "list") /\ UNCHANGED stores
    BY <1>1, <1>3 DEF Reindex
  <1> QED
    BY <1>5, <1>6, <1>7, StepOnly


LEMMA ListKeeps ==
    ASSUME Inv, NEW w \in Workers, List(w)
    PROVE  Inv'
  <1>1. PICK j : j = job[w]
    OBVIOUS
  <1>2. j \in Jobs /\ JobOK("list", j)
    <2>1. pc[w] = "list"
      BY DEF List
    <2> QED
      BY <1>1, <2>1, Running
  <1>3. PICK k, x : k = [j EXCEPT !.todo = x] /\ x = {convs[id] : id \in Listed}
    OBVIOUS
  <1>4. x \in SUBSET Conversations /\ \A c \in x : c.id \in Stored
    <2>1. \A id \in Stored : convs[id] \in Conversations /\ convs[id].id = id
      BY StoredIs DEF Inv, TypeOK, StoredOK
    <2> QED
      BY <1>3, <2>1 DEF Listed
  <1>5. k \in Jobs /\ k.op = j.op /\ k.req = j.req /\ k.dup = j.dup /\ k.read = j.read /\ k.todo = x
        /\ k.outcome = j.outcome
    BY <1>2, <1>3, <1>4 DEF Jobs
  <1>6. JobOK("next", k) /\ "next" \in Busy
    BY <1>2, <1>4, <1>5 DEF JobOK, OpOK, Payloading, Reading, Carrying, Indexing, Ingesting, Busy
  <1>7. Step(w, k, "next") /\ UNCHANGED stores
    BY <1>1, <1>3 DEF List
  <1> QED
    BY <1>5, <1>6, <1>7, StepOnly


LEMMA NextConversationKeeps ==
    ASSUME Inv, NEW w \in Workers, NextConversation(w)
    PROVE  Inv'
  <1>1. PICK j : j = job[w]
    OBVIOUS
  <1>2. j \in Jobs /\ JobOK("next", j)
    <2>1. pc[w] = "next"
      BY DEF NextConversation
    <2> QED
      BY <1>1, <2>1, Running
  <1>3. UNCHANGED stores /\ j.op = "reindex"
    BY <1>2 DEF NextConversation, JobOK, OpOK, Payloading, Reading, Carrying, Indexing, Ingesting
  <1>4. ASSUME NEW outcome \in Outcomes, Return(w, j, outcome) PROVE Inv'
    BY <1>2, <1>3, <1>4, ReturnOnly
  <1>5. ASSUME NEW c \in j.todo,
               Step(w, [j EXCEPT !.todo = @ \ {c}, !.target = c.id,
                                 !.chunks = chunk_selected_messages(c.id, c.msgs, 0)], "embed")
        PROVE  Inv'
    <2>1. c \in Conversations /\ c.id \in Ids /\ c.id \in Stored /\ c.msgs \in Seq(Msgs)
      BY <1>2 DEF Jobs, JobOK, Conversations
    <2>2. PICK k, cs, x : /\ k = [j EXCEPT !.todo = x, !.target = c.id, !.chunks = cs]
                          /\ cs = chunk_selected_messages(c.id, c.msgs, 0) /\ x = j.todo \ {c}
      OBVIOUS
    <2>3. cs \in Seq(Chunks)
      BY <2>1, <2>2, ChunksAre
    <2>4. x \in SUBSET Conversations /\ \A d \in x : d.id \in Stored
      BY <1>2, <2>2 DEF Jobs, JobOK
    <2>5. /\ k \in Jobs /\ k.op = j.op /\ k.req = j.req /\ k.dup = j.dup /\ k.read = j.read
          /\ k.todo = x /\ k.target = c.id /\ k.outcome = j.outcome
      BY <1>2, <2>1, <2>2, <2>3, <2>4 DEF Jobs
    <2>6. JobOK("embed", k) /\ "embed" \in Busy
      BY <1>2, <1>3, <2>1, <2>4, <2>5 DEF JobOK, OpOK, Payloading, Reading, Carrying, Indexing, Ingesting, Busy
    <2> QED
      BY <1>3, <1>5, <2>2, <2>5, <2>6, StepOnly
  <1>6. (IF j.outcome = None THEN "reindexed" ELSE j.outcome) \in Outcomes
    BY <1>2 DEF Jobs, Outcomes
  <1> QED
    BY <1>1, <1>4, <1>5, <1>6 DEF NextConversation


-----------------------------------------------------------------------------
(* Operations that start, end or are cut off by a crash.                    *)

LEMMA FirstStepIs ==
    ASSUME NEW op \in Ops, NEW r
    PROVE  /\ FirstStep(op, r) \in Busy /\ OpOK(FirstStep(op, r), op)
           /\ FirstStep(op, r) \in {"lookup", "review", "decide", "retrieve", "reindex"}
           /\ op = "approve" => FirstStep(op, r) = "decide"
           /\ FirstStep(op, r) = "lookup" => op = "ingest" /\ ~r.sensitive
           /\ FirstStep(op, r) = "review" => op = "hold" \/ r.sensitive
  BY DEF FirstStep, Ops, OpOK, Busy, Reading, Carrying, Indexing, Ingesting

LEMMA StartKeeps ==
    ASSUME Inv, NEW w \in Workers, NEW op \in Ops, NEW r \in Payloads \cup {None}, Start(w, op, r),
           op # "reindex" => r # None, op \in {"ingest", "hold"} => Submitted(r)
    PROVE  Inv'
  <1>1. PICK k, at : k = NewJob(op, r) /\ at = FirstStep(op, r)
    OBVIOUS
  <1>2. /\ k \in Jobs /\ k.op = op /\ k.req = r /\ k.dup = None /\ k.read = None /\ k.todo = {}
        /\ k # None /\ k.outcome = None
    BY <1>1, NewJobIs, NoneIsNoJob
  <1>3. /\ at \in Busy /\ OpOK(at, op) /\ at \in {"lookup", "review", "decide", "retrieve", "reindex"}
        /\ op = "approve" => at = "decide"
    BY <1>1, FirstStepIs
  <1>4. JobOK(at, k)
    BY <1>2, <1>3 DEF JobOK, Payloading, Reading, Carrying, Indexing
  <1>5. UNCHANGED stores /\ job' = [job EXCEPT ![w] = k] /\ pc' = [pc EXCEPT ![w] = at]
    BY <1>1 DEF Start
  <1>6. StoreTypes' /\ StoredOK' /\ Stored' = Stored
    BY <1>5 DEF Inv, TypeOK, StoreTypes, StoredOK, Stored, stores
  <1>7. lock' \in [Hubs -> Workers \cup {None}]
    BY DEF Start, Inv, TypeOK, WorkerTypes
  <1>8. WorkerTypes'
    <2>1. at # "idle"
      BY <1>3
    <2> QED
      BY <1>2, <1>3, <1>5, <1>7, <2>1 DEF Inv, TypeOK, WorkerTypes
  <1>9. JobsOK'
    <2> SUFFICES ASSUME NEW v \in Workers, pc'[v] # "idle" PROVE JobOK(pc[v], job[v])'
      BY DEF JobsOK
    <2>1. CASE v = w
      <3>1. pc'[v] = at /\ job'[v] = k
        BY <1>5, <2>1 DEF Inv, TypeOK, WorkerTypes
      <3>2. JobOK(at, k)'
        BY <1>4, <1>6, JobKept
      <3> QED
        BY <3>1, <3>2
    <2>2. CASE v # w
      <3>1. pc'[v] = pc[v] /\ job'[v] = job[v]
        BY <1>5, <2>2 DEF Inv, TypeOK, WorkerTypes
      <3>2. PICK a, m : a = pc[v] /\ m = job[v]
        OBVIOUS
      <3>3. JobOK(a, m)
        BY <3>1, <3>2 DEF Inv, JobsOK
      <3>4. JobOK(a, m)'
        BY <1>6, <3>3, JobKept
      <3> QED
        BY <3>1, <3>2, <3>4
    <2> QED
      BY <2>1, <2>2
  <1> QED
    BY <1>6, <1>8, <1>9 DEF Inv, TypeOK

(* A step after which every worker is idle or where it was.                 *)
LEMMA EndKeeps ==
    ASSUME Inv, WorkerTypes', StoreTypes', UNCHANGED convs,
           \A v \in Workers : pc'[v] = "idle" \/ (pc'[v] = pc[v] /\ job'[v] = job[v])
    PROVE  Inv'
  <1>1. StoredOK' /\ Stored' = Stored
    BY DEF Inv, TypeOK, StoreTypes, StoredOK, Stored
  <1>2. JobsOK'
    <2> SUFFICES ASSUME NEW v \in Workers, pc'[v] # "idle" PROVE JobOK(pc[v], job[v])'
      BY DEF JobsOK
    <2>1. pc'[v] = pc[v] /\ job'[v] = job[v]
      OBVIOUS
    <2>2. PICK a, m : a = pc[v] /\ m = job[v]
      OBVIOUS
    <2>3. JobOK(a, m)
      BY <2>1, <2>2 DEF Inv, JobsOK
    <2>4. JobOK(a, m)'
      BY <1>1, <2>3, JobKept
    <2> QED
      BY <2>1, <2>2, <2>4
  <1> QED
    BY <1>1, <1>2 DEF Inv, TypeOK

LEMMA FinishKeeps ==
    ASSUME Inv, NEW w \in Workers, Finish(w)
    PROVE  Inv'
  <1>1. WorkerTypes'
    BY DEF Finish, Inv, TypeOK, WorkerTypes
  <1>2. StoreTypes' /\ UNCHANGED convs
    BY DEF Finish, stores, Inv, TypeOK, StoreTypes
  <1>3. \A v \in Workers : pc'[v] = "idle" \/ (pc'[v] = pc[v] /\ job'[v] = job[v])
    BY DEF Finish, Inv, TypeOK, WorkerTypes
  <1> QED
    BY <1>1, <1>2, <1>3, EndKeeps

LEMMA CrashKeeps ==
    ASSUME Inv, NEW h \in Hubs, Crash(h)
    PROVE  Inv'
  <1>1. WorkerTypes'
    BY DEF Crash, Inv, TypeOK, WorkerTypes
  <1>2. StoreTypes' /\ UNCHANGED convs
    BY DEF Crash, Inv, TypeOK, StoreTypes
  <1>3. \A v \in Workers : pc'[v] = "idle" \/ (pc'[v] = pc[v] /\ job'[v] = job[v])
    BY DEF Crash
  <1> QED
    BY <1>1, <1>2, <1>3, EndKeeps

LEMMA StutterKeeps ==
    ASSUME Inv, UNCHANGED vars
    PROVE  Inv'
  <1>1. WorkerTypes' /\ StoreTypes' /\ UNCHANGED <<convs, pc, job>>
    BY DEF vars, stores, Inv, TypeOK, WorkerTypes, StoreTypes
  <1> QED
    BY <1>1, EndKeeps

LEMMA InitInv == Init => Inv
  BY NoneIsNoRecord DEF Init, Inv, TypeOK, StoreTypes, WorkerTypes, StoredOK, Stored, JobsOK

LEMMA ReferenceIs ==
    ASSUME NEW id \in Ids, NEW p \in Projects
    PROVE  Reference(id, p) \in Payloads /\ Reference(id, p) # None
  <1>1. Reference(id, p) \in Payloads
    BY DEF Reference, Payloads
  <1> QED
    BY <1>1, NoneIsNoRecord

(* The operations that can start.                                           *)
LEMMA Starts ==
    ASSUME NEW w \in Workers, Submit(w) \/ Refer(w) \/ Maintain(w)
    PROVE  \E op \in Ops, r \in Payloads \cup {None} :
             /\ Start(w, op, r)
             /\ op # "reindex" => r # None
             /\ op \in {"ingest", "hold"} => Submitted(r) /\ r \in Requests
  <1>1. CASE Submit(w)
    <2>1. PICK r \in Requests, op \in {"ingest", "hold"} : Start(w, op, r)
      BY <1>1 DEF Submit
    <2>2. r \in Payloads /\ r # None /\ Submitted(r)
      BY IngestionAssumption, NoneIsNoRecord DEF Submitted
    <2> QED
      BY <2>1, <2>2 DEF Ops
  <1>2. CASE Refer(w)
    <2>1. PICK id \in Ids, p \in Projects, op \in {"approve", "reject", "retrieve"} :
             Start(w, op, Reference(id, p))
      BY <1>2 DEF Refer
    <2>2. PICK r : r = Reference(id, p)
      OBVIOUS
    <2> QED
      BY <2>1, <2>2, ReferenceIs DEF Ops
  <1>3. CASE Maintain(w)
    BY <1>3 DEF Maintain, Ops
  <1> QED
    BY <1>1, <1>2, <1>3

LEMMA NextKeeps == Inv /\ [Next]_vars => Inv'
  <1> SUFFICES ASSUME Inv, [Next]_vars PROVE Inv'
    OBVIOUS
  <1>1. ASSUME NEW w \in Workers, Submit(w) \/ Refer(w) \/ Maintain(w) PROVE Inv'
    BY <1>1, Starts, StartKeeps
  <1>2. ASSUME NEW w \in Workers, IngestStep(w) PROVE Inv'
    BY <1>2, LookupKeeps, InspectKeeps, RepairKeeps, RefreshKeeps, CompleteKeeps, ExistingKeeps,
       ClassifyKeeps, RewriteKeeps, AppendKeeps, SummarizeKeeps, ResaveKeeps, InsertKeeps,
       ResolveKeeps DEF IngestStep
  <1>3. ASSUME NEW w \in Workers, IndexStep(w) \/ ProviderFails(w) PROVE Inv'
    BY <1>3, DeleteKeeps, UpsertKeeps, MarkIndexedKeeps, MarkFailedKeeps, ExtractFactsKeeps,
       ProviderFailsKeeps DEF IndexStep
  <1>4. ASSUME NEW w \in Workers, ReviewStep(w) PROVE Inv'
    BY <1>4, ReviewKeeps, HoldKeeps, DecideKeeps, ApproveKeeps, ApproveFactsKeeps, RejectKeeps
       DEF ReviewStep
  <1>5. ASSUME NEW w \in Workers, ReindexStep(w) \/ Retrieve(w) \/ Finish(w) PROVE Inv'
    BY <1>5, ReindexKeeps, ListKeeps, NextConversationKeeps, RetrieveKeeps, FinishKeeps
       DEF ReindexStep
  <1>6. ASSUME NEW h \in Hubs, Crash(h) PROVE Inv'
    BY <1>6, CrashKeeps
  <1>7. CASE UNCHANGED vars
    BY <1>7, StutterKeeps
  <1> QED
    BY <1>1, <1>2, <1>3, <1>4, <1>5, <1>6, <1>7 DEF Next, Progress

(* Every reachable state is well formed, for any number of hubs that share  *)
(* the stores: the types of the two stores and of the local variables of    *)
(* mvp_ingestion.py, which operation runs which step, that what a job       *)
(* refers to is stored, and that what it carries was submitted.             *)
THEOREM WellFormed == Spec => []Inv
  <1>1. Init => Inv
    BY InitInv
  <1>2. Inv /\ [Next]_vars => Inv'
    BY NextKeeps
  <1> QED
    BY <1>1, <1>2, PTL DEF Spec

(* NoHybridTranscript: however many hubs race to append to, rewrite and     *)
(* resave a conversation (_append_conversation and its retry loop), every   *)
(* transcript in the metadata store is one that some client submitted to    *)
(* that project.                                                            *)
THEOREM TranscriptsAreSubmitted == Spec => []NoHybridTranscript
  <1>1. Inv => NoHybridTranscript
    BY DEF Inv, StoredOK, Submitted, NoHybridTranscript
  <1> QED
    BY <1>1, WellFormed, PTL
-----------------------------------------------------------------------------
(* Whose step it is.  A worker's step moves nobody else.                    *)

Moved(w) ==
    \A v \in Workers \ {w} : pc'[v] = pc[v] /\ job'[v] = job[v]

LEMMA StepMoves ==
    ASSUME Inv, NEW w \in Workers, NEW j, NEW at, Step(w, j, at)
    PROVE  Moved(w) /\ pc'[w] = at /\ job'[w] = j /\ UNCHANGED lock
  BY DEF Step, Moved, Inv, TypeOK, WorkerTypes

LEMMA ReturnMoves ==
    ASSUME Inv, NEW w \in Workers, NEW j, NEW outcome, Return(w, j, outcome)
    PROVE  /\ Moved(w) /\ pc'[w] = Answered(j, outcome) /\ UNCHANGED lock
           /\ job'[w] = [j EXCEPT !.outcome = outcome]
  BY StepMoves DEF Return, Answered

LEMMA IngestMoves ==
    ASSUME Inv, NEW w \in Workers, IngestStep(w)
    PROVE  Moved(w) /\ UNCHANGED lock
  <1>1. ASSUME Lookup(w) \/ Inspect(w) \/ Repair(w) \/ Refresh(w) \/ Complete(w) \/ Existing(w)
        PROVE  Moved(w) /\ UNCHANGED lock
    BY <1>1, StepMoves, ReturnMoves
       DEF Lookup, Inspect, Repair, Refresh, Complete, Existing, AfterRepair
  <1>2. ASSUME Classify(w) PROVE Moved(w) /\ UNCHANGED lock
    BY <1>2, Classified, StepMoves, ReturnMoves DEF Found
  <1>3. ASSUME Rewrite(w) \/ AppendMessages(w) \/ Summarize(w) \/ Resave(w)
        PROVE  Moved(w) /\ UNCHANGED lock
    BY <1>3, StepMoves, ReturnMoves
       DEF Rewrite, AppendMessages, RetryAppend, Summarize, Resave
  <1>4. ASSUME Insert(w) \/ Resolve(w) PROVE Moved(w) /\ UNCHANGED lock
    BY <1>4, StepMoves, ReturnMoves DEF Insert, InsertNew, Resolve
  <1> QED
    BY <1>1, <1>2, <1>3, <1>4 DEF IngestStep

LEMMA OtherMoves ==
    ASSUME Inv, NEW w \in Workers,
           IndexStep(w) \/ ReviewStep(w) \/ ReindexStep(w) \/ Retrieve(w) \/ ProviderFails(w)
    PROVE  Moved(w) /\ UNCHANGED lock
  <1>1. ASSUME IndexStep(w) \/ ProviderFails(w) PROVE Moved(w) /\ UNCHANGED lock
    BY <1>1, StepMoves, ReturnMoves
       DEF IndexStep, DeleteVectors, UpsertVectors, MarkIndexed, MarkFailed, ExtractFacts, ProviderFails
  <1>2. ASSUME ReviewStep(w) PROVE Moved(w) /\ UNCHANGED lock
    BY <1>2, StepMoves, ReturnMoves
       DEF ReviewStep, Review, Hold, InsertNew, Decide, Approve, ApproveFacts, Reject
  <1>3. ASSUME ReindexStep(w) \/ Retrieve(w) PROVE Moved(w) /\ UNCHANGED lock
    BY <1>3, StepMoves, ReturnMoves
       DEF ReindexStep, Reindex, List, NextConversation, Retrieve
  <1> QED
    BY <1>1, <1>2, <1>3

LEMMA EndsMove ==
    ASSUME Inv, NEW w \in Workers, Submit(w) \/ Refer(w) \/ Maintain(w) \/ Finish(w)
    PROVE  Moved(w)
  <1>1. ASSUME Finish(w) PROVE Moved(w)
    BY <1>1 DEF Finish, Moved, Inv, TypeOK, WorkerTypes
  <1>2. ASSUME NEW op, NEW r, Start(w, op, r) PROVE Moved(w)
    BY <1>2 DEF Start, Moved, Inv, TypeOK, WorkerTypes
  <1> QED
    BY <1>1, <1>2 DEF Submit, Refer, Maintain

(* Only an append leads from "append" to "summarize".                       *)
LEMMA OnlyAppends ==
    ASSUME Inv, Next, NEW v \in Workers, pc[v] = "append", pc'[v] = "summarize"
    PROVE  AppendMessages(v)
  <1>1. ASSUME NEW w \in Workers, Moved(w) PROVE v = w
    BY <1>1 DEF Moved
  <1>2. ASSUME NEW w \in Workers, Submit(w) \/ Refer(w) \/ Maintain(w) PROVE FALSE
    <2>1. v = w
      BY <1>1, <1>2, EndsMove
    <2> QED
      BY <1>2, <2>1 DEF Submit, Refer, Maintain, Start
  <1>3. ASSUME NEW w \in Workers, Progress(w) \/ ProviderFails(w) PROVE AppendMessages(v)
    <2>1. v = w
      BY <1>1, <1>3, IngestMoves, OtherMoves, EndsMove DEF Progress
    <2>2. ASSUME IngestStep(v) PROVE AppendMessages(v)
      BY <2>2 DEF IngestStep, Lookup, Inspect, Repair, Refresh, Complete, Existing, Classify, Rewrite,
                  Summarize, Resave, Insert, Resolve
    <2>3. ~IndexStep(v) /\ ~ProviderFails(v)
      BY DEF IndexStep, DeleteVectors, UpsertVectors, MarkIndexed, MarkFailed, ExtractFacts, ProviderFails
    <2>4. ~ReviewStep(v) /\ ~ReindexStep(v) /\ ~Retrieve(v) /\ ~Finish(v)
      BY DEF ReviewStep, Review, Hold, Decide, Approve, ApproveFacts, Reject, ReindexStep, Reindex, List,
             NextConversation, Retrieve, Finish
    <2> QED
      BY <1>3, <2>1, <2>2, <2>3, <2>4 DEF Progress
  <1>4. ASSUME NEW h \in Hubs, Crash(h) PROVE FALSE
    BY <1>4 DEF Crash
  <1> QED
    BY <1>2, <1>3, <1>4 DEF Next

(* The compare-and-swap of _append_conversation: what it replaces is the    *)
(* transcript it read.                                                      *)
LEMMA AppendExtends ==
    ASSUME Inv, NEW w \in Workers, AppendMessages(w), pc'[w] = "summarize", NEW id \in Stored
    PROVE  IsPrefix(convs[id].msgs, convs'[id].msgs)
  <1>1. PICK j : j = job[w]
    OBVIOUS
  <1>2. j \in Jobs /\ JobOK("append", j) /\ IsStrictPrefix(j.read.msgs, j.req.msgs)
    <2>1. pc[w] = "append"
      BY DEF AppendMessages
    <2> QED
      BY <1>1, <2>1, Running DEF JobOK
  <1>3. PICK c, u : c = j.read /\ u = Appended(j.read, j.req)
    OBVIOUS
  <1>4. u.id = c.id /\ u.msgs = j.req.msgs /\ c \in Conversations
    BY <1>2, <1>3, AfterAppendIs
  <1>5. HashUnchanged(c) /\ convs' = [convs EXCEPT ![c.id] = u]
    <2>1. ~Return(w, j, "error")
      BY ReturnMoves DEF Answered
    <2>2. ~RetryAppend(w, j)
      <3>1. PICK k : k = [j EXCEPT !.attempts = j.attempts + 1]
        OBVIOUS
      <3>2. ~Return(w, k, "error")
        BY ReturnMoves DEF Answered
      <3>3. ~Step(w, k, "same_thread")
        BY StepMoves
      <3> QED
        BY <3>1, <3>2, <3>3 DEF RetryAppend
    <2> QED
      BY <1>1, <1>3, <2>1, <2>2, AppendCases
  <1>6. id \in Ids /\ convs[id] \in Conversations /\ convs[id].msgs \in Seq(Msgs)
    BY StoredIs DEF Inv, TypeOK, Conversations
  <1>7. CASE id = c.id
    <2>1. convs[id].msgs = c.msgs
      BY <1>5, <1>7 DEF HashUnchanged, conversation_hash
    <2>2. convs'[id] = u
      BY <1>5, <1>6, <1>7 DEF Inv, TypeOK, StoreTypes
    <2> QED
      BY <1>2, <1>3, <1>4, <2>1, <2>2 DEF IsStrictPrefix
  <1>8. CASE id # c.id
    <2>1. convs'[id] = convs[id]
      BY <1>5, <1>6, <1>8 DEF Inv, TypeOK, StoreTypes
    <2> QED
      BY <1>6, <2>1 DEF IsPrefix
  <1> QED
    BY <1>7, <1>8

(* AppendKeepsHistory: however many hubs share the stores, the step of      *)
(* _append_conversation that stores the longer transcript keeps every       *)
(* stored message of every conversation: save_conversation refuses the      *)
(* update when the stored hash is no longer that of the transcript read.    *)
THEOREM AppendsKeepHistory == Spec => AppendKeepsHistory
  <1>1. Inv /\ [Next]_vars =>
          [\A w \in Workers : pc[w] = "append" /\ pc'[w] = "summarize" =>
              \A id \in Stored : IsPrefix(convs[id].msgs, convs'[id].msgs)]_vars
    BY OnlyAppends, AppendExtends
  <1> QED
    BY <1>1, WellFormed, PTL DEF Spec, AppendKeepsHistory

-----------------------------------------------------------------------------
(* A step goes on with the operation of its worker, and an operation ends   *)
(* with an answer of its own.                                               *)

ReadAnswers == {"error", "retrieved", "reindexed"}
Ended == {"done", "approve_facts"}

OutcomeOK(j) ==
    /\ j.outcome = "reindexed" => j.op = "reindex"
    /\ j.op \notin LockedOps => j.outcome \in ReadAnswers

GoesOn(w) ==
    /\ job'[w].op = job[w].op
    /\ pc'[w] \in Ended => OutcomeOK(job'[w])

LEMMA StepOn ==
    ASSUME Inv, NEW w \in Workers, NEW j, NEW at, Step(w, j, at), j.op = job[w].op,
           at \notin Ended \/ OutcomeOK(j)
    PROVE  GoesOn(w)
  BY StepMoves DEF GoesOn

LEMMA ReturnOn ==
    ASSUME Inv, NEW w \in Workers, NEW j \in Jobs, NEW outcome, Return(w, j, outcome),
           j.op = job[w].op, outcome = "reindexed" => j.op = "reindex",
           j.op \notin LockedOps => outcome \in ReadAnswers
    PROVE  GoesOn(w)
  <1>1. PICK k : k = [j EXCEPT !.outcome = outcome]
    OBVIOUS
  <1>2. k.op = j.op /\ k.outcome = outcome
    BY <1>1 DEF Jobs
  <1>3. job'[w] = k
    BY <1>1, ReturnMoves
  <1> QED
    BY <1>2, <1>3 DEF GoesOn, OutcomeOK

LEMMA LookupGoesOn ==
    ASSUME Inv, NEW w \in Workers, Lookup(w)
    PROVE  GoesOn(w)
  <1>1. PICK j : j = job[w]
    OBVIOUS
  <1>2. j \in Jobs /\ JobOK(pc[w], j)
    BY <1>1, Running DEF Lookup
  <1>3. j.op \in LockedOps
    BY <1>1, <1>2 DEF Lookup, JobOK, OpOK, Ingesting, LockedOps, Ops
  <1>4. ASSUME NEW x, NEW y, NEW at \in {"inspect", "complete"}, Step(w, [j EXCEPT !.dup = x, !.read = y], at) PROVE GoesOn(w)
    <2>1. PICK k : k = [j EXCEPT !.dup = x, !.read = y]
      OBVIOUS
    <2>2. k.op = j.op
      BY <1>2, <2>1 DEF Jobs
    <2> QED
      BY <1>1, <1>4, <2>1, <2>2, StepOn DEF Ended
  <1> QED
    BY <1>1, <1>2, <1>3, <1>4, StepOn DEF Lookup, Ended

LEMMA RetrieveGoesOn ==
    ASSUME Inv, NEW w \in Workers, Retrieve(w)
    PROVE  GoesOn(w)
  <1>1. PICK j : j = job[w]
    OBVIOUS
  <1>2. j \in Jobs /\ JobOK(pc[w], j)
    BY <1>1, Running DEF Retrieve
  <1>3. j.op = "retrieve"
    BY <1>1, <1>2 DEF Retrieve, JobOK, OpOK, Ingesting, LockedOps, Ops
  <1>4. ASSUME NEW x, NEW y, Step(w, [j EXCEPT !.dup = x, !.read = y], "inspect") PROVE GoesOn(w)
    <2>1. PICK k : k = [j EXCEPT !.dup = x, !.read = y]
      OBVIOUS
    <2>2. k.op = j.op
      BY <1>2, <2>1 DEF Jobs
    <2> QED
      BY <1>1, <1>4, <2>1, <2>2, StepOn DEF Ended
  <1> QED
    BY <1>1, <1>2, <1>3, <1>4, ReturnOn DEF Retrieve, ReadAnswers

LEMMA InspectGoesOn ==
    ASSUME Inv, NEW w \in Workers, Inspect(w)
    PROVE  GoesOn(w)
  <1>1. PICK j : j = job[w]
    OBVIOUS
  <1>2. j \in Jobs /\ JobOK(pc[w], j)
    BY <1>1, Running DEF Inspect
  <1>3. j.op \in LockedOps \/ j.op = "retrieve"
    BY <1>1, <1>2 DEF Inspect, JobOK, OpOK, Ingesting, LockedOps, Ops
  <1>4. ASSUME NEW x, Step(w, [j EXCEPT !.marks = x], "repair") PROVE GoesOn(w)
    <2>1. PICK k : k = [j EXCEPT !.marks = x]
      OBVIOUS
    <2>2. k.op = j.op
      BY <1>2, <2>1 DEF Jobs
    <2> QED
      BY <1>1, <1>4, <2>1, <2>2, StepOn DEF Ended
  <1> QED
    BY <1>1, <1>2, <1>3, <1>4, StepOn, ReturnOn DEF Inspect, AfterRepair, Ended, ReadAnswers

LEMMA RepairGoesOn ==
    ASSUME Inv, NEW w \in Workers, Repair(w)
    PROVE  GoesOn(w)
  <1>1. PICK j : j = job[w]
    OBVIOUS
  <1>2. j \in Jobs /\ JobOK(pc[w], j)
    BY <1>1, Running DEF Repair
  <1>3. j.op \in LockedOps \/ j.op = "retrieve"
    BY <1>1, <1>2 DEF Repair, JobOK, OpOK, Ingesting, LockedOps, Ops
  <1> QED
    BY <1>1, <1>2, <1>3, StepOn DEF Repair, Ended

LEMMA CompleteGoesOn ==
    ASSUME Inv, NEW w \in Workers, Complete(w)
    PROVE  GoesOn(w)
  <1>1. PICK j : j = job[w]
    OBVIOUS
  <1>2. j \in Jobs /\ JobOK(pc[w], j)
    BY <1>1, Running DEF Complete
  <1>3. j.op \in LockedOps /\ j.dup \in Ids
    BY <1>1, <1>2 DEF Complete, JobOK, OpOK, Ingesting, LockedOps, Ops, Reading, Stored
  <1>4. ASSUME NEW x \in Ids, Return(w, [j EXCEPT !.target = x], "deduplicated") PROVE GoesOn(w)
    <2>1. PICK k : k = [j EXCEPT !.target = x]
      OBVIOUS
    <2>2. k \in Jobs /\ k.op = j.op
      BY <1>2, <2>1 DEF Jobs
    <2> QED
      BY <1>1, <1>3, <1>4, <2>1, <2>2, ReturnOn DEF ReadAnswers
  <1>5. ASSUME NEW x, Step(w, [j EXCEPT !.req.id = x], "existing") PROVE GoesOn(w)
    <2>1. PICK k : k = [j EXCEPT !.req.id = x]
      OBVIOUS
    <2>2. k.op = j.op
      BY <1>2, <2>1 DEF Jobs
    <2> QED
      BY <1>1, <1>5, <2>1, <2>2, StepOn DEF Ended
  <1> QED
    BY <1>1, <1>3, <1>4, <1>5 DEF Complete

LEMMA ExistingGoesOn ==
    ASSUME Inv, NEW w \in Workers, Existing(w)
    PROVE  GoesOn(w)
  <1>1. PICK j : j = job[w]
    OBVIOUS
  <1>2. j \in Jobs /\ JobOK(pc[w], j)
    BY <1>1, Running DEF Existing
  <1>3. j.op \in LockedOps
    BY <1>1, <1>2 DEF Existing, JobOK, OpOK, Ingesting, LockedOps, Ops
  <1> QED
    BY <1>1, <1>2, <1>3, StepOn, ReturnOn DEF Existing, Ended, ReadAnswers

LEMMA RewriteGoesOn ==
    ASSUME Inv, NEW w \in Workers, Rewrite(w)
    PROVE  GoesOn(w)
  <1>1. PICK j : j = job[w]
    OBVIOUS
  <1>2. j \in Jobs /\ JobOK(pc[w], j)
    BY <1>1, Running DEF Rewrite
  <1>3. j.op \in LockedOps
    BY <1>1, <1>2 DEF Rewrite, JobOK, OpOK, Ingesting, LockedOps, Ops
  <1> QED
    BY <1>1, <1>2, <1>3, StepOn, ReturnOn DEF Rewrite, Ended, ReadAnswers

LEMMA ResaveGoesOn ==
    ASSUME Inv, NEW w \in Workers, Resave(w)
    PROVE  GoesOn(w)
  <1>1. PICK j : j = job[w]
    OBVIOUS
  <1>2. j \in Jobs /\ JobOK(pc[w], j)
    BY <1>1, Running DEF Resave
  <1>3. j.op \in LockedOps
    BY <1>1, <1>2 DEF Resave, JobOK, OpOK, Ingesting, LockedOps, Ops
  <1> QED
    BY <1>1, <1>2, <1>3, StepOn DEF Resave, Ended

LEMMA DeleteVectorsGoesOn ==
    ASSUME Inv, NEW w \in Workers, DeleteVectors(w)
    PROVE  GoesOn(w)
  <1>1. PICK j : j = job[w]
    OBVIOUS
  <1>2. j \in Jobs /\ JobOK(pc[w], j)
    BY <1>1, Running DEF DeleteVectors
  <1>3. j.op \in Ops \cup {None}
    BY <1>1, <1>2 DEF DeleteVectors, JobOK, OpOK, Ingesting, LockedOps, Ops
  <1> QED
    BY <1>1, <1>2, <1>3, StepOn DEF DeleteVectors, Ended

LEMMA UpsertVectorsGoesOn ==
    ASSUME Inv, NEW w \in Workers, UpsertVectors(w)
    PROVE  GoesOn(w)
  <1>1. PICK j : j = job[w]
    OBVIOUS
  <1>2. j \in Jobs /\ JobOK(pc[w], j)
    BY <1>1, Running DEF UpsertVectors
  <1>3. j.op \in Ops \cup {None}
    BY <1>1, <1>2 DEF UpsertVectors, JobOK, OpOK, Ingesting, LockedOps, Ops
  <1> QED
    BY <1>1, <1>2, <1>3, StepOn DEF UpsertVectors, Ended

LEMMA ProviderFailsGoesOn ==
    ASSUME Inv, NEW w \in Workers, ProviderFails(w)
    PROVE  GoesOn(w)
  <1>1. PICK j : j = job[w]
    OBVIOUS
  <1>2. j \in Jobs /\ JobOK(pc[w], j)
    BY <1>1, Running DEF ProviderFails
  <1>3. j.op \in Ops \cup {None}
    BY <1>1, <1>2 DEF ProviderFails, JobOK, OpOK, Ingesting, LockedOps, Ops
  <1> QED
    BY <1>1, <1>2, <1>3, StepOn DEF ProviderFails, Ended

LEMMA MarkIndexedGoesOn ==
    ASSUME Inv, NEW w \in Workers, MarkIndexed(w)
    PROVE  GoesOn(w)
  <1>1. PICK j : j = job[w]
    OBVIOUS
  <1>2. j \in Jobs /\ JobOK(pc[w], j)
    BY <1>1, Running DEF MarkIndexed
  <1>3. j.op \in Ops \cup {None}
    BY <1>1, <1>2 DEF MarkIndexed, JobOK, OpOK, Ingesting, LockedOps, Ops
  <1> QED
    BY <1>1, <1>2, <1>3, StepOn DEF MarkIndexed, Ended

LEMMA MarkFailedGoesOn ==
    ASSUME Inv, NEW w \in Workers, MarkFailed(w)
    PROVE  GoesOn(w)
  <1>1. PICK j : j = job[w]
    OBVIOUS
  <1>2. j \in Jobs /\ JobOK(pc[w], j)
    BY <1>1, Running DEF MarkFailed
  <1>3. j.op \in Ops \cup {None}
    BY <1>1, <1>2 DEF MarkFailed, JobOK, OpOK, Ingesting, LockedOps, Ops
  <1>4. ASSUME Step(w, [j EXCEPT !.outcome = "error"], "next") PROVE GoesOn(w)
    <2>1. PICK k : k = [j EXCEPT !.outcome = "error"]
      OBVIOUS
    <2>2. k.op = j.op
      BY <1>2, <2>1 DEF Jobs
    <2> QED
      BY <1>1, <1>4, <2>1, <2>2, StepOn DEF Ended
  <1> QED
    BY <1>1, <1>2, <1>3, <1>4, ReturnOn DEF MarkFailed, ReadAnswers

LEMMA ExtractFactsGoesOn ==
    ASSUME Inv, NEW w \in Workers, ExtractFacts(w)
    PROVE  GoesOn(w)
  <1>1. PICK j : j = job[w]
    OBVIOUS
  <1>2. j \in Jobs /\ JobOK(pc[w], j)
    BY <1>1, Running DEF ExtractFacts
  <1>3. j.op \in LockedOps
    BY <1>1, <1>2 DEF ExtractFacts, JobOK, OpOK, Ingesting, LockedOps, Ops
  <1> QED
    BY <1>1, <1>2, <1>3, ReturnOn DEF ExtractFacts, ReadAnswers

LEMMA ReviewGoesOn ==
    ASSUME Inv, NEW w \in Workers, Review(w)
    PROVE  GoesOn(w)
  <1>1. PICK j : j = job[w]
    OBVIOUS
  <1>2. j \in Jobs /\ JobOK(pc[w], j)
    BY <1>1, Running DEF Review
  <1>3. j.op \in LockedOps
    BY <1>1, <1>2 DEF Review, JobOK, OpOK, Ingesting, LockedOps, Ops
  <1> QED
    BY <1>1, <1>2, <1>3, StepOn, ReturnOn DEF Review, Ended, ReadAnswers

LEMMA RejectGoesOn ==
    ASSUME Inv, NEW w \in Workers, Reject(w)
    PROVE  GoesOn(w)
  <1>1. PICK j : j = job[w]
    OBVIOUS
  <1>2. j \in Jobs /\ JobOK(pc[w], j)
    BY <1>1, Running DEF Reject
  <1>3. j.op \in LockedOps
    BY <1>1, <1>2 DEF Reject, JobOK, OpOK, Ingesting, LockedOps, Ops
  <1> QED
    BY <1>1, <1>2, <1>3, ReturnOn DEF Reject, ReadAnswers

LEMMA ReindexGoesOn ==
    ASSUME Inv, NEW w \in Workers, Reindex(w)
    PROVE  GoesOn(w)
  <1>1. PICK j : j = job[w]
    OBVIOUS
  <1>2. j \in Jobs /\ JobOK(pc[w], j)
    BY <1>1, Running DEF Reindex
  <1>3. j.op \in Ops \cup {None}
    BY <1>1, <1>2 DEF Reindex, JobOK, OpOK, Ingesting, LockedOps, Ops
  <1>4. ASSUME NEW x, Step(w, [j EXCEPT !.replace = x], "list") PROVE GoesOn(w)
    <2>1. PICK k : k = [j EXCEPT !.replace = x]
      OBVIOUS
    <2>2. k.op = j.op
      BY <1>2, <2>1 DEF Jobs
    <2> QED
      BY <1>1, <1>4, <2>1, <2>2, StepOn DEF Ended
  <1> QED
    BY <1>1, <1>3, <1>4 DEF Reindex

LEMMA ListGoesOn ==
    ASSUME Inv, NEW w \in Workers, List(w)
    PROVE  GoesOn(w)
  <1>1. PICK j : j = job[w]
    OBVIOUS
  <1>2. j \in Jobs /\ JobOK(pc[w], j)
    BY <1>1, Running DEF List
  <1>3. j.op \in Ops \cup {None}
    BY <1>1, <1>2 DEF List, JobOK, OpOK, Ingesting, LockedOps, Ops
  <1>4. ASSUME NEW x, Step(w, [j EXCEPT !.todo = x], "next") PROVE GoesOn(w)
    <2>1. PICK k : k = [j EXCEPT !.todo = x]
      OBVIOUS
    <2>2. k.op = j.op
      BY <1>2, <2>1 DEF Jobs
    <2> QED
      BY <1>1, <1>4, <2>1, <2>2, StepOn DEF Ended
  <1> QED
    BY <1>1, <1>3, <1>4 DEF List

LEMMA RefreshGoesOn ==
    ASSUME Inv, NEW w \in Workers, Refresh(w)
    PROVE  GoesOn(w)
  <1>1. PICK j : j = job[w]
    OBVIOUS
  <1>2. j \in Jobs /\ JobOK(pc[w], j)
    BY <1>1, Running DEF Refresh
  <1>3. j.op \in LockedOps \/ j.op = "retrieve"
    BY <1>1, <1>2 DEF Refresh, JobOK, OpOK, Ingesting, LockedOps, Ops
  <1>4. PICK c, k : c = convs[j.dup] /\ k = [j EXCEPT !.read = c]
    OBVIOUS
  <1>5. c \in Conversations
    BY <1>1, <1>2, <1>4, StoredIs DEF Refresh, JobOK, Reading, Inv, TypeOK
  <1>6. k \in Jobs /\ k.op = j.op
    BY <1>2, <1>4, <1>5 DEF Jobs
  <1>7. CASE Return(w, k, "retrieved")
    BY <1>1, <1>6, <1>7, ReturnOn DEF ReadAnswers
  <1>8. CASE Step(w, k, "complete")
    BY <1>1, <1>6, <1>8, StepOn DEF Ended
  <1> QED
    BY <1>1, <1>4, <1>7, <1>8 DEF Refresh, AfterRepair

LEMMA ClassifyGoesOn ==
    ASSUME Inv, NEW w \in Workers, Classify(w)
    PROVE  GoesOn(w)
  <1>1. PICK j : j = job[w]
    OBVIOUS
  <1>2. j \in Jobs /\ JobOK(pc[w], j)
    BY <1>1, Running DEF Classify
  <1>3. j.op \in LockedOps
    BY <1>1, <1>2 DEF Classify, JobOK, OpOK, Ingesting, LockedOps, Ops
  <1>4. CASE Return(w, j, "error")
    BY <1>1, <1>2, <1>3, <1>4, ReturnOn
  <1>5. CASE Step(w, [j EXCEPT !.read = None], "summarize")
    <2>1. PICK k : k = [j EXCEPT !.read = None]
      OBVIOUS
    <2>2. k.op = j.op
      BY <1>2, <2>1 DEF Jobs
    <2> QED
      BY <1>1, <1>5, <2>1, <2>2, StepOn DEF Ended
  <1>6. ASSUME NEW id \in SameThread(j), id # None, Found(w, j, id, convs[id]) PROVE GoesOn(w)
    <2>1. PICK c, k, t, m : /\ c = convs[id] /\ k = [j EXCEPT !.read = c] /\ t = [k EXCEPT !.target = id]
                            /\ m = Reindexing(k, id, id)
      OBVIOUS
    <2>2. c \in Conversations /\ id \in Ids
      BY <1>6, <2>1, SameThreadIs, StoredIs DEF Inv, TypeOK
    <2>3. k \in Jobs /\ k.op = j.op
      BY <1>2, <2>1, <2>2 DEF Jobs
    <2>4. t \in Jobs /\ t.op = j.op
      BY <2>1, <2>2, <2>3 DEF Jobs
    <2>5. m.op = j.op
      BY <2>1, <2>3 DEF Jobs, Reindexing
    <2>6. CASE Return(w, t, "stale") \/ Return(w, t, "deduplicated") \/ Return(w, k, "error")
      BY <1>1, <1>3, <2>3, <2>4, <2>6, ReturnOn
    <2>7. CASE Step(w, k, "append") \/ Step(w, m, "rewrite")
      BY <1>1, <2>3, <2>5, <2>7, StepOn DEF Ended
    <2> QED
      BY <1>6, <2>1, <2>6, <2>7 DEF Found
  <1> QED
    BY <1>1, <1>4, <1>5, <1>6, Classified

LEMMA AppendMessagesGoesOn ==
    ASSUME Inv, NEW w \in Workers, AppendMessages(w)
    PROVE  GoesOn(w)
  <1>1. PICK j : j = job[w]
    OBVIOUS
  <1>2. j \in Jobs /\ JobOK(pc[w], j)
    BY <1>1, Running DEF AppendMessages
  <1>3. j.op \in LockedOps
    BY <1>1, <1>2 DEF AppendMessages, JobOK, OpOK, Ingesting, LockedOps, Ops
  <1>4. CASE Return(w, j, "error")
    BY <1>1, <1>2, <1>3, <1>4, ReturnOn
  <1>5. CASE Step(w, AfterAppend(j), "summarize")
    <2>1. PICK k : k = AfterAppend(j)
      OBVIOUS
    <2>2. k.op = j.op
      BY <1>2, <2>1 DEF Jobs, AfterAppend
    <2> QED
      BY <1>1, <1>5, <2>1, <2>2, StepOn DEF Ended
  <1>6. CASE RetryAppend(w, j)
    <2>1. PICK k : k = [j EXCEPT !.attempts = j.attempts + 1]
      OBVIOUS
    <2>2. k \in Jobs /\ k.op = j.op
      <3>1. PICK n : n = j.attempts + 1
        OBVIOUS
      <3>2. j \in Jobs /\ n \in Nat
        BY <1>2, <3>1 DEF Jobs
      <3>3. k = [j EXCEPT !.attempts = n]
        BY <2>1, <3>1
      <3> QED
        BY ONLY <3>2, <3>3 DEF Jobs
    <2>3. CASE Return(w, k, "error")
      BY <1>1, <1>3, <2>2, <2>3, ReturnOn
    <2>4. CASE Step(w, k, "same_thread")
      BY <1>1, <2>2, <2>4, StepOn DEF Ended
    <2> QED
      BY <1>6, <2>1, <2>3, <2>4 DEF RetryAppend
  <1> QED
    BY <1>1, <1>4, <1>5, <1>6, AppendCases

LEMMA SummarizeGoesOn ==
    ASSUME Inv, NEW w \in Workers, Summarize(w)
    PROVE  GoesOn(w)
  <1>1. PICK j : j = job[w]
    OBVIOUS
  <1>2. j \in Jobs /\ JobOK(pc[w], j)
    BY <1>1, Running DEF Summarize
  <1>3. j.op \in LockedOps
    BY <1>1, <1>2 DEF Summarize, JobOK, OpOK, Ingesting, LockedOps, Ops
  <1>4. ASSUME NEW x, Step(w, Reindexing(j, j.req.id, x), "embed") PROVE GoesOn(w)
    <2>1. PICK k : k = Reindexing(j, j.req.id, x)
      OBVIOUS
    <2>2. k.op = j.op
      BY <1>2, <2>1 DEF Jobs, Reindexing
    <2> QED
      BY <1>1, <1>4, <2>1, <2>2, StepOn DEF Ended
  <1>5. CASE Step(w, j, "resave") \/ Step(w, j, "insert")
    BY <1>1, <1>5, StepOn DEF Ended
  <1> QED
    BY <1>1, <1>4, <1>5 DEF Summarize

LEMMA ResolveGoesOn ==
    ASSUME Inv, NEW w \in Workers, Resolve(w)
    PROVE  GoesOn(w)
  <1>1. PICK j : j = job[w]
    OBVIOUS
  <1>2. j \in Jobs /\ JobOK(pc[w], j)
    BY <1>1, Running DEF Resolve
  <1>3. j.op \in LockedOps
    BY <1>1, <1>2 DEF Resolve, JobOK, OpOK, Ingesting, LockedOps, Ops
  <1>4. ASSUME NEW x, Step(w, Reindexing(j, j.req.id, x), "embed") PROVE GoesOn(w)
    <2>1. PICK k : k = Reindexing(j, j.req.id, x)
      OBVIOUS
    <2>2. k.op = j.op
      BY <1>2, <2>1 DEF Jobs, Reindexing
    <2> QED
      BY <1>1, <1>4, <2>1, <2>2, StepOn DEF Ended
  <1>5. ASSUME NEW x \in Ids, Return(w, [j EXCEPT !.target = x], "held") PROVE GoesOn(w)
    <2>1. PICK k : k = [j EXCEPT !.target = x]
      OBVIOUS
    <2>2. k \in Jobs /\ k.op = j.op
      BY <1>2, <2>1 DEF Jobs
    <2> QED
      BY <1>1, <1>3, <1>5, <2>1, <2>2, ReturnOn
  <1>6. CASE Return(w, j, "error")
    BY <1>1, <1>2, <1>3, <1>6, ReturnOn
  <1> QED
    BY <1>1, <1>4, <1>5, <1>6 DEF Resolve, ByHash, Stored

LEMMA InsertGoesOn ==
    ASSUME Inv, NEW w \in Workers, Insert(w)
    PROVE  GoesOn(w)
  <1>1. PICK j : j = job[w]
    OBVIOUS
  <1>2. j \in Jobs /\ JobOK(pc[w], j)
    BY <1>1, Running DEF Insert
  <1>3. j.op \in LockedOps
    BY <1>1, <1>2 DEF Insert, JobOK, OpOK, Ingesting, LockedOps, Ops
  <1>4. PICK cs, k : /\ cs = chunk_selected_messages(j.req.id, j.req.msgs, 0)
                     /\ k = [j EXCEPT !.target = j.req.id, !.chunks = cs, !.extract = DOMAIN j.req.msgs]
    OBVIOUS
  <1>5. k.op = j.op
    BY <1>2, <1>4 DEF Jobs
  <1>6. CASE Step(w, k, "embed") \/ Step(w, k, "resolve")
    BY <1>1, <1>5, <1>6, StepOn DEF Ended
  <1> QED
    BY <1>1, <1>4, <1>6 DEF Insert, InsertNew

LEMMA HoldGoesOn ==
    ASSUME Inv, NEW w \in Workers, Hold(w)
    PROVE  GoesOn(w)
  <1>1. PICK j : j = job[w]
    OBVIOUS
  <1>2. j \in Jobs /\ JobOK(pc[w], j)
    BY <1>1, Running DEF Hold
  <1>3. j.op \in LockedOps
    BY <1>1, <1>2 DEF Hold, JobOK, OpOK, Ingesting, LockedOps, Ops
  <1>4. PICK k : k = [j EXCEPT !.target = j.req.id, !.outcome = "held"]
    OBVIOUS
  <1>5. k.op = j.op /\ k.outcome = "held"
    BY <1>2, <1>4 DEF Jobs
  <1>6. CASE Step(w, k, "done") \/ Step(w, k, "resolve")
    BY <1>1, <1>3, <1>5, <1>6, StepOn DEF Ended, OutcomeOK
  <1> QED
    BY <1>1, <1>4, <1>6 DEF Hold, InsertNew

LEMMA DecideGoesOn ==
    ASSUME Inv, NEW w \in Workers, Decide(w)
    PROVE  GoesOn(w)
  <1>1. PICK j : j = job[w]
    OBVIOUS
  <1>2. j \in Jobs /\ JobOK(pc[w], j)
    BY <1>1, Running DEF Decide
  <1>3. j.op \in LockedOps
    BY <1>1, <1>2 DEF Decide, JobOK, OpOK, Ingesting, LockedOps, Ops
  <1>4. CASE Return(w, j, "error")
    BY <1>1, <1>2, <1>3, <1>4, ReturnOn
  <1>5. ASSUME NEW c, Step(w, [j EXCEPT !.read = c, !.target = c.id], j.op) PROVE GoesOn(w)
    <2>1. PICK k, at : k = [j EXCEPT !.read = c, !.target = c.id] /\ at = j.op
      OBVIOUS
    <2>2. k.op = j.op /\ at \notin Ended
      BY <1>2, <2>1 DEF Jobs, Ended, Ops
    <2> QED
      BY <1>1, <1>5, <2>1, <2>2, StepOn
  <1> QED
    BY <1>1, <1>4, <1>5 DEF Decide

LEMMA ApproveGoesOn ==
    ASSUME Inv, NEW w \in Workers, Approve(w)
    PROVE  GoesOn(w)
  <1>1. PICK j : j = job[w]
    OBVIOUS
  <1>2. j \in Jobs /\ JobOK(pc[w], j)
    BY <1>1, Running DEF Approve
  <1>3. j.op = "approve" /\ j.op \in LockedOps
    BY <1>1, <1>2 DEF Approve, JobOK, OpOK, Ingesting, LockedOps, Ops
  <1>4. CASE Return(w, j, "error")
    BY <1>1, <1>2, <1>3, <1>4, ReturnOn
  <1>5. ASSUME NEW r, Step(w, NewJob("approve", r), "lookup") PROVE GoesOn(w)
    <2>1. PICK k : k = NewJob("approve", r)
      OBVIOUS
    <2>2. k.op = j.op
      BY <1>3, <2>1 DEF NewJob
    <2> QED
      BY <1>1, <1>5, <2>1, <2>2, StepOn DEF Ended
  <1> QED
    BY <1>1, <1>4, <1>5 DEF Approve

LEMMA ApproveFactsGoesOn ==
    ASSUME Inv, NEW w \in Workers, ApproveFacts(w), OutcomeOK(job[w])
    PROVE  GoesOn(w)
  <1>1. PICK j : j = job[w]
    OBVIOUS
  <1>2. j \in Jobs /\ JobOK(pc[w], j)
    BY <1>1, Running DEF ApproveFacts
  <1>3. j.op \in LockedOps
    BY <1>1, <1>2 DEF ApproveFacts, JobOK, OpOK, Ingesting, LockedOps, Ops
  <1> QED
    BY <1>1, StepOn DEF ApproveFacts

LEMMA NextConversationGoesOn ==
    ASSUME Inv, NEW w \in Workers, NextConversation(w)
    PROVE  GoesOn(w)
  <1>1. PICK j : j = job[w]
    OBVIOUS
  <1>2. j \in Jobs /\ JobOK(pc[w], j)
    BY <1>1, Running DEF NextConversation
  <1>3. j.op = "reindex"
    BY <1>1, <1>2 DEF NextConversation, JobOK, OpOK, Ingesting, LockedOps, Ops
  <1>4. ASSUME NEW c,
               Step(w, [j EXCEPT !.todo = @ \ {c}, !.target = c.id,
                                 !.chunks = chunk_selected_messages(c.id, c.msgs, 0)], "embed")
        PROVE  GoesOn(w)
    <2>1. PICK k, x, y, cs : /\ x = j.todo \ {c} /\ y = c.id /\ cs = chunk_selected_messages(c.id, c.msgs, 0)
                             /\ k = [j EXCEPT !.todo = x, !.target = y, !.chunks = cs]
      OBVIOUS
    <2>2. k.op = j.op /\ Step(w, k, "embed")
      BY <1>2, <1>4, <2>1 DEF Jobs
    <2> QED
      BY <1>1, <2>2, StepOn DEF Ended
  <1>5. ASSUME NEW x \in {"reindexed", "error"}, Return(w, j, x) PROVE GoesOn(w)
    BY <1>1, <1>2, <1>3, <1>5, ReturnOn DEF ReadAnswers
  <1> QED
    BY <1>1, <1>2, <1>3, <1>4, <1>5 DEF NextConversation, JobOK

Answers == \A w \in Workers : pc[w] \in Ended => OutcomeOK(job[w])

LEMMA ProgressGoesOn ==
    ASSUME Inv, Answers, NEW w \in Workers, Progress(w) \/ ProviderFails(w), ~Finish(w)
    PROVE  GoesOn(w) /\ Moved(w) /\ UNCHANGED lock /\ pc[w] # "idle"
  <1>1. ASSUME IngestStep(w) PROVE GoesOn(w)
    BY <1>1, LookupGoesOn, InspectGoesOn, RepairGoesOn, RefreshGoesOn, CompleteGoesOn, ExistingGoesOn,
       ClassifyGoesOn, RewriteGoesOn, AppendMessagesGoesOn, SummarizeGoesOn, ResaveGoesOn, InsertGoesOn,
       ResolveGoesOn DEF IngestStep
  <1>2. ASSUME IndexStep(w) \/ ProviderFails(w) PROVE GoesOn(w)
    BY <1>2, DeleteVectorsGoesOn, UpsertVectorsGoesOn, MarkIndexedGoesOn, MarkFailedGoesOn,
       ExtractFactsGoesOn, ProviderFailsGoesOn DEF IndexStep
  <1>3. ASSUME ReviewStep(w) PROVE GoesOn(w)
    <2>1. ApproveFacts(w) => OutcomeOK(job[w])
      BY DEF ApproveFacts, Answers, Ended
    <2> QED
      BY <1>3, <2>1, ReviewGoesOn, HoldGoesOn, DecideGoesOn, ApproveGoesOn, ApproveFactsGoesOn, RejectGoesOn
         DEF ReviewStep
  <1>4. ASSUME ReindexStep(w) \/ Retrieve(w) PROVE GoesOn(w)
    BY <1>4, ReindexGoesOn, ListGoesOn, NextConversationGoesOn, RetrieveGoesOn DEF ReindexStep
  <1>5. Moved(w) /\ UNCHANGED lock
    BY IngestMoves, OtherMoves DEF Progress
  <1>6. pc[w] # "idle"
    <2>1. IngestStep(w) => pc[w] # "idle"
      BY DEF IngestStep, Lookup, Inspect, Repair, Refresh, Complete, Existing, Classify, Rewrite,
           AppendMessages, Summarize, Resave, Insert, Resolve
    <2>2. IndexStep(w) \/ ProviderFails(w) => pc[w] # "idle"
      BY DEF IndexStep, DeleteVectors, UpsertVectors, MarkIndexed, MarkFailed, ExtractFacts, ProviderFails
    <2>3. ReviewStep(w) \/ ReindexStep(w) \/ Retrieve(w) => pc[w] # "idle"
      BY DEF ReviewStep, Review, Hold, Decide, Approve, ApproveFacts, Reject, ReindexStep, Reindex, List,
             NextConversation, Retrieve
    <2> QED
      BY <2>1, <2>2, <2>3 DEF Progress
  <1> QED
    BY <1>1, <1>2, <1>3, <1>4, <1>5, <1>6 DEF Progress

-----------------------------------------------------------------------------
(* The write lock, however many hubs there are: a running write holds that  *)
(* of its hub.                                                              *)

LockOK == \A w \in Workers : pc[w] # "idle" /\ job[w].op \in LockedOps => lock[HubOf[w]] = w

Serial == Answers /\ LockOK

LEMMA StartSerial ==
    ASSUME Inv, Serial, NEW w \in Workers, NEW op \in Ops, NEW r, Start(w, op, r)
    PROVE  /\ Serial' /\ Moved(w) /\ pc'[w] = FirstStep(op, r) /\ job'[w] = NewJob(op, r)
           /\ UNCHANGED stores
  <1>1. /\ Moved(w) /\ pc'[w] = FirstStep(op, r) /\ job'[w] = NewJob(op, r) /\ UNCHANGED stores
    BY DEF Start, Moved, Inv, TypeOK, WorkerTypes
  <1>2. job'[w].op = op
    BY <1>1 DEF NewJob
  <1>3. /\ op \in LockedOps => lock[HubOf[w]] = None
        /\ lock' = IF op \in LockedOps THEN [lock EXCEPT ![HubOf[w]] = w] ELSE lock
    BY DEF Start, LockFree
  <1>4. lock \in [Hubs -> Workers \cup {None}] /\ HubOf \in [Workers -> Hubs] /\ None \notin Workers
    BY IngestionAssumption DEF Inv, TypeOK, WorkerTypes
  <1>5. LockOK'
    <2> SUFFICES ASSUME NEW v \in Workers, pc'[v] # "idle", job'[v].op \in LockedOps
                 PROVE  lock'[HubOf[v]] = v
      BY DEF LockOK
    <2>1. CASE v = w
      BY <1>2, <1>3, <1>4, <2>1
    <2>2. CASE v # w
      <3>1. lock[HubOf[v]] = v
        BY <1>1, <2>2 DEF Moved, Serial, LockOK
      <3> QED
        BY <1>3, <1>4, <3>1
    <2> QED
      BY <2>1, <2>2
  <1>6. Answers'
    <2>1. pc'[w] \notin Ended
      BY <1>1, FirstStepIs DEF Ended
    <2> QED
      BY <1>1, <2>1 DEF Answers, Moved, Serial
  <1> QED
    BY <1>1, <1>5, <1>6 DEF Serial

LEMMA EndSerial ==
    ASSUME Inv, Serial
    PROVE  /\ \A w \in Workers : Finish(w) => Serial'
           /\ \A h \in Hubs : Crash(h) => Serial'
  <1>1. lock \in [Hubs -> Workers \cup {None}] /\ HubOf \in [Workers -> Hubs]
    BY IngestionAssumption DEF Inv, TypeOK, WorkerTypes
  <1>2. ASSUME NEW w \in Workers, Finish(w) PROVE LockOK' /\ Answers'
    BY <1>1, <1>2 DEF Finish, LockOK, Answers, Ended, Serial, Inv, TypeOK, WorkerTypes
  <1>3. ASSUME NEW h \in Hubs, Crash(h) PROVE LockOK' /\ Answers'
    BY <1>1, <1>3 DEF Crash, LockOK, Answers, Ended, Serial
  <1> QED
    BY <1>2, <1>3 DEF Serial

LEMMA ProgressSerial ==
    ASSUME Inv, Serial, NEW w \in Workers, Progress(w) \/ ProviderFails(w), ~Finish(w)
    PROVE  /\ Serial' /\ Moved(w) /\ pc[w] # "idle" /\ job'[w].op = job[w].op
           /\ pc'[w] \in Ended => OutcomeOK(job'[w])
  <1>1. GoesOn(w) /\ Moved(w) /\ UNCHANGED lock /\ pc[w] # "idle"
    BY ProgressGoesOn DEF Serial
  <1>2. Answers' /\ LockOK'
    BY <1>1 DEF Serial, Answers, LockOK, GoesOn, Moved
  <1> QED
    BY <1>1, <1>2 DEF Serial, GoesOn

LEMMA SerialStep ==
    ASSUME Inv, Serial, [Next]_vars
    PROVE  Serial'
  <1>1. ASSUME UNCHANGED vars PROVE Serial'
    BY <1>1 DEF vars, Serial, Answers, LockOK
  <1>2. ASSUME NEW w \in Workers, Submit(w) \/ Refer(w) \/ Maintain(w) PROVE Serial'
    BY <1>2, Starts, StartSerial
  <1> QED
    BY <1>1, <1>2, EndSerial, ProgressSerial DEF Next, Progress

(* A hub runs one write at a time: a worker whose operation takes the write *)
(* lock holds it from its first step to its last, across every step, error  *)
(* and crash, and an operation only ever gives its own kind of answer.      *)
THEOREM WritesAreSerial == Spec => []Serial
  <1>1. Init => Serial
    BY DEF Init, Serial, Answers, LockOK, Ended
  <1>2. Inv /\ Serial /\ [Next]_vars => Serial'
    BY SerialStep
  <1> QED
    BY <1>1, <1>2, WellFormed, PTL DEF Spec
-----------------------------------------------------------------------------
(* One hub.  Its write lock serialises every operation but retrieve and     *)
(* reindex, and those change nothing of a conversation but the states in    *)
(* its manifest, so what the running write knows of the store stays true.   *)

OneHub == \A v, w \in Workers : HubOf[v] = HubOf[w]

(* A conversation but for its manifest.                                     *)
Core(c) == [c EXCEPT !.chunks = <<>>]

(* A copy of a conversation is up to date.                                  *)
Sync(c) == convs[c.id] # None /\ Core(convs[c.id]) = Core(c)

Active(id) == convs[id] # None /\ convs[id].status = "active"
SameHash(id, r) == conversation_hash(convs[id]) = conversation_hash(r)
NoActive(r) == \A id \in Ids : Active(id) => ~SameHash(id, r)
Fresh(id) == summaries[id] = convs[id].msgs
Whole(id) == chunk_selected_messages(id, convs[id].msgs, 0)

Deduplicating(at, j) ==
    at \in {"existing", "same_thread", "insert", "resolve"} \/ (at = "summarize" /\ j.read = None)

(* What a write that holds the lock knows: the copy it carries is up to     *)
(* date; a payload without a duplicate has no active one, and one with a    *)
(* duplicate repairs that; facts are only extracted for an active memory    *)
(* with a fresh summary.                                                    *)
SoloOK(at, j) ==
    /\ at \in Reading \cup Carrying \/ (at = "summarize" /\ j.read # None) => Sync(j.read)
    /\ at \in Reading =>
         j.read.status = "active" /\ conversation_hash(j.read) = conversation_hash(j.req)
    /\ at \in {"lookup", "review", "hold", "insert", "resolve"} => j.dup = None /\ j.read = None
    /\ at \in {"review", "hold"} => j.op = "hold" \/ j.req.sensitive
    /\ Deduplicating(at, j) =>
         /\ j.dup = None /\ j.op # "hold" /\ ~j.req.sensitive => NoActive(j.req)
         /\ j.dup # None => j.req.id = j.dup /\ Active(j.dup) /\ SameHash(j.dup, j.req)
    /\ at = "insert" => summaries[j.req.id] = j.req.msgs
    /\ at = "resave" => summaries[j.read.id] = j.read.msgs
    /\ at \in Indexing =>
         /\ j.extract # {} => Active(j.target) /\ Fresh(j.target)
         /\ (j.extract = {} \/ j.read = None) /\ Active(j.target) => j.chunks = Whole(j.target)
    /\ j.op = "approve" /\ at \notin {"decide", "approve", "done"} => Active(j.req.id)
    /\ at \in {"done", "approve_facts"} /\ j.outcome \in {"inserted", "appended"} =>
         j.target \in Stored /\ Fresh(j.target)

SoloInv == \A w \in Workers : pc[w] # "idle" /\ job[w].op \in LockedOps => SoloOK(pc[w], job[w])

(* Only active memories have facts.                                         *)
FactsOK == \A id \in Ids : facts[id] # {} => Active(id)

Solo == SoloInv /\ FactsOK

LEMMA SoloIs ==
    ASSUME Inv, Solo, NEW w \in Workers, pc[w] # "idle", job[w].op \in LockedOps
    PROVE  SoloOK(pc[w], job[w])
  BY DEF Solo, SoloInv

(* Nothing but manifests changed.                                           *)
CoresKept == Stored' = Stored /\ \A id \in Stored : Core(convs'[id]) = Core(convs[id])

LEMMA CoreIs ==
    ASSUME NEW c \in Conversations, NEW d \in Conversations, Core(c) = Core(d)
    PROVE  /\ c.id = d.id /\ c.project = d.project /\ c.msgs = d.msgs /\ c.status = d.status
           /\ c.session = d.session /\ c.thread = d.thread /\ c.origin = d.origin
           /\ c.sensitive = d.sensitive
  BY DEF Core, Conversations

LEMMA CoresKeep ==
    ASSUME StoreTypes, StoreTypes', CoresKept
    PROVE  /\ \A id \in Ids : Active(id)' <=> Active(id)
           /\ \A id \in Stored : /\ convs'[id].msgs = convs[id].msgs
                                 /\ convs'[id].project = convs[id].project
                                 /\ convs'[id].status = convs[id].status
  <1>1. ASSUME NEW id \in Stored
        PROVE  /\ convs[id] \in Conversations /\ convs'[id] \in Conversations
               /\ Core(convs'[id]) = Core(convs[id]) /\ convs'[id] # None
    BY <1>1 DEF StoreTypes, Stored, CoresKept
  <1>2. ASSUME NEW id \in Stored
        PROVE  /\ convs'[id].msgs = convs[id].msgs /\ convs'[id].project = convs[id].project
               /\ convs'[id].status = convs[id].status
    BY <1>1, <1>2, CoreIs
  <1>3. \A id \in Ids \ Stored : convs[id] = None /\ convs'[id] = None
    BY DEF Stored, CoresKept
  <1> QED
    BY <1>1, <1>2, <1>3 DEF Active, Stored

LEMMA SoloFrame ==
    ASSUME Inv, StoreTypes', CoresKept, UNCHANGED summaries, NEW at, NEW j \in Jobs,
           JobOK(at, j), SoloOK(at, j)
    PROVE  SoloOK(at, j)'
  <1>1. /\ \A id \in Ids : Active(id)' <=> Active(id)
        /\ \A id \in Stored : /\ convs'[id].msgs = convs[id].msgs
                              /\ convs'[id].project = convs[id].project
    BY CoresKeep DEF Inv, TypeOK
  <1>2. \A id \in Stored : /\ Fresh(id)' <=> Fresh(id)
                           /\ Whole(id)' = Whole(id)
                           /\ \A r : SameHash(id, r)' <=> SameHash(id, r)
    BY <1>1 DEF Fresh, Whole, SameHash, conversation_hash
  <1>3. \A id \in Ids : Active(id) => id \in Stored
    BY DEF Active, Stored
  <1>4. \A r : NoActive(r)' <=> NoActive(r)
    BY <1>1, <1>2, <1>3 DEF NoActive
  <1>5. \A c \in Conversations : Sync(c)' <=> Sync(c)
    BY DEF Sync, CoresKept, Stored, Conversations
  <1>6. /\ j.read # None => j.read \in Conversations
        /\ at \in Reading \cup Carrying => j.read # None
        /\ j.dup # None => j.dup \in Stored
        /\ at \in Indexing => j.target \in Stored
        /\ j.op # "reindex" => j.req.id \in Ids
        /\ Stored \subseteq Ids
    BY DEF Jobs, JobOK, Payloads, Stored
  <1>7. /\ at \in Reading \cup Carrying \/ (at = "summarize" /\ j.read # None) => Sync(j.read)'
        /\ Deduplicating(at, j) =>
             /\ j.dup = None /\ j.op # "hold" /\ ~j.req.sensitive => NoActive(j.req)'
             /\ j.dup # None => j.req.id = j.dup /\ Active(j.dup)' /\ SameHash(j.dup, j.req)'
    BY <1>1, <1>2, <1>4, <1>5, <1>6 DEF SoloOK
  <1>8. /\ at = "insert" => summaries'[j.req.id] = j.req.msgs
        /\ at = "resave" => summaries'[j.read.id] = j.read.msgs
    BY DEF SoloOK
  <1>9. at \in Indexing =>
           /\ j.extract # {} => Active(j.target)' /\ Fresh(j.target)'
           /\ (j.extract = {} \/ j.read = None) /\ Active(j.target)' => j.chunks = Whole(j.target)'
    BY <1>1, <1>2, <1>6 DEF SoloOK
  <1>10. /\ j.op = "approve" /\ at \notin {"decide", "approve", "done"} => Active(j.req.id)'
         /\ at \in {"done", "approve_facts"} /\ j.outcome \in {"inserted", "appended"} =>
              j.target \in Stored' /\ Fresh(j.target)'
    BY <1>1, <1>2, <1>6 DEF SoloOK, CoresKept
  <1> QED
    BY <1>7, <1>8, <1>9, <1>10 DEF SoloOK, Deduplicating

LEMMA UnchangedCores ==
    ASSUME UNCHANGED convs
    PROVE  CoresKept
  BY DEF CoresKept, Stored

(* The last step of an action that leaves the conversations alone.          *)
LEMMA StaySolo ==
    ASSUME Inv, Inv', NEW w \in Workers, NEW j, NEW at, at # "idle", Step(w, j, at), CoresKept,
           UNCHANGED summaries, SoloOK(at, j)
    PROVE  SoloOK(pc[w], job[w])'
  <1>1. pc'[w] = at /\ job'[w] = j
    BY StepMoves
  <1>2. j \in Jobs /\ JobOK(at, j)'
    <2>1. j \in Jobs \cup {None} /\ j # None
      BY <1>1 DEF Inv, TypeOK, WorkerTypes
    <2> QED
      BY <1>1, <2>1 DEF Inv, JobsOK
  <1>3. JobOK(at, j)
    BY <1>2 DEF JobOK, CoresKept
  <1>4. SoloOK(at, j)'
    BY <1>2, <1>3, SoloFrame DEF Inv, TypeOK
  <1> QED
    BY <1>1, <1>4

LEMMA AnswerSolo ==
    ASSUME Inv, Inv', NEW w \in Workers, NEW j \in Jobs, NEW outcome \in Outcomes,
           Return(w, j, outcome), CoresKept, UNCHANGED summaries,
           j.op = "approve" /\ outcome # "error" => Active(j.req.id),
           outcome \in {"inserted", "appended"} => j.target \in Stored /\ Fresh(j.target)
    PROVE  SoloOK(pc[w], job[w])'
  <1>1. PICK k, at : k = [j EXCEPT !.outcome = outcome] /\ at = Answered(j, outcome)
    OBVIOUS
  <1>2. k.op = j.op /\ k.req = j.req /\ k.target = j.target /\ k.outcome = outcome
    BY <1>1 DEF Jobs
  <1>3. at = IF j.op = "approve" /\ outcome # "error" THEN "approve_facts" ELSE "done"
    BY <1>1 DEF Answered
  <1>4. SoloOK(at, k)
    BY <1>2, <1>3 DEF SoloOK, Reading, Carrying, Indexing, Deduplicating
  <1>5. Step(w, k, at) /\ at # "idle"
    BY <1>1, <1>3 DEF Return, Answered
  <1> QED
    BY <1>4, <1>5, StaySolo

-----------------------------------------------------------------------------
(* The steps of a write on one hub that change no conversation.             *)

LEMMA LookupSolo ==
    ASSUME Inv, Inv', Solo, NEW w \in Workers, job[w].op \in LockedOps, Lookup(w)
    PROVE  SoloOK(pc[w], job[w])'
  <1>1. PICK j : j = job[w]
    OBVIOUS
  <1>2. j \in Jobs /\ JobOK("lookup", j) /\ SoloOK("lookup", j) /\ j.op \in LockedOps
    <2>1. pc[w] = "lookup"
      BY DEF Lookup
    <2> QED
      BY <1>1, <2>1, Running, SoloIs
  <1>3. CoresKept /\ UNCHANGED summaries
    BY UnchangedCores DEF Lookup, stores
  <1>4. CASE NoActive(j.req) /\ Step(w, j, "existing")
    <2>1. SoloOK("existing", j)
      BY <1>2, <1>4 DEF SoloOK, Deduplicating, Reading, Carrying, Indexing
    <2> QED
      BY <1>3, <1>4, <2>1, StaySolo
  <1>5. ASSUME NEW id \in ByHash(j.req), convs[id].status = "active", NEW at \in {"inspect", "complete"},
               Step(w, [j EXCEPT !.dup = id, !.read = convs[id]], at)
        PROVE  SoloOK(pc[w], job[w])'
    <2>1. PICK k, c : c = convs[id] /\ k = [j EXCEPT !.dup = id, !.read = c]
      OBVIOUS
    <2>2. c \in Conversations /\ c.id = id /\ id \in Ids /\ c # None
      BY <2>1, StoredIs DEF ByHash, Inv, TypeOK, StoredOK
    <2>3. k.op = j.op /\ k.req = j.req /\ k.dup = id /\ k.read = c
      BY <1>2, <2>1, <2>2 DEF Jobs
    <2>4. Sync(c) /\ c.status = "active" /\ conversation_hash(c) = conversation_hash(j.req)
      BY <1>5, <2>1, <2>2 DEF Sync, ByHash
    <2>5. SoloOK(at, k)
      BY <1>2, <1>5, <2>2, <2>3, <2>4 DEF SoloOK, Deduplicating, Reading, Carrying, Indexing
    <2> QED
      BY <1>3, <1>5, <2>1, <2>5, StaySolo
  <1>6. {id \in ByHash(j.req) : convs[id].status = "active"} = {} => NoActive(j.req)
    BY DEF NoActive, Active, SameHash, ByHash, Stored
  <1> QED
    BY <1>1, <1>4, <1>5, <1>6 DEF Lookup

LEMMA InspectSolo ==
    ASSUME Inv, Inv', Solo, NEW w \in Workers, job[w].op \in LockedOps, Inspect(w)
    PROVE  SoloOK(pc[w], job[w])'
  <1>1. PICK j : j = job[w]
    OBVIOUS
  <1>2. j \in Jobs /\ JobOK("inspect", j) /\ SoloOK("inspect", j) /\ j.op \in LockedOps
    <2>1. pc[w] = "inspect"
      BY DEF Inspect
    <2> QED
      BY <1>1, <2>1, Running, SoloIs
  <1>3. CoresKept /\ UNCHANGED summaries
    BY UnchangedCores DEF Inspect, stores
  <1>4. CASE Step(w, j, "complete")
    <2>1. SoloOK("complete", j)
      BY <1>2 DEF SoloOK, Deduplicating, Reading, Carrying, Indexing
    <2> QED
      BY <1>3, <1>4, <2>1, StaySolo
  <1>5. ASSUME NEW ids, Step(w, [j EXCEPT !.marks = ids], "repair")
        PROVE  SoloOK(pc[w], job[w])'
    <2>1. PICK k : k = [j EXCEPT !.marks = ids]
      OBVIOUS
    <2>2. k.op = j.op /\ k.req = j.req /\ k.dup = j.dup /\ k.read = j.read
      BY <1>2, <2>1 DEF Jobs
    <2>3. SoloOK("repair", k)
      BY <1>2, <2>2 DEF SoloOK, Deduplicating, Reading, Carrying, Indexing
    <2> QED
      BY <1>3, <1>5, <2>1, <2>3, StaySolo
  <1> QED
    BY <1>1, <1>2, <1>4, <1>5 DEF Inspect, AfterRepair, LockedOps

LEMMA RepairSolo ==
    ASSUME Inv, Inv', Solo, NEW w \in Workers, job[w].op \in LockedOps, Repair(w)
    PROVE  SoloOK(pc[w], job[w])'
  <1>1. PICK j : j = job[w]
    OBVIOUS
  <1>2. j \in Jobs /\ JobOK("repair", j) /\ SoloOK("repair", j) /\ j.op \in LockedOps
    <2>1. pc[w] = "repair"
      BY DEF Repair
    <2> QED
      BY <1>1, <2>1, Running, SoloIs
  <1>3. UNCHANGED <<facts, summaries, vectors>> /\ Step(w, j, "refresh")
        /\ MarkChunks(j.dup, j.marks, "indexed") /\ j.dup \in Stored
    BY <1>1, <1>2 DEF Repair, JobOK, Reading
  <1>4. CoresKept
    BY <1>3, MarkKeeps DEF CoresKept, Core, IndexStates
  <1>5. SoloOK("refresh", j)
    BY <1>2 DEF SoloOK, Deduplicating, Reading, Carrying, Indexing
  <1> QED
    BY <1>3, <1>4, <1>5, StaySolo

LEMMA RefreshSolo ==
    ASSUME Inv, Inv', Solo, NEW w \in Workers, job[w].op \in LockedOps, Refresh(w)
    PROVE  SoloOK(pc[w], job[w])'
  <1>1. PICK j : j = job[w]
    OBVIOUS
  <1>2. j \in Jobs /\ JobOK("refresh", j) /\ SoloOK("refresh", j) /\ j.op \in LockedOps
    <2>1. pc[w] = "refresh"
      BY DEF Refresh
    <2> QED
      BY <1>1, <2>1, Running, SoloIs
  <1>3. CoresKept /\ UNCHANGED summaries
    BY UnchangedCores DEF Refresh, stores
  <1>4. PICK c, k : c = convs[j.dup] /\ k = [j EXCEPT !.read = c]
    OBVIOUS
  <1>5. Step(w, k, "complete")
    <2>1. k.op # "retrieve"
      BY <1>2, <1>4 DEF Jobs, LockedOps
    <2> QED
      BY <1>1, <1>4, <2>1 DEF Refresh, AfterRepair
  <1>6. c \in Conversations /\ c.id = j.dup /\ c # None
    <2>1. j.dup \in Stored
      BY <1>2 DEF JobOK, Reading
    <2> QED
      BY <1>4, <2>1, StoredIs DEF Inv, TypeOK, StoredOK
  <1>7. k.op = j.op /\ k.req = j.req /\ k.dup = j.dup /\ k.read = c
    BY <1>2, <1>4, <1>6 DEF Jobs
  <1>8. j.read \in Conversations /\ j.read.id = j.dup /\ Core(c) = Core(j.read)
    BY <1>2, <1>4 DEF JobOK, Jobs, SoloOK, Sync, Reading
  <1>9. c.status = j.read.status /\ conversation_hash(c) = conversation_hash(j.read)
    BY <1>6, <1>8, CoreIs DEF conversation_hash
  <1>10. Sync(c)
    BY <1>4, <1>6 DEF Sync
  <1>11. SoloOK("complete", k)
    BY <1>2, <1>7, <1>9, <1>10 DEF SoloOK, Deduplicating, Reading, Carrying, Indexing
  <1> QED
    BY <1>3, <1>5, <1>11, StaySolo

LEMMA CompleteSolo ==
    ASSUME Inv, Inv', Solo, NEW w \in Workers, job[w].op \in LockedOps, Complete(w)
    PROVE  SoloOK(pc[w], job[w])'
  <1>1. PICK j : j = job[w]
    OBVIOUS
  <1>2. j \in Jobs /\ JobOK("complete", j) /\ SoloOK("complete", j) /\ j.op \in LockedOps
    <2>1. pc[w] = "complete"
      BY DEF Complete
    <2> QED
      BY <1>1, <2>1, Running, SoloIs
  <1>3. CoresKept /\ UNCHANGED summaries
    BY UnchangedCores DEF Complete, stores
  <1>4. PICK d : d = j.dup
    OBVIOUS
  <1>5. d \in Ids /\ d # None /\ j.read \in Conversations /\ j.read.id = d /\ convs[d] \in Conversations
    BY <1>2, <1>4, StoredIs DEF JobOK, Jobs, Reading, Inv, TypeOK
  <1>6. /\ convs[d] # None /\ Core(convs[d]) = Core(j.read) /\ j.read.status = "active"
        /\ conversation_hash(j.read) = conversation_hash(j.req)
    BY <1>2, <1>5 DEF SoloOK, Reading, Sync
  <1>7. Active(d) /\ SameHash(d, j.req)
    BY <1>5, <1>6, CoreIs DEF Active, SameHash, conversation_hash
  <1>8. CASE Return(w, [j EXCEPT !.target = d], "deduplicated")
    <2>1. PICK k : k = [j EXCEPT !.target = d]
      OBVIOUS
    <2>2. k \in Jobs /\ k.op = j.op /\ k.req = j.req
      BY <1>2, <1>5, <2>1 DEF Jobs
    <2>3. j.op = "approve" => Active(k.req.id)
      BY <1>2, <2>2 DEF SoloOK
    <2> QED
      BY <1>3, <1>8, <2>1, <2>2, <2>3, AnswerSolo DEF Outcomes
  <1>9. CASE Step(w, [j EXCEPT !.req.id = d], "existing")
    <2>1. PICK r, k : r = [j.req EXCEPT !.id = d] /\ k = [j EXCEPT !.req = r]
      OBVIOUS
    <2>2. j.req \in Payloads
      BY <1>2 DEF JobOK, Jobs, OpOK, Ingesting
    <2>3. r.id = d /\ conversation_hash(r) = conversation_hash(j.req) /\ r.sensitive = j.req.sensitive
      BY <2>1, <2>2 DEF Payloads, conversation_hash
    <2>4. k.op = j.op /\ k.req = r /\ k.dup = d
      BY <1>2, <1>4, <2>1 DEF Jobs
    <2>5. [j EXCEPT !.req.id = d] = k
      BY <1>2, <2>1 DEF Jobs
    <2>6. SameHash(d, r)
      BY <1>7, <2>3 DEF SameHash
    <2>7. SoloOK("existing", k)
      BY <1>5, <1>7, <2>3, <2>4, <2>6 DEF SoloOK, Deduplicating, Reading, Carrying, Indexing
    <2> QED
      BY <1>3, <1>9, <2>5, <2>7, StaySolo
  <1> QED
    BY <1>1, <1>4, <1>8, <1>9 DEF Complete

LEMMA ExistingSolo ==
    ASSUME Inv, Inv', Solo, NEW w \in Workers, job[w].op \in LockedOps, Existing(w)
    PROVE  SoloOK(pc[w], job[w])'
  <1>1. PICK j : j = job[w]
    OBVIOUS
  <1>2. j \in Jobs /\ JobOK("existing", j) /\ SoloOK("existing", j) /\ j.op \in LockedOps
    <2>1. pc[w] = "existing"
      BY DEF Existing
    <2> QED
      BY <1>1, <2>1, Running, SoloIs
  <1>3. CoresKept /\ UNCHANGED summaries
    BY UnchangedCores DEF Existing, stores
  <1>4. CASE Return(w, j, "error")
    BY <1>2, <1>3, <1>4, AnswerSolo DEF Outcomes
  <1>5. CASE Step(w, j, "same_thread")
    <2>1. SoloOK("same_thread", j)
      BY <1>2 DEF SoloOK, Deduplicating, Reading, Carrying, Indexing
    <2> QED
      BY <1>3, <1>5, <2>1, StaySolo
  <1> QED
    BY <1>1, <1>4, <1>5 DEF Existing

LEMMA ClassifySolo ==
    ASSUME Inv, Inv', Solo, NEW w \in Workers, job[w].op \in LockedOps, Classify(w)
    PROVE  SoloOK(pc[w], job[w])'
  <1>1. PICK j : j = job[w]
    OBVIOUS
  <1>2. j \in Jobs /\ JobOK("same_thread", j) /\ SoloOK("same_thread", j) /\ j.op \in LockedOps
    <2>1. pc[w] = "same_thread"
      BY DEF Classify
    <2> QED
      BY <1>1, <2>1, Running, SoloIs
  <1>3. CoresKept /\ UNCHANGED summaries
    BY UnchangedCores DEF Classify, stores
  <1>4. j.op = "approve" => Active(j.req.id)
    BY <1>2 DEF SoloOK
  <1>5. CASE Return(w, j, "error")
    BY <1>2, <1>3, <1>5, AnswerSolo DEF Outcomes
  <1>6. CASE Step(w, [j EXCEPT !.read = None], "summarize")
    <2>1. PICK k : k = [j EXCEPT !.read = None]
      OBVIOUS
    <2>2. k.op = j.op /\ k.req = j.req /\ k.dup = j.dup /\ k.read = None
      BY <1>2, <2>1 DEF Jobs
    <2>3. SoloOK("summarize", k)
      BY <1>2, <2>2 DEF SoloOK, Deduplicating, Reading, Carrying, Indexing
    <2> QED
      BY <1>3, <1>6, <2>1, <2>3, StaySolo
  <1>7. ASSUME NEW id \in SameThread(j), id # None, Found(w, j, id, convs[id])
        PROVE  SoloOK(pc[w], job[w])'
    <2>1. PICK c, k, t : c = convs[id] /\ k = [j EXCEPT !.read = c] /\ t = [k EXCEPT !.target = id]
      OBVIOUS
    <2>2. c \in Conversations /\ c.id = id /\ id \in Ids /\ c # None
      BY <1>7, <2>1, SameThreadIs, StoredIs DEF Inv, TypeOK, StoredOK
    <2>3. k \in Jobs /\ k.op = j.op /\ k.req = j.req /\ k.dup = j.dup /\ k.read = c
      BY <1>2, <2>1, <2>2 DEF Jobs
    <2>4. t \in Jobs /\ t.op = j.op /\ t.req = j.req
      BY <2>1, <2>2, <2>3 DEF Jobs
    <2>5. Sync(c)
      BY <2>1, <2>2 DEF Sync
    <2>6. CASE Return(w, t, "stale") \/ Return(w, t, "deduplicated")
      BY <1>3, <1>4, <2>4, <2>6, AnswerSolo DEF Outcomes
    <2>7. CASE Return(w, k, "error")
      BY <1>3, <2>3, <2>7, AnswerSolo DEF Outcomes
    <2>8. CASE Step(w, k, "append")
      <3>1. SoloOK("append", k)
        BY <1>4, <2>2, <2>3, <2>5 DEF SoloOK, Deduplicating, Reading, Carrying, Indexing
      <3> QED
        BY <1>3, <2>8, <3>1, StaySolo
    <2>9. CASE Step(w, Reindexing(k, id, id), "rewrite")
      <3>1. PICK m : m = Reindexing(k, id, id)
        OBVIOUS
      <3>2. m.op = j.op /\ m.req = j.req /\ m.dup = j.dup /\ m.read = c
        <4>1. j.req \in Payloads
          BY <1>2 DEF JobOK, Jobs, OpOK, Ingesting
        <4> QED
          BY <2>2, <2>3, <3>1, <4>1, ReindexingIs
      <3>3. SoloOK("rewrite", m)
        BY <1>4, <2>2, <2>5, <3>2 DEF SoloOK, Deduplicating, Reading, Carrying, Indexing
      <3> QED
        BY <1>3, <2>9, <3>1, <3>3, StaySolo
    <2> QED
      BY <1>7, <2>1, <2>6, <2>7, <2>8, <2>9 DEF Found
  <1> QED
    BY <1>1, <1>5, <1>6, <1>7, Classified

(* An action that leaves every conversation as it was.                      *)
LEMMA ConvsSame ==
    ASSUME UNCHANGED convs
    PROVE  /\ \A c : Sync(c)' <=> Sync(c)
           /\ \A r : NoActive(r)' <=> NoActive(r)
           /\ \A id : (Active(id)' <=> Active(id)) /\ Whole(id)' = Whole(id)
           /\ \A id, r : SameHash(id, r)' <=> SameHash(id, r)
           /\ Stored' = Stored
  BY DEF Sync, NoActive, Active, Whole, SameHash, Stored, conversation_hash

LEMMA ArriveSolo ==
    ASSUME Inv, NEW w \in Workers, NEW j, NEW at, Step(w, j, at), SoloOK(at, j)'
    PROVE  SoloOK(pc[w], job[w])'
  BY StepMoves

LEMMA SummarizeSolo ==
    ASSUME Inv, Inv', Solo, NEW w \in Workers, job[w].op \in LockedOps, Summarize(w)
    PROVE  SoloOK(pc[w], job[w])'
  <1>1. PICK j : j = job[w]
    OBVIOUS
  <1>2. j \in Jobs /\ JobOK("summarize", j) /\ SoloOK("summarize", j) /\ j.op \in LockedOps
    <2>1. pc[w] = "summarize"
      BY DEF Summarize
    <2> QED
      BY <1>1, <2>1, Running, SoloIs
  <1>3. UNCHANGED convs
    BY DEF Summarize
  <1>4. PICK c : c = Summarized(j)
    OBVIOUS
  <1>5. summaries' = [summaries EXCEPT ![c.id] = c.msgs] /\ j.req \in Payloads
    BY <1>1, <1>2, <1>4 DEF Summarize, JobOK, Jobs, OpOK, Ingesting
  <1>6. c.id \in Ids
    BY <1>2, <1>4, <1>5 DEF Summarized, Jobs, Conversations, Payloads
  <1>7. summaries'[c.id] = c.msgs
    BY <1>5, <1>6 DEF Inv, TypeOK, StoreTypes
  <1>8. CASE j.read # None /\ Step(w, j, "resave")
    <2>1. SoloOK("resave", j)'
      BY <1>2, <1>3, <1>4, <1>7, <1>8, ConvsSame DEF Summarized, SoloOK, Deduplicating, Reading, Carrying, Indexing
    <2> QED
      BY <1>8, <2>1, ArriveSolo
  <1>9. CASE j.read = None /\ j.dup = None /\ Step(w, j, "insert")
    <2>1. SoloOK("insert", j)'
      BY <1>2, <1>3, <1>4, <1>7, <1>9, ConvsSame DEF Summarized, SoloOK, Deduplicating, Reading, Carrying, Indexing
    <2> QED
      BY <1>9, <2>1, ArriveSolo
  <1>10. CASE j.read = None /\ j.dup # None /\ Step(w, Reindexing(j, j.req.id, j.dup), "embed")
    <2>1. PICK k, d : d = j.dup /\ k = Reindexing(j, j.req.id, d)
      OBVIOUS
    <2>2. /\ j.req.id = d /\ d \in Ids /\ Active(d) /\ SameHash(d, j.req)
      BY <1>2, <1>10, <2>1 DEF SoloOK, Deduplicating, Jobs
    <2>3. /\ k.op = j.op /\ k.req = j.req /\ k.target = d /\ k.extract = {}
          /\ k.chunks = chunk_selected_messages(d, j.req.msgs, 0)
      BY <1>2, <1>5, <2>1, <2>2, ReindexingIs
    <2>4. k.chunks = Whole(d)
      BY <2>2, <2>3 DEF Whole, SameHash, conversation_hash
    <2>5. SoloOK("embed", k)'
      BY <1>2, <1>3, <2>3, <2>4, ConvsSame DEF SoloOK, Deduplicating, Reading, Carrying, Indexing
    <2> QED
      BY <1>10, <2>1, <2>5, ArriveSolo
  <1> QED
    BY <1>1, <1>8, <1>9, <1>10 DEF Summarize

LEMMA ResolveSolo ==
    ASSUME Inv, Inv', Solo, NEW w \in Workers, job[w].op \in LockedOps, Resolve(w)
    PROVE  SoloOK(pc[w], job[w])'
  <1>1. PICK j : j = job[w]
    OBVIOUS
  <1>2. j \in Jobs /\ JobOK("resolve", j) /\ SoloOK("resolve", j) /\ j.op \in LockedOps
    <2>1. pc[w] = "resolve"
      BY DEF Resolve
    <2> QED
      BY <1>1, <2>1, Running, SoloIs
  <1>3. CoresKept /\ UNCHANGED summaries
    BY UnchangedCores DEF Resolve, stores
  <1>4. CASE Return(w, j, "error")
    BY <1>2, <1>3, <1>4, AnswerSolo DEF Outcomes
  <1>5. ASSUME NEW id \in ByHash(j.req), Return(w, [j EXCEPT !.target = id], "held")
        PROVE  SoloOK(pc[w], job[w])'
    <2>1. PICK k : k = [j EXCEPT !.target = id]
      OBVIOUS
    <2>2. k \in Jobs /\ k.op = j.op /\ k.req = j.req
      BY <1>2, <2>1 DEF Jobs, ByHash, Stored
    <2>3. k.op = "approve" => Active(k.req.id)
      BY <1>2, <2>2 DEF SoloOK
    <2> QED
      BY <1>3, <1>5, <2>1, <2>2, <2>3, AnswerSolo DEF Outcomes
  <1>6. ASSUME NEW id \in ByHash(j.req), j.op # "hold", ~j.req.sensitive,
               Step(w, Reindexing(j, j.req.id, id), "embed")
        PROVE  SoloOK(pc[w], job[w])'
    <2>1. PICK k : k = Reindexing(j, j.req.id, id)
      OBVIOUS
    <2>2. j.req \in Payloads /\ j.req.id \in Ids /\ id \in Ids /\ SameHash(id, j.req)
      BY <1>2 DEF JobOK, Jobs, OpOK, Payloads, ByHash, Stored, SameHash
    <2>3. k.op = j.op /\ k.req = j.req /\ k.target = id /\ k.extract = {}
      BY <1>2, <2>1, <2>2, ReindexingIs
    <2>4. ~Active(id)
      BY <1>2, <1>6, <2>2 DEF SoloOK, Deduplicating, NoActive
    <2>5. SoloOK("embed", k)
      BY <1>2, <2>3, <2>4 DEF SoloOK, Deduplicating, Reading, Carrying, Indexing
    <2> QED
      BY <1>3, <1>6, <2>1, <2>5, StaySolo
  <1> QED
    BY <1>1, <1>4, <1>5, <1>6 DEF Resolve

LEMMA ReviewSolo ==
    ASSUME Inv, Inv', Solo, NEW w \in Workers, job[w].op \in LockedOps, Review(w)
    PROVE  SoloOK(pc[w], job[w])'
  <1>1. PICK j : j = job[w]
    OBVIOUS
  <1>2. j \in Jobs /\ JobOK("review", j) /\ SoloOK("review", j) /\ j.op \in LockedOps
    <2>1. pc[w] = "review"
      BY DEF Review
    <2> QED
      BY <1>1, <2>1, Running, SoloIs
  <1>3. CoresKept /\ UNCHANGED summaries
    BY UnchangedCores DEF Review, stores
  <1>4. CASE Return(w, j, "error")
    BY <1>2, <1>3, <1>4, AnswerSolo DEF Outcomes
  <1>5. CASE Step(w, j, "hold")
    <2>1. SoloOK("hold", j)
      BY <1>2 DEF SoloOK, Deduplicating, Reading, Carrying, Indexing
    <2> QED
      BY <1>3, <1>5, <2>1, StaySolo
  <1> QED
    BY <1>1, <1>4, <1>5 DEF Review

LEMMA DecideSolo ==
    ASSUME Inv, Inv', Solo, NEW w \in Workers, job[w].op \in LockedOps, Decide(w)
    PROVE  SoloOK(pc[w], job[w])'
  <1>1. PICK j : j = job[w]
    OBVIOUS
  <1>2. j \in Jobs /\ JobOK("decide", j) /\ SoloOK("decide", j) /\ j.op \in LockedOps
    <2>1. pc[w] = "decide"
      BY DEF Decide
    <2> QED
      BY <1>1, <2>1, Running, SoloIs
  <1>3. CoresKept /\ UNCHANGED summaries
    BY UnchangedCores DEF Decide, stores
  <1>4. CASE Return(w, j, "error")
    BY <1>2, <1>3, <1>4, AnswerSolo DEF Outcomes
  <1>5. CASE convs[j.req.id] # None /\ Step(w, [j EXCEPT !.read = convs[j.req.id], !.target = convs[j.req.id].id], j.op)
    <2>1. PICK c, k : c = convs[j.req.id] /\ k = [j EXCEPT !.read = c, !.target = c.id]
      OBVIOUS
    <2>2. j.req.id \in Stored /\ j.op \in {"approve", "reject"}
      BY <1>2, <1>5 DEF Stored, JobOK, OpOK, Jobs, Payloads
    <2>3. c \in Conversations /\ c.id = j.req.id /\ c # None /\ convs[c.id] = c
      BY <2>1, <2>2, StoredIs DEF Inv, TypeOK, StoredOK
    <2>4. k.op = j.op /\ k.req = j.req /\ k.dup = j.dup /\ k.read = c
      BY <1>2, <2>1, <2>3 DEF Jobs, Conversations
    <2>5. SoloOK(j.op, k)
      BY <2>2, <2>3, <2>4 DEF SoloOK, Deduplicating, Reading, Carrying, Indexing, Sync
    <2>6. PICK at : at = j.op
      OBVIOUS
    <2>7. Step(w, k, at) /\ SoloOK(at, k) /\ at # "idle"
      BY <1>5, <2>1, <2>2, <2>5, <2>6
    <2> QED
      BY <1>3, <2>7, StaySolo
  <1> QED
    BY <1>1, <1>4, <1>5 DEF Decide

-----------------------------------------------------------------------------
(* Indexing steps.                                                          *)

LEMMA IndexingSolo ==
    ASSUME NEW a \in Indexing, NEW b \in Indexing, NEW j, SoloOK(a, j)
    PROVE  SoloOK(b, j)
  BY DEF SoloOK, Deduplicating, Reading, Carrying, Indexing

LEMMA DeleteSolo ==
    ASSUME Inv, Inv', Solo, NEW w \in Workers, job[w].op \in LockedOps, DeleteVectors(w)
    PROVE  SoloOK(pc[w], job[w])' /\ CoresKept
  <1>1. PICK j, a : j = job[w] /\ a = pc[w]
    OBVIOUS
  <1>2. j \in Jobs /\ JobOK(a, j) /\ SoloOK(a, j) /\ j.op \in LockedOps /\ a \in {"embed"}
    <2>1. pc[w] \in {"embed"}
      BY DEF DeleteVectors
    <2> QED
      BY <1>1, <2>1, Running, SoloIs
  <1>3. CoresKept /\ UNCHANGED summaries /\ Step(w, j, "upsert")
    BY <1>1, UnchangedCores DEF DeleteVectors
  <1>4. SoloOK("upsert", j)
    BY <1>2, IndexingSolo DEF Indexing
  <1> QED
    BY <1>3, <1>4, StaySolo

LEMMA UpsertSolo ==
    ASSUME Inv, Inv', Solo, NEW w \in Workers, job[w].op \in LockedOps, UpsertVectors(w)
    PROVE  SoloOK(pc[w], job[w])' /\ CoresKept
  <1>1. PICK j, a : j = job[w] /\ a = pc[w]
    OBVIOUS
  <1>2. j \in Jobs /\ JobOK(a, j) /\ SoloOK(a, j) /\ j.op \in LockedOps /\ a \in {"embed", "upsert"}
    <2>1. pc[w] \in {"embed", "upsert"}
      BY DEF UpsertVectors
    <2> QED
      BY <1>1, <2>1, Running, SoloIs
  <1>3. CoresKept /\ UNCHANGED summaries /\ Step(w, j, "mark_indexed")
    BY <1>1, UnchangedCores DEF UpsertVectors
  <1>4. SoloOK("mark_indexed", j)
    BY <1>2, IndexingSolo DEF Indexing
  <1> QED
    BY <1>3, <1>4, StaySolo

LEMMA ProviderFailsSolo ==
    ASSUME Inv, Inv', Solo, NEW w \in Workers, job[w].op \in LockedOps, ProviderFails(w)
    PROVE  SoloOK(pc[w], job[w])' /\ CoresKept
  <1>1. PICK j, a : j = job[w] /\ a = pc[w]
    OBVIOUS
  <1>2. j \in Jobs /\ JobOK(a, j) /\ SoloOK(a, j) /\ j.op \in LockedOps /\ a \in {"embed", "upsert", "mark_indexed"}
    <2>1. pc[w] \in {"embed", "upsert", "mark_indexed"}
      BY DEF ProviderFails
    <2> QED
      BY <1>1, <2>1, Running, SoloIs
  <1>3. CoresKept /\ UNCHANGED summaries /\ Step(w, j, "mark_failed")
    BY <1>1, UnchangedCores DEF ProviderFails
  <1>4. SoloOK("mark_failed", j)
    BY <1>2, IndexingSolo DEF Indexing
  <1> QED
    BY <1>3, <1>4, StaySolo

LEMMA MarkIndexedSolo ==
    ASSUME Inv, Inv', Solo, NEW w \in Workers, job[w].op \in LockedOps, MarkIndexed(w)
    PROVE  SoloOK(pc[w], job[w])' /\ CoresKept
  <1>1. PICK j, a : j = job[w] /\ a = pc[w]
    OBVIOUS
  <1>2. j \in Jobs /\ JobOK(a, j) /\ SoloOK(a, j) /\ j.op \in LockedOps /\ a \in {"mark_indexed"}
    <2>1. pc[w] \in {"mark_indexed"}
      BY DEF MarkIndexed
    <2> QED
      BY <1>1, <2>1, Running, SoloIs
  <1>3. /\ UNCHANGED <<facts, summaries, vectors>> /\ MarkChunks(j.target, ChunkIds(j.chunks), "indexed")
        /\ Step(w, j, "facts") /\ j.target \in Stored
    BY <1>1, <1>2 DEF MarkIndexed, LockedOps, JobOK, Indexing
  <1>4. CoresKept
    BY <1>3, MarkKeeps DEF CoresKept, Core, IndexStates
  <1>5. SoloOK("facts", j)
    BY <1>2, IndexingSolo DEF Indexing
  <1> QED
    BY <1>3, <1>4, <1>5, StaySolo

LEMMA MarkFailedSolo ==
    ASSUME Inv, Inv', Solo, NEW w \in Workers, job[w].op \in LockedOps, MarkFailed(w)
    PROVE  SoloOK(pc[w], job[w])' /\ CoresKept
  <1>1. PICK j, a : j = job[w] /\ a = pc[w]
    OBVIOUS
  <1>2. j \in Jobs /\ JobOK(a, j) /\ SoloOK(a, j) /\ j.op \in LockedOps /\ a \in {"mark_failed"}
    <2>1. pc[w] \in {"mark_failed"}
      BY DEF MarkFailed
    <2> QED
      BY <1>1, <2>1, Running, SoloIs
  <1>3. /\ UNCHANGED <<facts, summaries, vectors>> /\ MarkChunks(j.target, ChunkIds(j.chunks), "indexing_failed")
        /\ Return(w, j, "error") /\ j.target \in Stored
    BY <1>1, <1>2 DEF MarkFailed, LockedOps, JobOK, Indexing
  <1>4. CoresKept
    BY <1>3, MarkKeeps DEF CoresKept, Core, IndexStates
  <1> QED
    BY <1>2, <1>3, <1>4, AnswerSolo DEF Outcomes

LEMMA ExtractFactsSolo ==
    ASSUME Inv, Inv', Solo, NEW w \in Workers, job[w].op \in LockedOps, ExtractFacts(w)
    PROVE  SoloOK(pc[w], job[w])' /\ CoresKept
  <1>1. PICK j, a : j = job[w] /\ a = pc[w]
    OBVIOUS
  <1>2. j \in Jobs /\ JobOK(a, j) /\ SoloOK(a, j) /\ j.op \in LockedOps /\ a \in {"facts"}
    <2>1. pc[w] \in {"facts"}
      BY DEF ExtractFacts
    <2> QED
      BY <1>1, <2>1, Running, SoloIs
  <1>3. CoresKept /\ UNCHANGED summaries
    BY UnchangedCores DEF ExtractFacts
  <1>4. PICK o : o = IF j.extract = {} THEN "deduplicated"
                    ELSE IF j.read = None THEN "inserted" ELSE "appended"
    OBVIOUS
  <1>5. Return(w, j, o) /\ o \in Outcomes
    BY <1>1, <1>4 DEF ExtractFacts, Outcomes
  <1>6. o \in {"inserted", "appended"} => j.target \in Stored /\ Fresh(j.target)
    BY <1>2, <1>4 DEF JobOK, SoloOK, Indexing
  <1>7. j.op = "approve" => Active(j.req.id)
    BY <1>2 DEF SoloOK
  <1> QED
    BY <1>2, <1>3, <1>5, <1>6, <1>7, AnswerSolo

LEMMA ApproveFactsSolo ==
    ASSUME Inv, Inv', Solo, NEW w \in Workers, job[w].op \in LockedOps, ApproveFacts(w)
    PROVE  SoloOK(pc[w], job[w])' /\ CoresKept
  <1>1. PICK j, a : j = job[w] /\ a = pc[w]
    OBVIOUS
  <1>2. j \in Jobs /\ JobOK(a, j) /\ SoloOK(a, j) /\ j.op \in LockedOps /\ a \in {"approve_facts"}
    <2>1. pc[w] \in {"approve_facts"}
      BY DEF ApproveFacts
    <2> QED
      BY <1>1, <2>1, Running, SoloIs
  <1>3. CoresKept /\ UNCHANGED summaries /\ Step(w, j, "done")
    BY <1>1, UnchangedCores DEF ApproveFacts
  <1>4. SoloOK("done", j)
    BY <1>2 DEF SoloOK, Deduplicating, Reading, Carrying, Indexing
  <1> QED
    BY <1>3, <1>4, StaySolo

-----------------------------------------------------------------------------
(* The steps that store a conversation, and what they make of the archive.  *)

Saved(c) ==
    /\ convs[c.id] = None /\ c.status # "rejected"

Extended(c) ==
    /\ Active(c.id) /\ c.status = "active" /\ c.project = convs[c.id].project
    /\ IsStrictPrefix(convs[c.id].msgs, c.msgs)

Decided(c) ==
    /\ convs[c.id] # None /\ convs[c.id].status \in Reviewable
    /\ c.status \in {"active", "rejected"}
    /\ c.project = convs[c.id].project /\ c.msgs = convs[c.id].msgs

ArchiveStep ==
    \/ CoresKept
    \/ \E c \in Conversations :
          /\ Submitted(c) /\ Clashes(c) = {} /\ convs' = [convs EXCEPT ![c.id] = c]
          /\ Saved(c) \/ Extended(c) \/ Decided(c)

LEMMA PutIs ==
    ASSUME Inv, NEW c \in Conversations, convs' = [convs EXCEPT ![c.id] = c]
    PROVE  c.id \in Ids /\ c # None /\ convs'[c.id] = c /\ \A id \in Ids \ {c.id} : convs'[id] = convs[id]
  <1>1. c.id \in Ids /\ c # None
    BY NoneIsNoRecord DEF Conversations
  <1> QED
    BY <1>1 DEF Inv, TypeOK, StoreTypes

LEMMA PutSame ==
    ASSUME Inv, NEW c \in Conversations, Sync(c), convs' = [convs EXCEPT ![c.id] = c]
    PROVE  CoresKept
  BY PutIs DEF CoresKept, Sync, Stored

LEMMA RewriteSolo ==
    ASSUME Inv, Inv', Solo, NEW w \in Workers, job[w].op \in LockedOps, Rewrite(w)
    PROVE  SoloOK(pc[w], job[w])' /\ ArchiveStep
  <1>1. PICK j : j = job[w]
    OBVIOUS
  <1>2. j \in Jobs /\ JobOK("rewrite", j) /\ SoloOK("rewrite", j) /\ j.op \in LockedOps
    <2>1. pc[w] = "rewrite"
      BY DEF Rewrite
    <2> QED
      BY <1>1, <2>1, Running, SoloIs
  <1>3. UNCHANGED summaries
    BY DEF Rewrite
  <1>4. PICK c, d : c = j.read /\ d = [c EXCEPT !.chunks = j.chunks]
    OBVIOUS
  <1>5. /\ c \in Conversations /\ Sync(c) /\ j.target = c.id /\ j.extract = {}
        /\ j.chunks = chunk_selected_messages(c.id, c.msgs, 0) /\ j.chunks \in Seq(Chunks)
    BY <1>2, <1>4 DEF JobOK, SoloOK, Carrying, Jobs
  <1>6. d \in Conversations /\ d.id = c.id /\ Core(d) = Core(c)
    BY <1>4, <1>5 DEF Conversations, Core
  <1>7. CASE Return(w, j, "error") /\ UNCHANGED convs
    BY <1>2, <1>3, <1>7, UnchangedCores, AnswerSolo DEF Outcomes, ArchiveStep
  <1>8. CASE Step(w, j, "embed") /\ convs' = [convs EXCEPT ![d.id] = d]
    <2>1. CoresKept
      BY <1>5, <1>6, <1>8, PutSame DEF Sync
    <2>2. convs[c.id] \in Conversations /\ convs[c.id].msgs = c.msgs
      <3>1. c.id \in Ids /\ convs[c.id] # None /\ Core(convs[c.id]) = Core(c)
        BY <1>5 DEF Sync, Conversations
      <3>2. convs[c.id] \in Conversations
        BY <3>1 DEF Inv, TypeOK, StoreTypes
      <3> QED
        BY <1>5, <3>1, <3>2, CoreIs
    <2>3. j.chunks = Whole(j.target)
      BY <1>5, <2>2 DEF Whole
    <2>4. SoloOK("embed", j)
      BY <1>2, <1>5, <2>3 DEF SoloOK, Deduplicating, Reading, Carrying, Indexing
    <2> QED
      BY <1>3, <1>8, <2>1, <2>4, StaySolo DEF ArchiveStep
  <1> QED
    BY <1>1, <1>4, <1>7, <1>8 DEF Rewrite

LEMMA ResaveSolo ==
    ASSUME Inv, Inv', Solo, NEW w \in Workers, job[w].op \in LockedOps, Resave(w)
    PROVE  SoloOK(pc[w], job[w])' /\ ArchiveStep
  <1>1. PICK j : j = job[w]
    OBVIOUS
  <1>2. j \in Jobs /\ JobOK("resave", j) /\ SoloOK("resave", j) /\ j.op \in LockedOps
    <2>1. pc[w] = "resave"
      BY DEF Resave
    <2> QED
      BY <1>1, <2>1, Running, SoloIs
  <1>3. UNCHANGED summaries /\ Step(w, j, "embed")
    BY <1>1 DEF Resave
  <1>4. PICK c : c = j.read
    OBVIOUS
  <1>5. /\ c \in Conversations /\ c.id \in Ids /\ convs[c.id] # None /\ Core(convs[c.id]) = Core(c)
        /\ j.target = c.id /\ j.extract # {} /\ c.status = "active" /\ summaries[c.id] = c.msgs
        /\ c # None
    BY <1>2, <1>4 DEF JobOK, SoloOK, Carrying, Jobs, Sync, Conversations
  <1>6. convs[c.id] \in Conversations
    BY <1>5 DEF Inv, TypeOK, StoreTypes
  <1>7. Active(j.target) /\ Fresh(j.target)
    BY <1>5, <1>6, CoreIs DEF Active, Fresh
  <1>8. CoresKept
    BY <1>1, <1>4, <1>5, UnchangedCores, PutSame DEF Resave, Sync
  <1>9. SoloOK("embed", j)
    BY <1>2, <1>4, <1>5, <1>7 DEF SoloOK, Deduplicating, Reading, Carrying, Indexing
  <1> QED
    BY <1>3, <1>8, <1>9, StaySolo DEF ArchiveStep

LEMMA AppendSolo ==
    ASSUME Inv, Inv', Solo, NEW w \in Workers, job[w].op \in LockedOps, AppendMessages(w)
    PROVE  SoloOK(pc[w], job[w])' /\ ArchiveStep
  <1>1. PICK j : j = job[w]
    OBVIOUS
  <1>2. j \in Jobs /\ JobOK("append", j) /\ SoloOK("append", j) /\ j.op \in LockedOps
    <2>1. pc[w] = "append"
      BY DEF AppendMessages
    <2> QED
      BY <1>1, <2>1, Running, SoloIs
  <1>3. UNCHANGED summaries
    BY DEF AppendMessages
  <1>4. PICK c, u, k : c = j.read /\ u = Appended(j.read, j.req) /\ k = AfterAppend(j)
    OBVIOUS
  <1>5. /\ c \in Conversations /\ u \in Conversations /\ u.id = c.id /\ u.project = c.project
        /\ u.msgs = j.req.msgs /\ u.status = c.status /\ Submitted(u)
        /\ k.op = j.op /\ k.req = j.req /\ k.read = u /\ u # None
    BY <1>2, <1>4, AfterAppendIs, NoneIsNoRecord
  <1>6. CASE /\ Clashes(u) = {} /\ Step(w, k, "summarize")
             /\ convs' = [convs EXCEPT ![u.id] = u]
    <2>1. /\ convs[c.id] # None /\ Core(convs[c.id]) = Core(c) /\ c.id \in Ids
          /\ IsStrictPrefix(c.msgs, j.req.msgs) /\ c.status = "active"
      BY <1>2, <1>4, <1>5 DEF SoloOK, Sync, Carrying, Conversations, JobOK
    <2>2. convs[c.id] \in Conversations
      BY <2>1 DEF Inv, TypeOK, StoreTypes
    <2>3. Extended(u)
      BY <1>5, <2>1, <2>2, CoreIs DEF Extended, Active
    <2>4. convs'[u.id] = u /\ \A id \in Ids \ {u.id} : convs'[id] = convs[id]
      BY <1>5, <1>6, PutIs
    <2>5. Sync(u)'
      BY <1>5, <2>4 DEF Sync
    <2>6. j.op = "approve" => Active(j.req.id) /\ j.req.id \in Ids
      BY <1>2 DEF SoloOK, JobOK, Jobs, Payloads
    <2>7. j.op = "approve" => Active(j.req.id)'
      BY <1>5, <2>1, <2>4, <2>6 DEF Active
    <2>8. SoloOK("summarize", k)'
      BY <1>5, <2>5, <2>7 DEF SoloOK, Deduplicating, Reading, Carrying, Indexing
    <2> QED
      BY <1>5, <1>6, <2>3, <2>8, ArriveSolo DEF ArchiveStep
  <1>7. CASE UNCHANGED convs /\ Return(w, j, "error")
    BY <1>2, <1>3, <1>7, UnchangedCores, AnswerSolo DEF Outcomes, ArchiveStep
  <1>8. CASE UNCHANGED convs /\ ~HashUnchanged(c)
    <2>1. convs[c.id] # None /\ Core(convs[c.id]) = Core(c) /\ c.id \in Ids
      BY <1>2, <1>4, <1>5 DEF SoloOK, Sync, Carrying, Conversations
    <2>2. convs[c.id] \in Conversations
      BY <2>1 DEF Inv, TypeOK, StoreTypes
    <2> QED
      BY <1>5, <1>8, <2>1, <2>2, CoreIs DEF HashUnchanged, conversation_hash
  <1> QED
    BY <1>1, <1>4, <1>5, <1>6, <1>7, <1>8, AppendCases

LEMMA InsertSolo ==
    ASSUME Inv, Inv', Solo, NEW w \in Workers, job[w].op \in LockedOps, Insert(w)
    PROVE  SoloOK(pc[w], job[w])' /\ ArchiveStep
  <1>1. PICK j : j = job[w]
    OBVIOUS
  <1>2. j \in Jobs /\ JobOK("insert", j) /\ SoloOK("insert", j) /\ j.op \in LockedOps
    <2>1. pc[w] = "insert"
      BY DEF Insert
    <2> QED
      BY <1>1, <2>1, Running, SoloIs
  <1>3. PICK cs : cs = chunk_selected_messages(j.req.id, j.req.msgs, 0)
    OBVIOUS
  <1>4. /\ j.req \in Payloads /\ j.req.id \in Ids /\ j.req.msgs \in Seq(Msgs) /\ Submitted(j.req)
        /\ SessionOf(j) \in Sessions \cup {None}
    BY <1>2 DEF Jobs, JobOK, OpOK, Payloading, Reading, Carrying, Indexing, Ingesting, Payloads, SessionOf
  <1>5. cs \in Seq(Chunks) /\ "active" \in Statuses
    BY <1>3, <1>4, ChunksAre DEF Statuses
  <1>6. PICK k, c : /\ k = [j EXCEPT !.target = j.req.id, !.chunks = cs, !.extract = DOMAIN j.req.msgs]
                    /\ c = Conversation(j.req, SessionOf(j), "active", cs)
    OBVIOUS
  <1>7. c \in Conversations /\ Submitted(c) /\ c.id = j.req.id /\ c.msgs = j.req.msgs /\ c.status = "active"
    BY <1>4, <1>5, <1>6, ConversationIs
  <1>8. /\ k.target = j.req.id /\ k.chunks = cs
        /\ k.op = j.op /\ k.req = j.req /\ k.dup = j.dup /\ k.read = j.read
    BY <1>2, <1>6 DEF Jobs
  <1>9. InsertNew(w, k, c, "embed") /\ UNCHANGED summaries
    BY <1>1, <1>3, <1>6 DEF Insert, InsertNew
  <1>10. CASE /\ convs[c.id] = None /\ Clashes(c) = {} /\ Step(w, k, "embed")
              /\ convs' = [convs EXCEPT ![c.id] = c]
    <2>1. convs'[c.id] = c /\ c # None
      BY <1>7, <1>10, PutIs
    <2>2. Active(k.target)' /\ Active(k.req.id)'
      BY <1>7, <1>8, <2>1 DEF Active
    <2>3. Fresh(k.target)'
      <3>1. summaries[j.req.id] = j.req.msgs
        BY <1>2 DEF SoloOK
      <3> QED
        BY <1>7, <1>8, <1>9, <2>1, <3>1 DEF Fresh
    <2>4. k.chunks = Whole(k.target)'
      BY <1>3, <1>7, <1>8, <2>1 DEF Whole
    <2>5. SoloOK("embed", k)'
      BY <2>2, <2>3, <2>4 DEF SoloOK, Deduplicating, Reading, Carrying, Indexing
    <2>6. Saved(c)
      BY <1>7, <1>10 DEF Saved
    <2> QED
      BY <1>7, <1>10, <2>5, <2>6, ArriveSolo DEF ArchiveStep
  <1>11. CASE Step(w, k, "resolve") /\ UNCHANGED convs
    <2>1. SoloOK("resolve", k)
      BY <1>2, <1>8 DEF SoloOK, Deduplicating, Reading, Carrying, Indexing
    <2> QED
      BY <1>9, <1>11, <2>1, UnchangedCores, StaySolo DEF ArchiveStep
  <1> QED
    BY <1>9, <1>10, <1>11 DEF InsertNew

LEMMA HoldSolo ==
    ASSUME Inv, Inv', Solo, NEW w \in Workers, job[w].op \in LockedOps, Hold(w)
    PROVE  SoloOK(pc[w], job[w])' /\ ArchiveStep
  <1>1. PICK j : j = job[w]
    OBVIOUS
  <1>2. j \in Jobs /\ JobOK("hold", j) /\ SoloOK("hold", j) /\ j.op \in LockedOps
    <2>1. pc[w] = "hold"
      BY DEF Hold
    <2> QED
      BY <1>1, <2>1, Running, SoloIs
  <1>3. /\ j.req \in Payloads /\ j.req.id \in Ids /\ Submitted(j.req)
        /\ SessionOf(j) \in Sessions \cup {None} /\ j.op \in {"ingest", "hold"}
    BY <1>2 DEF Jobs, JobOK, OpOK, Payloading, Reading, Carrying, Indexing, Ingesting, Payloads, SessionOf
  <1>4. HeldStatus(j.req) \in Statuses \ {"rejected"} /\ <<>> \in Seq(Chunks)
    BY DEF HeldStatus, Statuses
  <1>5. PICK k, c : /\ k = [j EXCEPT !.target = j.req.id, !.outcome = "held"]
                    /\ c = Conversation(j.req, SessionOf(j), HeldStatus(j.req), <<>>)
    OBVIOUS
  <1>6. c \in Conversations /\ Submitted(c) /\ c.id = j.req.id /\ c.status # "rejected"
    <2>1. PICK st, s, r, e : st = HeldStatus(j.req) /\ s = SessionOf(j) /\ r = j.req /\ e = <<>>
      OBVIOUS
    <2>2. /\ st \in Statuses /\ st # "rejected" /\ s \in Sessions \cup {None} /\ r \in Payloads
          /\ Submitted(r) /\ e \in Seq(Chunks) /\ c = Conversation(r, s, st, e)
      BY <1>3, <1>4, <1>5, <2>1
    <2>3. c \in Conversations /\ Submitted(c) /\ c.id = r.id /\ c.status = st
      BY <2>2, ConversationIs
    <2> QED
      BY <2>1, <2>2, <2>3
  <1>7. /\ k.target = j.req.id /\ k.outcome = "held"
        /\ k.op = j.op /\ k.req = j.req /\ k.dup = j.dup /\ k.read = j.read
    BY <1>2, <1>5 DEF Jobs
  <1>8. InsertNew(w, k, c, "done") /\ UNCHANGED summaries
    BY <1>1, <1>5 DEF Hold, InsertNew
  <1>9. CASE /\ convs[c.id] = None /\ Clashes(c) = {} /\ Step(w, k, "done")
             /\ convs' = [convs EXCEPT ![c.id] = c]
    <2>1. SoloOK("done", k)'
      BY <1>3, <1>7 DEF SoloOK, Deduplicating, Reading, Carrying, Indexing
    <2>2. Saved(c)
      BY <1>6, <1>9 DEF Saved
    <2> QED
      BY <1>6, <1>9, <2>1, <2>2, ArriveSolo DEF ArchiveStep
  <1>10. CASE Step(w, k, "resolve") /\ UNCHANGED convs
    <2>1. SoloOK("resolve", k)
      BY <1>2, <1>3, <1>7 DEF SoloOK, Deduplicating, Reading, Carrying, Indexing
    <2> QED
      BY <1>8, <1>10, <2>1, UnchangedCores, StaySolo DEF ArchiveStep
  <1> QED
    BY <1>8, <1>9, <1>10 DEF InsertNew

LEMMA ApproveSolo ==
    ASSUME Inv, Inv', Solo, NEW w \in Workers, job[w].op \in LockedOps, Approve(w)
    PROVE  SoloOK(pc[w], job[w])' /\ ArchiveStep
  <1>1. PICK j : j = job[w]
    OBVIOUS
  <1>2. j \in Jobs /\ JobOK("approve", j) /\ SoloOK("approve", j) /\ j.op \in LockedOps
    <2>1. pc[w] = "approve"
      BY DEF Approve
    <2> QED
      BY <1>1, <2>1, Running, SoloIs
  <1>3. UNCHANGED summaries
    BY DEF Approve
  <1>4. PICK c, d : c = j.read /\ d = Approved(c)
    OBVIOUS
  <1>5. /\ c \in Conversations /\ c.id \in Ids /\ convs[c.id] # None /\ Core(convs[c.id]) = Core(c)
        /\ c.status \in Reviewable /\ Submitted(c)
    BY <1>2, <1>4 DEF SoloOK, Sync, Carrying, Conversations, JobOK, Jobs
  <1>6. convs[c.id] \in Conversations
    BY <1>5 DEF Inv, TypeOK, StoreTypes
  <1>7. /\ d \in Conversations /\ d.id = c.id /\ d.status = "active" /\ d.project = c.project
        /\ d.msgs = c.msgs
    BY <1>4, <1>5 DEF Approved, Conversations, Statuses
  <1>8. CASE Return(w, j, "error") /\ UNCHANGED convs
    BY <1>2, <1>3, <1>8, UnchangedCores, AnswerSolo DEF Outcomes, ArchiveStep
  <1>9. CASE /\ Clashes(d) = {} /\ convs' = [convs EXCEPT ![d.id] = d]
             /\ Step(w, NewJob("approve", PayloadOf(d)), "lookup")
    <2>1. PICK k : k = NewJob("approve", PayloadOf(d))
      OBVIOUS
    <2>2. k.op = "approve" /\ k.req.id = d.id /\ k.dup = None /\ k.read = None
      BY <2>1 DEF NewJob, PayloadOf
    <2>3. Active(d.id)'
      BY <1>7, <1>9, PutIs DEF Active
    <2>4. SoloOK("lookup", k)'
      BY <2>2, <2>3 DEF SoloOK, Deduplicating, Reading, Carrying, Indexing
    <2>5. Decided(d)
      BY <1>5, <1>6, <1>7, CoreIs DEF Decided
    <2>6. Submitted(d)
      BY <1>5, <1>7 DEF Submitted
    <2> QED
      BY <1>7, <1>9, <2>1, <2>4, <2>5, <2>6, ArriveSolo DEF ArchiveStep
  <1> QED
    BY <1>1, <1>4, <1>8, <1>9 DEF Approve, Approved

LEMMA RejectSolo ==
    ASSUME Inv, Inv', Solo, NEW w \in Workers, job[w].op \in LockedOps, Reject(w)
    PROVE  SoloOK(pc[w], job[w])' /\ ArchiveStep
  <1>1. PICK j : j = job[w]
    OBVIOUS
  <1>2. j \in Jobs /\ JobOK("reject", j) /\ SoloOK("reject", j) /\ j.op \in LockedOps
    <2>1. pc[w] = "reject"
      BY DEF Reject
    <2> QED
      BY <1>1, <2>1, Running, SoloIs
  <1>3. UNCHANGED summaries
    BY DEF Reject
  <1>4. PICK c, d : c = j.read /\ d = [c EXCEPT !.status = "rejected"]
    OBVIOUS
  <1>5. /\ c \in Conversations /\ c.id \in Ids /\ convs[c.id] # None /\ Core(convs[c.id]) = Core(c)
        /\ c.status \in Reviewable /\ Submitted(c)
    BY <1>2, <1>4 DEF SoloOK, Sync, Carrying, Conversations, JobOK, Jobs
  <1>6. convs[c.id] \in Conversations
    BY <1>5 DEF Inv, TypeOK, StoreTypes
  <1>7. /\ d \in Conversations /\ d.id = c.id /\ d.status = "rejected" /\ d.project = c.project
        /\ d.msgs = c.msgs
    BY <1>4, <1>5 DEF Conversations, Statuses
  <1>8. CASE Return(w, j, "error") /\ UNCHANGED convs
    BY <1>2, <1>3, <1>8, UnchangedCores, AnswerSolo DEF Outcomes, ArchiveStep
  <1>9. CASE Clashes(d) = {} /\ convs' = [convs EXCEPT ![d.id] = d] /\ Return(w, j, "rejected")
    <2>1. PICK k : k = [j EXCEPT !.outcome = "rejected"]
      OBVIOUS
    <2>2. k.op = "reject" /\ k.outcome = "rejected"
      BY <1>2, <2>1 DEF Jobs, JobOK, OpOK
    <2>3. Step(w, k, "done")
      BY <1>2, <1>9, <2>1 DEF Return, JobOK, OpOK
    <2>4. SoloOK("done", k)'
      BY <2>2 DEF SoloOK, Deduplicating, Reading, Carrying, Indexing
    <2>5. Decided(d)
      BY <1>5, <1>6, <1>7, CoreIs DEF Decided
    <2>6. Submitted(d)
      BY <1>5, <1>7 DEF Submitted
    <2> QED
      BY <1>7, <1>9, <2>3, <2>4, <2>5, <2>6, ArriveSolo DEF ArchiveStep
  <1> QED
    BY <1>1, <1>4, <1>8, <1>9 DEF Reject

-----------------------------------------------------------------------------
(* The steps of a retrieve and of a reindex, which take no lock, change     *)
(* nothing but manifests and vectors.                                       *)

Shallow == CoresKept /\ UNCHANGED <<facts, summaries>>

LEMMA MarkShallow ==
    ASSUME Inv, NEW id \in Stored, NEW ids, NEW state \in IndexStates, MarkChunks(id, ids, state),
           UNCHANGED <<facts, summaries, vectors>>
    PROVE  Shallow
  BY MarkKeeps DEF Shallow, CoresKept, Core

LEMMA RepairReads ==
    ASSUME Inv, NEW w \in Workers, Repair(w)
    PROVE  Shallow
  <1>1. PICK j, ids, id : j = job[w] /\ ids = j.marks /\ id = j.dup
    OBVIOUS
  <1>2. id \in Stored
    BY <1>1, Running DEF Repair, JobOK, Reading, Indexing
  <1>3. MarkChunks(id, ids, "indexed") /\ UNCHANGED <<facts, summaries, vectors>>
    BY <1>1 DEF Repair
  <1> QED
    BY <1>2, <1>3, MarkShallow DEF IndexStates

LEMMA MarkIndexedReads ==
    ASSUME Inv, NEW w \in Workers, MarkIndexed(w)
    PROVE  Shallow
  <1>1. PICK j, ids, id : j = job[w] /\ ids = ChunkIds(j.chunks) /\ id = j.target
    OBVIOUS
  <1>2. id \in Stored
    BY <1>1, Running DEF MarkIndexed, JobOK, Reading, Indexing
  <1>3. MarkChunks(id, ids, "indexed") /\ UNCHANGED <<facts, summaries, vectors>>
    BY <1>1 DEF MarkIndexed
  <1> QED
    BY <1>2, <1>3, MarkShallow DEF IndexStates

LEMMA MarkFailedReads ==
    ASSUME Inv, NEW w \in Workers, MarkFailed(w)
    PROVE  Shallow
  <1>1. PICK j, ids, id : j = job[w] /\ ids = ChunkIds(j.chunks) /\ id = j.target
    OBVIOUS
  <1>2. id \in Stored
    BY <1>1, Running DEF MarkFailed, JobOK, Reading, Indexing
  <1>3. MarkChunks(id, ids, "indexing_failed") /\ UNCHANGED <<facts, summaries, vectors>>
    BY <1>1 DEF MarkFailed
  <1> QED
    BY <1>2, <1>3, MarkShallow DEF IndexStates

LEMMA ReadersStep ==
    ASSUME Inv, NEW w \in Workers, Progress(w) \/ ProviderFails(w), job[w].op \notin LockedOps
    PROVE  Shallow
  <1>1. PICK j, at : j = job[w] /\ at = pc[w]
    OBVIOUS
  <1>2. OpOK(at, j.op) \/ at = "idle"
    BY <1>1, Running DEF JobOK
  <1>3. at \notin Ingesting \cup {"resolve", "review", "hold", "decide", "approve", "approve_facts", "reject"}
    BY <1>1, <1>2 DEF OpOK, LockedOps, Ops, Ingesting
  <1>4. ASSUME IngestStep(w) PROVE Inspect(w) \/ Repair(w) \/ Refresh(w)
    BY <1>1, <1>3, <1>4
       DEF Ingesting, IngestStep, Lookup, Complete, Existing, Classify, Rewrite, AppendMessages, Summarize,
           Resave, Insert, Resolve
  <1>5. ~ReviewStep(w) /\ ~ExtractFacts(w)
    BY <1>1, <1>3
       DEF Ingesting, ReviewStep, Review, Hold, Decide, Approve, ApproveFacts, Reject, ExtractFacts
  <1>6. ASSUME Inspect(w) \/ Refresh(w) \/ DeleteVectors(w) \/ UpsertVectors(w) \/ ProviderFails(w)
               \/ ReindexStep(w) \/ Retrieve(w) \/ Finish(w)
        PROVE  Shallow
    <2>1. UNCHANGED <<convs, facts, summaries>>
      BY <1>6 DEF Inspect, Refresh, DeleteVectors, UpsertVectors, ProviderFails, ReindexStep, Reindex, List,
           NextConversation, Retrieve, Finish, stores
    <2> QED
      BY <2>1, UnchangedCores DEF Shallow
  <1> QED
    BY <1>4, <1>5, <1>6, RepairReads, MarkIndexedReads, MarkFailedReads DEF Progress, IndexStep

-----------------------------------------------------------------------------
(* Every step on one hub.                                                   *)

LEMMA WritersStep ==
    ASSUME Inv, Inv', Solo, NEW w \in Workers, Progress(w) \/ ProviderFails(w), ~Finish(w),
           job[w].op \in LockedOps
    PROVE  SoloOK(pc[w], job[w])' /\ ArchiveStep
  <1>1. PICK j, at : j = job[w] /\ at = pc[w]
    OBVIOUS
  <1>2. OpOK(at, j.op) \/ at = "idle"
    BY <1>1, Running DEF JobOK
  <1>3. at \notin {"reindex", "list", "next", "retrieve"}
    BY <1>1, <1>2 DEF OpOK, LockedOps
  <1>4. ~ReindexStep(w) /\ ~Retrieve(w)
    BY <1>1, <1>3 DEF ReindexStep, Reindex, List, NextConversation, Retrieve
  <1>5. ASSUME IngestStep(w) PROVE SoloOK(pc[w], job[w])' /\ ArchiveStep
    <2>1. CASE Lookup(w) \/ Inspect(w) \/ Refresh(w) \/ Complete(w) \/ Existing(w) \/ Classify(w)
               \/ Summarize(w) \/ Resolve(w)
      <3>1. UNCHANGED convs
        BY <2>1 DEF Lookup, Inspect, Refresh, Complete, Existing, Classify, Summarize, Resolve, stores
      <3>2. ArchiveStep
        BY <3>1, UnchangedCores DEF ArchiveStep
      <3> QED
        BY <2>1, <3>2, LookupSolo, InspectSolo, RefreshSolo, CompleteSolo, ExistingSolo, ClassifySolo,
           SummarizeSolo, ResolveSolo
    <2>2. CASE Repair(w)
      BY <2>2, RepairSolo, RepairReads DEF ArchiveStep, Shallow
    <2>3. CASE Rewrite(w) \/ AppendMessages(w) \/ Resave(w) \/ Insert(w)
      BY <2>3, RewriteSolo, AppendSolo, ResaveSolo, InsertSolo
    <2> QED
      BY <1>5, <2>1, <2>2, <2>3 DEF IngestStep
  <1>6. ASSUME IndexStep(w) \/ ProviderFails(w) PROVE SoloOK(pc[w], job[w])' /\ ArchiveStep
    BY <1>6, DeleteSolo, UpsertSolo, ProviderFailsSolo, MarkIndexedSolo, MarkFailedSolo, ExtractFactsSolo
       DEF IndexStep, ArchiveStep
  <1>7. ASSUME ReviewStep(w) PROVE SoloOK(pc[w], job[w])' /\ ArchiveStep
    <2>1. CASE Review(w) \/ Decide(w)
      <3>1. UNCHANGED convs
        BY <2>1 DEF Review, Decide, stores
      <3> QED
        BY <2>1, <3>1, UnchangedCores, ReviewSolo, DecideSolo DEF ArchiveStep
    <2> QED
      BY <1>7, <2>1, HoldSolo, ApproveSolo, RejectSolo, ApproveFactsSolo DEF ReviewStep, ArchiveStep
  <1> QED
    BY <1>4, <1>5, <1>6, <1>7 DEF Progress

(* An active memory stays active.                                           *)
LEMMA ActiveStays ==
    ASSUME Inv, Inv', ArchiveStep, NEW id \in Ids, Active(id)
    PROVE  Active(id)'
  <1>1. CASE CoresKept
    BY <1>1, CoresKeep DEF Inv, TypeOK
  <1>2. ASSUME NEW c \in Conversations, convs' = [convs EXCEPT ![c.id] = c],
               Saved(c) \/ Extended(c) \/ Decided(c)
        PROVE  Active(id)'
    <2>1. c # None /\ convs'[c.id] = c /\ \A x \in Ids \ {c.id} : convs'[x] = convs[x]
      BY <1>2, PutIs
    <2>2. CASE id = c.id
      BY <1>2, <2>1, <2>2 DEF Active, Saved, Extended, Decided, Reviewable
    <2>3. CASE id # c.id
      BY <2>1, <2>3 DEF Active
    <2> QED
      BY <2>2, <2>3
  <1> QED
    BY <1>1, <1>2 DEF ArchiveStep

LEMMA FactsStay ==
    ASSUME Inv, Inv', FactsOK, ArchiveStep,
           UNCHANGED facts \/ \E id \in Ids : \E xs : facts' = [facts EXCEPT ![id] = @ \cup xs]
                                                      /\ (xs = {} \/ Active(id))
    PROVE  FactsOK'
  <1> SUFFICES ASSUME NEW x \in Ids, facts'[x] # {} PROVE Active(x)'
    BY DEF FactsOK
  <1>1. Active(x)
    BY DEF FactsOK, Inv, TypeOK, StoreTypes
  <1> QED
    BY <1>1, ActiveStays

LEMMA FactsGrow ==
    ASSUME Inv, Solo, NEW w \in Workers, Progress(w) \/ ProviderFails(w)
    PROVE  UNCHANGED facts \/ \E id \in Ids : \E xs : facts' = [facts EXCEPT ![id] = @ \cup xs]
                                                      /\ (xs = {} \/ Active(id))
  <1>1. CASE ExtractFacts(w)
    <2>1. PICK j : j = job[w]
      OBVIOUS
    <2>2. j \in Jobs /\ JobOK("facts", j) /\ pc[w] = "facts"
      BY <1>1, <2>1, Running DEF ExtractFacts
    <2>3. j.op \in LockedOps /\ j.target \in Ids
      BY <2>2 DEF JobOK, OpOK, Ingesting, LockedOps, Ops, Indexing, Stored
    <2>4. SoloOK("facts", j)
      BY <2>1, <2>2, <2>3, SoloIs
    <2>5. j.extract = {} \/ Active(j.target)
      BY <2>4 DEF SoloOK, Indexing
    <2>6. facts' = [facts EXCEPT ![j.target] = @ \cup j.extract]
      BY <1>1, <2>1 DEF ExtractFacts
    <2> QED
      BY <2>3, <2>5, <2>6
  <1>2. CASE ApproveFacts(w)
    <2>1. PICK j : j = job[w]
      OBVIOUS
    <2>2. j \in Jobs /\ JobOK("approve_facts", j) /\ pc[w] = "approve_facts"
      BY <1>2, <2>1, Running DEF ApproveFacts
    <2>3. j.op = "approve" /\ j.op \in LockedOps /\ j.req.id \in Ids
      BY <2>2 DEF JobOK, OpOK, LockedOps, Ops, Jobs, Payloads
    <2>4. SoloOK("approve_facts", j)
      BY <2>1, <2>2, <2>3, SoloIs
    <2>5. Active(j.req.id)
      BY <2>3, <2>4 DEF SoloOK
    <2>6. facts' = [facts EXCEPT ![j.req.id] = @ \cup DOMAIN j.req.msgs]
      BY <1>2, <2>1 DEF ApproveFacts
    <2> QED
      BY <2>3, <2>5, <2>6
  <1>3. ASSUME IngestStep(w) PROVE UNCHANGED facts
    BY <1>3 DEF IngestStep, Lookup, Inspect, Repair, Refresh, Complete, Existing, Classify, Rewrite,
         AppendMessages, Summarize, Resave, Insert, InsertNew, Resolve, stores
  <1>4. ASSUME DeleteVectors(w) \/ UpsertVectors(w) \/ MarkIndexed(w) \/ MarkFailed(w) \/ ProviderFails(w)
        PROVE  UNCHANGED facts
    BY <1>4 DEF DeleteVectors, UpsertVectors, MarkIndexed, MarkFailed, ProviderFails
  <1>5. ASSUME Review(w) \/ Hold(w) \/ Decide(w) \/ Approve(w) \/ Reject(w)
        PROVE  UNCHANGED facts
    BY <1>5 DEF Review, Hold, InsertNew, Decide, Approve, Reject, stores
  <1>6. ASSUME ReindexStep(w) \/ Retrieve(w) \/ Finish(w) PROVE UNCHANGED facts
    BY <1>6 DEF ReindexStep, Reindex, List, NextConversation, Retrieve, Finish, stores
  <1> QED
    BY <1>1, <1>2, <1>3, <1>4, <1>5, <1>6 DEF Progress, IndexStep, ReviewStep

(* A worker that did not move still knows what it knew.                     *)
LEMMA OthersSolo ==
    ASSUME Inv, Inv', Solo, Shallow, NEW v \in Workers, pc[v] # "idle", job[v].op \in LockedOps,
           pc'[v] = pc[v], job'[v] = job[v]
    PROVE  SoloOK(pc[v], job[v])'
  <1>1. PICK a, k : a = pc[v] /\ k = job[v]
    OBVIOUS
  <1>2. k \in Jobs /\ JobOK(a, k) /\ SoloOK(a, k)
    BY <1>1, Running, SoloIs
  <1>3. SoloOK(a, k)'
    BY <1>2, SoloFrame DEF Shallow, Inv, TypeOK
  <1> QED
    BY <1>1, <1>3

(* Two locked operations never run side by side.                            *)
LEMMA OneWriter ==
    ASSUME OneHub, Serial, NEW v \in Workers, NEW w \in Workers, pc[v] # "idle", pc[w] # "idle",
           job[v].op \in LockedOps, job[w].op \in LockedOps
    PROVE  v = w
  BY DEF OneHub, Serial, LockOK

LEMMA StartSolo ==
    ASSUME NEW op \in LockedOps, NEW r
    PROVE  SoloOK(FirstStep(op, r), NewJob(op, r))'
  <1>1. PICK k, at : k = NewJob(op, r) /\ at = FirstStep(op, r)
    OBVIOUS
  <1>2. k.op = op /\ k.req = r /\ k.dup = None /\ k.read = None
    BY <1>1 DEF NewJob
  <1>3. /\ at \in {"lookup", "review", "decide", "retrieve", "reindex"}
        /\ op = "approve" => at = "decide"
        /\ at = "review" => op = "hold" \/ r.sensitive
    BY <1>1, FirstStepIs DEF LockedOps
  <1>4. SoloOK(at, k)'
    BY <1>2, <1>3 DEF SoloOK, Deduplicating, Reading, Carrying, Indexing
  <1> QED
    BY <1>1, <1>4

LEMMA SoloStep ==
    ASSUME OneHub, Inv, Inv', Serial, Solo, [Next]_vars
    PROVE  Solo' /\ ArchiveStep
  <1>1. ASSUME Shallow PROVE ArchiveStep /\ FactsOK'
    <2>1. ArchiveStep
      BY <1>1 DEF Shallow, ArchiveStep
    <2> QED
      BY <1>1, <2>1, FactsStay DEF Solo, Shallow
  <1>2. ASSUME NEW w \in Workers, NEW op \in Ops, NEW r, Start(w, op, r) PROVE Solo' /\ ArchiveStep
    <2>1. /\ Moved(w) /\ pc'[w] = FirstStep(op, r) /\ job'[w] = NewJob(op, r)
          /\ UNCHANGED stores
      BY <1>2, StartSerial
    <2>2. Shallow
      BY <2>1, UnchangedCores DEF Shallow, stores
    <2>3. SoloInv'
      <3> SUFFICES ASSUME NEW v \in Workers, pc'[v] # "idle", job'[v].op \in LockedOps
                   PROVE  SoloOK(pc[v], job[v])'
        BY DEF SoloInv
      <3>1. CASE v = w
        <4>1. op \in LockedOps
          BY <2>1, <3>1 DEF NewJob
        <4> QED
          BY <2>1, <3>1, <4>1, StartSolo
      <3>2. CASE v # w
        BY <2>1, <2>2, <3>2, OthersSolo DEF Moved
      <3> QED
        BY <3>1, <3>2
    <2> QED
      BY <1>1, <2>1, <2>2, <2>3 DEF Solo
  <1>3. ASSUME UNCHANGED <<convs, facts, summaries>>,
               \A v \in Workers : pc'[v] = "idle" \/ (pc'[v] = pc[v] /\ job'[v] = job[v])
        PROVE  Solo' /\ ArchiveStep
    <2>1. Shallow
      BY <1>3, UnchangedCores DEF Shallow
    <2>2. SoloInv'
      <3> SUFFICES ASSUME NEW v \in Workers, pc'[v] # "idle", job'[v].op \in LockedOps
                   PROVE  SoloOK(pc[v], job[v])'
        BY DEF SoloInv
      <3> QED
        BY <1>3, <2>1, OthersSolo
    <2> QED
      BY <1>1, <1>3, <2>1, <2>2 DEF Solo
  <1>4. ASSUME NEW w \in Workers, Finish(w) PROVE Solo' /\ ArchiveStep
    <2>1. UNCHANGED <<convs, facts, summaries>>
      BY <1>4 DEF Finish, stores
    <2>2. \A v \in Workers : pc'[v] = "idle" \/ (pc'[v] = pc[v] /\ job'[v] = job[v])
      BY <1>4 DEF Finish, Inv, TypeOK, WorkerTypes
    <2> QED
      BY <1>3, <2>1, <2>2
  <1>5. ASSUME NEW h \in Hubs, Crash(h) PROVE Solo' /\ ArchiveStep
    <2>1. UNCHANGED <<convs, facts, summaries>>
      BY <1>5 DEF Crash
    <2>2. \A v \in Workers : pc'[v] = "idle" \/ (pc'[v] = pc[v] /\ job'[v] = job[v])
      BY <1>5 DEF Crash
    <2> QED
      BY <1>3, <2>1, <2>2
  <1>6. ASSUME UNCHANGED vars PROVE Solo' /\ ArchiveStep
    <2>1. UNCHANGED <<convs, facts, summaries, pc, job>>
      BY <1>6 DEF vars, stores
    <2> QED
      BY <1>3, <2>1
  <1>7. ASSUME NEW w \in Workers, Progress(w) \/ ProviderFails(w), ~Finish(w)
        PROVE  Solo' /\ ArchiveStep
    <2>1. Moved(w) /\ pc[w] # "idle" /\ job'[w].op = job[w].op
      BY <1>7, ProgressSerial
    <2>2. ArchiveStep
      <3>1. CASE job[w].op \in LockedOps
        BY <1>7, <3>1, WritersStep
      <3>2. CASE job[w].op \notin LockedOps
        BY <1>1, <1>7, <3>2, ReadersStep
      <3> QED
        BY <3>1, <3>2
    <2>3. FactsOK'
      BY <1>7, <2>2, FactsGrow, FactsStay DEF Solo
    <2>4. SoloInv'
      <3> SUFFICES ASSUME NEW v \in Workers, pc'[v] # "idle", job'[v].op \in LockedOps
                   PROVE  SoloOK(pc[v], job[v])'
        BY DEF SoloInv
      <3>1. CASE v = w
        BY <1>7, <2>1, <3>1, WritersStep
      <3>2. CASE v # w
        <4>1. pc'[v] = pc[v] /\ job'[v] = job[v]
          BY <2>1, <3>2 DEF Moved
        <4>2. Shallow
          <5>1. job[w].op \notin LockedOps
            BY <2>1, <3>2, <4>1, OneWriter
          <5> QED
            BY <1>7, <5>1, ReadersStep
        <4> QED
          BY <4>1, <4>2, OthersSolo
      <3> QED
        BY <3>1, <3>2
    <2> QED
      BY <2>1, <2>2, <2>3, <2>4 DEF Solo
  <1>8. ASSUME NEW w \in Workers, Submit(w) \/ Refer(w) \/ Maintain(w) PROVE Solo' /\ ArchiveStep
    BY <1>2, <1>8, Starts
  <1> QED
    BY <1>4, <1>5, <1>6, <1>7, <1>8 DEF Next, Progress

(* On one hub a write that holds the lock knows what it needs of the store, *)
(* and only active memories have facts: the invariant the theorems below    *)
(* rest on.  It covers every interleaving with retrieves and a reindex,     *)
(* every provider failure and every crash.                                  *)
THEOREM WritesKnow == ASSUME OneHub PROVE Spec => []Solo
  <1>1. Init => Solo
    BY DEF Init, Solo, SoloInv, FactsOK
  <1>2. Inv /\ Inv' /\ Serial /\ Solo /\ [Next]_vars => Solo'
    BY SoloStep
  <1> QED
    BY <1>1, <1>2, WellFormed, WritesAreSerial, PTL DEF Spec

(* HeldHasNoFacts: with one hub, a memory that waits for review or was      *)
(* rejected has no facts, although facts are derived by the last step of an *)
(* ingestion and again by approve_pending_memory, in steps of their own.    *)
THEOREM HeldMemoriesHaveNoFacts == ASSUME OneHub PROVE Spec => []HeldHasNoFacts
  <1>1. Solo => HeldHasNoFacts
    BY DEF Solo, FactsOK, HeldHasNoFacts, Active, Stored
  <1> QED
    BY <1>1, WritesKnow, PTL

(* FreshSummary: with one hub, when an ingestion answers inserted or        *)
(* appended, the generated summary (_attach_generated_summaries) covers the *)
(* transcript that is stored, whatever was retrieved, repaired or reindexed *)
(* meanwhile.                                                               *)
THEOREM SummariesAreFresh == ASSUME OneHub PROVE Spec => []FreshSummary
  <1>1. Inv /\ Serial /\ Solo => FreshSummary
    <2> SUFFICES ASSUME Inv, Serial, Solo, NEW w \in Workers, pc[w] = "done",
                        job[w].outcome \in {"inserted", "appended"}
                 PROVE  summaries[job[w].target] = convs[job[w].target].msgs
      BY DEF FreshSummary
    <2>1. PICK j : j = job[w]
      OBVIOUS
    <2>2. j \in Jobs
      BY <2>1, Running
    <2>3. CASE j.op \in LockedOps
      BY <2>1, <2>3, SoloIs DEF SoloOK, Fresh
    <2>4. CASE j.op \notin LockedOps
      BY <2>1, <2>4 DEF Serial, Answers, Ended, OutcomeOK, ReadAnswers
    <2> QED
      BY <2>3, <2>4
  <1> QED
    BY <1>1, WellFormed, WritesAreSerial, WritesKnow, PTL

-----------------------------------------------------------------------------
(* The refinement: one hub implements the archive.                          *)

LEMMA ImageIs ==
    ASSUME NEW c \in Conversations
    PROVE  /\ Image(c) # None
           /\ Image(c).project = c.project /\ Image(c).msgs = c.msgs /\ Image(c).status = c.status
  <1>1. Image(c) \in [project: Projects, msgs: Seq(Msgs), status: Statuses]
    BY DEF Image, Conversations
  <1> QED
    BY <1>1, NoneIsNoRecord DEF Image

(* No clash with another row of the conversations table: the transcript is  *)
(* new to the project.                                                      *)
LEMMA NoClashIsUnique ==
    ASSUME Inv, NEW c \in Conversations, Clashes(c) = {}
    PROVE  Archive!Unique(c.id, Image(c))
  <1>1. ASSUME NEW other \in Ids \ {c.id}, Mapped[other] # None
        PROVE  <<Mapped[other].project, Mapped[other].msgs>> # <<c.project, c.msgs>>
    <2>1. convs[other] # None /\ Mapped[other] = Image(convs[other])
      BY <1>1 DEF Mapped
    <2>2. other \in Stored /\ convs[other] \in Conversations
      BY <2>1 DEF Stored, Inv, TypeOK, StoreTypes
    <2>3. conversation_hash(convs[other]) # conversation_hash(c)
      BY <1>1, <2>2 DEF Clashes, ByHash
    <2> QED
      BY <2>1, <2>2, <2>3, ImageIs DEF conversation_hash
  <1> QED
    BY <1>1, ImageIs DEF Archive!Unique

LEMMA ExtendIs ==
    ASSUME NEW i, Mapped[i] # None, Mapped[i].status = "active",
           NEW t \in {r.msgs : r \in Requests}, IsStrictPrefix(Mapped[i].msgs, t),
           Archive!Put(i, [Mapped[i] EXCEPT !.msgs = t])
    PROVE  Archive!Extend(i)
  <1>1. Archive!IsStrictPrefix(Mapped[i].msgs, t)
    BY Zenon DEF IsStrictPrefix, Archive!IsStrictPrefix, IsPrefix, Archive!IsPrefix
  <1> QED
    BY <1>1, Zenon DEF Archive!Extend

LEMMA DecideIs ==
    ASSUME NEW i, Mapped[i] # None, Mapped[i].status \in Reviewable,
           NEW verdict \in {"active", "rejected"},
           Archive!Put(i, [Mapped[i] EXCEPT !.status = verdict])
    PROVE  Archive!Decide(i)
  <1>1. Mapped[i].status \in Archive!Held
    BY DEF Archive!Held, Reviewable
  <1> QED
    BY <1>1, Zenon DEF Archive!Decide

LEMMA ArchiveRefined ==
    ASSUME Inv, Inv', ArchiveStep
    PROVE  [Archive!ArchiveNext]_Mapped
  <1>1. CASE CoresKept
    <2>1. ASSUME NEW id \in Stored PROVE convs'[id] # None /\ Image(convs'[id]) = Image(convs[id])
      BY <1>1, <2>1, CoresKeep DEF Inv, TypeOK, Image, CoresKept, Stored
    <2>2. ASSUME NEW id \in Ids \ Stored PROVE convs'[id] = None /\ convs[id] = None
      BY <1>1, <2>2 DEF CoresKept, Stored
    <2>3. Mapped' = Mapped
      BY <2>1, <2>2 DEF Mapped, Stored
    <2> QED
      BY <2>3
  <1>2. ASSUME NEW c \in Conversations, Submitted(c), Clashes(c) = {},
               convs' = [convs EXCEPT ![c.id] = c], Saved(c) \/ Extended(c) \/ Decided(c)
        PROVE  Archive!ArchiveNext
    <2>1. /\ c.id \in Ids /\ c # None /\ convs'[c.id] = c
          /\ \A id \in Ids \ {c.id} : convs'[id] = convs[id]
      BY <1>2, PutIs
    <2>2. PICK m, i : m = Image(c) /\ i = c.id
      OBVIOUS
    <2>3. Mapped' = [Mapped EXCEPT ![i] = m]
      BY <2>1, <2>2 DEF Mapped
    <2>4. Archive!Put(i, m)
      BY <1>2, <2>2, <2>3, NoClashIsUnique DEF Archive!Put
    <2>5. m.project = c.project /\ m.msgs = c.msgs /\ m.status = c.status
      BY <2>2, ImageIs
    <2>6. c.msgs \in {r.msgs : r \in Requests} /\ c.project \in Projects /\ c.status \in Statuses
      BY <1>2 DEF Submitted, Conversations
    <2>7. CASE Saved(c)
      <3>1. m \in Archive!Memories
        BY <2>2, <2>6 DEF Archive!Memories, Archive!Held, Image, Statuses
      <3>2. Archive!Save(i)
        <4>1. Mapped[i] = None
          BY <2>1, <2>2, <2>7 DEF Mapped, Saved
        <4> QED
          BY <2>4, <2>5, <2>7, <3>1, <4>1 DEF Archive!Save, Saved
      <3> QED
        BY <2>1, <2>2, <3>2 DEF Archive!ArchiveNext
    <2>8. CASE Extended(c) \/ Decided(c)
      <3>1. convs[i] # None /\ convs[i] \in Conversations /\ convs[i].project = c.project
        BY <2>1, <2>2, <2>8 DEF Extended, Decided, Active, Inv, TypeOK, StoreTypes
      <3>2. PICK a : a = Mapped[i]
        OBVIOUS
      <3>3. /\ a = Image(convs[i]) /\ a # None /\ a.project = c.project /\ a.msgs = convs[i].msgs
            /\ a.status = convs[i].status
        BY <2>1, <2>2, <3>1, <3>2, ImageIs DEF Mapped
      <3>4. CASE Extended(c)
        <4>1. m = [a EXCEPT !.msgs = c.msgs]
          BY <2>2, <3>1, <3>3, <3>4 DEF Image, Extended, Active
        <4>2. IsStrictPrefix(a.msgs, c.msgs) /\ a.status = "active"
          BY <2>2, <3>3, <3>4 DEF Extended, Active
        <4>3. Archive!Extend(i)
          BY <2>4, <2>6, <3>2, <3>3, <4>1, <4>2, ExtendIs
        <4> QED
          BY <2>1, <2>2, <4>3 DEF Archive!ArchiveNext
      <3>5. CASE Decided(c)
        <4>1. m = [a EXCEPT !.status = c.status]
          BY <2>2, <3>1, <3>3, <3>5 DEF Image, Decided
        <4>2. Archive!Decide(i)
          BY <2>2, <2>4, <3>2, <3>3, <3>5, <4>1, DecideIs DEF Decided
        <4> QED
          BY <2>1, <2>2, <4>2 DEF Archive!ArchiveNext
      <3> QED
        BY <2>8, <3>4, <3>5
    <2> QED
      BY <1>2, <2>7, <2>8
  <1> QED
    BY <1>1, <1>2 DEF ArchiveStep

(* ImplementsArchive: one hub, with every interleaving of its ingestions,   *)
(* reviews, retrieves and reindexes, every provider failure and every       *)
(* crash, implements MemoryArchive: a project holds a transcript once,      *)
(* transcripts only gain messages at their end, and a held memory is        *)
(* decided once.                                                            *)
THEOREM HubImplementsArchive == ASSUME OneHub PROVE Spec => ImplementsArchive
  <1>1. Init => Archive!ArchiveInit
    BY DEF Init, Archive!ArchiveInit, Mapped
  <1>2. Inv /\ Inv' /\ Serial /\ Solo /\ [Next]_vars => [Archive!ArchiveNext]_Mapped
    BY SoloStep, ArchiveRefined
  <1> QED
    BY <1>1, <1>2, WellFormed, WritesAreSerial, WritesKnow, PTL DEF Spec, ImplementsArchive, Archive!ArchiveSpec

-----------------------------------------------------------------------------
(* The manifest.  Where only imported sessions are appended to, and none of *)
(* them is held for its content, an active session with messages has a      *)
(* manifest, so that an append never starts one in the middle.              *)

PlainImports ==
    /\ ~TrustedAppends
    /\ \A r \in Requests : r.sensitive => r.origin = None

ManOK(c) ==
    /\ c.chunks # <<>> => Keys(c.chunks) = Keys(chunk_selected_messages(c.id, c.msgs, 0))
    /\ c.session # None /\ c.chunks = <<>> => c.msgs = <<>>

JobMan(at, j) ==
    /\ j.read # None => ManOK(j.read)
    /\ at = "append" => j.read.session # None
    /\ at \in {"review", "hold"} => SessionOf(j) = None

StoredMan == \A id \in Stored : ManOK(convs[id])
Manifests == StoredMan /\ \A w \in Workers : pc[w] # "idle" => JobMan(pc[w], job[w])

LEMMA FreshMan ==
    ASSUME NEW c \in Conversations, Keys(c.chunks) = Keys(chunk_selected_messages(c.id, c.msgs, 0))
    PROVE  ManOK(c)
  <1>1. PICK fresh, msgs : fresh = chunk_selected_messages(c.id, msgs, 0) /\ msgs = c.msgs
    OBVIOUS
  <1>2. /\ fresh \in Seq(Chunks) /\ Len(fresh) = Len(Owners(msgs)) /\ c.chunks \in Seq(Chunks)
        /\ msgs \in Seq(Msgs)
    BY <1>1, ChunksAre DEF Conversations
  <1>3. Len(c.chunks) = Len(fresh)
    BY <1>1, <1>2, SameKeysSameIds
  <1>4. c.chunks = <<>> => msgs = <<>>
    BY <1>2, <1>3, OwnersNonempty
  <1> QED
    BY <1>1, <1>4 DEF ManOK

LEMMA SameMan ==
    ASSUME NEW c \in Conversations, NEW d \in Conversations, ManOK(c), d.id = c.id, d.msgs = c.msgs,
           d.session = c.session, Keys(d.chunks) = Keys(c.chunks)
    PROVE  ManOK(d)
  <1>1. c.chunks \in Seq(Chunks) /\ d.chunks \in Seq(Chunks)
    BY DEF Conversations
  <1>2. Len(d.chunks) = Len(c.chunks)
    BY <1>1, SameKeysSameIds
  <1>3. d.chunks = <<>> <=> c.chunks = <<>>
    BY <1>1, <1>2
  <1> QED
    BY <1>3 DEF ManOK

(* The stored manifests stay as they are, are marked, or one is stored.     *)
LEMMA UnchangedMan ==
    ASSUME StoredMan, UNCHANGED convs
    PROVE  StoredMan'
  BY DEF StoredMan, Stored

LEMMA MarkMan ==
    ASSUME Inv, Inv', StoredMan, NEW id \in Stored, NEW ids, NEW state \in IndexStates,
           MarkChunks(id, ids, state), UNCHANGED <<facts, summaries, vectors>>
    PROVE  StoredMan'
  <1> SUFFICES ASSUME NEW x \in Stored' PROVE ManOK(convs'[x])
    BY DEF StoredMan
  <1>1. PICK c, d : c = convs[x] /\ d = convs'[x]
    OBVIOUS
  <1>2. /\ x \in Stored /\ [d EXCEPT !.chunks = <<>>] = [c EXCEPT !.chunks = <<>>]
        /\ Keys(d.chunks) = Keys(c.chunks)
    BY <1>1, MarkKeeps
  <1>3. c \in Conversations /\ d \in Conversations
    BY <1>1, <1>2, StoredIs DEF Inv, TypeOK, Stored, StoreTypes
  <1>4. d.id = c.id /\ d.msgs = c.msgs /\ d.session = c.session
    BY <1>2, <1>3, CoreIs DEF Core
  <1> QED
    BY <1>1, <1>2, <1>3, <1>4, SameMan DEF StoredMan

LEMMA PutMan ==
    ASSUME Inv, StoredMan, NEW c \in Conversations, ManOK(c), convs' = [convs EXCEPT ![c.id] = c]
    PROVE  StoredMan'
  <1>1. c.id \in Ids /\ c # None
    BY NoneIsNoRecord DEF Conversations
  <1> QED
    BY <1>1 DEF StoredMan, Stored, Inv, TypeOK, StoreTypes

LEMMA StepMan ==
    ASSUME Inv, NEW w \in Workers, NEW k, NEW at, Step(w, k, at), k.read # None => ManOK(k.read),
           at \notin {"append", "review", "hold"}
    PROVE  JobMan(pc[w], job[w])'
  BY StepMoves DEF JobMan

LEMMA ReturnMan ==
    ASSUME Inv, NEW w \in Workers, NEW k \in Jobs, NEW outcome, Return(w, k, outcome),
           k.read # None => ManOK(k.read)
    PROVE  JobMan(pc[w], job[w])'
  <1>1. PICK m : m = [k EXCEPT !.outcome = outcome]
    OBVIOUS
  <1>2. m.read = k.read
    BY <1>1 DEF Jobs
  <1>3. job'[w] = m /\ pc'[w] \in {"done", "approve_facts"}
    BY <1>1, ReturnMoves DEF Answered
  <1> QED
    BY <1>2, <1>3 DEF JobMan

(* The steps that leave the conversation an operation has read.             *)

LEMMA InspectMan ==
    ASSUME Inv, Inv', Manifests, NEW w \in Workers, Inspect(w)
    PROVE  StoredMan' /\ JobMan(pc[w], job[w])'
  <1>1. PICK j : j = job[w]
    OBVIOUS
  <1>2. j \in Jobs /\ JobOK(pc[w], j) /\ JobMan(pc[w], j) /\ StoredMan
    BY <1>1, Running DEF Inspect, Manifests
  <1>3. StoredMan'
    BY <1>2, UnchangedMan DEF Inspect, stores
  <1>4. ASSUME NEW x, Step(w, [j EXCEPT !.marks = x], "repair") PROVE JobMan(pc[w], job[w])'
    <2>1. PICK k : k = [j EXCEPT !.marks = x]
      OBVIOUS
    <2>2. k.read = j.read
      BY <1>1, <1>2, <2>1 DEF Jobs, Reindexing
    <2>3. Step(w, k, "repair") /\ (k.read # None => ManOK(k.read))
      BY <1>2, <1>4, <2>1, <2>2 DEF JobMan
    <2> QED
      BY <2>2, <2>3, StepMan
  <1>5. JobMan(pc[w], job[w])'
    BY <1>1, <1>2, <1>4, StepMan, ReturnMan DEF Inspect, JobMan, AfterRepair
  <1> QED
    BY <1>3, <1>5

LEMMA RepairMan ==
    ASSUME Inv, Inv', Manifests, NEW w \in Workers, Repair(w)
    PROVE  StoredMan' /\ JobMan(pc[w], job[w])'
  <1>1. PICK j : j = job[w]
    OBVIOUS
  <1>2. j \in Jobs /\ JobOK(pc[w], j) /\ JobMan(pc[w], j) /\ StoredMan
    BY <1>1, Running DEF Repair, Manifests
  <1>3. StoredMan'
    <2>1. j.dup \in Stored /\ "indexed" \in IndexStates
      BY <1>1, <1>2 DEF Repair, JobOK, Reading, Indexing, IndexStates
    <2>2. MarkChunks(j.dup, j.marks, "indexed") /\ UNCHANGED <<facts, summaries, vectors>>
      BY <1>1 DEF Repair
    <2> QED
      BY <1>2, <2>1, <2>2, MarkMan
  <1>4. JobMan(pc[w], job[w])'
    BY <1>1, <1>2, StepMan, ReturnMan DEF Repair, JobMan
  <1> QED
    BY <1>3, <1>4

LEMMA CompleteMan ==
    ASSUME Inv, Inv', Manifests, NEW w \in Workers, Complete(w)
    PROVE  StoredMan' /\ JobMan(pc[w], job[w])'
  <1>1. PICK j : j = job[w]
    OBVIOUS
  <1>2. j \in Jobs /\ JobOK(pc[w], j) /\ JobMan(pc[w], j) /\ StoredMan
    BY <1>1, Running DEF Complete, Manifests
  <1>3. StoredMan'
    BY <1>2, UnchangedMan DEF Complete, stores
  <1>4. ASSUME NEW x \in Ids \cup {None}, Return(w, [j EXCEPT !.target = x], "deduplicated") PROVE JobMan(pc[w], job[w])'
    <2>1. PICK k : k = [j EXCEPT !.target = x]
      OBVIOUS
    <2>2. k \in Jobs /\ k.read = j.read
      BY <1>1, <1>2, <2>1 DEF Jobs, Reindexing
    <2>3. Return(w, k, "deduplicated") /\ (k.read # None => ManOK(k.read))
      BY <1>2, <1>4, <2>1, <2>2 DEF JobMan
    <2> QED
      BY <2>2, <2>3, ReturnMan
  <1>5. ASSUME NEW x, Step(w, [j EXCEPT !.req.id = x], "existing") PROVE JobMan(pc[w], job[w])'
    <2>1. PICK k : k = [j EXCEPT !.req.id = x]
      OBVIOUS
    <2>2. k.read = j.read
      BY <1>1, <1>2, <2>1 DEF Jobs, Reindexing
    <2>3. Step(w, k, "existing") /\ (k.read # None => ManOK(k.read))
      BY <1>2, <1>5, <2>1, <2>2 DEF JobMan
    <2> QED
      BY <2>2, <2>3, StepMan
  <1>6. JobMan(pc[w], job[w])'
    BY <1>1, <1>2, <1>4, <1>5 DEF Complete, Jobs
  <1> QED
    BY <1>3, <1>6

LEMMA ExistingMan ==
    ASSUME Inv, Inv', Manifests, NEW w \in Workers, Existing(w)
    PROVE  StoredMan' /\ JobMan(pc[w], job[w])'
  <1>1. PICK j : j = job[w]
    OBVIOUS
  <1>2. j \in Jobs /\ JobOK(pc[w], j) /\ JobMan(pc[w], j) /\ StoredMan
    BY <1>1, Running DEF Existing, Manifests
  <1>3. StoredMan'
    BY <1>2, UnchangedMan DEF Existing, stores
  <1>4. JobMan(pc[w], job[w])'
    BY <1>1, <1>2, StepMan, ReturnMan DEF Existing, JobMan
  <1> QED
    BY <1>3, <1>4

LEMMA SummarizeMan ==
    ASSUME Inv, Inv', Manifests, NEW w \in Workers, Summarize(w)
    PROVE  StoredMan' /\ JobMan(pc[w], job[w])'
  <1>1. PICK j : j = job[w]
    OBVIOUS
  <1>2. j \in Jobs /\ JobOK(pc[w], j) /\ JobMan(pc[w], j) /\ StoredMan
    BY <1>1, Running DEF Summarize, Manifests
  <1>3. StoredMan'
    BY <1>2, UnchangedMan DEF Summarize, stores
  <1>4. ASSUME NEW x, NEW y, Step(w, Reindexing(j, x, y), "embed") PROVE JobMan(pc[w], job[w])'
    <2>1. PICK k : k = Reindexing(j, x, y)
      OBVIOUS
    <2>2. k.read = j.read
      BY <1>1, <1>2, <2>1 DEF Jobs, Reindexing
    <2>3. Step(w, k, "embed") /\ (k.read # None => ManOK(k.read))
      BY <1>2, <1>4, <2>1, <2>2 DEF JobMan
    <2> QED
      BY <2>2, <2>3, StepMan
  <1>5. JobMan(pc[w], job[w])'
    BY <1>1, <1>2, <1>4, StepMan DEF Summarize, JobMan
  <1> QED
    BY <1>3, <1>5

LEMMA ResolveMan ==
    ASSUME Inv, Inv', Manifests, NEW w \in Workers, Resolve(w)
    PROVE  StoredMan' /\ JobMan(pc[w], job[w])'
  <1>1. PICK j : j = job[w]
    OBVIOUS
  <1>2. j \in Jobs /\ JobOK(pc[w], j) /\ JobMan(pc[w], j) /\ StoredMan
    BY <1>1, Running DEF Resolve, Manifests
  <1>3. StoredMan'
    BY <1>2, UnchangedMan DEF Resolve, stores
  <1>4. ASSUME NEW x \in Ids, Return(w, [j EXCEPT !.target = x], "held") PROVE JobMan(pc[w], job[w])'
    <2>1. PICK k : k = [j EXCEPT !.target = x]
      OBVIOUS
    <2>2. k \in Jobs /\ k.read = j.read
      BY <1>1, <1>2, <2>1 DEF Jobs, Reindexing
    <2>3. Return(w, k, "held") /\ (k.read # None => ManOK(k.read))
      BY <1>2, <1>4, <2>1, <2>2 DEF JobMan
    <2> QED
      BY <2>2, <2>3, ReturnMan
  <1>5. ASSUME NEW x, NEW y, Step(w, Reindexing(j, x, y), "embed") PROVE JobMan(pc[w], job[w])'
    <2>1. PICK k : k = Reindexing(j, x, y)
      OBVIOUS
    <2>2. k.read = j.read
      BY <1>1, <1>2, <2>1 DEF Jobs, Reindexing
    <2>3. Step(w, k, "embed") /\ (k.read # None => ManOK(k.read))
      BY <1>2, <1>5, <2>1, <2>2 DEF JobMan
    <2> QED
      BY <2>2, <2>3, StepMan
  <1>6. JobMan(pc[w], job[w])'
    BY <1>1, <1>2, <1>4, <1>5, StepMan, ReturnMan DEF Resolve, JobMan, ByHash, Stored
  <1> QED
    BY <1>3, <1>6

LEMMA DeleteVectorsMan ==
    ASSUME Inv, Inv', Manifests, NEW w \in Workers, DeleteVectors(w)
    PROVE  StoredMan' /\ JobMan(pc[w], job[w])'
  <1>1. PICK j : j = job[w]
    OBVIOUS
  <1>2. j \in Jobs /\ JobOK(pc[w], j) /\ JobMan(pc[w], j) /\ StoredMan
    BY <1>1, Running DEF DeleteVectors, Manifests
  <1>3. StoredMan'
    BY <1>2, UnchangedMan DEF DeleteVectors, stores
  <1>4. JobMan(pc[w], job[w])'
    BY <1>1, <1>2, StepMan, ReturnMan DEF DeleteVectors, JobMan
  <1> QED
    BY <1>3, <1>4

LEMMA UpsertVectorsMan ==
    ASSUME Inv, Inv', Manifests, NEW w \in Workers, UpsertVectors(w)
    PROVE  StoredMan' /\ JobMan(pc[w], job[w])'
  <1>1. PICK j : j = job[w]
    OBVIOUS
  <1>2. j \in Jobs /\ JobOK(pc[w], j) /\ JobMan(pc[w], j) /\ StoredMan
    BY <1>1, Running DEF UpsertVectors, Manifests
  <1>3. StoredMan'
    BY <1>2, UnchangedMan DEF UpsertVectors, stores
  <1>4. JobMan(pc[w], job[w])'
    BY <1>1, <1>2, StepMan, ReturnMan DEF UpsertVectors, JobMan
  <1> QED
    BY <1>3, <1>4

LEMMA ProviderFailsMan ==
    ASSUME Inv, Inv', Manifests, NEW w \in Workers, ProviderFails(w)
    PROVE  StoredMan' /\ JobMan(pc[w], job[w])'
  <1>1. PICK j : j = job[w]
    OBVIOUS
  <1>2. j \in Jobs /\ JobOK(pc[w], j) /\ JobMan(pc[w], j) /\ StoredMan
    BY <1>1, Running DEF ProviderFails, Manifests
  <1>3. StoredMan'
    BY <1>2, UnchangedMan DEF ProviderFails, stores
  <1>4. JobMan(pc[w], job[w])'
    BY <1>1, <1>2, StepMan, ReturnMan DEF ProviderFails, JobMan
  <1> QED
    BY <1>3, <1>4

LEMMA MarkIndexedMan ==
    ASSUME Inv, Inv', Manifests, NEW w \in Workers, MarkIndexed(w)
    PROVE  StoredMan' /\ JobMan(pc[w], job[w])'
  <1>1. PICK j : j = job[w]
    OBVIOUS
  <1>2. j \in Jobs /\ JobOK(pc[w], j) /\ JobMan(pc[w], j) /\ StoredMan
    BY <1>1, Running DEF MarkIndexed, Manifests
  <1>3. StoredMan'
    <2>1. j.target \in Stored /\ "indexed" \in IndexStates
      BY <1>1, <1>2 DEF MarkIndexed, JobOK, Reading, Indexing, IndexStates
    <2>2. MarkChunks(j.target, ChunkIds(j.chunks), "indexed") /\ UNCHANGED <<facts, summaries, vectors>>
      BY <1>1 DEF MarkIndexed
    <2> QED
      BY <1>2, <2>1, <2>2, MarkMan
  <1>4. JobMan(pc[w], job[w])'
    BY <1>1, <1>2, StepMan, ReturnMan DEF MarkIndexed, JobMan
  <1> QED
    BY <1>3, <1>4

LEMMA MarkFailedMan ==
    ASSUME Inv, Inv', Manifests, NEW w \in Workers, MarkFailed(w)
    PROVE  StoredMan' /\ JobMan(pc[w], job[w])'
  <1>1. PICK j : j = job[w]
    OBVIOUS
  <1>2. j \in Jobs /\ JobOK(pc[w], j) /\ JobMan(pc[w], j) /\ StoredMan
    BY <1>1, Running DEF MarkFailed, Manifests
  <1>3. StoredMan'
    <2>1. j.target \in Stored /\ "indexing_failed" \in IndexStates
      BY <1>1, <1>2 DEF MarkFailed, JobOK, Reading, Indexing, IndexStates
    <2>2. MarkChunks(j.target, ChunkIds(j.chunks), "indexing_failed") /\ UNCHANGED <<facts, summaries, vectors>>
      BY <1>1 DEF MarkFailed
    <2> QED
      BY <1>2, <2>1, <2>2, MarkMan
  <1>4. ASSUME Step(w, [j EXCEPT !.outcome = "error"], "next") PROVE JobMan(pc[w], job[w])'
    <2>1. PICK k : k = [j EXCEPT !.outcome = "error"]
      OBVIOUS
    <2>2. k.read = j.read
      BY <1>1, <1>2, <2>1 DEF Jobs, Reindexing
    <2>3. Step(w, k, "next") /\ (k.read # None => ManOK(k.read))
      BY <1>2, <1>4, <2>1, <2>2 DEF JobMan
    <2> QED
      BY <2>2, <2>3, StepMan
  <1>5. JobMan(pc[w], job[w])'
    BY <1>1, <1>2, <1>4, StepMan, ReturnMan DEF MarkFailed, JobMan
  <1> QED
    BY <1>3, <1>5

LEMMA ExtractFactsMan ==
    ASSUME Inv, Inv', Manifests, NEW w \in Workers, ExtractFacts(w)
    PROVE  StoredMan' /\ JobMan(pc[w], job[w])'
  <1>1. PICK j : j = job[w]
    OBVIOUS
  <1>2. j \in Jobs /\ JobOK(pc[w], j) /\ JobMan(pc[w], j) /\ StoredMan
    BY <1>1, Running DEF ExtractFacts, Manifests
  <1>3. StoredMan'
    BY <1>2, UnchangedMan DEF ExtractFacts, stores
  <1>4. JobMan(pc[w], job[w])'
    BY <1>1, <1>2, StepMan, ReturnMan DEF ExtractFacts, JobMan
  <1> QED
    BY <1>3, <1>4

LEMMA ApproveFactsMan ==
    ASSUME Inv, Inv', Manifests, NEW w \in Workers, ApproveFacts(w)
    PROVE  StoredMan' /\ JobMan(pc[w], job[w])'
  <1>1. PICK j : j = job[w]
    OBVIOUS
  <1>2. j \in Jobs /\ JobOK(pc[w], j) /\ JobMan(pc[w], j) /\ StoredMan
    BY <1>1, Running DEF ApproveFacts, Manifests
  <1>3. StoredMan'
    BY <1>2, UnchangedMan DEF ApproveFacts, stores
  <1>4. JobMan(pc[w], job[w])'
    BY <1>1, <1>2, StepMan, ReturnMan DEF ApproveFacts, JobMan
  <1> QED
    BY <1>3, <1>4

LEMMA ReindexMan ==
    ASSUME Inv, Inv', Manifests, NEW w \in Workers, Reindex(w)
    PROVE  StoredMan' /\ JobMan(pc[w], job[w])'
  <1>1. PICK j : j = job[w]
    OBVIOUS
  <1>2. j \in Jobs /\ JobOK(pc[w], j) /\ JobMan(pc[w], j) /\ StoredMan
    BY <1>1, Running DEF Reindex, Manifests
  <1>3. StoredMan'
    BY <1>2, UnchangedMan DEF Reindex, stores
  <1>4. ASSUME NEW x, Step(w, [j EXCEPT !.replace = x], "list") PROVE JobMan(pc[w], job[w])'
    <2>1. PICK k : k = [j EXCEPT !.replace = x]
      OBVIOUS
    <2>2. k.read = j.read
      BY <1>1, <1>2, <2>1 DEF Jobs, Reindexing
    <2>3. Step(w, k, "list") /\ (k.read # None => ManOK(k.read))
      BY <1>2, <1>4, <2>1, <2>2 DEF JobMan
    <2> QED
      BY <2>2, <2>3, StepMan
  <1>5. JobMan(pc[w], job[w])'
    BY <1>1, <1>2, <1>4, StepMan, ReturnMan DEF Reindex, JobMan
  <1> QED
    BY <1>3, <1>5

LEMMA ListMan ==
    ASSUME Inv, Inv', Manifests, NEW w \in Workers, List(w)
    PROVE  StoredMan' /\ JobMan(pc[w], job[w])'
  <1>1. PICK j : j = job[w]
    OBVIOUS
  <1>2. j \in Jobs /\ JobOK(pc[w], j) /\ JobMan(pc[w], j) /\ StoredMan
    BY <1>1, Running DEF List, Manifests
  <1>3. StoredMan'
    BY <1>2, UnchangedMan DEF List, stores
  <1>4. ASSUME NEW x, Step(w, [j EXCEPT !.todo = x], "next") PROVE JobMan(pc[w], job[w])'
    <2>1. PICK k : k = [j EXCEPT !.todo = x]
      OBVIOUS
    <2>2. k.read = j.read
      BY <1>1, <1>2, <2>1 DEF Jobs, Reindexing
    <2>3. Step(w, k, "next") /\ (k.read # None => ManOK(k.read))
      BY <1>2, <1>4, <2>1, <2>2 DEF JobMan
    <2> QED
      BY <2>2, <2>3, StepMan
  <1>5. JobMan(pc[w], job[w])'
    BY <1>1, <1>2, <1>4, StepMan, ReturnMan DEF List, JobMan
  <1> QED
    BY <1>3, <1>5

LEMMA NextConversationMan ==
    ASSUME Inv, Inv', Manifests, NEW w \in Workers, NextConversation(w)
    PROVE  StoredMan' /\ JobMan(pc[w], job[w])'
  <1>1. PICK j : j = job[w]
    OBVIOUS
  <1>2. j \in Jobs /\ JobOK(pc[w], j) /\ JobMan(pc[w], j) /\ StoredMan
    BY <1>1, Running DEF NextConversation, Manifests
  <1>3. StoredMan'
    BY <1>2, UnchangedMan DEF NextConversation, stores
  <1>4. ASSUME NEW x, NEW y, NEW z, Step(w, [j EXCEPT !.todo = x, !.target = y, !.chunks = z], "embed") PROVE JobMan(pc[w], job[w])'
    <2>1. PICK k : k = [j EXCEPT !.todo = x, !.target = y, !.chunks = z]
      OBVIOUS
    <2>2. k.read = j.read
      BY <1>1, <1>2, <2>1 DEF Jobs, Reindexing
    <2>3. Step(w, k, "embed") /\ (k.read # None => ManOK(k.read))
      BY <1>2, <1>4, <2>1, <2>2 DEF JobMan
    <2> QED
      BY <2>2, <2>3, StepMan
  <1>5. JobMan(pc[w], job[w])'
    BY <1>1, <1>2, <1>4, StepMan, ReturnMan DEF NextConversation, JobMan
  <1> QED
    BY <1>3, <1>5

(* The steps that read or store a conversation.                             *)

LEMMA LookupMan ==
    ASSUME Inv, Inv', Manifests, NEW w \in Workers, Lookup(w)
    PROVE  StoredMan' /\ JobMan(pc[w], job[w])'
  <1>1. PICK j : j = job[w]
    OBVIOUS
  <1>2. j \in Jobs /\ JobOK(pc[w], j) /\ JobMan(pc[w], j) /\ StoredMan
    BY <1>1, Running DEF Lookup, Manifests
  <1>3. StoredMan'
    BY <1>2, UnchangedMan DEF Lookup, stores
  <1>4. ASSUME NEW id \in Stored, NEW at \in {"inspect", "complete"},
               Step(w, [j EXCEPT !.dup = id, !.read = convs[id]], at)
        PROVE  JobMan(pc[w], job[w])'
    <2>1. PICK k, c : k = [j EXCEPT !.dup = id, !.read = c] /\ c = convs[id]
      OBVIOUS
    <2>2. k.read = c
      BY <1>2, <2>1 DEF Jobs
    <2>3. Step(w, k, at) /\ ManOK(k.read)
      BY <1>2, <1>4, <2>1, <2>2 DEF StoredMan
    <2> QED
      BY <2>3, StepMan
  <1>5. JobMan(pc[w], job[w])'
    BY <1>1, <1>2, <1>4, StepMan DEF Lookup, ByHash, JobMan
  <1> QED
    BY <1>3, <1>5

LEMMA RetrieveMan ==
    ASSUME Inv, Inv', Manifests, NEW w \in Workers, Retrieve(w)
    PROVE  StoredMan' /\ JobMan(pc[w], job[w])'
  <1>1. PICK j : j = job[w]
    OBVIOUS
  <1>2. j \in Jobs /\ JobOK(pc[w], j) /\ JobMan(pc[w], j) /\ StoredMan
    BY <1>1, Running DEF Retrieve, Manifests
  <1>3. StoredMan'
    BY <1>2, UnchangedMan DEF Retrieve, stores
  <1>4. ASSUME convs[j.req.id] # None, NEW x,
               Step(w, [j EXCEPT !.dup = x, !.read = convs[j.req.id]], "inspect")
        PROVE  JobMan(pc[w], job[w])'
    <2>1. PICK k, c, id : /\ k = [j EXCEPT !.dup = x, !.read = c] /\ c = convs[id] /\ id = j.req.id
      OBVIOUS
    <2>2. k.read = c /\ id \in Stored
      BY <1>1, <1>2, <1>4, <2>1, NoneIsNoRecord
         DEF Retrieve, Jobs, JobOK, OpOK, Stored, Payloads
    <2>3. Step(w, k, "inspect") /\ ManOK(k.read)
      BY <1>2, <1>4, <2>1, <2>2 DEF StoredMan
    <2> QED
      BY <2>3, StepMan
  <1>5. JobMan(pc[w], job[w])'
    BY <1>1, <1>2, <1>4, ReturnMan DEF Retrieve, JobMan
  <1> QED
    BY <1>3, <1>5

LEMMA RefreshMan ==
    ASSUME Inv, Inv', Manifests, NEW w \in Workers, Refresh(w)
    PROVE  StoredMan' /\ JobMan(pc[w], job[w])'
  <1>1. PICK j : j = job[w]
    OBVIOUS
  <1>2. j \in Jobs /\ JobOK(pc[w], j) /\ JobMan(pc[w], j) /\ StoredMan
    BY <1>1, Running DEF Refresh, Manifests
  <1>3. StoredMan'
    BY <1>2, UnchangedMan DEF Refresh, stores
  <1>4. PICK k, c : k = [j EXCEPT !.read = c] /\ c = convs[j.dup]
    OBVIOUS
  <1>5. j.dup \in Stored
    BY <1>1, <1>2 DEF Refresh, JobOK, Reading
  <1>6. c \in Conversations /\ ManOK(c)
    BY <1>2, <1>4, <1>5, StoredIs DEF Inv, TypeOK, StoredMan
  <1>7. k \in Jobs /\ ManOK(k.read)
    BY <1>2, <1>4, <1>6 DEF Jobs
  <1>8. AfterRepair(w, k)
    BY <1>1, <1>4 DEF Refresh
  <1> QED
    BY <1>3, <1>7, <1>8, StepMan, ReturnMan DEF AfterRepair

LEMMA DecideMan ==
    ASSUME Inv, Inv', Manifests, NEW w \in Workers, Decide(w)
    PROVE  StoredMan' /\ JobMan(pc[w], job[w])'
  <1>1. PICK j : j = job[w]
    OBVIOUS
  <1>2. j \in Jobs /\ JobOK(pc[w], j) /\ JobMan(pc[w], j) /\ StoredMan
    BY <1>1, Running DEF Decide, Manifests
  <1>3. StoredMan'
    BY <1>2, UnchangedMan DEF Decide, stores
  <1>4. ASSUME convs[j.req.id] # None, NEW x, NEW at \in {"approve", "reject"},
               Step(w, [j EXCEPT !.read = convs[j.req.id], !.target = x], at)
        PROVE  JobMan(pc[w], job[w])'
    <2>1. PICK k, c, id : /\ k = [j EXCEPT !.read = c, !.target = x] /\ c = convs[id] /\ id = j.req.id
      OBVIOUS
    <2>2. k.read = c /\ id \in Stored
      BY <1>1, <1>2, <1>4, <2>1, NoneIsNoRecord
         DEF Decide, Jobs, JobOK, OpOK, Stored, Payloads
    <2>3. Step(w, k, at) /\ ManOK(k.read)
      BY <1>2, <1>4, <2>1, <2>2 DEF StoredMan
    <2> QED
      BY <2>3, StepMan
  <1>5. j.op \in {"approve", "reject"}
    BY <1>1, <1>2 DEF Decide, JobOK, OpOK
  <1>6. JobMan(pc[w], job[w])'
    BY <1>1, <1>2, <1>4, <1>5, ReturnMan DEF Decide, JobMan
  <1> QED
    BY <1>3, <1>6

LEMMA ReviewMan ==
    ASSUME Inv, Inv', Manifests, NEW w \in Workers, Review(w)
    PROVE  StoredMan' /\ JobMan(pc[w], job[w])'
  <1>1. PICK j : j = job[w]
    OBVIOUS
  <1>2. j \in Jobs /\ JobOK(pc[w], j) /\ JobMan(pc[w], j) /\ StoredMan
    BY <1>1, Running DEF Review, Manifests
  <1>3. StoredMan'
    BY <1>2, UnchangedMan DEF Review, stores
  <1>4. CASE Step(w, j, "hold")
    <2>1. JobMan("hold", j)
      BY <1>1, <1>2 DEF Review, JobMan
    <2> QED
      BY <1>3, <1>4, <2>1, StepMoves
  <1>5. CASE Return(w, j, "error")
    BY <1>2, <1>3, <1>5, ReturnMan DEF JobMan
  <1> QED
    BY <1>1, <1>3, <1>4, <1>5 DEF Review

LEMMA RewriteMan ==
    ASSUME Inv, Inv', Manifests, NEW w \in Workers, Rewrite(w)
    PROVE  StoredMan' /\ JobMan(pc[w], job[w])'
  <1>1. PICK j : j = job[w]
    OBVIOUS
  <1>2. j \in Jobs /\ JobOK(pc[w], j) /\ JobMan(pc[w], j) /\ StoredMan
    BY <1>1, Running DEF Rewrite, Manifests
  <1>3. /\ j.read \in Conversations /\ j.read # None
        /\ j.chunks = chunk_selected_messages(j.read.id, j.read.msgs, 0)
    BY <1>1, <1>2 DEF Rewrite, Jobs, JobOK, Carrying
  <1>4. PICK c : c = [j.read EXCEPT !.chunks = j.chunks]
    OBVIOUS
  <1>5. c \in Conversations /\ c.id = j.read.id /\ c.msgs = j.read.msgs /\ c.chunks = j.chunks
    BY <1>2, <1>3, <1>4 DEF Jobs, Conversations
  <1>6. ManOK(c)
    BY <1>3, <1>5, FreshMan
  <1>7. StoredMan'
    BY <1>1, <1>2, <1>4, <1>5, <1>6, PutMan, UnchangedMan DEF Rewrite
  <1>8. JobMan(pc[w], job[w])'
    BY <1>1, <1>2, StepMan, ReturnMan DEF Rewrite, JobMan
  <1> QED
    BY <1>7, <1>8

LEMMA ResaveMan ==
    ASSUME Inv, Inv', Manifests, NEW w \in Workers, Resave(w)
    PROVE  StoredMan' /\ JobMan(pc[w], job[w])'
  <1>1. PICK j : j = job[w]
    OBVIOUS
  <1>2. j \in Jobs /\ JobOK(pc[w], j) /\ JobMan(pc[w], j) /\ StoredMan
    BY <1>1, Running DEF Resave, Manifests
  <1>3. j.read \in Conversations /\ ManOK(j.read)
    BY <1>1, <1>2 DEF Resave, Jobs, JobOK, Carrying, JobMan
  <1>4. StoredMan'
    BY <1>1, <1>2, <1>3, PutMan, UnchangedMan DEF Resave
  <1>5. JobMan(pc[w], job[w])'
    BY <1>1, <1>2, StepMan DEF Resave, JobMan
  <1> QED
    BY <1>4, <1>5

LEMMA AppendMessagesMan ==
    ASSUME Inv, Inv', Manifests, NEW w \in Workers, AppendMessages(w)
    PROVE  StoredMan' /\ JobMan(pc[w], job[w])'
  <1>1. PICK j : j = job[w]
    OBVIOUS
  <1>2. j \in Jobs /\ JobOK(pc[w], j) /\ JobMan(pc[w], j) /\ StoredMan
    BY <1>1, Running DEF AppendMessages, Manifests
  <1>3. pc[w] = "append" /\ JobOK("append", j) /\ JobMan("append", j)
    BY <1>1, <1>2 DEF AppendMessages
  <1>4. PICK c, r, u, k : c = j.read /\ r = j.req /\ u = Appended(c, r) /\ k = AfterAppend(j)
    OBVIOUS
  <1>5. /\ c \in Conversations /\ r \in Payloads /\ u \in Conversations /\ u.id = c.id
        /\ k.read = u /\ u.msgs = r.msgs /\ u.session = c.session
    BY <1>2, <1>3, <1>4, AfterAppendIs
  <1>6. ManOK(c) /\ c.session # None /\ IsStrictPrefix(c.msgs, r.msgs)
    BY <1>3, <1>4 DEF JobMan, JobOK, Carrying
  <1>7. PICK new, n : new = SubSeq(r.msgs, Len(c.msgs) + 1, Len(r.msgs)) /\ n = Len(c.msgs)
    OBVIOUS
  <1>8. /\ new \in Seq(Msgs) /\ r.msgs = c.msgs \o new
        /\ u.chunks = c.chunks \o chunk_selected_messages(c.id, new, NextChunkIndex(c.chunks, n))
    <2>1. /\ SubSeq(r.msgs, Len(c.msgs) + 1, Len(r.msgs)) \in Seq(Msgs)
          /\ r.msgs = c.msgs \o SubSeq(r.msgs, Len(c.msgs) + 1, Len(r.msgs))
          /\ Appended(c, r).chunks
               = c.chunks \o chunk_selected_messages(c.id, SubSeq(r.msgs, Len(c.msgs) + 1, Len(r.msgs)),
                                                     NextChunkIndex(c.chunks, Len(c.msgs)))
      BY <1>5, <1>6, AppendedIs
    <2> QED
      BY <1>4, <1>7, <2>1
  <1>9. /\ c.id \in Ids /\ c.msgs \in Seq(Msgs) /\ c.chunks \in Seq(Chunks) /\ n \in Nat
        /\ c.chunks # <<>> \/ c.msgs = <<>>
        /\ c.chunks # <<>> => Keys(c.chunks) = Keys(chunk_selected_messages(c.id, c.msgs, 0))
        /\ c.chunks = <<>> => n = 0
    BY <1>5, <1>6, <1>7 DEF Conversations, ManOK
  <1>10. ManOK(u)
    <2>1. PICK i, a, m : i = c.id /\ a = c.msgs /\ m = c.chunks
      OBVIOUS
    <2>2. Keys(m \o chunk_selected_messages(i, new, NextChunkIndex(m, n)))
             = Keys(chunk_selected_messages(i, a \o new, 0))
      BY <1>8, <1>9, <2>1, AppendedChunking
    <2>3. Keys(u.chunks) = Keys(chunk_selected_messages(u.id, u.msgs, 0))
      BY <1>5, <1>8, <2>1, <2>2
    <2> QED
      BY <1>5, <2>3, FreshMan
  <1>11. CASE Step(w, k, "summarize") /\ convs' = [convs EXCEPT ![c.id] = u]
    <2>1. StoredMan'
      BY <1>2, <1>5, <1>10, <1>11, PutMan
    <2> QED
      BY <1>5, <1>10, <1>11, <2>1, StepMan
  <1>12. CASE UNCHANGED convs /\ Return(w, j, "error")
    BY <1>2, <1>12, ReturnMan, UnchangedMan DEF JobMan
  <1>13. CASE UNCHANGED convs /\ RetryAppend(w, j)
    <2>1. PICK m : m = [j EXCEPT !.attempts = j.attempts + 1]
      OBVIOUS
    <2>2. m \in Jobs /\ m.read = j.read
      <3>1. j \in Jobs /\ j.attempts + 1 \in Nat
        BY <1>2 DEF Jobs
      <3> QED
        BY <2>1, <3>1 DEF Jobs
    <2>3. Return(w, m, "error") \/ Step(w, m, "same_thread")
      BY <1>13, <2>1 DEF RetryAppend
    <2> QED
      BY <1>2, <1>13, <2>2, <2>3, StepMan, ReturnMan, UnchangedMan DEF JobMan
  <1> QED
    BY <1>1, <1>4, <1>11, <1>12, <1>13, AppendCases

LEMMA InsertMan ==
    ASSUME Inv, Inv', Manifests, NEW w \in Workers, Insert(w)
    PROVE  StoredMan' /\ JobMan(pc[w], job[w])'
  <1>1. PICK j : j = job[w]
    OBVIOUS
  <1>2. j \in Jobs /\ JobOK(pc[w], j) /\ JobMan(pc[w], j) /\ StoredMan
    BY <1>1, Running DEF Insert, Manifests
  <1>3. PICK cs : cs = chunk_selected_messages(j.req.id, j.req.msgs, 0)
    OBVIOUS
  <1>4. /\ j.req \in Payloads /\ j.req.id \in Ids /\ j.req.msgs \in Seq(Msgs) /\ Submitted(j.req)
        /\ SessionOf(j) \in Sessions \cup {None}
    BY <1>1, <1>2 DEF Insert, Jobs, JobOK, OpOK, Payloading, Ingesting, Payloads, SessionOf
  <1>5. cs \in Seq(Chunks) /\ "active" \in Statuses
    BY <1>3, <1>4, ChunksAre DEF Statuses
  <1>6. PICK k, c : /\ k = [j EXCEPT !.target = j.req.id, !.chunks = cs, !.extract = DOMAIN j.req.msgs]
                    /\ c = Conversation(j.req, SessionOf(j), "active", cs)
    OBVIOUS
  <1>7. c \in Conversations /\ c.id = j.req.id /\ c.msgs = j.req.msgs /\ c.chunks = cs
    BY <1>4, <1>5, <1>6, ConversationIs
  <1>8. ManOK(c)
    BY <1>3, <1>7, FreshMan
  <1>9. InsertNew(w, k, c, "embed")
    BY <1>1, <1>3, <1>6 DEF Insert
  <1>10. StoredMan'
    BY <1>2, <1>7, <1>8, <1>9, PutMan, UnchangedMan DEF InsertNew
  <1>11. k.read = j.read
    BY <1>2, <1>6 DEF Jobs
  <1>12. JobMan(pc[w], job[w])'
    BY <1>2, <1>9, <1>11, StepMan DEF InsertNew, JobMan
  <1> QED
    BY <1>10, <1>12

LEMMA HoldMan ==
    ASSUME Inv, Inv', Manifests, NEW w \in Workers, Hold(w)
    PROVE  StoredMan' /\ JobMan(pc[w], job[w])'
  <1>1. PICK j : j = job[w]
    OBVIOUS
  <1>2. j \in Jobs /\ JobOK(pc[w], j) /\ JobMan(pc[w], j) /\ StoredMan
    BY <1>1, Running DEF Hold, Manifests
  <1>3. j.req \in Payloads /\ Submitted(j.req) /\ SessionOf(j) = None
    BY <1>1, <1>2 DEF Hold, Jobs, JobOK, OpOK, Payloading, JobMan
  <1>4. HeldStatus(j.req) \in Statuses /\ <<>> \in Seq(Chunks) /\ SessionOf(j) \in Sessions \cup {None}
    BY <1>3 DEF HeldStatus, Statuses
  <1>5. PICK k, c : /\ k = [j EXCEPT !.target = j.req.id, !.outcome = "held"]
                    /\ c = Conversation(j.req, SessionOf(j), HeldStatus(j.req), <<>>)
    OBVIOUS
  <1>6. c \in Conversations /\ c.session = None /\ c.chunks = <<>>
    <2>1. PICK r, s, t : r = j.req /\ s = SessionOf(j) /\ t = HeldStatus(r)
      OBVIOUS
    <2>2. r \in Payloads /\ Submitted(r) /\ s \in Sessions \cup {None} /\ t \in Statuses
      BY <1>3, <1>4, <2>1
    <2>3. c = Conversation(r, s, t, <<>>)
      BY <1>5, <2>1
    <2>4. c \in Conversations /\ c.session = s /\ c.chunks = <<>>
      BY <1>4, <2>2, <2>3 DEF Conversation, Conversations, Payloads
    <2> QED
      BY <1>3, <2>1, <2>4
  <1>7. ManOK(c)
    BY <1>6 DEF ManOK
  <1>8. InsertNew(w, k, c, "done")
    BY <1>1, <1>5 DEF Hold
  <1>9. StoredMan'
    BY <1>2, <1>6, <1>7, <1>8, PutMan, UnchangedMan DEF InsertNew
  <1>10. k.read = j.read
    BY <1>2, <1>5 DEF Jobs
  <1>11. JobMan(pc[w], job[w])'
    BY <1>2, <1>8, <1>10, StepMan DEF InsertNew, JobMan
  <1> QED
    BY <1>9, <1>11

LEMMA ApproveMan ==
    ASSUME Inv, Inv', Manifests, NEW w \in Workers, Approve(w)
    PROVE  StoredMan' /\ JobMan(pc[w], job[w])'
  <1>1. PICK j : j = job[w]
    OBVIOUS
  <1>2. j \in Jobs /\ JobOK(pc[w], j) /\ JobMan(pc[w], j) /\ StoredMan
    BY <1>1, Running DEF Approve, Manifests
  <1>3. j.read \in Conversations /\ Submitted(j.read) /\ ManOK(j.read)
    BY <1>1, <1>2 DEF Approve, Jobs, JobOK, Carrying, JobMan
  <1>4. PICK c, r, k : c = Approved(j.read) /\ r = PayloadOf(c) /\ k = NewJob("approve", r)
    OBVIOUS
  <1>5. /\ c \in Conversations /\ c.id = j.read.id /\ c.msgs = j.read.msgs
        /\ c.session = j.read.session /\ c.chunks = j.read.chunks
    BY <1>3, <1>4, ApprovedIs
  <1>6. ManOK(c) /\ k.read = None
    BY <1>3, <1>4, <1>5 DEF ManOK, NewJob
  <1>7. CASE Return(w, j, "error") /\ UNCHANGED convs
    BY <1>2, <1>7, ReturnMan, UnchangedMan DEF JobMan
  <1>8. CASE Step(w, k, "lookup") /\ convs' = [convs EXCEPT ![c.id] = c]
    BY <1>2, <1>5, <1>6, <1>8, StepMan, PutMan
  <1> QED
    BY <1>1, <1>4, <1>7, <1>8 DEF Approve, Approved

LEMMA RejectMan ==
    ASSUME Inv, Inv', Manifests, NEW w \in Workers, Reject(w)
    PROVE  StoredMan' /\ JobMan(pc[w], job[w])'
  <1>1. PICK j : j = job[w]
    OBVIOUS
  <1>2. j \in Jobs /\ JobOK(pc[w], j) /\ JobMan(pc[w], j) /\ StoredMan
    BY <1>1, Running DEF Reject, Manifests
  <1>3. j.read \in Conversations /\ ManOK(j.read)
    BY <1>1, <1>2 DEF Reject, Jobs, JobOK, Carrying, JobMan
  <1>4. PICK c : c = [j.read EXCEPT !.status = "rejected"]
    OBVIOUS
  <1>5. /\ c \in Conversations /\ c.id = j.read.id /\ c.msgs = j.read.msgs
        /\ c.session = j.read.session /\ c.chunks = j.read.chunks
    BY <1>3, <1>4 DEF Conversations, Statuses
  <1>6. ManOK(c)
    BY <1>3, <1>5 DEF ManOK
  <1>7. StoredMan'
    BY <1>1, <1>2, <1>4, <1>5, <1>6, PutMan, UnchangedMan DEF Reject
  <1>8. JobMan(pc[w], job[w])'
    BY <1>1, <1>2, ReturnMan DEF Reject, JobMan
  <1> QED
    BY <1>7, <1>8

LEMMA ClassifyMan ==
    ASSUME PlainImports, Inv, Inv', Manifests, NEW w \in Workers, Classify(w)
    PROVE  StoredMan' /\ JobMan(pc[w], job[w])'
  <1>1. PICK j : j = job[w]
    OBVIOUS
  <1>2. j \in Jobs /\ JobOK(pc[w], j) /\ JobMan(pc[w], j) /\ StoredMan
    BY <1>1, Running DEF Classify, Manifests
  <1>3. StoredMan'
    BY <1>2, UnchangedMan DEF Classify, stores
  <1>4. CASE Return(w, j, "error")
    BY <1>2, <1>3, <1>4, ReturnMan DEF JobMan
  <1>5. CASE Step(w, [j EXCEPT !.read = None], "summarize")
    <2>1. PICK k : k = [j EXCEPT !.read = None]
      OBVIOUS
    <2>2. k.read = None
      BY <1>2, <2>1 DEF Jobs
    <2>3. Step(w, k, "summarize")
      BY <1>5, <2>1
    <2> QED
      BY <1>3, <2>2, <2>3, StepMan
  <1>6. ASSUME NEW id \in SameThread(j), id # None, Found(w, j, id, convs[id])
        PROVE  JobMan(pc[w], job[w])'
    <2>1. PICK c, k, m : c = convs[id] /\ k = [j EXCEPT !.read = c] /\ m = [k EXCEPT !.target = id]
      OBVIOUS
    <2>2. id \in Stored /\ SessionOf(j) # None /\ c.session = SessionOf(j)
      BY <1>6, <2>1, SameThreadIs DEF PlainImports
    <2>3. c \in Conversations /\ id \in Ids /\ ManOK(c)
      BY <1>2, <2>1, <2>2, StoredIs DEF Inv, TypeOK, StoredMan
    <2>4. k \in Jobs /\ k.read = c /\ k.op = j.op
      BY <1>2, <2>1, <2>3 DEF Jobs
    <2>5. m \in Jobs /\ m.read = c
      BY <2>1, <2>3, <2>4 DEF Jobs
    <2>6. CASE Return(w, m, "stale") \/ Return(w, m, "deduplicated") \/ Return(w, k, "error")
      BY <2>3, <2>4, <2>5, <2>6, ReturnMan
    <2>7. CASE Step(w, k, "append")
      <3>1. JobMan("append", k)
        BY <2>2, <2>3, <2>4 DEF JobMan
      <3> QED
        BY <2>7, <3>1, StepMoves
    <2>8. CASE Step(w, Reindexing(k, id, id), "rewrite")
      <3>1. PICK n : n = Reindexing(k, id, id)
        OBVIOUS
      <3>2. n.read = c
        BY <2>4, <3>1 DEF Reindexing, Jobs
      <3>3. Step(w, n, "rewrite")
        BY <2>8, <3>1
      <3> QED
        BY <2>3, <3>2, <3>3, StepMan
    <2> QED
      BY <1>6, <2>1, <2>6, <2>7, <2>8 DEF Found
  <1> QED
    BY <1>1, <1>3, <1>4, <1>5, <1>6, Classified

LEMMA StartMan ==
    ASSUME PlainImports, Inv, Manifests, NEW w \in Workers, NEW op \in Ops,
           NEW r \in Payloads \cup {None}, Start(w, op, r), op \in {"ingest", "hold"} => r \in Requests
    PROVE  StoredMan' /\ JobMan(pc[w], job[w])' /\ Moved(w)
  <1>1. PICK k, at : k = NewJob(op, r) /\ at = FirstStep(op, r)
    OBVIOUS
  <1>2. Moved(w) /\ pc'[w] = at /\ job'[w] = k /\ UNCHANGED stores
    BY <1>1 DEF Start, Moved, Inv, TypeOK, WorkerTypes
  <1>3. k.op = op /\ k.req = r /\ k.read = None
    BY <1>1, NewJobIs
  <1>4. /\ at \in {"lookup", "review", "decide", "retrieve", "reindex"} /\ OpOK(at, op)
        /\ at = "review" => op = "hold" \/ r.sensitive
    BY <1>1, FirstStepIs
  <1>5. at = "review" => SessionOf(k) = None
    BY <1>3, <1>4 DEF PlainImports, SessionOf, OpOK
  <1>6. JobMan(at, k)
    BY <1>3, <1>4, <1>5 DEF JobMan
  <1>7. StoredMan'
    BY <1>2, UnchangedMan DEF Manifests, stores
  <1> QED
    BY <1>2, <1>6, <1>7

LEMMA MovedMan ==
    ASSUME Manifests, NEW w \in Workers, Moved(w), StoredMan', JobMan(pc[w], job[w])'
    PROVE  Manifests'
  BY DEF Manifests, Moved

LEMMA ManifestsStep ==
    ASSUME PlainImports, Inv, Inv', Manifests, [Next]_vars
    PROVE  Manifests'
  <1>1. ASSUME NEW w \in Workers, Submit(w) \/ Refer(w) \/ Maintain(w) PROVE Manifests'
    <2>1. StoredMan' /\ JobMan(pc[w], job[w])' /\ Moved(w)
      BY <1>1, Starts, StartMan
    <2> QED
      BY <2>1, MovedMan
  <1>2. ASSUME NEW w \in Workers, IngestStep(w) PROVE Manifests'
    <2>1. StoredMan' /\ JobMan(pc[w], job[w])'
      BY <1>2, LookupMan, InspectMan, RepairMan, RefreshMan, CompleteMan, ExistingMan, ClassifyMan,
         RewriteMan, AppendMessagesMan, SummarizeMan, ResaveMan, InsertMan, ResolveMan DEF IngestStep
    <2> QED
      BY <1>2, <2>1, MovedMan, IngestMoves
  <1>3. ASSUME NEW w \in Workers, IndexStep(w) \/ ProviderFails(w) PROVE Manifests'
    <2>1. StoredMan' /\ JobMan(pc[w], job[w])'
      BY <1>3, DeleteVectorsMan, UpsertVectorsMan, MarkIndexedMan, MarkFailedMan, ExtractFactsMan,
         ProviderFailsMan DEF IndexStep
    <2> QED
      BY <1>3, <2>1, MovedMan, OtherMoves
  <1>4. ASSUME NEW w \in Workers, ReviewStep(w) PROVE Manifests'
    <2>1. StoredMan' /\ JobMan(pc[w], job[w])'
      BY <1>4, ReviewMan, HoldMan, DecideMan, ApproveMan, ApproveFactsMan, RejectMan DEF ReviewStep
    <2> QED
      BY <1>4, <2>1, MovedMan, OtherMoves
  <1>5. ASSUME NEW w \in Workers, ReindexStep(w) \/ Retrieve(w) PROVE Manifests'
    <2>1. StoredMan' /\ JobMan(pc[w], job[w])'
      BY <1>5, ReindexMan, ListMan, NextConversationMan, RetrieveMan DEF ReindexStep
    <2> QED
      BY <1>5, <2>1, MovedMan, OtherMoves
  <1>6. ASSUME UNCHANGED convs,
               \A v \in Workers : pc'[v] = "idle" \/ (pc'[v] = pc[v] /\ job'[v] = job[v])
        PROVE  Manifests'
    BY <1>6, UnchangedMan DEF Manifests
  <1>7. ASSUME NEW w \in Workers, Finish(w) PROVE Manifests'
    BY <1>6, <1>7 DEF Finish, stores, Inv, TypeOK, WorkerTypes
  <1>8. ASSUME NEW h \in Hubs, Crash(h) PROVE Manifests'
    BY <1>6, <1>8 DEF Crash
  <1>9. CASE UNCHANGED vars
    BY <1>6, <1>9 DEF vars, stores
  <1> QED
    BY <1>1, <1>2, <1>3, <1>4, <1>5, <1>7, <1>8, <1>9 DEF Next, Progress

LEMMA Manifested == ASSUME PlainImports PROVE Spec => []Manifests
  <1>1. Init => Manifests
    BY DEF Init, Manifests, StoredMan, Stored
  <1>2. Inv /\ Inv' /\ Manifests /\ [Next]_vars => Manifests'
    BY ManifestsStep
  <1> QED
    BY <1>1, <1>2, WellFormed, PTL DEF Spec

(* ManifestIsRechunking: however many hubs append to, repair, mark and      *)
(* reindex a memory, its manifest numbers its chunks as a fresh chunking of *)
(* the transcript would (_next_chunk_index), where appends follow imported  *)
(* sessions only and no imported session is held for its content.           *)
THEOREM ManifestsAreRechunkings == ASSUME PlainImports PROVE Spec => []ManifestIsRechunking
  <1>1. Inv /\ Manifests => ManifestIsRechunking
    BY DEF Inv, StoredOK, Manifests, StoredMan, ManOK, ManifestIsRechunking, Keys
  <1> QED
    BY <1>1, WellFormed, Manifested, PTL

-----------------------------------------------------------------------------
(* A reindex that follows its runbook: nothing writes while it runs.        *)

Restored(id) == ChunkIds(Whole(id)) \subseteq vectors[id]

(* A conversation the reindex has still to index.                           *)
Left(at, j, id) == \/ \E c \in j.todo : c.id = id
                   \/ at \in {"embed", "upsert"} /\ j.target = id

(* What a reindex that has met no failure knows once it has listed the      *)
(* conversations.                                                           *)
ReindexOK(at, j) ==
    \/ at \in {"reindex", "list", "mark_failed"} \/ j.outcome = "error"
    \/ /\ \A c \in j.todo : convs[c.id].msgs = c.msgs
       /\ at \in {"embed", "upsert"} => j.chunks = Whole(j.target)
       /\ at = "done" => j.todo = {}
       /\ \A id \in Ids : Active(id) => Restored(id) \/ Left(at, j, id)

Alone == \A v, w \in Workers :
    v # w /\ pc[v] # "idle" /\ pc[w] # "idle" /\ job[w].op = "reindex" => job[v].op = "retrieve"

Reindexes == /\ Alone
             /\ \A w \in Workers : pc[w] # "idle" /\ job[w].op = "reindex" => ReindexOK(pc[w], job[w])

LEMMA ReindexFrame ==
    ASSUME Inv, Inv', CoresKept, UNCHANGED vectors, NEW at, NEW j \in Jobs, JobOK(at, j),
           ReindexOK(at, j)
    PROVE  ReindexOK(at, j)'
  <1>1. /\ \A id \in Ids : Active(id)' <=> Active(id)
        /\ \A id \in Stored : convs'[id].msgs = convs[id].msgs
    BY CoresKeep DEF Inv, TypeOK
  <1>2. \A id \in Stored : Whole(id)' = Whole(id) /\ (Restored(id)' <=> Restored(id))
    BY <1>1 DEF Whole, Restored
  <1>3. /\ \A id \in Ids : Active(id) => id \in Stored
        /\ at \in {"embed", "upsert"} => j.target \in Stored
        /\ \A c \in j.todo : c.id \in Stored
    BY DEF Active, Stored, JobOK, Indexing
  <1> QED
    BY <1>1, <1>2, <1>3 DEF ReindexOK, Left

LEMMA StayReindex ==
    ASSUME Inv, Inv', NEW w \in Workers, NEW j, NEW at, at # "idle", Step(w, j, at), CoresKept,
           UNCHANGED vectors, ReindexOK(at, j)
    PROVE  ReindexOK(pc[w], job[w])'
  <1>1. pc'[w] = at /\ job'[w] = j
    BY StepMoves
  <1>2. j \in Jobs /\ JobOK(at, j)'
    <2>1. j \in Jobs \cup {None} /\ j # None
      BY <1>1 DEF Inv, TypeOK, WorkerTypes
    <2> QED
      BY <1>1, <2>1 DEF Inv, JobsOK
  <1>3. JobOK(at, j)
    BY <1>2 DEF JobOK, CoresKept
  <1>4. ReindexOK(at, j)'
    BY <1>2, <1>3, ReindexFrame
  <1> QED
    BY <1>1, <1>4

LEMMA ListReindex ==
    ASSUME Inv, Inv', NEW w \in Workers, List(w)
    PROVE  ReindexOK(pc[w], job[w])'
  <1>1. PICK j, k : j = job[w] /\ k = [j EXCEPT !.todo = {convs[id] : id \in Listed}]
    OBVIOUS
  <1>2. j \in Jobs
    BY <1>1, Running DEF List
  <1>3. CoresKept /\ UNCHANGED vectors /\ Step(w, k, "next")
    BY <1>1, UnchangedCores DEF List, stores
  <1>4. k.todo = {convs[id] : id \in Listed}
    BY <1>1, <1>2 DEF Jobs
  <1>5. ASSUME NEW c \in k.todo PROVE convs[c.id].msgs = c.msgs
    <2>1. PICK id \in Listed : c = convs[id]
      BY <1>4
    <2> QED
      BY <2>1 DEF Listed, Inv, StoredOK
  <1>6. ASSUME NEW id \in Ids, Active(id) PROVE Left("next", k, id)
    <2>1. id \in Listed /\ convs[id].id = id
      BY <1>6 DEF Active, Listed, Stored, Inv, StoredOK
    <2> QED
      BY <1>4, <2>1 DEF Left
  <1>7. ReindexOK("next", k)
    BY <1>5, <1>6 DEF ReindexOK
  <1> QED
    BY <1>3, <1>7, StayReindex

LEMMA NextReindex ==
    ASSUME Inv, Inv', NEW w \in Workers, NextConversation(w), ReindexOK(pc[w], job[w])
    PROVE  ReindexOK(pc[w], job[w])'
  <1>1. PICK j : j = job[w]
    OBVIOUS
  <1>2. /\ j \in Jobs /\ JobOK("next", j) /\ ReindexOK("next", j) /\ j.op = "reindex"
        /\ j.outcome \in {None, "error"}
    BY <1>1, Running DEF NextConversation, JobOK, OpOK
  <1>3. CoresKept /\ UNCHANGED vectors
    BY UnchangedCores DEF NextConversation, stores
  <1>4. ASSUME j.todo = {}, NEW x \in {"reindexed", "error"}, j.outcome = "error" => x = "error",
               Return(w, j, x)
        PROVE  ReindexOK(pc[w], job[w])'
    <2>1. PICK k : k = [j EXCEPT !.outcome = x]
      OBVIOUS
    <2>2. k.todo = {} /\ k.outcome = x
      BY <1>2, <1>4, <2>1 DEF Jobs
    <2>3. Step(w, k, "done")
      BY <1>2, <1>4, <2>1 DEF Return
    <2>4. ReindexOK("done", k)
      BY <1>2, <1>4, <2>2 DEF ReindexOK, Left
    <2> QED
      BY <1>3, <2>3, <2>4, StayReindex
  <1>5. ASSUME NEW c \in j.todo,
               Step(w, [j EXCEPT !.todo = @ \ {c}, !.target = c.id,
                               !.chunks = chunk_selected_messages(c.id, c.msgs, 0)], "embed")
        PROVE  ReindexOK(pc[w], job[w])'
    <2>1. PICK k, cs, rest : /\ k = [j EXCEPT !.todo = rest, !.target = c.id, !.chunks = cs]
                             /\ cs = chunk_selected_messages(c.id, c.msgs, 0) /\ rest = j.todo \ {c}
      OBVIOUS
    <2>2. k.todo = rest /\ k.target = c.id /\ k.chunks = cs /\ k.outcome = j.outcome
      BY <1>2, <2>1 DEF Jobs
    <2>3. Step(w, k, "embed")
      BY <1>5, <2>1
    <2>4. ASSUME NEW id \in Ids, Left("next", j, id) PROVE Left("embed", k, id)
      BY <2>1, <2>2, <2>4 DEF Left
    <2>5. \A d \in j.todo : convs[d.id].msgs = d.msgs => Whole(d.id) = chunk_selected_messages(d.id, d.msgs, 0)
      BY DEF Whole
    <2>6. ReindexOK("embed", k)
      BY <1>2, <2>1, <2>2, <2>4, <2>5 DEF ReindexOK
    <2> QED
      BY <1>3, <2>3, <2>6, StayReindex
  <1>6. PICK x : x = IF j.outcome = None THEN "reindexed" ELSE j.outcome
    OBVIOUS
  <1>7. x \in {"reindexed", "error"} /\ (j.outcome = "error" => x = "error")
    BY <1>2, <1>6, NoneIsNoRecord DEF Outcomes
  <1>8. \/ j.todo = {} /\ Return(w, j, x)
        \/ \E c \in j.todo : Step(w, [j EXCEPT !.todo = @ \ {c}, !.target = c.id,
                               !.chunks = chunk_selected_messages(c.id, c.msgs, 0)], "embed")
    BY <1>1, <1>6 DEF NextConversation
  <1> QED
    BY <1>4, <1>5, <1>7, <1>8

LEMMA DeleteReindex ==
    ASSUME Inv, Inv', NEW w \in Workers, DeleteVectors(w), ReindexOK(pc[w], job[w])
    PROVE  ReindexOK(pc[w], job[w])'
  <1>1. PICK j : j = job[w]
    OBVIOUS
  <1>2. j \in Jobs /\ JobOK("embed", j) /\ ReindexOK("embed", j)
    BY <1>1, Running DEF DeleteVectors
  <1>3. /\ UNCHANGED convs /\ pc'[w] = "upsert" /\ job'[w] = j
        /\ vectors' = [vectors EXCEPT ![j.target] = {}]
    BY <1>1, StepMoves DEF DeleteVectors
  <1>4. \A id \in Ids : (Active(id)' <=> Active(id)) /\ Whole(id)' = Whole(id)
    BY <1>3 DEF Active, Whole
  <1>5. \A id \in Ids : id # j.target => (Restored(id)' <=> Restored(id))
    BY <1>3, <1>4 DEF Restored, Inv, TypeOK, StoreTypes
  <1>6. j.target \in Ids
    BY <1>2 DEF JobOK, Indexing, Stored
  <1>7. ReindexOK("upsert", j)'
    BY <1>2, <1>3, <1>4, <1>5, <1>6 DEF ReindexOK, Left
  <1> QED
    BY <1>3, <1>7

LEMMA UpsertReindex ==
    ASSUME Inv, Inv', NEW w \in Workers, UpsertVectors(w), ReindexOK(pc[w], job[w])
    PROVE  ReindexOK(pc[w], job[w])'
  <1>1. PICK j, at : j = job[w] /\ at = pc[w]
    OBVIOUS
  <1>2. j \in Jobs /\ JobOK(at, j) /\ ReindexOK(at, j) /\ at \in {"embed", "upsert"}
    BY <1>1, Running DEF UpsertVectors
  <1>3. /\ UNCHANGED convs /\ pc'[w] = "mark_indexed" /\ job'[w] = j
        /\ vectors' = [vectors EXCEPT ![j.target] = @ \cup ChunkIds(j.chunks)]
    BY <1>1, StepMoves DEF UpsertVectors
  <1>4. \A id \in Ids : (Active(id)' <=> Active(id)) /\ Whole(id)' = Whole(id)
    BY <1>3 DEF Active, Whole
  <1>5. j.target \in Ids
    BY <1>2 DEF JobOK, Indexing, Stored
  <1>6. \A id \in Ids : Restored(id) => Restored(id)'
    BY <1>3, <1>4 DEF Restored, Inv, TypeOK, StoreTypes
  <1>7. j.chunks = Whole(j.target) => Restored(j.target)'
    BY <1>3, <1>4, <1>5 DEF Restored, Inv, TypeOK, StoreTypes
  <1>8. ReindexOK("mark_indexed", j)'
    BY <1>2, <1>3, <1>4, <1>6, <1>7 DEF ReindexOK, Left
  <1> QED
    BY <1>3, <1>8

LEMMA MarkReindex ==
    ASSUME Inv, Inv', NEW w \in Workers, MarkIndexed(w), ReindexOK(pc[w], job[w]),
           job[w].op = "reindex"
    PROVE  ReindexOK(pc[w], job[w])'
  <1>1. PICK j : j = job[w]
    OBVIOUS
  <1>2. ReindexOK("mark_indexed", j) /\ Step(w, j, "next") /\ UNCHANGED vectors
    BY <1>1 DEF MarkIndexed
  <1>3. CoresKept
    BY MarkIndexedReads DEF Shallow
  <1>4. ReindexOK("next", j)
    BY <1>2 DEF ReindexOK, Left
  <1> QED
    BY <1>2, <1>3, <1>4, StayReindex

(* Every step of a reindex.                                                 *)
LEMMA ReindexWorks ==
    ASSUME Inv, Inv', NEW w \in Workers, Progress(w) \/ ProviderFails(w), ~Finish(w),
           job[w].op = "reindex", ReindexOK(pc[w], job[w])
    PROVE  ReindexOK(pc[w], job[w])'
  <1>1. PICK j, at : j = job[w] /\ at = pc[w]
    OBVIOUS
  <1>2. OpOK(at, j.op) \/ at = "idle"
    BY <1>1, Running DEF JobOK
  <1>3. at \in {"reindex", "list", "next", "embed", "upsert", "mark_indexed", "mark_failed", "done", "idle"}
    <2>1. at \in Busy \cup {"idle"}
      BY <1>1 DEF Inv, TypeOK, WorkerTypes
    <2> QED
      BY <1>1, <1>2, <2>1 DEF OpOK, Ingesting, Busy, Reading, Carrying, Indexing
  <1>4. /\ ~IngestStep(w) /\ ~ReviewStep(w) /\ ~Retrieve(w) /\ ~ExtractFacts(w)
    <2>1. ~IngestStep(w)
      BY <1>1, <1>3
         DEF IngestStep, Lookup, Inspect, Repair, Refresh, Complete, Existing, Classify, Rewrite,
             AppendMessages, Summarize, Resave, Insert, Resolve
    <2> QED
      BY <1>1, <1>3, <2>1
         DEF ReviewStep, Review, Hold, Decide, Approve, ApproveFacts, Reject, Retrieve, ExtractFacts
  <1>5. CASE Reindex(w)
    <2>1. pc'[w] = "list"
      BY <1>5, StepMoves DEF Reindex
    <2> QED
      BY <2>1 DEF ReindexOK
  <1>6. CASE ProviderFails(w)
    <2>1. pc'[w] = "mark_failed"
      BY <1>6, StepMoves DEF ProviderFails
    <2> QED
      BY <2>1 DEF ReindexOK
  <1>7. CASE MarkFailed(w)
    <2>1. PICK k : k = [j EXCEPT !.outcome = "error"]
      OBVIOUS
    <2>2. job'[w] = k
      BY <1>1, <1>7, <2>1, StepMoves DEF MarkFailed
    <2>3. k.outcome = "error"
      BY <1>1, <1>7, <2>1, Running DEF MarkFailed, Jobs
    <2> QED
      BY <2>2, <2>3 DEF ReindexOK
  <1> QED
    BY <1>4, <1>5, <1>6, <1>7, ListReindex, NextReindex, DeleteReindex, UpsertReindex, MarkReindex
       DEF Progress, IndexStep, ReindexStep

LEMMA RetrieveKeepsVectors ==
    ASSUME Inv, NEW w \in Workers, Progress(w) \/ ProviderFails(w), job[w].op = "retrieve"
    PROVE  UNCHANGED vectors /\ CoresKept
  <1>1. CoresKept
    BY ReadersStep DEF Shallow, LockedOps
  <1>2. PICK j, at : j = job[w] /\ at = pc[w]
    OBVIOUS
  <1>3. OpOK(at, j.op) \/ at = "idle"
    BY <1>2, Running DEF JobOK
  <1>4. at \notin {"embed", "upsert", "mark_indexed"}
    BY <1>2, <1>3 DEF OpOK
  <1>5. ~DeleteVectors(w) /\ ~UpsertVectors(w) /\ ~ProviderFails(w)
    BY <1>2, <1>4 DEF DeleteVectors, UpsertVectors, ProviderFails
  <1>6. IngestStep(w) => UNCHANGED vectors
    BY DEF stores, IngestStep, Lookup, Inspect, Repair, Refresh, Complete, Existing, Classify,
         Rewrite, AppendMessages, Summarize, Resave, Insert, InsertNew, Resolve
  <1>7. IndexStep(w) => UNCHANGED vectors
    BY <1>5 DEF IndexStep, MarkIndexed, MarkFailed, ExtractFacts
  <1>8. ReviewStep(w) => UNCHANGED vectors
    BY DEF stores, ReviewStep, Review, Hold, InsertNew, Decide, Approve, ApproveFacts, Reject
  <1>9. ReindexStep(w) \/ Retrieve(w) \/ Finish(w) => UNCHANGED vectors
    BY DEF stores, ReindexStep, Reindex, List, NextConversation, Retrieve, Finish
  <1> QED
    BY <1>1, <1>5, <1>6, <1>7, <1>8, <1>9 DEF Progress

LEMMA ReindexesStep ==
    ASSUME QuietReindex, Inv, Inv', Serial, Reindexes, [Next]_vars
    PROVE  Reindexes'
  <1>1. ASSUME NEW v \in Workers, pc[v] # "idle", job[v].op = "reindex", pc'[v] = pc[v],
               job'[v] = job[v], CoresKept, UNCHANGED vectors
        PROVE  ReindexOK(pc[v], job[v])'
    <2>1. PICK a, k : a = pc[v] /\ k = job[v]
      OBVIOUS
    <2>2. k \in Jobs /\ JobOK(a, k) /\ ReindexOK(a, k)
      BY <1>1, <2>1, Running DEF Reindexes
    <2>3. ReindexOK(a, k)'
      BY <1>1, <2>2, ReindexFrame
    <2> QED
      BY <1>1, <2>1, <2>3
  <1>2. ASSUME NEW w \in Workers, NEW op \in Ops, NEW r, Start(w, op, r) PROVE Reindexes'
    <2>1. /\ Moved(w) /\ pc'[w] = FirstStep(op, r) /\ job'[w] = NewJob(op, r) /\ UNCHANGED stores
      BY <1>2, StartSerial
    <2>2. job'[w].op = op /\ Quiet(op) /\ pc[w] = "idle" /\ pc'[w] # "idle"
      BY <1>2, <2>1, FirstStepIs DEF NewJob, Start
    <2>3. \A v \in Workers : pc[v] # "idle" =>
             /\ op = "reindex" => job[v].op = "retrieve"
             /\ job[v].op = "reindex" => op = "retrieve"
      BY <2>2 DEF Quiet, Inv, TypeOK, WorkerTypes
    <2>4. Alone'
      BY <2>1, <2>2, <2>3 DEF Moved, Reindexes, Alone
    <2>5. CoresKept /\ UNCHANGED vectors
      BY <2>1, UnchangedCores DEF stores
    <2>6. ASSUME NEW v \in Workers, pc'[v] # "idle", job'[v].op = "reindex"
          PROVE  ReindexOK(pc[v], job[v])'
      <3>1. CASE v = w
        <4>1. pc'[v] = "reindex"
          BY <2>1, <2>2, <2>6, <3>1 DEF FirstStep
        <4> QED
          BY <4>1 DEF ReindexOK
      <3>2. CASE v # w
        BY <1>1, <2>1, <2>5, <2>6, <3>2 DEF Moved
      <3> QED
        BY <3>1, <3>2
    <2> QED
      BY <2>4, <2>6 DEF Reindexes
  <1>3. ASSUME CoresKept, UNCHANGED vectors,
               \A v \in Workers : pc'[v] = "idle" \/ (pc'[v] = pc[v] /\ job'[v] = job[v])
        PROVE  Reindexes'
    <2>1. Alone'
      BY <1>3 DEF Reindexes, Alone
    <2> QED
      BY <1>1, <1>3, <2>1 DEF Reindexes
  <1>4. ASSUME NEW w \in Workers, Finish(w) PROVE Reindexes'
    <2>1. UNCHANGED <<convs, vectors>>
      BY <1>4 DEF Finish, stores
    <2>2. \A v \in Workers : pc'[v] = "idle" \/ (pc'[v] = pc[v] /\ job'[v] = job[v])
      BY <1>4 DEF Finish, Inv, TypeOK, WorkerTypes
    <2> QED
      BY <1>3, <2>1, <2>2, UnchangedCores
  <1>5. ASSUME NEW h \in Hubs, Crash(h) PROVE Reindexes'
    <2>1. CASE UNCHANGED vectors
      <3>1. UNCHANGED convs
        BY <1>5 DEF Crash
      <3>2. \A v \in Workers : pc'[v] = "idle" \/ (pc'[v] = pc[v] /\ job'[v] = job[v])
        BY <1>5 DEF Crash
      <3> QED
        BY <1>3, <2>1, <3>1, <3>2, UnchangedCores
    <2>2. CASE MemoryProvider \/ FreshDestination
      <3>1. \A v \in Workers : HubOf[v] = h
        BY <2>2, IngestionAssumption
      <3>2. \A v \in Workers : pc'[v] = "idle"
        BY <1>5, <3>1 DEF Crash
      <3> QED
        BY <3>2 DEF Reindexes, Alone
    <2> QED
      BY <1>5, <2>1, <2>2 DEF Crash
  <1>6. ASSUME UNCHANGED vars PROVE Reindexes'
    <2>1. UNCHANGED <<convs, vectors, pc, job>>
      BY <1>6 DEF vars, stores
    <2> QED
      BY <1>3, <2>1, UnchangedCores
  <1>7. ASSUME NEW w \in Workers, Progress(w) \/ ProviderFails(w), ~Finish(w)
        PROVE  Reindexes'
    <2>1. Moved(w) /\ pc[w] # "idle" /\ job'[w].op = job[w].op
      BY <1>7, ProgressSerial
    <2>2. Alone'
      BY <2>1 DEF Moved, Reindexes, Alone
    <2>3. ASSUME NEW v \in Workers, pc'[v] # "idle", job'[v].op = "reindex"
          PROVE  ReindexOK(pc[v], job[v])'
      <3>1. CASE v = w
        BY <1>7, <2>1, <2>3, <3>1, ReindexWorks DEF Reindexes
      <3>2. CASE v # w
        <4>1. pc'[v] = pc[v] /\ job'[v] = job[v]
          BY <2>1, <3>2 DEF Moved
        <4>2. job[w].op = "retrieve"
          BY <2>1, <2>3, <3>2, <4>1 DEF Reindexes, Alone
        <4>3. UNCHANGED vectors /\ CoresKept
          BY <1>7, <4>2, RetrieveKeepsVectors
        <4> QED
          BY <1>1, <2>3, <4>1, <4>3
      <3> QED
        BY <3>1, <3>2
    <2> QED
      BY <2>2, <2>3 DEF Reindexes
  <1>8. ASSUME NEW w \in Workers, Submit(w) \/ Refer(w) \/ Maintain(w) PROVE Reindexes'
    BY <1>2, <1>8, Starts
  <1> QED
    BY <1>4, <1>5, <1>6, <1>7, <1>8 DEF Next, Progress

LEMMA Reindexed == ASSUME QuietReindex PROVE Spec => []Reindexes
  <1>1. Init => Reindexes
    BY DEF Init, Reindexes, Alone
  <1>2. Inv /\ Inv' /\ Serial /\ Reindexes /\ [Next]_vars => Reindexes'
    BY ReindexesStep
  <1> QED
    BY <1>1, <1>2, WellFormed, WritesAreSerial, PTL DEF Spec

(* ReindexRestores: when reindex_stored_conversations answers ok, every     *)
(* active conversation is completely in the vector store, whatever rows     *)
(* were there before, also while readers repair manifests; a failed batch   *)
(* makes it answer an error.  Its runbook is assumed: no other write.       *)
THEOREM ReindexesRestore == ASSUME QuietReindex PROVE Spec => []ReindexRestores
  <1>1. Inv /\ Serial /\ Reindexes => ReindexRestores
    <2> SUFFICES ASSUME Inv, Serial, Reindexes, NEW w \in Workers, pc[w] = "done",
                        job[w].outcome = "reindexed", NEW id \in Stored, convs[id].status = "active"
                 PROVE  Restored(id)
      BY DEF ReindexRestores, Restored, Whole
    <2>1. job[w].op = "reindex"
      BY DEF Serial, Answers, Ended, OutcomeOK
    <2>2. ReindexOK("done", job[w]) /\ Active(id) /\ id \in Ids
      BY <2>1 DEF Reindexes, Active, Stored
    <2> QED
      BY <2>2 DEF ReindexOK, Left
  <1> QED
    BY <1>1, WellFormed, WritesAreSerial, Reindexed, PTL

-----------------------------------------------------------------------------
(* What an answer says of the vector store.                                 *)

(* The steps of an ingestion whose payload has passed the content scan.     *)
Scanned == Reading \cup {"lookup", "existing", "same_thread", "append"}
Claims == {"inserted", "deduplicated", "appended"}

SearchOK(at, j) ==
    /\ at \in Scanned => ~j.req.sensitive
    /\ at \in {"mark_indexed", "facts"} => ChunkIds(j.chunks) \subseteq vectors[j.target]
    /\ at \in Ended =>
         /\ j.outcome \in {"inserted", "deduplicated"} =>
              j.target \in Stored /\ (Active(j.target) => Restored(j.target))
         /\ j.outcome = "appended" => ChunkIds(j.chunks) \subseteq vectors[j.target]

Searchable ==
    \A w \in Workers : pc[w] # "idle" /\ job[w].op \in LockedOps => SearchOK(pc[w], job[w])

LEMMA SearchFrame ==
    ASSUME Inv, Inv', CoresKept, UNCHANGED vectors, NEW at, NEW j, SearchOK(at, j)
    PROVE  SearchOK(at, j)'
  <1>1. /\ \A id \in Ids : Active(id)' <=> Active(id)
        /\ \A id \in Stored : convs'[id].msgs = convs[id].msgs
    BY CoresKeep DEF Inv, TypeOK
  <1>2. \A id \in Stored : id \in Ids /\ id \in Stored' /\ (Restored(id)' <=> Restored(id))
    BY <1>1 DEF Whole, Restored, Stored, CoresKept
  <1> QED
    BY <1>1, <1>2 DEF SearchOK

LEMMA StepSearch ==
    ASSUME Inv, NEW w \in Workers, NEW k, NEW at, Step(w, k, at),
           at \notin Ended \cup {"mark_indexed", "facts"}, at \in Scanned => ~k.req.sensitive
    PROVE  SearchOK(pc[w], job[w])'
  BY StepMoves DEF SearchOK

LEMMA ReturnSearch ==
    ASSUME Inv, NEW w \in Workers, NEW k \in Jobs, NEW outcome, Return(w, k, outcome),
           outcome \notin Claims
    PROVE  SearchOK(pc[w], job[w])'
  <1>1. PICK m : m = [k EXCEPT !.outcome = outcome]
    OBVIOUS
  <1>2. m.outcome = outcome
    BY <1>1 DEF Jobs
  <1>3. job'[w] = m /\ pc'[w] \in Ended
    BY <1>1, ReturnMoves DEF Answered, Ended
  <1> QED
    BY <1>2, <1>3 DEF SearchOK, Ended, Scanned, Reading, Claims

(* An answer that claims the whole conversation.                            *)
LEMMA ClaimSearch ==
    ASSUME Inv, NEW w \in Workers, NEW k \in Jobs, NEW outcome \in {"inserted", "deduplicated"},
           Return(w, k, outcome), UNCHANGED <<convs, vectors>>, k.target \in Stored,
           Active(k.target) => Restored(k.target)
    PROVE  SearchOK(pc[w], job[w])'
  <1>1. PICK m : m = [k EXCEPT !.outcome = outcome]
    OBVIOUS
  <1>2. m.outcome = outcome /\ m.target = k.target
    BY <1>1 DEF Jobs
  <1>3. job'[w] = m /\ pc'[w] \in Ended
    BY <1>1, ReturnMoves DEF Answered, Ended
  <1>4. k.target \in Stored' /\ (Active(k.target)' => Restored(k.target)')
    BY DEF Stored, Active, Restored, Whole
  <1> QED
    BY <1>2, <1>3, <1>4 DEF SearchOK, Ended, Scanned, Reading

(* The steps of a write that claim nothing.                                 *)

LEMMA LookupSearch ==
    ASSUME Inv, Inv', Searchable, NEW w \in Workers, job[w].op \in LockedOps, Lookup(w)
    PROVE  SearchOK(pc[w], job[w])'
  <1>1. PICK j : j = job[w]
    OBVIOUS
  <1>2. j \in Jobs /\ JobOK(pc[w], j) /\ SearchOK(pc[w], j) /\ j.op \in LockedOps
    BY <1>1, Running DEF Lookup, Searchable
  <1>3. ~j.req.sensitive
    BY <1>1, <1>2 DEF Lookup, SearchOK, Scanned, Reading
  <1>4. ASSUME NEW x, NEW y, NEW at \in {"inspect", "complete"}, Step(w, [j EXCEPT !.dup = x, !.read = y], at) PROVE SearchOK(pc[w], job[w])'
    <2>1. PICK k : k = [j EXCEPT !.dup = x, !.read = y]
      OBVIOUS
    <2>2. k.req = j.req
      BY <1>1, <1>2, <2>1 DEF Jobs, Reindexing
    <2>3. Step(w, k, at)
      BY <1>4, <2>1
    <2> QED
      BY <1>3, <2>3, <2>2, StepSearch DEF Ended, Scanned, Reading, Claims
  <1> QED
    BY <1>1, <1>2, <1>3, <1>4, StepSearch, ReturnSearch
       DEF Lookup, Ended, Scanned, Reading, Claims

LEMMA InspectSearch ==
    ASSUME Inv, Inv', Searchable, NEW w \in Workers, job[w].op \in LockedOps, Inspect(w)
    PROVE  SearchOK(pc[w], job[w])'
  <1>1. PICK j : j = job[w]
    OBVIOUS
  <1>2. j \in Jobs /\ JobOK(pc[w], j) /\ SearchOK(pc[w], j) /\ j.op \in LockedOps
    BY <1>1, Running DEF Inspect, Searchable
  <1>3. ~j.req.sensitive
    BY <1>1, <1>2 DEF Inspect, SearchOK, Scanned, Reading
  <1>4. ASSUME NEW x, Step(w, [j EXCEPT !.marks = x], "repair") PROVE SearchOK(pc[w], job[w])'
    <2>1. PICK k : k = [j EXCEPT !.marks = x]
      OBVIOUS
    <2>2. k.req = j.req
      BY <1>1, <1>2, <2>1 DEF Jobs, Reindexing
    <2>3. Step(w, k, "repair")
      BY <1>4, <2>1
    <2> QED
      BY <1>3, <2>3, <2>2, StepSearch DEF Ended, Scanned, Reading, Claims
  <1> QED
    BY <1>1, <1>2, <1>3, <1>4, StepSearch, ReturnSearch
       DEF Inspect, Ended, Scanned, Reading, Claims, AfterRepair, LockedOps

LEMMA RepairSearch ==
    ASSUME Inv, Inv', Searchable, NEW w \in Workers, job[w].op \in LockedOps, Repair(w)
    PROVE  SearchOK(pc[w], job[w])'
  <1>1. PICK j : j = job[w]
    OBVIOUS
  <1>2. j \in Jobs /\ JobOK(pc[w], j) /\ SearchOK(pc[w], j) /\ j.op \in LockedOps
    BY <1>1, Running DEF Repair, Searchable
  <1>3. ~j.req.sensitive
    BY <1>1, <1>2 DEF Repair, SearchOK, Scanned, Reading
  <1> QED
    BY <1>1, <1>2, <1>3, StepSearch, ReturnSearch
       DEF Repair, Ended, Scanned, Reading, Claims

LEMMA RefreshSearch ==
    ASSUME Inv, Inv', Searchable, NEW w \in Workers, job[w].op \in LockedOps, Refresh(w)
    PROVE  SearchOK(pc[w], job[w])'
  <1>1. PICK j : j = job[w]
    OBVIOUS
  <1>2. j \in Jobs /\ JobOK(pc[w], j) /\ SearchOK(pc[w], j) /\ j.op \in LockedOps
    BY <1>1, Running DEF Refresh, Searchable
  <1>3. PICK k : k = [j EXCEPT !.read = convs[j.dup]]
    OBVIOUS
  <1>4. k.op = j.op /\ k.req = j.req
    BY <1>2, <1>3 DEF Jobs
  <1>5. AfterRepair(w, k)
    BY <1>1, <1>3 DEF Refresh
  <1>6. Step(w, k, "complete") /\ ~k.req.sensitive
    BY <1>1, <1>2, <1>4, <1>5 DEF Refresh, AfterRepair, LockedOps, SearchOK, Scanned, Reading
  <1> QED
    BY <1>6, StepSearch DEF Ended

LEMMA ExistingSearch ==
    ASSUME Inv, Inv', Searchable, NEW w \in Workers, job[w].op \in LockedOps, Existing(w)
    PROVE  SearchOK(pc[w], job[w])'
  <1>1. PICK j : j = job[w]
    OBVIOUS
  <1>2. j \in Jobs /\ JobOK(pc[w], j) /\ SearchOK(pc[w], j) /\ j.op \in LockedOps
    BY <1>1, Running DEF Existing, Searchable
  <1>3. ~j.req.sensitive
    BY <1>1, <1>2 DEF Existing, SearchOK, Scanned, Reading
  <1> QED
    BY <1>1, <1>2, <1>3, StepSearch, ReturnSearch
       DEF Existing, Ended, Scanned, Reading, Claims

LEMMA RewriteSearch ==
    ASSUME Inv, Inv', Searchable, NEW w \in Workers, job[w].op \in LockedOps, Rewrite(w)
    PROVE  SearchOK(pc[w], job[w])'
  <1>1. PICK j : j = job[w]
    OBVIOUS
  <1>2. j \in Jobs /\ JobOK(pc[w], j) /\ SearchOK(pc[w], j) /\ j.op \in LockedOps
    BY <1>1, Running DEF Rewrite, Searchable
  <1> QED
    BY <1>1, <1>2, StepSearch, ReturnSearch
       DEF Rewrite, Ended, Scanned, Reading, Claims

LEMMA AppendMessagesSearch ==
    ASSUME Inv, Inv', Searchable, NEW w \in Workers, job[w].op \in LockedOps, AppendMessages(w)
    PROVE  SearchOK(pc[w], job[w])'
  <1>1. PICK j : j = job[w]
    OBVIOUS
  <1>2. j \in Jobs /\ JobOK(pc[w], j) /\ SearchOK(pc[w], j) /\ j.op \in LockedOps
    BY <1>1, Running DEF AppendMessages, Searchable
  <1>3. ~j.req.sensitive /\ AfterAppend(j).req = j.req
    BY <1>1, <1>2, AfterAppendIs DEF AppendMessages, SearchOK, Scanned
  <1>4. CASE Step(w, AfterAppend(j), "summarize")
    BY <1>4, StepSearch DEF Ended, Scanned, Reading
  <1>5. CASE Return(w, j, "error")
    BY <1>2, <1>5, ReturnSearch DEF Claims
  <1>6. CASE RetryAppend(w, j)
    <2>1. PICK m : m = [j EXCEPT !.attempts = j.attempts + 1]
      OBVIOUS
    <2>2. m \in Jobs /\ m.req = j.req
      <3>1. j \in Jobs /\ j.attempts + 1 \in Nat
        BY <1>2 DEF Jobs
      <3> QED
        BY <2>1, <3>1 DEF Jobs
    <2>3. Return(w, m, "error") \/ Step(w, m, "same_thread")
      BY <1>6, <2>1 DEF RetryAppend
    <2> QED
      BY <1>3, <2>2, <2>3, StepSearch, ReturnSearch DEF Claims, Ended
  <1> QED
    BY <1>1, <1>4, <1>5, <1>6, AppendCases

LEMMA SummarizeSearch ==
    ASSUME Inv, Inv', Searchable, NEW w \in Workers, job[w].op \in LockedOps, Summarize(w)
    PROVE  SearchOK(pc[w], job[w])'
  <1>1. PICK j : j = job[w]
    OBVIOUS
  <1>2. j \in Jobs /\ JobOK(pc[w], j) /\ SearchOK(pc[w], j) /\ j.op \in LockedOps
    BY <1>1, Running DEF Summarize, Searchable
  <1>3. ASSUME NEW x, NEW y, Step(w, Reindexing(j, x, y), "embed") PROVE SearchOK(pc[w], job[w])'
    <2>1. PICK k : k = Reindexing(j, x, y)
      OBVIOUS
    <2>3. Step(w, k, "embed")
      BY <1>3, <2>1
    <2> QED
      BY <2>3, StepSearch DEF Ended, Scanned, Reading, Claims
  <1> QED
    BY <1>1, <1>2, <1>3, StepSearch, ReturnSearch
       DEF Summarize, Ended, Scanned, Reading, Claims

LEMMA ResaveSearch ==
    ASSUME Inv, Inv', Searchable, NEW w \in Workers, job[w].op \in LockedOps, Resave(w)
    PROVE  SearchOK(pc[w], job[w])'
  <1>1. PICK j : j = job[w]
    OBVIOUS
  <1>2. j \in Jobs /\ JobOK(pc[w], j) /\ SearchOK(pc[w], j) /\ j.op \in LockedOps
    BY <1>1, Running DEF Resave, Searchable
  <1> QED
    BY <1>1, <1>2, StepSearch, ReturnSearch
       DEF Resave, Ended, Scanned, Reading, Claims

LEMMA InsertSearch ==
    ASSUME Inv, Inv', Searchable, NEW w \in Workers, job[w].op \in LockedOps, Insert(w)
    PROVE  SearchOK(pc[w], job[w])'
  <1>1. PICK j : j = job[w]
    OBVIOUS
  <1>2. j \in Jobs /\ JobOK(pc[w], j) /\ SearchOK(pc[w], j) /\ j.op \in LockedOps
    BY <1>1, Running DEF Insert, Searchable
  <1>3. ASSUME NEW x, NEW y, NEW z, NEW at \in {"embed", "resolve"}, Step(w, [j EXCEPT !.target = x, !.chunks = y, !.extract = z], at) PROVE SearchOK(pc[w], job[w])'
    <2>1. PICK k : k = [j EXCEPT !.target = x, !.chunks = y, !.extract = z]
      OBVIOUS
    <2>3. Step(w, k, at)
      BY <1>3, <2>1
    <2> QED
      BY <2>3, StepSearch DEF Ended, Scanned, Reading, Claims
  <1> QED
    BY <1>1, <1>2, <1>3, StepSearch, ReturnSearch
       DEF Insert, Ended, Scanned, Reading, Claims, InsertNew

LEMMA ResolveSearch ==
    ASSUME Inv, Inv', Searchable, NEW w \in Workers, job[w].op \in LockedOps, Resolve(w)
    PROVE  SearchOK(pc[w], job[w])'
  <1>1. PICK j : j = job[w]
    OBVIOUS
  <1>2. j \in Jobs /\ JobOK(pc[w], j) /\ SearchOK(pc[w], j) /\ j.op \in LockedOps
    BY <1>1, Running DEF Resolve, Searchable
  <1>3. ASSUME NEW x \in Ids, Return(w, [j EXCEPT !.target = x], "held") PROVE SearchOK(pc[w], job[w])'
    <2>1. PICK k : k = [j EXCEPT !.target = x]
      OBVIOUS
    <2>2. k \in Jobs
      BY <1>1, <1>2, <2>1 DEF Jobs, Reindexing
    <2>3. Return(w, k, "held")
      BY <1>3, <2>1
    <2> QED
      BY <2>3, <2>2, ReturnSearch DEF Ended, Scanned, Reading, Claims
  <1>4. ASSUME NEW x, NEW y, Step(w, Reindexing(j, x, y), "embed") PROVE SearchOK(pc[w], job[w])'
    <2>1. PICK k : k = Reindexing(j, x, y)
      OBVIOUS
    <2>3. Step(w, k, "embed")
      BY <1>4, <2>1
    <2> QED
      BY <2>3, StepSearch DEF Ended, Scanned, Reading, Claims
  <1> QED
    BY <1>1, <1>2, <1>3, <1>4, StepSearch, ReturnSearch
       DEF Resolve, Ended, Scanned, Reading, Claims, ByHash, Stored

LEMMA HoldSearch ==
    ASSUME Inv, Inv', Searchable, NEW w \in Workers, job[w].op \in LockedOps, Hold(w)
    PROVE  SearchOK(pc[w], job[w])'
  <1>1. PICK j : j = job[w]
    OBVIOUS
  <1>2. j \in Jobs /\ JobOK(pc[w], j) /\ SearchOK(pc[w], j) /\ j.op \in LockedOps
    BY <1>1, Running DEF Hold, Searchable
  <1>3. PICK k : k = [j EXCEPT !.target = j.req.id, !.outcome = "held"]
    OBVIOUS
  <1>4. k.outcome = "held"
    BY <1>2, <1>3 DEF Jobs
  <1>5. Step(w, k, "done") \/ Step(w, k, "resolve")
    BY <1>1, <1>3 DEF Hold, InsertNew
  <1>6. pc'[w] \in {"done", "resolve"} /\ job'[w] = k
    BY <1>5, StepMoves
  <1> QED
    BY <1>4, <1>6 DEF SearchOK, Scanned, Reading

LEMMA DeleteVectorsSearch ==
    ASSUME Inv, Inv', Searchable, NEW w \in Workers, job[w].op \in LockedOps, DeleteVectors(w)
    PROVE  SearchOK(pc[w], job[w])'
  <1>1. PICK j : j = job[w]
    OBVIOUS
  <1>2. j \in Jobs /\ JobOK(pc[w], j) /\ SearchOK(pc[w], j) /\ j.op \in LockedOps
    BY <1>1, Running DEF DeleteVectors, Searchable
  <1> QED
    BY <1>1, <1>2, StepSearch, ReturnSearch
       DEF DeleteVectors, Ended, Scanned, Reading, Claims

LEMMA ProviderFailsSearch ==
    ASSUME Inv, Inv', Searchable, NEW w \in Workers, job[w].op \in LockedOps, ProviderFails(w)
    PROVE  SearchOK(pc[w], job[w])'
  <1>1. PICK j : j = job[w]
    OBVIOUS
  <1>2. j \in Jobs /\ JobOK(pc[w], j) /\ SearchOK(pc[w], j) /\ j.op \in LockedOps
    BY <1>1, Running DEF ProviderFails, Searchable
  <1> QED
    BY <1>1, <1>2, StepSearch, ReturnSearch
       DEF ProviderFails, Ended, Scanned, Reading, Claims

LEMMA MarkFailedSearch ==
    ASSUME Inv, Inv', Searchable, NEW w \in Workers, job[w].op \in LockedOps, MarkFailed(w)
    PROVE  SearchOK(pc[w], job[w])'
  <1>1. PICK j : j = job[w]
    OBVIOUS
  <1>2. j \in Jobs /\ JobOK(pc[w], j) /\ SearchOK(pc[w], j) /\ j.op \in LockedOps
    BY <1>1, Running DEF MarkFailed, Searchable
  <1>3. ASSUME Step(w, [j EXCEPT !.outcome = "error"], "next") PROVE SearchOK(pc[w], job[w])'
    <2>1. PICK k : k = [j EXCEPT !.outcome = "error"]
      OBVIOUS
    <2>3. Step(w, k, "next")
      BY <1>3, <2>1
    <2> QED
      BY <2>3, StepSearch DEF Ended, Scanned, Reading, Claims
  <1> QED
    BY <1>1, <1>2, <1>3, StepSearch, ReturnSearch
       DEF MarkFailed, Ended, Scanned, Reading, Claims

LEMMA ReviewSearch ==
    ASSUME Inv, Inv', Searchable, NEW w \in Workers, job[w].op \in LockedOps, Review(w)
    PROVE  SearchOK(pc[w], job[w])'
  <1>1. PICK j : j = job[w]
    OBVIOUS
  <1>2. j \in Jobs /\ JobOK(pc[w], j) /\ SearchOK(pc[w], j) /\ j.op \in LockedOps
    BY <1>1, Running DEF Review, Searchable
  <1> QED
    BY <1>1, <1>2, StepSearch, ReturnSearch
       DEF Review, Ended, Scanned, Reading, Claims

LEMMA DecideSearch ==
    ASSUME Inv, Inv', Searchable, NEW w \in Workers, job[w].op \in LockedOps, Decide(w)
    PROVE  SearchOK(pc[w], job[w])'
  <1>1. PICK j : j = job[w]
    OBVIOUS
  <1>2. j \in Jobs /\ JobOK(pc[w], j) /\ SearchOK(pc[w], j) /\ j.op \in LockedOps
    BY <1>1, Running DEF Decide, Searchable
  <1>3. ASSUME NEW x, NEW y, NEW at \in {"approve", "reject"}, Step(w, [j EXCEPT !.read = x, !.target = y], at) PROVE SearchOK(pc[w], job[w])'
    <2>1. PICK k : k = [j EXCEPT !.read = x, !.target = y]
      OBVIOUS
    <2>3. Step(w, k, at)
      BY <1>3, <2>1
    <2> QED
      BY <2>3, StepSearch DEF Ended, Scanned, Reading, Claims
  <1> QED
    BY <1>1, <1>2, <1>3, StepSearch, ReturnSearch
       DEF Decide, Ended, Scanned, Reading, Claims, JobOK, OpOK

LEMMA RejectSearch ==
    ASSUME Inv, Inv', Searchable, NEW w \in Workers, job[w].op \in LockedOps, Reject(w)
    PROVE  SearchOK(pc[w], job[w])'
  <1>1. PICK j : j = job[w]
    OBVIOUS
  <1>2. j \in Jobs /\ JobOK(pc[w], j) /\ SearchOK(pc[w], j) /\ j.op \in LockedOps
    BY <1>1, Running DEF Reject, Searchable
  <1> QED
    BY <1>1, <1>2, StepSearch, ReturnSearch
       DEF Reject, Ended, Scanned, Reading, Claims

LEMMA ApproveSearch ==
    ASSUME Inv, Inv', Searchable, NEW w \in Workers, job[w].op \in LockedOps, Approve(w)
    PROVE  SearchOK(pc[w], job[w])'
  <1>1. PICK j : j = job[w]
    OBVIOUS
  <1>2. j \in Jobs /\ JobOK(pc[w], j) /\ SearchOK(pc[w], j) /\ j.op \in LockedOps
    BY <1>1, Running DEF Approve, Searchable
  <1>3. j.read \in Conversations /\ Submitted(j.read)
    BY <1>1, <1>2 DEF Approve, Jobs, JobOK, Carrying
  <1>4. PICK r, k : r = PayloadOf(Approved(j.read)) /\ k = NewJob("approve", r)
    OBVIOUS
  <1>5. r.sensitive = FALSE /\ k.req = r
    BY <1>3, <1>4, ApprovedIs DEF NewJob
  <1>6. Return(w, j, "error") \/ Step(w, k, "lookup")
    BY <1>1, <1>4 DEF Approve, Approved
  <1> QED
    BY <1>2, <1>5, <1>6, StepSearch, ReturnSearch DEF Ended, Claims

(* The steps that claim something of the vector store.                      *)

LEMMA UpsertVectorsSearch ==
    ASSUME Inv, Inv', Searchable, NEW w \in Workers, job[w].op \in LockedOps, UpsertVectors(w)
    PROVE  SearchOK(pc[w], job[w])'
  <1>1. PICK j : j = job[w]
    OBVIOUS
  <1>2. j \in Jobs /\ JobOK(pc[w], j) /\ SearchOK(pc[w], j) /\ j.op \in LockedOps
    BY <1>1, Running DEF UpsertVectors, Searchable
  <1>3. /\ pc'[w] = "mark_indexed" /\ job'[w] = j
        /\ vectors' = [vectors EXCEPT ![j.target] = @ \cup ChunkIds(j.chunks)]
    BY <1>1, StepMoves DEF UpsertVectors
  <1>4. j.target \in Ids
    BY <1>1, <1>2 DEF UpsertVectors, JobOK, Indexing, Stored
  <1>5. ChunkIds(j.chunks) \subseteq vectors'[j.target]
    BY <1>3, <1>4 DEF Inv, TypeOK, StoreTypes
  <1> QED
    BY <1>3, <1>5 DEF SearchOK, Scanned, Reading, Ended

LEMMA MarkIndexedSearch ==
    ASSUME Inv, Inv', Searchable, NEW w \in Workers, job[w].op \in LockedOps, MarkIndexed(w)
    PROVE  SearchOK(pc[w], job[w])'
  <1>1. PICK j : j = job[w]
    OBVIOUS
  <1>2. j \in Jobs /\ JobOK(pc[w], j) /\ SearchOK(pc[w], j) /\ j.op \in LockedOps
    BY <1>1, Running DEF MarkIndexed, Searchable
  <1>3. pc'[w] = "facts" /\ job'[w] = j /\ UNCHANGED vectors
    BY <1>1, <1>2, StepMoves DEF MarkIndexed, LockedOps
  <1>4. ChunkIds(j.chunks) \subseteq vectors[j.target]
    BY <1>1, <1>2 DEF MarkIndexed, SearchOK
  <1> QED
    BY <1>3, <1>4 DEF SearchOK, Scanned, Reading, Ended

LEMMA ApproveFactsSearch ==
    ASSUME Inv, Inv', Searchable, NEW w \in Workers, job[w].op \in LockedOps, ApproveFacts(w)
    PROVE  SearchOK(pc[w], job[w])'
  <1>1. PICK j : j = job[w]
    OBVIOUS
  <1>2. j \in Jobs /\ JobOK(pc[w], j) /\ SearchOK(pc[w], j) /\ j.op \in LockedOps
    BY <1>1, Running DEF ApproveFacts, Searchable
  <1>3. pc'[w] = "done" /\ job'[w] = j /\ UNCHANGED <<convs, vectors>>
    BY <1>1, StepMoves DEF ApproveFacts
  <1>4. SearchOK("done", j)
    BY <1>1, <1>2 DEF ApproveFacts, SearchOK, Ended, Scanned, Reading
  <1>5. SearchOK("done", j)'
    BY <1>3, <1>4, UnchangedCores, SearchFrame
  <1> QED
    BY <1>3, <1>5

LEMMA ExtractFactsSearch ==
    ASSUME Inv, Inv', Searchable, NEW w \in Workers, job[w].op \in LockedOps, ExtractFacts(w), Solo
    PROVE  SearchOK(pc[w], job[w])'
  <1>1. PICK j : j = job[w]
    OBVIOUS
  <1>2. j \in Jobs /\ JobOK(pc[w], j) /\ SearchOK(pc[w], j) /\ j.op \in LockedOps
    BY <1>1, Running DEF ExtractFacts, Searchable
  <1>3. j.target \in Stored /\ ChunkIds(j.chunks) \subseteq vectors[j.target] /\ pc[w] = "facts"
    BY <1>1, <1>2 DEF ExtractFacts, JobOK, Indexing, SearchOK
  <1>4. (j.extract = {} \/ j.read = None) /\ Active(j.target) => j.chunks = Whole(j.target)
    BY <1>1, <1>3, SoloIs DEF SoloOK, Indexing
  <1>5. (j.extract = {} \/ j.read = None) => (Active(j.target) => Restored(j.target))
    BY <1>3, <1>4 DEF Restored
  <1>6. UNCHANGED <<convs, vectors>>
    BY DEF ExtractFacts
  <1>7. ASSUME NEW outcome \in {"inserted", "deduplicated"}, Return(w, j, outcome),
               j.extract = {} \/ j.read = None
        PROVE  SearchOK(pc[w], job[w])'
    BY <1>2, <1>3, <1>5, <1>6, <1>7, ClaimSearch
  <1>8. CASE Return(w, j, "appended")
    <2>1. PICK m : m = [j EXCEPT !.outcome = "appended"]
      OBVIOUS
    <2>2. m.outcome = "appended" /\ m.target = j.target /\ m.chunks = j.chunks
      BY <1>2, <2>1 DEF Jobs
    <2>3. job'[w] = m /\ pc'[w] \in Ended
      BY <1>8, <2>1, ReturnMoves DEF Answered, Ended
    <2> QED
      BY <1>3, <1>6, <2>2, <2>3 DEF SearchOK, Ended, Scanned, Reading
  <1> QED
    BY <1>1, <1>7, <1>8 DEF ExtractFacts

LEMMA CompleteSearch ==
    ASSUME Inv, Inv', Searchable, NEW w \in Workers, job[w].op \in LockedOps, Complete(w), Solo, Manifests
    PROVE  SearchOK(pc[w], job[w])'
  <1>1. PICK j : j = job[w]
    OBVIOUS
  <1>2. j \in Jobs /\ JobOK(pc[w], j) /\ SearchOK(pc[w], j) /\ j.op \in LockedOps
    BY <1>1, Running DEF Complete, Searchable
  <1>3. /\ pc[w] = "complete" /\ UNCHANGED <<convs, vectors>> /\ ~j.req.sensitive
    BY <1>1, <1>2 DEF Complete, stores, SearchOK, Scanned, Reading
  <1>4. PICK d, c : d = j.dup /\ c = j.read
    OBVIOUS
  <1>5. c \in Conversations /\ c.id = d /\ d \in Stored /\ d \in Ids /\ ManOK(c) /\ Sync(c)
    <2>1. JobMan("complete", j) /\ SoloOK("complete", j)
      BY <1>1, <1>2, <1>3, SoloIs DEF Manifests
    <2> QED
      BY <1>2, <1>3, <1>4, <2>1 DEF Jobs, JobOK, Reading, JobMan, SoloOK, Stored
  <1>6. CASE duplicate_index_is_complete(j) /\ Return(w, [j EXCEPT !.target = j.dup], "deduplicated")
    <2>1. PICK k : k = [j EXCEPT !.target = d]
      OBVIOUS
    <2>2. k \in Jobs /\ k.target = d
      BY <1>2, <1>5, <2>1 DEF Jobs
    <2>3. c.chunks # <<>> /\ ChunkIds(c.chunks) \subseteq vectors[d]
      BY <1>4, <1>6 DEF duplicate_index_is_complete, AllIndexed
    <2>4. convs[d] \in Conversations /\ convs[d].msgs = c.msgs
      <3>1. convs[d] \in Conversations /\ Core(convs[d]) = Core(c)
        BY <1>5, StoredIs DEF Sync, Inv, TypeOK
      <3> QED
        BY <1>5, <3>1, CoreIs
    <2>5. PICK fresh : fresh = chunk_selected_messages(d, c.msgs, 0)
      OBVIOUS
    <2>6. fresh \in Seq(Chunks) /\ c.chunks \in Seq(Chunks) /\ Keys(c.chunks) = Keys(fresh)
      BY <1>5, <2>3, <2>5, ChunksAre DEF ManOK, Conversations
    <2>7. ChunkIds(c.chunks) = ChunkIds(fresh)
      BY <2>6, SameKeysSameIds
    <2>8. Restored(d)
      BY <2>3, <2>4, <2>5, <2>7 DEF Restored, Whole
    <2>9. Return(w, k, "deduplicated")
      BY <1>4, <1>6, <2>1
    <2> QED
      BY <1>3, <1>5, <2>2, <2>8, <2>9, ClaimSearch
  <1>7. CASE Step(w, [j EXCEPT !.req.id = j.dup], "existing")
    <2>1. PICK k, r : k = [j EXCEPT !.req = r] /\ r = [j.req EXCEPT !.id = j.dup]
      OBVIOUS
    <2>2. j.req \in Payloads
      BY <1>2, <1>3 DEF Jobs, JobOK, OpOK, Payloading, Ingesting
    <2>3. k.req.sensitive = j.req.sensitive
      BY <1>2, <2>1, <2>2 DEF Jobs, Payloads
    <2>4. k = [j EXCEPT !.req.id = j.dup]
      BY <1>2, <2>1 DEF Jobs
    <2>5. Step(w, k, "existing")
      BY <1>7, <2>4
    <2> QED
      BY <1>3, <2>3, <2>5, StepSearch DEF Ended
  <1> QED
    BY <1>1, <1>6, <1>7 DEF Complete

LEMMA ClassifySearch ==
    ASSUME Inv, Inv', Searchable, NEW w \in Workers, job[w].op \in LockedOps, Classify(w), Solo
    PROVE  SearchOK(pc[w], job[w])'
  <1>1. PICK j : j = job[w]
    OBVIOUS
  <1>2. j \in Jobs /\ JobOK(pc[w], j) /\ SearchOK(pc[w], j) /\ j.op \in LockedOps
    BY <1>1, Running DEF Classify, Searchable
  <1>3. /\ pc[w] = "same_thread" /\ ~j.req.sensitive /\ j.op # "hold" /\ j.req \in Payloads
    BY <1>1, <1>2 DEF Classify, SearchOK, Scanned, Jobs, JobOK, OpOK, Ingesting
  <1>4. j.dup = None => NoActive(j.req)
    BY <1>1, <1>3, SoloIs DEF SoloOK, Deduplicating
  <1>5. CASE Return(w, j, "error")
    BY <1>2, <1>5, ReturnSearch DEF Claims
  <1>6. CASE Step(w, [j EXCEPT !.read = None], "summarize")
    BY <1>6, StepSearch DEF Ended, Scanned, Reading
  <1>7. ASSUME NEW id \in SameThread(j), id # None, Found(w, j, id, convs[id])
        PROVE  SearchOK(pc[w], job[w])'
    <2>1. PICK c, k, m : c = convs[id] /\ k = [j EXCEPT !.read = c] /\ m = [k EXCEPT !.target = id]
      OBVIOUS
    <2>2. id \in Stored /\ c.project = j.req.project /\ c.status = "active"
      BY <1>7, <2>1, SameThreadIs
    <2>3. c \in Conversations /\ id \in Ids
      BY <2>1, <2>2, StoredIs DEF Inv, TypeOK
    <2>4. k \in Jobs /\ k.req = j.req
      BY <1>2, <2>1, <2>3 DEF Jobs
    <2>5. m \in Jobs
      <3>1. m = [k EXCEPT !.target = id] /\ id \in Ids /\ k \in Jobs
        BY <2>1, <2>3, <2>4
      <3> QED
        BY ONLY <3>1 DEF Jobs
    <2>6. CASE Return(w, m, "stale") \/ Return(w, k, "error")
      BY <2>4, <2>5, <2>6, ReturnSearch DEF Claims
    <2>7. CASE Step(w, k, "append")
      BY <1>3, <2>4, <2>7, StepSearch DEF Ended
    <2>8. CASE Step(w, Reindexing(k, id, id), "rewrite")
      BY <2>8, StepSearch DEF Ended, Scanned, Reading
    <2>9. ~(c.msgs = j.req.msgs /\ j.dup = None)
      BY <1>4, <2>1, <2>2, <2>3 DEF NoActive, Active, Stored, SameHash, conversation_hash
    <2> QED
      BY <1>7, <2>1, <2>6, <2>7, <2>8, <2>9 DEF Found
  <1> QED
    BY <1>1, <1>5, <1>6, <1>7, Classified

LEMMA SearchWorks ==
    ASSUME Inv, Inv', Solo, Manifests, Searchable, NEW w \in Workers, job[w].op \in LockedOps,
           Progress(w) \/ ProviderFails(w), ~Finish(w)
    PROVE  SearchOK(pc[w], job[w])'
  <1>1. ~ReindexStep(w) /\ ~Retrieve(w)
    <2>1. pc[w] \notin {"reindex", "list", "next", "retrieve"}
      BY Running DEF JobOK, OpOK, LockedOps
    <2> QED
      BY <2>1 DEF ReindexStep, Reindex, List, NextConversation, Retrieve
  <1>2. IngestStep(w) => SearchOK(pc[w], job[w])'
    BY LookupSearch, InspectSearch, RepairSearch, RefreshSearch, CompleteSearch, ExistingSearch,
       ClassifySearch, RewriteSearch, AppendMessagesSearch, SummarizeSearch, ResaveSearch, InsertSearch,
       ResolveSearch DEF IngestStep
  <1>3. IndexStep(w) \/ ProviderFails(w) => SearchOK(pc[w], job[w])'
    BY DeleteVectorsSearch, UpsertVectorsSearch, MarkIndexedSearch, MarkFailedSearch, ExtractFactsSearch,
       ProviderFailsSearch DEF IndexStep
  <1>4. ReviewStep(w) => SearchOK(pc[w], job[w])'
    BY ReviewSearch, HoldSearch, DecideSearch, ApproveSearch, ApproveFactsSearch, RejectSearch
       DEF ReviewStep
  <1> QED
    BY <1>1, <1>2, <1>3, <1>4 DEF Progress

LEMMA SearchStep ==
    ASSUME OneHub, Inv, Inv', Serial, Solo, Manifests, Reindexes, Searchable, [Next]_vars
    PROVE  Searchable'
  <1>1. ASSUME NEW v \in Workers, pc[v] # "idle", job[v].op \in LockedOps, pc'[v] = pc[v],
               job'[v] = job[v], CoresKept, UNCHANGED vectors
        PROVE  SearchOK(pc[v], job[v])'
    <2>1. PICK a, k : a = pc[v] /\ k = job[v]
      OBVIOUS
    <2>2. SearchOK(a, k)
      BY <1>1, <2>1 DEF Searchable
    <2>3. SearchOK(a, k)'
      BY <1>1, <2>2, SearchFrame
    <2> QED
      BY <1>1, <2>1, <2>3
  <1>2. ASSUME NEW w \in Workers, NEW op \in Ops, NEW r, Start(w, op, r) PROVE Searchable'
    <2>1. /\ Moved(w) /\ pc'[w] = FirstStep(op, r) /\ job'[w] = NewJob(op, r) /\ UNCHANGED stores
      BY <1>2, StartSerial
    <2>2. CoresKept /\ UNCHANGED vectors
      BY <2>1, UnchangedCores DEF stores
    <2>3. SearchOK(FirstStep(op, r), NewJob(op, r))'
      <3>1. PICK k, at : k = NewJob(op, r) /\ at = FirstStep(op, r)
        OBVIOUS
      <3>2. /\ k.req = r /\ at \in {"lookup", "review", "decide", "retrieve", "reindex"}
            /\ at = "lookup" => ~r.sensitive
        BY <3>1, FirstStepIs DEF NewJob
      <3>3. SearchOK(at, k)'
        BY <3>2 DEF SearchOK, Scanned, Reading, Ended
      <3> QED
        BY <3>1, <3>3
    <2> SUFFICES ASSUME NEW v \in Workers, pc'[v] # "idle", job'[v].op \in LockedOps
                 PROVE  SearchOK(pc[v], job[v])'
      BY DEF Searchable
    <2>4. CASE v = w
      BY <2>1, <2>3, <2>4
    <2>5. CASE v # w
      BY <1>1, <2>1, <2>2, <2>5 DEF Moved
    <2> QED
      BY <2>4, <2>5
  <1>3. ASSUME CoresKept, UNCHANGED vectors,
               \A v \in Workers : pc'[v] = "idle" \/ (pc'[v] = pc[v] /\ job'[v] = job[v])
        PROVE  Searchable'
    BY <1>1, <1>3 DEF Searchable
  <1>4. ASSUME NEW w \in Workers, Finish(w) PROVE Searchable'
    <2>1. UNCHANGED <<convs, vectors>>
      BY <1>4 DEF Finish, stores
    <2>2. \A v \in Workers : pc'[v] = "idle" \/ (pc'[v] = pc[v] /\ job'[v] = job[v])
      BY <1>4 DEF Finish, Inv, TypeOK, WorkerTypes
    <2> QED
      BY <1>3, <2>1, <2>2, UnchangedCores
  <1>5. ASSUME NEW h \in Hubs, Crash(h) PROVE Searchable'
    <2>1. CASE UNCHANGED vectors
      <3>1. UNCHANGED convs
        BY <1>5 DEF Crash
      <3>2. \A v \in Workers : pc'[v] = "idle" \/ (pc'[v] = pc[v] /\ job'[v] = job[v])
        BY <1>5 DEF Crash
      <3> QED
        BY <1>3, <2>1, <3>1, <3>2, UnchangedCores
    <2>2. CASE MemoryProvider \/ FreshDestination
      <3>1. \A v \in Workers : HubOf[v] = h
        BY <2>2, IngestionAssumption
      <3>2. \A v \in Workers : pc'[v] = "idle"
        BY <1>5, <3>1 DEF Crash
      <3> QED
        BY <3>2 DEF Searchable
    <2> QED
      BY <1>5, <2>1, <2>2 DEF Crash
  <1>6. ASSUME UNCHANGED vars PROVE Searchable'
    <2>1. UNCHANGED <<convs, vectors, pc, job>>
      BY <1>6 DEF vars, stores
    <2> QED
      BY <1>3, <2>1, UnchangedCores
  <1>7. ASSUME NEW w \in Workers, Progress(w) \/ ProviderFails(w), ~Finish(w)
        PROVE  Searchable'
    <2>1. Moved(w) /\ pc[w] # "idle" /\ job'[w].op = job[w].op
      BY <1>7, ProgressSerial
    <2> SUFFICES ASSUME NEW v \in Workers, pc'[v] # "idle", job'[v].op \in LockedOps
                 PROVE  SearchOK(pc[v], job[v])'
      BY DEF Searchable
    <2>2. CASE v = w
      BY <1>7, <2>1, <2>2, SearchWorks
    <2>3. CASE v # w
      <3>1. pc'[v] = pc[v] /\ job'[v] = job[v]
        BY <2>1, <2>3 DEF Moved
      <3>2. job[w].op \notin LockedOps
        BY <2>1, <2>3, <3>1, OneWriter
      <3>3. job[w].op # "reindex"
        BY <2>1, <2>3, <3>1 DEF Reindexes, Alone, LockedOps
      <3>4. job[w].op \in Ops
        BY <2>1, Running DEF Jobs
      <3>5. UNCHANGED vectors /\ CoresKept
        BY <1>7, <3>2, <3>3, <3>4, RetrieveKeepsVectors DEF LockedOps
      <3> QED
        BY <1>1, <3>1, <3>5
    <2> QED
      BY <2>2, <2>3
  <1>8. ASSUME NEW w \in Workers, Submit(w) \/ Refer(w) \/ Maintain(w) PROVE Searchable'
    BY <1>2, <1>8, Starts
  <1> QED
    BY <1>4, <1>5, <1>6, <1>7, <1>8 DEF Next, Progress

LEMMA SearchableAlways == ASSUME OneHub, QuietReindex, PlainImports PROVE Spec => []Searchable
  <1>1. Init => Searchable
    BY DEF Init, Searchable
  <1>2. Inv /\ Inv' /\ Serial /\ Solo /\ Manifests /\ Reindexes /\ Searchable /\ [Next]_vars => Searchable'
    BY SearchStep
  <1> QED
    BY <1>1, <1>2, WellFormed, WritesAreSerial, WritesKnow, Manifested, Reindexed, PTL DEF Spec

(* SavedIsSearchable: with one hub, an ingestion that answers inserted or   *)
(* deduplicated for an active memory has left every chunk of its transcript *)
(* in the vector store, and one that answers appended every chunk of the    *)
(* appended messages, whatever failed, crashed, was repaired or was lost    *)
(* before.  A deduplicated answer is right for two reasons: the manifest it *)
(* checks is that of a fresh chunking, or the conversation was indexed      *)
(* again.                                                                   *)
THEOREM SavesAreSearchable ==
    ASSUME OneHub, QuietReindex, PlainImports PROVE Spec => []SavedIsSearchable
  <1>1. Inv /\ Serial /\ Searchable => SavedIsSearchable
    <2> SUFFICES ASSUME Inv, Serial, Searchable, NEW w \in Workers, pc[w] = "done",
                        job[w].outcome \in Claims
                 PROVE  /\ job[w].outcome \in {"inserted", "deduplicated"}
                             /\ convs[job[w].target].status = "active" => Restored(job[w].target)
                        /\ job[w].outcome = "appended" =>
                             ChunkIds(job[w].chunks) \subseteq vectors[job[w].target]
      BY DEF SavedIsSearchable, Restored, Whole, Claims
    <2>1. job[w].op \in LockedOps
      BY Running DEF Serial, Answers, Ended, OutcomeOK, ReadAnswers, Claims
    <2>2. SearchOK("done", job[w])
      BY <2>1 DEF Searchable
    <2> QED
      BY <2>2 DEF SearchOK, Ended, Active, Stored
  <1> QED
    BY <1>1, WellFormed, WritesAreSerial, SearchableAlways, PTL
=============================================================================
