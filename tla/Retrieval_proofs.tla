-------------------------- MODULE Retrieval_proofs --------------------------
(***************************************************************************)
(* Theorems about modules Ranking and Retrieval, for any number of          *)
(* memories, messages, words, writes and list lengths.                      *)
(***************************************************************************)
EXTENDS Retrieval, FiniteSetTheorems, WellFoundedInduction, TLAPS

-----------------------------------------------------------------------------
(* Sorting.                                                                 *)

Below == OpToRel(<, Nat)

LEMMA LeastNumber ==
    ASSUME NEW T \in SUBSET Nat, T # {}
    PROVE  \E n \in T : \A m \in T : n <= m
  <1>1. IsWellFoundedOn(Below, Nat)
    BY NatLessThanWellFounded DEF Below
  <1>2. PICK n \in T : \A m \in T : ~ (<<m, n>> \in Below)
    BY <1>1, WFMin
  <1>3. \A m \in T : <<m, n>> \in Below <=> m < n
    BY DEF Below, OpToRel
  <1>4. \A m \in T : m \in Nat /\ n \in Nat /\ ~(m < n)
    BY <1>2, <1>3
  <1> QED
    BY <1>4

(* The tuples by which a set is sorted: numbers, of one length, which tell  *)
(* its elements apart.                                                      *)
SortKeys(S, key, L) ==
    /\ \A x \in S : DOMAIN key[x] = 1 .. L /\ \A i \in 1 .. L : key[x][i] \in Int
    /\ \A x, y \in S : x # y => \E i \in 1 .. L : key[x][i] # key[y][i]

LEMMA LexOrder ==
    ASSUME NEW S, NEW key, NEW L \in Nat, SortKeys(S, key, L)
    PROVE  /\ \A x \in S : ~LexLess(key[x], key[x])
           /\ \A x, y \in S : x # y => LexLess(key[x], key[y]) \/ LexLess(key[y], key[x])
           /\ \A x, y, z \in S : LexLess(key[x], key[y]) /\ LexLess(key[y], key[z])
                                    => LexLess(key[x], key[z])
  <1>1. ASSUME NEW x \in S PROVE ~LexLess(key[x], key[x])
    BY DEF SortKeys, LexLess
  <1>2. ASSUME NEW x \in S, NEW y \in S, x # y
        PROVE  LexLess(key[x], key[y]) \/ LexLess(key[y], key[x])
    <2> DEFINE T == {i \in 1 .. L : key[x][i] # key[y][i]}
    <2>1. T \in SUBSET Nat /\ T # {}
      <3>1. PICK i \in 1 .. L : key[x][i] # key[y][i]
        BY <1>2 DEF SortKeys
      <3> QED
        BY <3>1
    <2>2. PICK n \in T : \A m \in T : n <= m
      BY <2>1, LeastNumber
    <2>3. \A p \in 1 .. (n - 1) : p \in 1 .. L /\ p \notin T
      BY <2>2
    <2>4. \A p \in 1 .. (n - 1) : key[x][p] = key[y][p]
      BY <2>3
    <2>5. key[x][n] < key[y][n] \/ key[y][n] < key[x][n]
      BY <2>2 DEF SortKeys
    <2> QED
      BY <2>2, <2>4, <2>5 DEF SortKeys, LexLess
  <1>3. ASSUME NEW x \in S, NEW y \in S, NEW z \in S,
               LexLess(key[x], key[y]), LexLess(key[y], key[z])
        PROVE  LexLess(key[x], key[z])
    <2>1. PICK a : a = key[x]
      OBVIOUS
    <2>2. PICK b : b = key[y]
      OBVIOUS
    <2>3. PICK c : c = key[z]
      OBVIOUS
    <2>4. /\ DOMAIN a = 1 .. L /\ DOMAIN b = 1 .. L
          /\ \A i \in 1 .. L : a[i] \in Int /\ b[i] \in Int /\ c[i] \in Int
      BY <2>1, <2>2, <2>3 DEF SortKeys
    <2>5. PICK m \in 1 .. L : a[m] < b[m] /\ \A p \in 1 .. (m - 1) : a[p] = b[p]
      BY <1>3, <2>1, <2>2, <2>4 DEF LexLess
    <2>6. PICK n \in 1 .. L : b[n] < c[n] /\ \A p \in 1 .. (n - 1) : b[p] = c[p]
      BY <1>3, <2>2, <2>3, <2>4 DEF LexLess
    <2>7. CASE m <= n
      <3>1. a[m] < c[m] /\ \A p \in 1 .. (m - 1) : a[p] = c[p]
        BY <2>4, <2>5, <2>6, <2>7
      <3> QED
        BY <2>1, <2>3, <2>4, <3>1 DEF LexLess
    <2>8. CASE n < m
      <3>1. a[n] < c[n] /\ \A p \in 1 .. (n - 1) : a[p] = c[p]
        BY <2>4, <2>5, <2>6, <2>8
      <3> QED
        BY <2>1, <2>3, <2>4, <3>1 DEF LexLess
    <2> QED
      BY <2>7, <2>8
  <1> QED
    BY <1>1, <1>2, <1>3

(* Sorted lists a finite set completely, each element once, in the order of *)
(* its tuples.                                                              *)
LEMMA SortedLemma ==
    ASSUME NEW S, IsFiniteSet(S), NEW key, NEW L \in Nat, SortKeys(S, key, L)
    PROVE  /\ Cardinality(S) \in Nat
           /\ Sorted(S, key) \in [1 .. Cardinality(S) -> S]
           /\ \A x \in S : \E n \in 1 .. Cardinality(S) : Sorted(S, key)[n] = x
           /\ \A m, n \in 1 .. Cardinality(S) :
                 /\ m < n => LexLess(key[Sorted(S, key)[m]], key[Sorted(S, key)[n]])
                 /\ Sorted(S, key)[m] = Sorted(S, key)[n] => m = n
  <1> DEFINE Lower(x) == {y \in S : LexLess(key[y], key[x])}
             Place(x) == Cardinality(Lower(x))
             N == Cardinality(S)
             places == 0 .. (N - 1)
             f == [x \in S |-> Place(x)]
             s == Sorted(S, key)
  <1>1. N \in Nat
    BY FS_CardinalityType
  <1>2. ASSUME NEW x \in S
        PROVE  Lower(x) \in SUBSET S /\ IsFiniteSet(Lower(x)) /\ Place(x) \in Nat /\ Place(x) < N
    <2>1. Lower(x) \in SUBSET S /\ x \notin Lower(x)
      BY LexOrder
    <2>2. IsFiniteSet(Lower(x)) /\ Place(x) <= N /\ (N = Place(x) => S = Lower(x))
      BY <2>1, FS_Subset
    <2>3. Place(x) \in Nat
      BY <2>2, FS_CardinalityType
    <2> HIDE DEF Lower
    <2> QED
      BY <1>1, <2>1, <2>2, <2>3
  <1>3. ASSUME NEW x \in S, NEW y \in S, LexLess(key[x], key[y])
        PROVE  Place(x) < Place(y)
    <2>1. Lower(x) \in SUBSET Lower(y) /\ x \in Lower(y) /\ x \notin Lower(x)
      BY <1>3, LexOrder
    <2>2. IsFiniteSet(Lower(y)) /\ Place(x) \in Nat /\ Place(y) \in Nat
      BY <1>2
    <2> HIDE DEF Lower
    <2>3. Place(x) <= Place(y) /\ (Place(y) = Place(x) => Lower(y) = Lower(x))
      BY <2>1, <2>2, FS_Subset
    <2> QED
      BY <2>1, <2>2, <2>3
  <1> HIDE DEF Lower
  <1>4. ASSUME NEW x \in S, NEW y \in S, Place(x) = Place(y) PROVE x = y
    BY <1>2, <1>3, <1>4, LexOrder
  <1>5. f \in Injection(S, places)
    BY <1>1, <1>2, <1>4 DEF Injection, IsInjective
  <1>6. IsFiniteSet(places) /\ Cardinality(places) = N
    <2>1. PICK b : b = N - 1
      OBVIOUS
    <2>2. b \in Int /\ 0 \in Int
      BY <1>1, <2>1
    <2>3. IsFiniteSet(0 .. b) /\ Cardinality(0 .. b) = IF 0 > b THEN 0 ELSE b - 0 + 1
      BY ONLY <2>2, FS_Interval
    <2> QED
      BY <1>1, <2>1, <2>3
  <1>7. f \in Surjection(S, places)
    BY <1>5, <1>6, FS_Injection
  <1>8. ASSUME NEW n \in 1 .. N PROVE \E x \in S : Place(x) = n - 1
    <2>1. n - 1 \in places
      BY <1>1
    <2>2. PICK x \in S : f[x] = n - 1
      BY <1>7, <2>1 DEF Surjection
    <2> QED
      BY <2>2
  <1>9. s = [n \in 1 .. N |-> CHOOSE x \in S : Place(x) = n - 1]
    BY DEF Sorted, Lower
  <1>10. ASSUME NEW n \in 1 .. N PROVE s[n] \in S /\ Place(s[n]) = n - 1
    <2>1. s[n] = CHOOSE x \in S : Place(x) = n - 1
      BY <1>9
    <2> QED
      BY <1>8, <2>1
  <1>11. s \in [1 .. N -> S]
    BY <1>9, <1>10
  <1>12. ASSUME NEW x \in S PROVE \E n \in 1 .. N : s[n] = x
    <2>1. Place(x) + 1 \in 1 .. N
      BY <1>1, <1>2
    <2>2. Place(s[Place(x) + 1]) = Place(x) /\ s[Place(x) + 1] \in S
      BY <1>2, <1>10, <2>1
    <2> QED
      BY <1>4, <2>1, <2>2
  <1>13. ASSUME NEW m \in 1 .. N, NEW n \in 1 .. N
         PROVE  /\ m < n => LexLess(key[s[m]], key[s[n]])
                /\ s[m] = s[n] => m = n
    <2>1. /\ s[m] \in S /\ Place(s[m]) = m - 1
          /\ s[n] \in S /\ Place(s[n]) = n - 1
      BY <1>10
    <2>2. LexLess(key[s[n]], key[s[m]]) => n - 1 < m - 1
      BY <1>3, <2>1
    <2>3. s[m] # s[n] => LexLess(key[s[m]], key[s[n]]) \/ LexLess(key[s[n]], key[s[m]])
      BY <2>1, LexOrder
    <2>4. s[m] = s[n] => m - 1 = n - 1
      BY <2>1
    <2> HIDE DEF s
    <2> QED
      BY <1>1, <2>2, <2>3, <2>4
  <1> QED
    BY <1>1, <1>11, <1>12, <1>13

LEMMA SortedSeq ==
    ASSUME NEW S, IsFiniteSet(S), NEW key, NEW L \in Nat, SortKeys(S, key, L)
    PROVE  /\ Sorted(S, key) \in Seq(S) /\ Len(Sorted(S, key)) = Cardinality(S)
           /\ DOMAIN Sorted(S, key) = 1 .. Cardinality(S)
  <1>1. PICK s : s = Sorted(S, key)
    OBVIOUS
  <1>2. PICK N : N = Cardinality(S)
    OBVIOUS
  <1>3. N \in Nat /\ s \in [1 .. N -> S]
    BY <1>1, <1>2, SortedLemma
  <1> QED
    BY <1>1, <1>2, <1>3

-----------------------------------------------------------------------------
(* Smallest numbers, beginnings and selections of lists.                    *)

LEMMA MinOfTwo ==
    ASSUME NEW a \in Int, NEW b \in Int
    PROVE  Min({a, b}) = IF a <= b THEN a ELSE b
  <1>1. PICK c : c = IF a <= b THEN a ELSE b
    OBVIOUS
  <1>2. c \in {a, b} /\ \A y \in {a, b} : c <= y
    BY <1>1
  <1>3. \A x \in {a, b} : (\A y \in {a, b} : x <= y) => x = c
    BY <1>1
  <1> QED
    BY <1>1, <1>2, <1>3 DEF Min

LEMMA MinOfMany ==
    ASSUME NEW T \in SUBSET Nat, T # {}
    PROVE  Min(T) \in T
  BY LeastNumber DEF Min

LEMMA PrefixLemma ==
    ASSUME NEW T, NEW s \in Seq(T), NEW n \in Nat
    PROVE  /\ Prefix(s, n) \in Seq(T)
           /\ Len(Prefix(s, n)) = IF n <= Len(s) THEN n ELSE Len(s)
           /\ \A i \in 1 .. Len(Prefix(s, n)) : i \in 1 .. Len(s) /\ Prefix(s, n)[i] = s[i]
           /\ Len(s) <= n => Prefix(s, n) = s
  <1>1. PICK c : c = IF n <= Len(s) THEN n ELSE Len(s)
    OBVIOUS
  <1>2. Min({n, Len(s)}) = c /\ c \in Nat /\ c <= Len(s)
    BY <1>1, MinOfTwo
  <1>3. Prefix(s, n) = SubSeq(s, 1, c)
    BY <1>2 DEF Prefix
  <1>4. PICK p : p = SubSeq(s, 1, c)
    OBVIOUS
  <1>5. p \in Seq(T) /\ Len(p) = c /\ \A i \in 1 .. c : p[i] = s[i]
    BY <1>2, <1>4
  <1>6. Len(s) <= n => p = s
    BY <1>1, <1>2, <1>5
  <1> QED
    BY <1>1, <1>2, <1>3, <1>4, <1>5, <1>6

LEMMA Positions ==
    ASSUME NEW n \in Nat, NEW P \in SUBSET (1 .. n)
    PROVE  IsFiniteSet(P) /\ Cardinality(P) \in Nat /\ Cardinality(P) <= n
  <1>1. IsFiniteSet(1 .. n) /\ Cardinality(1 .. n) = IF 1 > n THEN 0 ELSE n - 1 + 1
    BY FS_Interval
  <1>2. IsFiniteSet(P) /\ Cardinality(P) <= Cardinality(1 .. n)
    BY <1>1, FS_Subset
  <1>3. Cardinality(P) \in Nat
    BY <1>2, FS_CardinalityType
  <1> QED
    BY <1>1, <1>2, <1>3

(* Each place is used once.                                                 *)
Placed(u, rows, places) ==
    \E o \in [1 .. Len(u) -> places] :
        /\ \A m, n \in 1 .. Len(u) : o[m] = o[n] => m = n
        /\ \A n \in 1 .. Len(u) : u[n] = rows[o[n]]

LEMMA SubsequenceLemma ==
    ASSUME NEW T, NEW rows \in Seq(T), NEW P, P \subseteq DOMAIN rows
    PROVE  /\ Subsequence(rows, P) \in Seq(T)
           /\ Placed(Subsequence(rows, P), rows, P)
           /\ P = {} => Subsequence(rows, P) = <<>>
  <1> DEFINE key == [n \in P |-> <<n>>]
  <1>1. Len(rows) \in Nat /\ P \in SUBSET (1 .. Len(rows))
    OBVIOUS
  <1>2. IsFiniteSet(P) /\ Cardinality(P) \in Nat
    BY <1>1, Positions
  <1>3. SortKeys(P, key, 1)
    <2>1. ASSUME NEW x \in P
          PROVE  DOMAIN key[x] = 1 .. 1 /\ key[x][1] \in Int /\ key[x][1] = x
      BY <1>1
    <2>2. ASSUME NEW x \in P, NEW y \in P, x # y
          PROVE  \E i \in 1 .. 1 : key[x][i] # key[y][i]
      BY <2>1, <2>2
    <2> HIDE DEF key
    <2>3. 1 .. 1 = {1}
      OBVIOUS
    <2> QED
      BY <2>1, <2>2, <2>3 DEF SortKeys
  <1>4. PICK order : order = Sorted(P, key)
    OBVIOUS
  <1>5. PICK N : N = Cardinality(P)
    OBVIOUS
  <1> HIDE DEF key
  <1>6. /\ N \in Nat /\ order \in [1 .. N -> P]
        /\ \A m, n \in 1 .. N : order[m] = order[n] => m = n
    BY <1>2, <1>3, <1>4, <1>5, SortedLemma
  <1>7. PICK u : u = [n \in 1 .. N |-> rows[order[n]]]
    OBVIOUS
  <1>8. Subsequence(rows, P) = u
    BY <1>4, <1>6, <1>7 DEF Subsequence, key
  <1>9. u \in Seq(T) /\ Len(u) = N
    BY <1>1, <1>6, <1>7
  <1>10. Placed(u, rows, P)
    BY <1>6, <1>7, <1>9 DEF Placed
  <1>11. P = {} => u = <<>>
    <2> SUFFICES ASSUME P = {} PROVE N = 0
      BY <1>7, <1>9
    <2> QED
      BY <1>5, FS_EmptySet
  <1> QED
    BY <1>8, <1>9, <1>10, <1>11

-----------------------------------------------------------------------------
(* Rows and candidate lists.                                                *)

Chunks == Memories \X Nat
Conversations == [id : Memories, status : Statuses, size : Nat \ {0}]
Rows == [id : Memories, chunk : Nat, kind : {"window", "message"}, conversation : Conversations]
RowLists == [dense : Seq(Rows), lexical : Seq(Rows), fact : Seq(Rows), graph : Seq(Rows)]

Distinct(rows) ==
    \A m, n \in 1 .. Len(rows) : candidate_key(rows[m]) = candidate_key(rows[n]) => m = n

(* A list made of rows of another, without a repetition.                    *)
Selection(u, rows) ==
    /\ u \in Seq(Rows)
    /\ \A n \in 1 .. Len(u) : \E m \in 1 .. Len(rows) : u[n] = rows[m]
    /\ Distinct(rows) => Distinct(u)

LEMMA SelectionTransitive ==
    ASSUME NEW u, NEW v, NEW w, Selection(u, v), Selection(v, w)
    PROVE  Selection(u, w)
  BY DEF Selection

LEMMA PrefixSelects ==
    ASSUME NEW rows \in Seq(Rows), NEW n \in Nat
    PROVE  Selection(Prefix(rows, n), rows)
  <1>1. PICK p : p = Prefix(rows, n)
    OBVIOUS
  <1>2. /\ p \in Seq(Rows)
        /\ \A i \in 1 .. Len(p) : i \in 1 .. Len(rows) /\ p[i] = rows[i]
    BY <1>1, PrefixLemma
  <1> QED
    BY <1>1, <1>2 DEF Selection, Distinct

LEMMA SubsequenceSelects ==
    ASSUME NEW rows \in Seq(Rows), NEW P, P \subseteq DOMAIN rows
    PROVE  Selection(Subsequence(rows, P), rows)
  <1>1. PICK u : u = Subsequence(rows, P)
    OBVIOUS
  <1>2. u \in Seq(Rows) /\ Placed(u, rows, P)
    BY <1>1, SubsequenceLemma
  <1>3. PICK o \in [1 .. Len(u) -> P] :
            /\ \A m, n \in 1 .. Len(u) : o[m] = o[n] => m = n
            /\ \A n \in 1 .. Len(u) : u[n] = rows[o[n]]
    BY <1>2 DEF Placed
  <1>4. \A n \in 1 .. Len(u) : o[n] \in 1 .. Len(rows)
    BY <1>3
  <1>5. ASSUME Distinct(rows) PROVE Distinct(u)
    <2> SUFFICES ASSUME NEW m \in 1 .. Len(u), NEW n \in 1 .. Len(u),
                        candidate_key(u[m]) = candidate_key(u[n])
                 PROVE  m = n
      BY DEF Distinct
    <2>1. PICK i \in 1 .. Len(rows) : i = o[m]
      BY <1>4
    <2>2. PICK j \in 1 .. Len(rows) : j = o[n]
      BY <1>4
    <2>3. candidate_key(rows[i]) = candidate_key(rows[j])
      BY <1>3, <2>1, <2>2
    <2>4. i = j
      BY <1>5, <2>3 DEF Distinct
    <2> QED
      BY <1>3, <2>1, <2>2, <2>4
  <1> QED
    BY <1>1, <1>2, <1>3, <1>4, <1>5 DEF Selection

(* Two complementary selections, one after the other.                       *)
LEMMA PartitionSelects ==
    ASSUME NEW rows \in Seq(Rows), NEW P, NEW Q,
           P \subseteq DOMAIN rows, Q \subseteq DOMAIN rows, P \cap Q = {}
    PROVE  Selection(Subsequence(rows, P) \o Subsequence(rows, Q), rows)
  <1>1. PICK u : u = Subsequence(rows, P)
    OBVIOUS
  <1>2. PICK v : v = Subsequence(rows, Q)
    OBVIOUS
  <1>3. u \in Seq(Rows) /\ Placed(u, rows, P) /\ v \in Seq(Rows) /\ Placed(v, rows, Q)
    BY <1>1, <1>2, SubsequenceLemma
  <1>4. PICK o \in [1 .. Len(u) -> P] :
            /\ \A m, n \in 1 .. Len(u) : o[m] = o[n] => m = n
            /\ \A n \in 1 .. Len(u) : u[n] = rows[o[n]]
    BY <1>3 DEF Placed
  <1>5. PICK q \in [1 .. Len(v) -> Q] :
            /\ \A m, n \in 1 .. Len(v) : q[m] = q[n] => m = n
            /\ \A n \in 1 .. Len(v) : v[n] = rows[q[n]]
    BY <1>3 DEF Placed
  <1>6. PICK w : w = u \o v
    OBVIOUS
  <1>7. /\ w \in Seq(Rows) /\ Len(w) = Len(u) + Len(v) /\ Len(u) \in Nat /\ Len(v) \in Nat
        /\ \A n \in 1 .. Len(w) : w[n] = IF n <= Len(u) THEN u[n] ELSE v[n - Len(u)]
    BY <1>3, <1>6
  <1> DEFINE r == [n \in 1 .. Len(w) |-> IF n <= Len(u) THEN o[n] ELSE q[n - Len(u)]]
  <1>8. ASSUME NEW n \in 1 .. Len(w)
        PROVE  /\ w[n] = rows[r[n]] /\ r[n] \in 1 .. Len(rows)
               /\ n <= Len(u) => n \in 1 .. Len(u) /\ r[n] = o[n] /\ r[n] \in P
               /\ n > Len(u) => n - Len(u) \in 1 .. Len(v) /\ r[n] = q[n - Len(u)] /\ r[n] \in Q
    <2>1. CASE n <= Len(u)
      <3>1. n \in 1 .. Len(u) /\ r[n] = o[n] /\ w[n] = u[n]
        BY <1>7, <2>1
      <3>2. o[n] \in P /\ u[n] = rows[o[n]]
        BY <1>4, <3>1
      <3> QED
        BY <1>7, <2>1, <3>1, <3>2
    <2>2. CASE n > Len(u)
      <3>1. n - Len(u) \in 1 .. Len(v) /\ r[n] = q[n - Len(u)] /\ w[n] = v[n - Len(u)]
        BY <1>7, <2>2
      <3>2. q[n - Len(u)] \in Q /\ v[n - Len(u)] = rows[q[n - Len(u)]]
        BY <1>5, <3>1
      <3> QED
        BY <1>7, <2>2, <3>1, <3>2
    <2> QED
      BY <1>7, <2>1, <2>2
  <1>9. ASSUME NEW m \in 1 .. Len(w), NEW n \in 1 .. Len(w), r[m] = r[n] PROVE m = n
    <2> HIDE DEF r
    <2>1. CASE m <= Len(u) /\ n <= Len(u)
      BY <1>4, <1>8, <1>9, <2>1
    <2>2. CASE m > Len(u) /\ n > Len(u)
      <3>1. PICK i : i = m - Len(u)
        OBVIOUS
      <3>2. PICK j : j = n - Len(u)
        OBVIOUS
      <3>3. i \in 1 .. Len(v) /\ j \in 1 .. Len(v) /\ q[i] = q[j]
        BY <1>8, <1>9, <2>2, <3>1, <3>2
      <3>4. i = j
        BY <1>5, <3>3
      <3> QED
        BY <1>7, <3>1, <3>2, <3>4
    <2>3. CASE (m <= Len(u) /\ n > Len(u)) \/ (m > Len(u) /\ n <= Len(u))
      BY <1>8, <1>9, <2>3
    <2> QED
      BY <1>7, <2>1, <2>2, <2>3
  <1> HIDE DEF r
  <1>10. Selection(w, rows)
    <2>1. ASSUME Distinct(rows) PROVE Distinct(w)
      <3> SUFFICES ASSUME NEW m \in 1 .. Len(w), NEW n \in 1 .. Len(w),
                          candidate_key(w[m]) = candidate_key(w[n])
                   PROVE  m = n
        BY DEF Distinct
      <3>1. PICK i \in 1 .. Len(rows) : i = r[m] /\ w[m] = rows[i]
        BY <1>8
      <3>2. PICK j \in 1 .. Len(rows) : j = r[n] /\ w[n] = rows[j]
        BY <1>8
      <3>3. i = j
        BY <2>1, <3>1, <3>2 DEF Distinct
      <3> QED
        BY <1>9, <3>1, <3>2, <3>3
    <2> QED
      BY <1>7, <1>8, <2>1 DEF Selection
  <1> QED
    BY <1>1, <1>2, <1>6, <1>10

LEMMA FirstOfEachSelects ==
    ASSUME NEW rows \in Seq(Rows), NEW group
    PROVE  Selection(FirstOfEach(rows, group), rows)
  BY SubsequenceSelects DEF FirstOfEach

LEMMA KeyParts ==
    ASSUME NEW key \in Chunks
    PROVE  /\ key[1] \in Memories /\ key[1] \in Nat /\ key[2] \in Nat
           /\ key = <<key[1], key[2]>>
  BY TextAssumption DEF Chunks, Memories

LEMMA RowKey ==
    ASSUME NEW row \in Rows
    PROVE  candidate_key(row) \in Chunks
  BY DEF Rows, candidate_key, Chunks

LEMMA KeysLemma ==
    ASSUME NEW rows \in Seq(Rows)
    PROVE  Keys(rows) \subseteq Chunks /\ IsFiniteSet(Keys(rows))
  <1> DEFINE f == [n \in 1 .. Len(rows) |-> candidate_key(rows[n])]
  <1>1. Len(rows) \in Nat /\ DOMAIN rows = 1 .. Len(rows)
    OBVIOUS
  <1>2. \A n \in 1 .. Len(rows) : rows[n] \in Rows /\ candidate_key(rows[n]) \in Chunks
    BY RowKey
  <1>3. f \in Surjection(1 .. Len(rows), Keys(rows))
    BY <1>1 DEF Surjection, Keys
  <1>4. IsFiniteSet(1 .. Len(rows))
    BY <1>1, FS_Interval
  <1>5. IsFiniteSet(Keys(rows))
    BY <1>3, <1>4, FS_Surjection
  <1> QED
    BY <1>1, <1>2, <1>5 DEF Keys

LEMMA FirstRankLemma ==
    ASSUME NEW rows \in Seq(Rows), NEW key \in Keys(rows)
    PROVE  /\ FirstRank(rows, key) \in 1 .. Len(rows)
           /\ candidate_key(rows[FirstRank(rows, key)]) = key
  <1> DEFINE T == {n \in DOMAIN rows : candidate_key(rows[n]) = key}
  <1>1. T \in SUBSET Nat /\ T # {}
    BY DEF Keys
  <1>2. Min(T) \in T
    BY <1>1, MinOfMany
  <1> QED
    BY <1>2 DEF FirstRank

LEMMA Product ==
    ASSUME NEW a \in Nat, NEW b \in Nat, NEW c \in Nat \ {0}
    PROVE  a * (b \div c) \in Int
  <1>1. b \div c \in Int
    OBVIOUS
  <1>2. \A d \in Int : a * d \in Int
    OBVIOUS
  <1> QED
    BY <1>1, <1>2

LEMMA RankScoreType ==
    ASSUME NEW rows \in Seq(Rows), NEW weight \in Nat, NEW key
    PROVE  RankScore(rows, weight, key) \in Int
  <1>1. CASE key \in Keys(rows)
    <2>1. PICK r : r = FirstRank(rows, key)
      OBVIOUS
    <2>2. r \in Nat
      BY <1>1, <2>1, FirstRankLemma
    <2>3. FusionK + r \in Nat \ {0} /\ Scale \in Nat
      BY <2>2, FusionAssumption
    <2> QED
      BY <1>1, <2>1, <2>3, Product DEF RankScore
  <1>2. CASE key \notin Keys(rows)
    BY <1>2 DEF RankScore
  <1> QED
    BY <1>1, <1>2

LEMMA FusionType ==
    ASSUME NEW lists \in RowLists, NEW key
    PROVE  - reciprocal_rank_fusion(lists, key) \in Int
  <1>1. /\ lists.dense \in Seq(Rows) /\ lists.lexical \in Seq(Rows)
        /\ lists.fact \in Seq(Rows) /\ lists.graph \in Seq(Rows)
    BY DEF RowLists
  <1>2. /\ Weights.dense \in Nat /\ Weights.lexical \in Nat
        /\ Weights.fact \in Nat /\ Weights.graph \in Nat
    BY FusionAssumption
  <1>3. PICK a : a = RankScore(lists.dense, Weights.dense, key)
    OBVIOUS
  <1>4. PICK b : b = RankScore(lists.lexical, Weights.lexical, key)
    OBVIOUS
  <1>5. PICK c : c = RankScore(lists.fact, Weights.fact, key)
    OBVIOUS
  <1>6. PICK d : d = RankScore(lists.graph, Weights.graph, key)
    OBVIOUS
  <1>7. a \in Int /\ b \in Int /\ c \in Int /\ d \in Int
    BY <1>1, <1>2, <1>3, <1>4, <1>5, <1>6, RankScoreType
  <1>8. reciprocal_rank_fusion(lists, key) = a + b + c + d
    BY <1>3, <1>4, <1>5, <1>6 DEF reciprocal_rank_fusion
  <1> QED
    BY <1>7, <1>8

LEMMA AllKeysLemma ==
    ASSUME NEW lists \in RowLists
    PROVE  /\ AllKeys(lists) = Keys(lists.dense) \cup Keys(lists.lexical)
                                 \cup Keys(lists.fact) \cup Keys(lists.graph)
           /\ AllKeys(lists) \subseteq Chunks /\ IsFiniteSet(AllKeys(lists))
  <1>1. /\ lists.dense \in Seq(Rows) /\ lists.lexical \in Seq(Rows)
        /\ lists.fact \in Seq(Rows) /\ lists.graph \in Seq(Rows)
    BY DEF RowLists
  <1>2. DOMAIN lists = {"dense", "lexical", "fact", "graph"}
    BY DEF RowLists
  <1>3. PICK A : A = Keys(lists.dense)
    OBVIOUS
  <1>4. PICK B : B = Keys(lists.lexical)
    OBVIOUS
  <1>5. PICK C : C = Keys(lists.fact)
    OBVIOUS
  <1>6. PICK D : D = Keys(lists.graph)
    OBVIOUS
  <1>7. AllKeys(lists) = A \cup B \cup C \cup D
    BY <1>2, <1>3, <1>4, <1>5, <1>6 DEF AllKeys
  <1>8. /\ A \subseteq Chunks /\ B \subseteq Chunks /\ C \subseteq Chunks /\ D \subseteq Chunks
        /\ IsFiniteSet(A) /\ IsFiniteSet(B) /\ IsFiniteSet(C) /\ IsFiniteSet(D)
    BY <1>1, <1>3, <1>4, <1>5, <1>6, KeysLemma
  <1>9. IsFiniteSet(A \cup B)
    BY <1>8, FS_Union
  <1>10. IsFiniteSet(A \cup B \cup C)
    BY <1>8, <1>9, FS_Union
  <1>11. IsFiniteSet(A \cup B \cup C \cup D)
    BY <1>8, <1>10, FS_Union
  <1> QED
    BY <1>3, <1>4, <1>5, <1>6, <1>7, <1>8, <1>11

Listed(row, rows) == \E n \in 1 .. Len(rows) : row = rows[n]

(* The row shown for a key is one of the lists' rows with that key.         *)
LEMMA RowOfLemma ==
    ASSUME NEW lists \in RowLists, NEW key \in AllKeys(lists)
    PROVE  /\ candidate_key(RowOf(lists, key)) = key
           /\ \/ Listed(RowOf(lists, key), lists.dense)
              \/ Listed(RowOf(lists, key), lists.lexical)
              \/ Listed(RowOf(lists, key), lists.fact)
              \/ Listed(RowOf(lists, key), lists.graph)
  <1> DEFINE First(n) == /\ key \in Keys(lists[ListNames[n]])
                         /\ \A p \in 1 .. (n - 1) : key \notin Keys(lists[ListNames[p]])
  <1>1. /\ lists.dense \in Seq(Rows) /\ lists.lexical \in Seq(Rows)
        /\ lists.fact \in Seq(Rows) /\ lists.graph \in Seq(Rows)
    BY DEF RowLists
  <1>2. /\ lists[ListNames[1]] = lists.dense /\ lists[ListNames[2]] = lists.lexical
        /\ lists[ListNames[3]] = lists.fact /\ lists[ListNames[4]] = lists.graph
        /\ DOMAIN ListNames = 1 .. 4
    BY DEF ListNames
  <1> DEFINE T == {n \in 1 .. 4 : key \in Keys(lists[ListNames[n]])}
  <1>3. T \in SUBSET Nat /\ T # {}
    BY <1>2, AllKeysLemma
  <1>4. PICK n \in T : \A m \in T : n <= m
    BY <1>3, LeastNumber
  <1>5. First(n) /\ n \in DOMAIN ListNames
    BY <1>2, <1>4
  <1>6. PICK s : s = CHOOSE m \in DOMAIN ListNames : First(m)
    OBVIOUS
  <1>7. s \in 1 .. 4 /\ First(s)
    BY <1>2, <1>5, <1>6
  <1>8. PICK rows : rows = lists[ListNames[s]]
    OBVIOUS
  <1>9. RowOf(lists, key) = rows[FirstRank(rows, key)]
    BY <1>6, <1>8 DEF RowOf
  <1>10. /\ rows \in Seq(Rows) /\ key \in Keys(rows)
         /\ rows = lists.dense \/ rows = lists.lexical \/ rows = lists.fact \/ rows = lists.graph
    <2>1. s = 1 \/ s = 2 \/ s = 3 \/ s = 4
      BY <1>7
    <2> QED
      BY <1>1, <1>2, <1>7, <1>8, <2>1
  <1>11. FirstRank(rows, key) \in 1 .. Len(rows) /\ candidate_key(rows[FirstRank(rows, key)]) = key
    BY <1>10, FirstRankLemma
  <1>12. Listed(RowOf(lists, key), rows)
    BY <1>9, <1>11 DEF Listed
  <1> QED
    BY <1>9, <1>10, <1>11, <1>12

LEMMA PriorityType ==
    ASSUME NEW lists, NEW key
    PROVE  exact_priority(lists, key) \in Int
  BY DEF exact_priority

LEMMA OverlapType ==
    ASSUME NEW W
    PROVE  Cardinality(Query \cap W) \in Nat
  <1>1. IsFiniteSet(Query) /\ Query \cap W \in SUBSET Query
    BY TextAssumption
  <1>2. IsFiniteSet(Query \cap W)
    BY <1>1, FS_Subset
  <1> QED
    BY <1>2, FS_CardinalityType

(* The boost of a candidate: the strongest signal of the rows with its key. *)
LEMMA BoostType ==
    ASSUME NEW lists \in RowLists, NEW key \in AllKeys(lists)
    PROVE  deterministic_ranking_boosts(lists, key) \in Int
  <1> DEFINE R == UNION {RowsWith(lists[s], key) : s \in DOMAIN lists}
             S == {Min({chunk_keyword_overlap(row), 3}) : row \in R}
  <1>1. \A row : Min({chunk_keyword_overlap(row), 3}) \in {0, 1, 2, 3}
    <2> TAKE row
    <2>1. PICK w : w = chunk_keyword_overlap(row)
      OBVIOUS
    <2>2. w \in Nat /\ w \in Int /\ 3 \in Int
      BY <2>1, OverlapType DEF chunk_keyword_overlap
    <2>3. Min({w, 3}) \in {w, 3} /\ Min({w, 3}) <= 3
      BY <2>2, MinOfTwo
    <2>4. Min({w, 3}) \in {0, 1, 2, 3}
      BY <2>2, <2>3
    <2> QED
      BY <2>1, <2>4
  <1>2. R # {}
    <2>1. PICK s \in DOMAIN lists : key \in Keys(lists[s])
      BY DEF AllKeys
    <2>2. PICK n \in DOMAIN lists[s] : candidate_key(lists[s][n]) = key
      BY <2>1 DEF Keys
    <2>3. lists[s][n] \in RowsWith(lists[s], key)
      BY <2>2 DEF RowsWith
    <2> QED
      BY <2>1, <2>3
  <1> HIDE DEF R
  <1>3. S \subseteq {0, 1, 2, 3} /\ S # {}
    BY <1>1, <1>2
  <1>4. deterministic_ranking_boosts(lists, key) = Max(S)
    BY DEF deterministic_ranking_boosts, R
  <1> HIDE DEF S
  <1>5. \E x \in S : \A y \in S : x >= y
    <2>1. CASE 3 \in S
      BY <1>3, <2>1
    <2>2. CASE 3 \notin S /\ 2 \in S
      BY <1>3, <2>2
    <2>3. CASE 3 \notin S /\ 2 \notin S /\ 1 \in S
      BY <1>3, <2>3
    <2>4. CASE 3 \notin S /\ 2 \notin S /\ 1 \notin S
      <3>1. S = {0}
        BY <1>3, <2>4
      <3> QED
        BY <3>1
    <2> QED
      BY <2>1, <2>2, <2>3, <2>4
  <1>6. Max(S) \in S
    BY <1>5 DEF Max
  <1>7. {0, 1, 2, 3} \subseteq Int
    OBVIOUS
  <1>8. Max(S) \in Int
    BY <1>3, <1>6, <1>7
  <1> QED
    BY <1>4, <1>8

-----------------------------------------------------------------------------
(* Ranking.                                                                 *)

LEMMA LexFirst ==
    ASSUME NEW L \in Nat \ {0}, NEW a, NEW b, DOMAIN a = 1 .. L,
           \A i \in 1 .. L : a[i] \in Int /\ b[i] \in Int, LexLess(a, b)
    PROVE  a[1] <= b[1]
  <1>1. PICK n \in 1 .. L : a[n] < b[n] /\ \A p \in 1 .. (n - 1) : a[p] = b[p]
    BY DEF LexLess
  <1>2. CASE n = 1
    BY <1>1, <1>2
  <1>3. CASE n # 1
    <2>1. 1 \in 1 .. (n - 1) /\ 1 \in 1 .. L
      BY <1>3
    <2> QED
      BY <1>1, <2>1
  <1> QED
    BY <1>2, <1>3

(* The candidates whose semantic scores count.                              *)
Scored(lists, answer) ==
    LET bounded == Prefix(exact_ordered(lists), RerankerLimit)
        shown == IF Len(bounded) <= 1 THEN {} ELSE Range(bounded)
    IN  IF reranker_scores(answer) THEN shown ELSE {}

RankTuples(lists, semantic, high) ==
    [k \in AllKeys(lists) |->
        <<exact_priority(lists, k), IF k \in semantic THEN 0 ELSE 1,
          IF k \in semantic \cap high THEN 0 ELSE 1,
          - deterministic_ranking_boosts(lists, k),
          - reciprocal_rank_fusion(lists, k), k[1], k[2]>>]

LEMMA RankUnfolds ==
    ASSUME NEW lists, NEW answer
    PROVE  rank_candidate_lists(lists, answer)
             = Sorted(AllKeys(lists), RankTuples(lists, Scored(lists, answer), answer.high))
  BY DEF rank_candidate_lists, RankedKeys, RankTuples, Scored

LEMMA RankTuplesSort ==
    ASSUME NEW lists \in RowLists, NEW semantic, NEW high
    PROVE  SortKeys(AllKeys(lists), RankTuples(lists, semantic, high), 7)
  <1> DEFINE keys == AllKeys(lists)
             T == RankTuples(lists, semantic, high)
  <1>1. ASSUME NEW k \in keys
        PROVE  /\ DOMAIN T[k] = 1 .. 7 /\ \A i \in 1 .. 7 : T[k][i] \in Int
               /\ T[k][6] = k[1] /\ T[k][7] = k[2]
    <2>1. k[1] \in Int /\ k[2] \in Int
      BY AllKeysLemma, KeyParts
    <2>2. PICK a : a = exact_priority(lists, k)
      OBVIOUS
    <2>3. PICK b : b = IF k \in semantic THEN 0 ELSE 1
      OBVIOUS
    <2>4. PICK c : c = IF k \in semantic \cap high THEN 0 ELSE 1
      OBVIOUS
    <2>5. PICK d : d = - deterministic_ranking_boosts(lists, k)
      OBVIOUS
    <2>6. PICK e : e = - reciprocal_rank_fusion(lists, k)
      OBVIOUS
    <2>7. a \in Int /\ b \in Int /\ c \in Int /\ e \in Int
      BY <2>2, <2>3, <2>4, <2>6, PriorityType, FusionType
    <2>8. d \in Int
      <3>1. deterministic_ranking_boosts(lists, k) \in Int
        BY BoostType
      <3> QED
        BY <2>5, <3>1
    <2>9. T[k] = <<a, b, c, d, e, k[1], k[2]>>
      BY <2>2, <2>3, <2>4, <2>5, <2>6 DEF RankTuples
    <2> HIDE DEF T, keys
    <2>10. 1 .. 7 = {1, 2, 3, 4, 5, 6, 7}
      OBVIOUS
    <2>11. PICK t : t = <<a, b, c, d, e, k[1], k[2]>>
      OBVIOUS
    <2>12. /\ DOMAIN t = 1 .. 7 /\ t[1] \in Int /\ t[2] \in Int /\ t[3] \in Int /\ t[4] \in Int
           /\ t[5] \in Int /\ t[6] \in Int /\ t[7] \in Int
           /\ t[6] = k[1] /\ t[7] = k[2]
      BY <2>1, <2>7, <2>8, <2>11
    <2> QED
      BY <2>9, <2>10, <2>11, <2>12
  <1>2. ASSUME NEW x \in keys, NEW y \in keys, x # y
        PROVE  \E i \in 1 .. 7 : T[x][i] # T[y][i]
    <2>1. x[1] # y[1] \/ x[2] # y[2]
      BY <1>2, AllKeysLemma, KeyParts
    <2>2. 6 \in 1 .. 7 /\ 7 \in 1 .. 7
      OBVIOUS
    <2> HIDE DEF T
    <2> QED
      BY <1>1, <2>1, <2>2
  <1> HIDE DEF T
  <1> QED
    BY <1>1, <1>2 DEF SortKeys, T

(* All the candidates are ranked, each once, exact matches first.           *)
LEMMA RankedLemma ==
    ASSUME NEW lists \in RowLists, NEW answer
    PROVE  LET keys == AllKeys(lists)
               ranked == rank_candidate_lists(lists, answer)
           IN  /\ ranked \in Seq(keys)
               /\ \A k \in keys : \E n \in 1 .. Len(ranked) : ranked[n] = k
               /\ \A m, n \in 1 .. Len(ranked) :
                     /\ ranked[m] = ranked[n] => m = n
                     /\ m < n => exact_priority(lists, ranked[m]) <= exact_priority(lists, ranked[n])
  <1>1. PICK keys : keys = AllKeys(lists)
    OBVIOUS
  <1>2. PICK T : T = RankTuples(lists, Scored(lists, answer), answer.high)
    OBVIOUS
  <1>3. PICK ranked : ranked = Sorted(keys, T)
    OBVIOUS
  <1>4. rank_candidate_lists(lists, answer) = ranked
    BY <1>1, <1>2, <1>3, RankUnfolds
  <1>5. IsFiniteSet(keys) /\ SortKeys(keys, T, 7) /\ 7 \in Nat
    BY <1>1, <1>2, AllKeysLemma, RankTuplesSort
  <1>6. ranked \in Seq(keys) /\ Len(ranked) = Cardinality(keys)
    BY <1>3, <1>5, SortedSeq
  <1>7. /\ \A k \in keys : \E n \in 1 .. Len(ranked) : ranked[n] = k
        /\ \A m, n \in 1 .. Len(ranked) :
              /\ m < n => LexLess(T[ranked[m]], T[ranked[n]])
              /\ ranked[m] = ranked[n] => m = n
    BY <1>3, <1>5, <1>6, SortedLemma
  <1>8. ASSUME NEW m \in 1 .. Len(ranked), NEW n \in 1 .. Len(ranked), m < n
        PROVE  exact_priority(lists, ranked[m]) <= exact_priority(lists, ranked[n])
    <2>1. PICK x : x = ranked[m]
      OBVIOUS
    <2>2. PICK y : y = ranked[n]
      OBVIOUS
    <2>3. x \in keys /\ y \in keys /\ LexLess(T[x], T[y])
      BY <1>6, <1>7, <1>8, <2>1, <2>2
    <2>4. /\ DOMAIN T[x] = 1 .. 7
          /\ \A i \in 1 .. 7 : T[x][i] \in Int /\ T[y][i] \in Int
      BY <1>5, <2>3 DEF SortKeys
    <2>5. T[x][1] <= T[y][1]
      <3>1. PICK a : a = T[x]
        OBVIOUS
      <3>2. PICK b : b = T[y]
        OBVIOUS
      <3>3. PICK L \in Nat \ {0} : L = 7
        OBVIOUS
      <3>4. /\ DOMAIN a = 1 .. L /\ \A i \in 1 .. L : a[i] \in Int /\ b[i] \in Int
            /\ LexLess(a, b)
        BY <2>3, <2>4, <3>1, <3>2, <3>3
      <3>5. a[1] <= b[1]
        BY <3>4, LexFirst
      <3> QED
        BY <3>1, <3>2, <3>5
    <2>6. \A k \in keys : T[k][1] = exact_priority(lists, k)
      BY <1>1, <1>2 DEF RankTuples
    <2> QED
      BY <2>1, <2>2, <2>3, <2>5, <2>6
  <1> QED
    BY <1>1, <1>4, <1>6, <1>7, <1>8

(* A reranker whose scores do not count changes nothing.                    *)
LEMMA RankWithoutScores ==
    ASSUME NEW lists \in RowLists, NEW answer, ~reranker_scores(answer)
    PROVE  rank_candidate_lists(lists, answer) = rank_candidate_lists(lists, NoReranker)
  <1>1. Scored(lists, answer) = {}
    BY DEF Scored
  <1>2. Scored(lists, NoReranker) = {}
    BY DEF Scored, reranker_scores, NoReranker
  <1>3. PICK h : h = answer.high
    OBVIOUS
  <1>4. PICK g : g = NoReranker.high
    OBVIOUS
  <1>5. RankTuples(lists, {}, h) = RankTuples(lists, {}, g)
    BY DEF RankTuples
  <1> QED
    BY <1>1, <1>2, <1>3, <1>4, <1>5, RankUnfolds

-----------------------------------------------------------------------------
(* Grouping: each ranked key gives one row, in another order.               *)

Best(ranked, id) == Min({n \in DOMAIN ranked : ranked[n][1] = id})
Grouped(ranked, n) ==
    IF n - Best(ranked, ranked[n][1]) <= 2 THEN Best(ranked, ranked[n][1]) ELSE n
GroupTuples(lists, ranked) ==
    [n \in DOMAIN ranked |->
        <<Grouped(ranked, n), - reciprocal_rank_fusion(lists, ranked[n]),
          ranked[n][1], ranked[n][2]>>]

LEMMA GroupUnfolds ==
    ASSUME NEW lists, NEW ranked
    PROVE  group_conversation_results(lists, ranked) =
             LET order == Sorted(DOMAIN ranked, GroupTuples(lists, ranked))
             IN  [n \in DOMAIN order |-> RowOf(lists, ranked[order[n]])]
  BY DEF group_conversation_results, GroupTuples, Grouped, Best

LEMMA GroupLemma ==
    ASSUME NEW lists \in RowLists, NEW ranked \in Seq(AllKeys(lists)),
           \A m, n \in 1 .. Len(ranked) : ranked[m] = ranked[n] => m = n
    PROVE  LET rows == group_conversation_results(lists, ranked)
           IN  /\ rows \in Seq(Rows) /\ Distinct(rows)
               /\ \A n \in 1 .. Len(rows) :
                     \E k \in AllKeys(lists) : rows[n] = RowOf(lists, k)
  <1>1. PICK keys : keys = AllKeys(lists)
    OBVIOUS
  <1>2. PICK P : P = DOMAIN ranked
    OBVIOUS
  <1>3. P = 1 .. Len(ranked) /\ Len(ranked) \in Nat /\ IsFiniteSet(P)
    BY <1>2, FS_Interval
  <1>4. ASSUME NEW n \in P
        PROVE  /\ ranked[n] \in keys /\ ranked[n] \in Chunks
               /\ ranked[n][1] \in Int /\ ranked[n][2] \in Int /\ n \in Int
    <2>1. ranked[n] \in keys /\ ranked[n] \in Chunks
      BY <1>1, <1>3, AllKeysLemma
    <2> QED
      BY <1>3, <2>1, KeyParts
  <1>5. ASSUME NEW n \in P PROVE Grouped(ranked, n) \in Int
    <2> DEFINE Q == {m \in DOMAIN ranked : ranked[m][1] = ranked[n][1]}
    <2>1. Q \in SUBSET Nat /\ Q # {}
      BY <1>2, <1>3
    <2>2. Min(Q) \in Q
      BY <2>1, MinOfMany
    <2>3. Best(ranked, ranked[n][1]) \in Nat
      BY <2>1, <2>2 DEF Best
    <2> QED
      BY <1>3, <2>3 DEF Grouped
  <1>6. PICK T : T = GroupTuples(lists, ranked)
    OBVIOUS
  <1>7. ASSUME NEW n \in P
        PROVE  /\ DOMAIN T[n] = 1 .. 4 /\ \A i \in 1 .. 4 : T[n][i] \in Int
               /\ T[n][3] = ranked[n][1] /\ T[n][4] = ranked[n][2]
    <2>1. PICK a : a = Grouped(ranked, n)
      OBVIOUS
    <2>2. PICK b : b = - reciprocal_rank_fusion(lists, ranked[n])
      OBVIOUS
    <2>3. T[n] = <<a, b, ranked[n][1], ranked[n][2]>>
      BY <1>2, <1>6, <2>1, <2>2 DEF GroupTuples
    <2>4. a \in Int /\ b \in Int
      BY <1>5, <2>1, <2>2, FusionType
    <2>5. 1 .. 4 = {1, 2, 3, 4}
      OBVIOUS
    <2> QED
      BY <1>4, <2>3, <2>4, <2>5
  <1>8. ASSUME NEW x \in P, NEW y \in P, x # y PROVE \E i \in 1 .. 4 : T[x][i] # T[y][i]
    <2>1. ranked[x] # ranked[y]
      BY <1>3, <1>8
    <2>2. ranked[x][1] # ranked[y][1] \/ ranked[x][2] # ranked[y][2]
      BY <1>4, <2>1, KeyParts
    <2>3. 3 \in 1 .. 4 /\ 4 \in 1 .. 4
      OBVIOUS
    <2> QED
      BY <1>7, <2>2, <2>3
  <1>9. SortKeys(P, T, 4) /\ 4 \in Nat
    BY <1>7, <1>8 DEF SortKeys
  <1>10. PICK order : order = Sorted(P, T)
    OBVIOUS
  <1>11. PICK N : N = Cardinality(P)
    OBVIOUS
  <1>12. /\ N \in Nat /\ order \in [1 .. N -> P]
         /\ \A m, n \in 1 .. N : order[m] = order[n] => m = n
    BY <1>3, <1>9, <1>10, <1>11, SortedLemma
  <1>13. PICK rows : rows = [n \in 1 .. N |-> RowOf(lists, ranked[order[n]])]
    OBVIOUS
  <1>14. group_conversation_results(lists, ranked) = rows
    BY <1>2, <1>6, <1>10, <1>12, <1>13, GroupUnfolds
  <1>15. ASSUME NEW n \in 1 .. N
         PROVE  /\ order[n] \in P /\ ranked[order[n]] \in keys
                /\ rows[n] = RowOf(lists, ranked[order[n]])
                /\ candidate_key(rows[n]) = ranked[order[n]] /\ rows[n] \in Rows
    <2>1. PICK p : p = order[n]
      OBVIOUS
    <2>2. PICK k : k = ranked[p]
      OBVIOUS
    <2>3. p \in P /\ k \in keys /\ rows[n] = RowOf(lists, k)
      BY <1>4, <1>12, <1>13, <2>1, <2>2
    <2>4. PICK row : row = RowOf(lists, k)
      OBVIOUS
    <2>5. /\ candidate_key(row) = k
          /\ \/ Listed(row, lists.dense) \/ Listed(row, lists.lexical)
             \/ Listed(row, lists.fact) \/ Listed(row, lists.graph)
      BY <1>1, <2>3, <2>4, RowOfLemma
    <2>6. row \in Rows
      BY <2>5 DEF Listed, RowLists
    <2> QED
      BY <2>1, <2>2, <2>3, <2>4, <2>5, <2>6
  <1>16. rows \in Seq(Rows) /\ Len(rows) = N
    BY <1>12, <1>13, <1>15
  <1>17. Distinct(rows)
    <2> SUFFICES ASSUME NEW m \in 1 .. N, NEW n \in 1 .. N,
                        candidate_key(rows[m]) = candidate_key(rows[n])
                 PROVE  m = n
      BY <1>16 DEF Distinct
    <2>1. PICK p : p = order[m]
      OBVIOUS
    <2>2. PICK q : q = order[n]
      OBVIOUS
    <2>3. p \in P /\ q \in P /\ ranked[p] = ranked[q]
      BY <1>15, <2>1, <2>2
    <2>4. p = q
      BY <1>3, <2>3
    <2> QED
      BY <1>12, <2>1, <2>2, <2>4
  <1> QED
    BY <1>1, <1>14, <1>15, <1>16, <1>17

-----------------------------------------------------------------------------
(* What the stores hold, and what a request may take from them.             *)

MemoryRows == [status : Statuses, size : Nat \ {0}]

(* A chunk of a message the memory has.                                     *)
Stored(key) ==
    /\ memory[key[1]] # None
    /\ key[2] \in DOMAIN Windows[key[1]]
    /\ Windows[key[1]][key[2]].message <= memory[key[1]].size

StoresOK ==
    /\ memory \in [Memories -> {None} \cup MemoryRows]
    /\ vectors \subseteq Chunks /\ \A key \in vectors : Stored(key)
    /\ facts \in [Memories -> {"none", "active", "superseded"}]
    /\ links \subseteq Memories

Narrowed(filters, explicit) ==
    /\ explicit.source # None => filters.source = explicit.source
    /\ explicit.marks \subseteq filters.marks

Held(row) ==
    /\ memory[row.id] # None /\ ProjectOf[row.id] = Project
    /\ MessageOf(row) \in 1 .. memory[row.id].size

(* A row of a memory that was seen with the status and the filters asked    *)
(* for, and a row of the graph.                                             *)
Asked(row, r) ==
    /\ Held(row) /\ <<row.id, r.status>> \in r.was.status
    /\ conversation_matches_filters(row.conversation, r.filters)

Related(row, r) == Held(row) /\ <<row.id, "active">> \in r.was.status

(* What was recorded includes what is the case now.                         *)
UpToDate(was) ==
    /\ \A m \in Memories : memory[m] # None => <<m, memory[m].status>> \in was.status
    /\ \A m \in Memories : facts[m] = "active" => m \in was.facts

LEMMA MemoriesFinite ==
    ASSUME NEW S \in SUBSET Memories
    PROVE  IsFiniteSet(S) /\ S \subseteq Nat
  <1>1. IsFiniteSet(Memories) /\ Memories \subseteq Nat
    BY TextAssumption DEF Memories
  <1> QED
    BY <1>1, FS_Subset

LEMMA ConversationOf ==
    ASSUME StoresOK, NEW m \in Memories, Conversation(m) # None
    PROVE  /\ memory[m] # None /\ Conversation(m) \in Conversations
           /\ Conversation(m).id = m /\ Conversation(m).size = memory[m].size
           /\ Conversation(m).status = memory[m].status
  <1>1. memory[m] # None
    BY DEF Conversation
  <1>2. PICK row : row = memory[m]
    OBVIOUS
  <1>3. row \in MemoryRows
    BY <1>1, <1>2 DEF StoresOK
  <1>4. PICK c : c = [id |-> m, status |-> row.status, size |-> row.size]
    OBVIOUS
  <1>5. c = Conversation(m)
    BY <1>1, <1>2, <1>4 DEF Conversation
  <1>6. c \in Conversations /\ c.id = m /\ c.size = row.size /\ c.status = row.status
    BY <1>3, <1>4 DEF MemoryRows, Conversations
  <1> QED
    BY <1>1, <1>2, <1>5, <1>6

LEMMA BestMessageLemma ==
    ASSUME NEW c \in Conversations, NEW P \in SUBSET (1 .. c.size), P # {}
    PROVE  BestMessage(c, P) \in P
  <1>1. c.size \in Nat
    BY DEF Conversations
  <1>2. IsFiniteSet(1 .. c.size)
    BY <1>1, FS_Interval
  <1>3. IsFiniteSet(P) /\ P \subseteq Nat
    <2>1. IsFiniteSet(P)
      BY <1>2, FS_Subset
    <2>2. P \subseteq Nat
      BY <1>1
    <2> QED
      BY <2>1, <2>2
  <1>4. PICK n : n = Cardinality(P)
    OBVIOUS
  <1>5. n \in Nat /\ n # 0
    BY <1>3, <1>4, FS_CardinalityType, FS_EmptySet
  <1> DEFINE T == [i \in P |-> <<- Cardinality(Query \cap Text[c.id][i]), i>>]
  <1>6. ASSUME NEW i \in P
        PROVE  DOMAIN T[i] = 1 .. 2 /\ T[i][1] \in Int /\ T[i][2] \in Int /\ T[i][2] = i
    <2>1. PICK a : a = - Cardinality(Query \cap Text[c.id][i])
      OBVIOUS
    <2>2. a \in Int
      BY <2>1, OverlapType
    <2>3. T[i] = <<a, i>>
      BY <2>1
    <2>4. i \in Int
      BY <1>3
    <2> HIDE DEF T
    <2> QED
      BY <2>2, <2>3, <2>4
  <1> HIDE DEF T
  <1>7. 1 .. 2 = {1, 2}
    OBVIOUS
  <1>8. SortKeys(P, T, 2)
    BY <1>6, <1>7 DEF SortKeys
  <1>9. Sorted(P, T) \in [1 .. n -> P]
    BY <1>3, <1>4, <1>8, SortedLemma
  <1>10. BestMessage(c, P) = Sorted(P, T)[1]
    BY DEF BestMessage, T
  <1> QED
    BY <1>5, <1>9, <1>10

(* A row for each conversation of a list: one of the messages chosen of it. *)
MessageRows(rows, ids, chosen) ==
    /\ \A n \in 1 .. Len(ids) : /\ chosen[n] \in SUBSET (1 .. Conversation(ids[n]).size)
                                 /\ chosen[n] # {}
    /\ rows = [n \in DOMAIN ids |-> MessageRow(Conversation(ids[n]), chosen[n])]

LEMMA MessageRowsLemma ==
    ASSUME StoresOK, NEW ids \in Seq(Memories),
           \A n \in 1 .. Len(ids) : Conversation(ids[n]) # None,
           NEW rows, NEW chosen, MessageRows(rows, ids, chosen)
    PROVE  /\ rows \in Seq(Rows) /\ Len(rows) = Len(ids)
           /\ \A n \in 1 .. Len(rows) :
                 /\ rows[n].id = ids[n] /\ rows[n].conversation = Conversation(ids[n])
                 /\ memory[ids[n]] # None /\ MessageOf(rows[n]) \in 1 .. memory[ids[n]].size
  <1>1. /\ Len(ids) \in Nat /\ DOMAIN ids = 1 .. Len(ids)
        /\ rows = [n \in 1 .. Len(ids) |-> MessageRow(Conversation(ids[n]), chosen[n])]
    BY DEF MessageRows
  <1>2. ASSUME NEW n \in 1 .. Len(ids)
        PROVE  /\ rows[n] \in Rows
               /\ rows[n].id = ids[n] /\ rows[n].conversation = Conversation(ids[n])
               /\ memory[ids[n]] # None /\ MessageOf(rows[n]) \in 1 .. memory[ids[n]].size
    <2>1. PICK m \in Memories : m = ids[n]
      OBVIOUS
    <2>2. PICK c : c = Conversation(m)
      OBVIOUS
    <2>3. c \in Conversations /\ c.id = m /\ memory[m] # None /\ c.size = memory[m].size
      BY <2>1, <2>2, ConversationOf
    <2>4. PICK P : P = chosen[n]
      OBVIOUS
    <2>5. P \in SUBSET (1 .. c.size) /\ P # {}
      BY <2>1, <2>2, <2>4 DEF MessageRows
    <2>6. PICK b : b = BestMessage(c, P)
      OBVIOUS
    <2>7. b \in 1 .. c.size /\ c.size \in Nat
      BY <2>3, <2>5, <2>6, BestMessageLemma DEF Conversations
    <2>8. rows[n] = [id |-> c.id, chunk |-> b, kind |-> "message", conversation |-> c]
      BY <1>1, <2>1, <2>2, <2>4, <2>6 DEF MessageRow
    <2>9. PICK row : row = rows[n]
      OBVIOUS
    <2>10. row.id = m /\ row.chunk = b /\ row.kind = "message" /\ row.conversation = c /\ row \in Rows
      BY <2>3, <2>7, <2>8, <2>9 DEF Rows
    <2>11. MessageOf(row) = b
      BY <2>10 DEF MessageOf
    <2> QED
      BY <2>1, <2>2, <2>3, <2>7, <2>9, <2>10, <2>11
  <1>3. rows \in Seq(Rows) /\ Len(rows) = Len(ids)
    BY <1>1, <1>2
  <1> QED
    BY <1>2, <1>3

(* The rows of a list of stored conversations.                              *)
LEMMA RowsOfChooses ==
    ASSUME StoresOK, NEW ids \in Seq(Memories),
           \A n \in 1 .. Len(ids) : Conversation(ids[n]) # None
    PROVE  MessageRows(RowsOf([n \in DOMAIN ids |-> Conversation(ids[n])]), ids,
                       [n \in DOMAIN ids |-> 1 .. Conversation(ids[n]).size])
  <1>1. PICK cs : cs = [n \in DOMAIN ids |-> Conversation(ids[n])]
    OBVIOUS
  <1>2. PICK chosen : chosen = [n \in DOMAIN ids |-> 1 .. Conversation(ids[n]).size]
    OBVIOUS
  <1>3. DOMAIN ids = 1 .. Len(ids)
    OBVIOUS
  <1>4. RowsOf(cs) = [n \in DOMAIN ids |-> MessageRow(Conversation(ids[n]), chosen[n])]
    BY <1>1, <1>2 DEF RowsOf, keyword_result_row
  <1>5. ASSUME NEW n \in 1 .. Len(ids)
        PROVE  chosen[n] \in SUBSET (1 .. Conversation(ids[n]).size) /\ chosen[n] # {}
    <2>1. PICK c : c = Conversation(ids[n])
      OBVIOUS
    <2>2. c.size \in Nat \ {0}
      BY <2>1, ConversationOf DEF Conversations
    <2>3. chosen[n] = 1 .. c.size /\ 1 \in 1 .. c.size
      BY <1>2, <1>3, <2>1, <2>2
    <2> QED
      BY <2>1, <2>3
  <1> QED
    BY <1>1, <1>2, <1>4, <1>5 DEF MessageRows

LEMMA RowsOfLemma ==
    ASSUME StoresOK, NEW ids \in Seq(Memories),
           \A n \in 1 .. Len(ids) : Conversation(ids[n]) # None
    PROVE  LET rows == RowsOf([n \in DOMAIN ids |-> Conversation(ids[n])])
           IN  /\ rows \in Seq(Rows) /\ Len(rows) = Len(ids)
               /\ \A n \in 1 .. Len(rows) :
                     /\ rows[n].id = ids[n] /\ rows[n].conversation = Conversation(ids[n])
                     /\ memory[ids[n]] # None /\ MessageOf(rows[n]) \in 1 .. memory[ids[n]].size
  <1>1. PICK rows : rows = RowsOf([n \in DOMAIN ids |-> Conversation(ids[n])])
    OBVIOUS
  <1>2. PICK chosen : chosen = [n \in DOMAIN ids |-> 1 .. Conversation(ids[n]).size]
    OBVIOUS
  <1>3. MessageRows(rows, ids, chosen)
    BY <1>1, <1>2, RowsOfChooses
  <1> QED
    BY <1>1, <1>3, MessageRowsLemma

LEMMA AdmittedLemma ==
    ASSUME StoresOK, NEW r, UpToDate(r.was), NEW m \in Memories,
           Admitted(Conversation(m), r.status, r.filters)
    PROVE  /\ Conversation(m) # None /\ memory[m] # None /\ ProjectOf[m] = Project
           /\ <<m, r.status>> \in r.was.status
           /\ conversation_matches_filters(Conversation(m), r.filters)
  <1>1. PICK c : c = Conversation(m)
    OBVIOUS
  <1>2. /\ c # None /\ ProjectOf[c.id] = Project /\ c.status = r.status
        /\ conversation_matches_filters(c, r.filters)
    BY <1>1 DEF Admitted, conversation_visible
  <1>3. c.id = m /\ memory[m] # None /\ c.status = memory[m].status
    BY <1>1, <1>2, ConversationOf
  <1> QED
    BY <1>1, <1>2, <1>3 DEF UpToDate

(* Rows of admitted conversations are what was asked for.                   *)
LEMMA AdmittedRows ==
    ASSUME StoresOK, NEW r, UpToDate(r.was), NEW ids \in Seq(AdmittedOf(Memories, r)),
           NEW rows, NEW chosen, MessageRows(rows, ids, chosen)
    PROVE  rows \in Seq(Rows) /\ \A n \in 1 .. Len(rows) : Asked(rows[n], r)
  <1>1. ids \in Seq(Memories) /\ \A n \in 1 .. Len(ids) :
            ids[n] \in Memories /\ Admitted(Conversation(ids[n]), r.status, r.filters)
    BY DEF AdmittedOf
  <1>2. \A n \in 1 .. Len(ids) :
            /\ Conversation(ids[n]) # None /\ ProjectOf[ids[n]] = Project
            /\ <<ids[n], r.status>> \in r.was.status
            /\ conversation_matches_filters(Conversation(ids[n]), r.filters)
    BY <1>1, AdmittedLemma
  <1>3. /\ rows \in Seq(Rows) /\ Len(rows) = Len(ids)
        /\ \A n \in 1 .. Len(rows) :
              /\ rows[n].id = ids[n] /\ rows[n].conversation = Conversation(ids[n])
              /\ memory[ids[n]] # None /\ MessageOf(rows[n]) \in 1 .. memory[ids[n]].size
    BY <1>1, <1>2, MessageRowsLemma
  <1>4. ASSUME NEW n \in 1 .. Len(rows) PROVE Asked(rows[n], r)
    BY <1>2, <1>3 DEF Asked, Held
  <1> QED
    BY <1>3, <1>4

-----------------------------------------------------------------------------
(* The candidate lists.                                                     *)

LEMMA LimitType ==
    ASSUME NEW r, r.top_k \in Nat
    PROVE  adaptive_candidate_limit(r) \in Nat
  <1>1. Multiplier \in Nat /\ ListLimit \in Nat
    BY RetrievalAssumption
  <1>2. PICK k \in Nat : k = r.top_k
    OBVIOUS
  <1>3. PICK a : a = k * Multiplier
    OBVIOUS
  <1>4. a \in Nat
    BY <1>1, <1>3
  <1>5. Min({ListLimit, a}) \in Nat
    BY <1>1, <1>4, MinOfTwo
  <1> QED
    BY <1>1, <1>2, <1>3, <1>5 DEF adaptive_candidate_limit

LEMMA ByOverlap ==
    ASSUME NEW S \in SUBSET Memories
    PROVE  Sorted(S, [m \in S |-> <<- Shared(m), m>>]) \in Seq(S)
  <1> DEFINE T == [m \in S |-> <<- Shared(m), m>>]
  <1>1. IsFiniteSet(S) /\ S \subseteq Nat
    BY MemoriesFinite
  <1>2. ASSUME NEW m \in S
        PROVE  DOMAIN T[m] = 1 .. 2 /\ T[m][1] \in Int /\ T[m][2] \in Int /\ T[m][2] = m
    <2>1. PICK a : a = - Shared(m)
      OBVIOUS
    <2>2. a \in Int
      BY <2>1, OverlapType DEF Shared
    <2>3. T[m] = <<a, m>>
      BY <2>1
    <2> HIDE DEF T
    <2> QED
      BY <1>1, <2>2, <2>3
  <1> HIDE DEF T
  <1>3. 1 .. 2 = {1, 2}
    OBVIOUS
  <1>4. SortKeys(S, T, 2)
    BY <1>2, <1>3 DEF SortKeys
  <1>5. Sorted(S, T) \in Seq(S)
    BY <1>1, <1>4, SortedSeq
  <1> QED
    BY <1>5 DEF T

LEMMA ByNumber ==
    ASSUME NEW S \in SUBSET Memories
    PROVE  /\ Sorted(S, [m \in S |-> <<m>>]) \in Seq(S)
           /\ Sorted(S, [m \in Memories |-> <<-m>>]) \in Seq(S)
  <1> DEFINE T == [m \in S |-> <<m>>]
             U == [m \in Memories |-> <<-m>>]
  <1>1. IsFiniteSet(S) /\ S \subseteq Nat
    BY MemoriesFinite
  <1>2. ASSUME NEW m \in S
        PROVE  /\ DOMAIN T[m] = 1 .. 1 /\ T[m][1] \in Int /\ T[m][1] = m
               /\ DOMAIN U[m] = 1 .. 1 /\ U[m][1] \in Int /\ U[m][1] = -m
    BY <1>1
  <1>3. \A x, y \in S : x # y => -x # -y
    BY <1>1
  <1> HIDE DEF T, U
  <1>4. 1 .. 1 = {1}
    OBVIOUS
  <1>5. SortKeys(S, T, 1) /\ SortKeys(S, U, 1)
    BY <1>2, <1>3, <1>4 DEF SortKeys
  <1>6. Sorted(S, T) \in Seq(S) /\ Sorted(S, U) \in Seq(S)
    BY <1>1, <1>5, SortedSeq
  <1> QED
    BY <1>6 DEF T, U

LEMMA SearchTextLemma ==
    ASSUME NEW words, NEW limit \in Nat
    PROVE  search_text(words, limit) \in Seq(Memories)
  <1>1. PICK S : S = {m \in Memories : /\ memory[m] # None
                                       /\ ProjectOf[m] = Project
                                       /\ words \subseteq WordsOf(Conversation(m))}
    OBVIOUS
  <1>2. PICK s : s = Sorted(S, [m \in Memories |-> <<-m>>])
    OBVIOUS
  <1>3. S \in SUBSET Memories
    BY <1>1
  <1>4. s \in Seq(Memories)
    <2>1. s \in Seq(S)
      BY <1>2, <1>3, ByNumber
    <2> QED
      BY <1>3, <2>1
  <1>5. search_text(words, limit) = Prefix(s, limit)
    BY <1>1, <1>2 DEF search_text
  <1> QED
    BY <1>4, <1>5, PrefixLemma

(* A selection among the ids of a list that pass a test.                    *)
LEMMA Picked ==
    ASSUME NEW ids \in Seq(Memories), NEW S
    PROVE  Subsequence(ids, {n \in DOMAIN ids : ids[n] \in S}) \in Seq(S)
  <1>1. PICK P : P = {n \in DOMAIN ids : ids[n] \in S}
    OBVIOUS
  <1>2. PICK u : u = Subsequence(ids, P)
    OBVIOUS
  <1>3. P \subseteq DOMAIN ids
    BY <1>1
  <1>4. u \in Seq(Memories) /\ Placed(u, ids, P)
    BY <1>2, <1>3, SubsequenceLemma
  <1>5. PICK o \in [1 .. Len(u) -> P] : \A n \in 1 .. Len(u) : u[n] = ids[o[n]]
    BY <1>4 DEF Placed
  <1>6. \A n \in 1 .. Len(u) : u[n] \in S
    BY <1>1, <1>5
  <1>7. u \in Seq(S)
    BY <1>4, <1>6
  <1> QED
    BY <1>1, <1>2, <1>7

LEMMA KeywordLemma ==
    ASSUME StoresOK, NEW r, UpToDate(r.was), r.top_k \in Nat
    PROVE  LET rows == RowsOf(keyword_conversations(r))
           IN  rows \in Seq(Rows) /\ \A n \in 1 .. Len(rows) : Asked(rows[n], r)
  <1>1. PICK limit \in Nat : limit = adaptive_candidate_limit(r)
    BY LimitType
  <1>2. PICK A : A = AdmittedOf(Memories, r)
    OBVIOUS
  <1>3. PICK found : found = search_text(Query, limit)
    OBVIOUS
  <1>4. PICK all : all = Subsequence(found, {n \in DOMAIN found : found[n] \in A})
    OBVIOUS
  <1>5. PICK expanded : expanded = UNION {AdmittedOf(Range(search_text({w}, limit)), r) : w \in Query}
    OBVIOUS
  <1>6. PICK any : any = Sorted(expanded, [m \in expanded |-> <<- Shared(m), m>>])
    OBVIOUS
  <1>7. PICK ids : ids = IF all # <<>> \/ Cardinality(Query) < 2 THEN all ELSE Prefix(any, limit)
    OBVIOUS
  <1>8. keyword_conversations(r) = [n \in DOMAIN ids |-> Conversation(ids[n])]
    BY <1>1, <1>2, <1>3, <1>4, <1>5, <1>6, <1>7 DEF keyword_conversations
  <1>9. all \in Seq(A)
    BY <1>3, <1>4, SearchTextLemma, Picked
  <1>10. expanded \subseteq A
    <2> SUFFICES ASSUME NEW w \in Query, NEW m \in AdmittedOf(Range(search_text({w}, limit)), r)
                 PROVE  m \in A
      BY <1>5
    <2>1. PICK s : s = search_text({w}, limit)
      OBVIOUS
    <2>2. s \in Seq(Memories)
      BY <2>1, SearchTextLemma
    <2>3. m \in Range(s) /\ Admitted(Conversation(m), r.status, r.filters)
      BY <2>1 DEF AdmittedOf
    <2>4. m \in Memories
      BY <2>2, <2>3 DEF Range
    <2> QED
      BY <1>2, <2>3, <2>4 DEF AdmittedOf
  <1>11. A \subseteq Memories
    BY <1>2 DEF AdmittedOf
  <1>12. any \in Seq(A)
    <2>1. any \in Seq(expanded)
      BY <1>6, <1>10, <1>11, ByOverlap
    <2> QED
      BY <1>10, <2>1
  <1>13. ids \in Seq(A)
    BY <1>7, <1>9, <1>12, PrefixLemma
  <1>14. ids \in Seq(AdmittedOf(Memories, r))
    BY <1>2, <1>13
  <1>15. PICK rows : rows = RowsOf([n \in DOMAIN ids |-> Conversation(ids[n])])
    OBVIOUS
  <1>16. ids \in Seq(Memories) /\ \A n \in 1 .. Len(ids) : Conversation(ids[n]) # None
    <2>1. \A n \in 1 .. Len(ids) : ids[n] \in Memories /\ Admitted(Conversation(ids[n]), r.status, r.filters)
      BY <1>14 DEF AdmittedOf
    <2>2. \A n \in 1 .. Len(ids) : Conversation(ids[n]) # None
      BY <2>1, AdmittedLemma
    <2>3. ids \in Seq(Memories)
      BY <1>11, <1>13
    <2> QED
      BY <2>2, <2>3
  <1>17. PICK chosen : MessageRows(rows, ids, chosen)
    BY <1>15, <1>16, RowsOfChooses
  <1>18. rows \in Seq(Rows) /\ \A n \in 1 .. Len(rows) : Asked(rows[n], r)
    BY <1>14, <1>17, AdmittedRows
  <1> QED
    BY <1>8, <1>15, <1>18

LEMMA FactLemma ==
    ASSUME StoresOK, NEW r, UpToDate(r.was), r.top_k \in Nat
    PROVE  LET rows == fact_candidate_rows(r)
           IN  rows \in Seq(Rows) /\ \A n \in 1 .. Len(rows) : Asked(rows[n], r)
  <1>1. PICK limit \in Nat : limit = adaptive_candidate_limit(r)
    BY LimitType
  <1>2. PICK S : S = AdmittedOf({m \in ActiveFacts : Query \cap WordsOf(Conversation(m)) # {}}, r)
    OBVIOUS
  <1>3. PICK s : s = Sorted(S, [m \in S |-> <<- Shared(m), m>>])
    OBVIOUS
  <1>4. PICK ids : ids = Prefix(s, limit)
    OBVIOUS
  <1> DEFINE chosen == [n \in DOMAIN ids |-> SourceMessages(Conversation(ids[n]))]
  <1>5. fact_candidate_rows(r) = [n \in DOMAIN ids |-> MessageRow(Conversation(ids[n]), chosen[n])]
    BY <1>1, <1>2, <1>3, <1>4 DEF fact_candidate_rows
  <1>6. PICK A : A = AdmittedOf(Memories, r)
    OBVIOUS
  <1>7. S \subseteq A /\ S \subseteq Memories
    BY <1>2, <1>6 DEF AdmittedOf, ActiveFacts
  <1>8. s \in Seq(S)
    BY <1>3, <1>7, ByOverlap
  <1>9. s \in Seq(A)
    BY <1>7, <1>8
  <1>10. ids \in Seq(A)
    BY <1>4, <1>9, PrefixLemma
  <1>11. ids \in Seq(AdmittedOf(Memories, r))
    BY <1>6, <1>10
  <1>12. ASSUME NEW n \in 1 .. Len(ids)
         PROVE  chosen[n] \in SUBSET (1 .. Conversation(ids[n]).size) /\ chosen[n] # {}
    <2>1. PICK m \in Memories : m = ids[n] /\ Admitted(Conversation(m), r.status, r.filters)
      BY <1>11 DEF AdmittedOf
    <2>2. PICK c : c = Conversation(m)
      OBVIOUS
    <2>3. c.size \in Nat \ {0}
      BY <2>1, <2>2, AdmittedLemma, ConversationOf DEF Conversations
    <2>4. SourceMessages(c) \in SUBSET (1 .. c.size) /\ SourceMessages(c) # {}
      BY <2>3 DEF SourceMessages
    <2>5. chosen[n] = SourceMessages(c)
      BY <1>11, <2>1, <2>2
    <2> QED
      BY <2>1, <2>2, <2>4, <2>5
  <1>13. MessageRows(fact_candidate_rows(r), ids, chosen)
    BY <1>5, <1>12 DEF MessageRows
  <1> HIDE DEF chosen
  <1> QED
    BY <1>11, <1>13, AdmittedRows

LEMMA GraphLemma ==
    ASSUME StoresOK, NEW r, UpToDate(r.was), r.top_k \in Nat
    PROVE  LET rows == graph_candidate_rows(r)
           IN  rows \in Seq(Rows) /\ \A n \in 1 .. Len(rows) : Related(rows[n], r)
  <1>1. PICK S : S = {m \in links : /\ ProjectOf[m] = Project /\ OwnerOf[m] = Owner
                                    /\ Query \cap WordsOf(Conversation(m)) # {}}
    OBVIOUS
  <1>2. PICK k \in Nat : k = r.top_k
    OBVIOUS
  <1>3. PICK s : s = Sorted(S, [m \in S |-> <<m>>])
    OBVIOUS
  <1>4. PICK first : first = Prefix(s, k)
    OBVIOUS
  <1>5. PICK V : V = {m \in Memories : conversation_visible(Conversation(m), "active")}
    OBVIOUS
  <1>6. PICK ids : ids = Subsequence(first, {n \in DOMAIN first : first[n] \in V})
    OBVIOUS
  <1>7. S \in SUBSET Memories
    BY <1>1 DEF StoresOK
  <1>8. s \in Seq(Memories)
    <2>1. s \in Seq(S)
      BY <1>3, <1>7, ByNumber
    <2> QED
      BY <1>7, <2>1
  <1>9. first \in Seq(Memories)
    BY <1>4, <1>8, PrefixLemma
  <1>10. ids \in Seq(V)
    BY <1>6, <1>9, Picked
  <1>11. {n \in DOMAIN first : conversation_visible(Conversation(first[n]), "active")}
           = {n \in DOMAIN first : first[n] \in V}
    BY <1>5, <1>9
  <1>12. PICK rows : rows = RowsOf([n \in DOMAIN ids |-> Conversation(ids[n])])
    OBVIOUS
  <1>13. graph_candidate_rows(r) = IF GraphOn THEN rows ELSE <<>>
    BY <1>1, <1>2, <1>3, <1>4, <1>6, <1>11, <1>12 DEF graph_candidate_rows
  <1>14. ASSUME NEW m \in V
         PROVE  /\ Conversation(m) # None /\ memory[m] # None /\ ProjectOf[m] = Project
                /\ <<m, "active">> \in r.was.status
    <2>1. PICK c : c = Conversation(m)
      OBVIOUS
    <2>2. m \in Memories /\ c # None /\ ProjectOf[c.id] = Project /\ c.status = "active"
      BY <1>5, <2>1 DEF conversation_visible
    <2>3. c.id = m /\ memory[m] # None /\ c.status = memory[m].status
      BY <2>1, <2>2, ConversationOf
    <2> QED
      BY <2>1, <2>2, <2>3 DEF UpToDate
  <1>15. ids \in Seq(Memories) /\ \A n \in 1 .. Len(ids) : ids[n] \in V
    BY <1>5, <1>10
  <1>16. /\ rows \in Seq(Rows) /\ Len(rows) = Len(ids)
         /\ \A n \in 1 .. Len(rows) :
               /\ rows[n].id = ids[n] /\ rows[n].conversation = Conversation(ids[n])
               /\ memory[ids[n]] # None /\ MessageOf(rows[n]) \in 1 .. memory[ids[n]].size
    BY <1>12, <1>14, <1>15, RowsOfLemma
  <1>17. ASSUME NEW n \in 1 .. Len(rows) PROVE Related(rows[n], r)
    BY <1>14, <1>15, <1>16 DEF Related, Held
  <1> QED
    BY <1>13, <1>16, <1>17

LEMMA VectorSearchLemma ==
    ASSUME StoresOK, NEW named, NEW k \in Nat
    PROVE  /\ vector_search(named, k) \in Seq(Chunks)
           /\ \A n \in 1 .. Len(vector_search(named, k)) : Stored(vector_search(named, k)[n])
  <1>1. PICK P : P = {n \in DOMAIN Nearest : Nearest[n] \in vectors /\ InScope(Nearest[n], named)}
    OBVIOUS
  <1>2. PICK u : u = Subsequence(Nearest, P)
    OBVIOUS
  <1>3. Nearest \in Seq(Chunks) /\ P \subseteq DOMAIN Nearest
    BY <1>1, RetrievalAssumption DEF Chunks, Memories
  <1>4. u \in Seq(Chunks) /\ Placed(u, Nearest, P)
    BY <1>2, <1>3, SubsequenceLemma
  <1>5. PICK o \in [1 .. Len(u) -> P] : \A n \in 1 .. Len(u) : u[n] = Nearest[o[n]]
    BY <1>4 DEF Placed
  <1>6. \A n \in 1 .. Len(u) : u[n] \in vectors
    BY <1>1, <1>5
  <1>7. PICK v : v = Prefix(u, k)
    OBVIOUS
  <1>8. v \in Seq(Chunks) /\ \A n \in 1 .. Len(v) : n \in 1 .. Len(u) /\ v[n] = u[n]
    BY <1>4, <1>7, PrefixLemma
  <1>9. \A n \in 1 .. Len(v) : v[n] \in vectors
    BY <1>6, <1>8
  <1>10. vector_search(named, k) = v
    BY <1>1, <1>2, <1>7 DEF vector_search
  <1> QED
    BY <1>8, <1>9, <1>10 DEF StoresOK

LEMMA DenseLemma ==
    ASSUME StoresOK, NEW r, UpToDate(r.was), r.matches \in Seq(Chunks),
           \A n \in 1 .. Len(r.matches) : Stored(r.matches[n])
    PROVE  LET rows == dense_rows(r)
           IN  rows \in Seq(Rows) /\ \A n \in 1 .. Len(rows) : Asked(rows[n], r)
  <1>1. PICK matches \in Seq(Chunks) : matches = r.matches
    OBVIOUS
  <1>2. PICK P : P = {n \in DOMAIN matches :
                    /\ AdmittedMatch(Conversation(matches[n][1]), r.status, r.filters)
                    /\ passes_retrieval_threshold(MatchRow(matches[n]))}
    OBVIOUS
  <1>3. PICK kept : kept = Subsequence(matches, P)
    OBVIOUS
  <1>4. PICK rows : rows = [n \in DOMAIN kept |-> MatchRow(kept[n])]
    OBVIOUS
  <1>5. dense_rows(r) = rows
    BY <1>1, <1>2, <1>3, <1>4 DEF dense_rows
  <1>6. P \subseteq DOMAIN matches
    BY <1>2
  <1>7. kept \in Seq(Chunks) /\ Placed(kept, matches, P)
    BY <1>1, <1>3, <1>6, SubsequenceLemma
  <1>8. PICK o \in [1 .. Len(kept) -> P] : \A n \in 1 .. Len(kept) : kept[n] = matches[o[n]]
    BY <1>7 DEF Placed
  <1>9. ASSUME NEW n \in 1 .. Len(kept)
        PROVE  rows[n] \in Rows /\ Asked(rows[n], r)
    <2>1. PICK key \in Chunks : key = kept[n]
      BY <1>7
    <2>2. Stored(key) /\ AdmittedMatch(Conversation(key[1]), r.status, r.filters)
      <3>1. PICK p \in P : key = matches[p]
        BY <1>8, <2>1
      <3>2. p \in DOMAIN matches /\ AdmittedMatch(Conversation(matches[p][1]), r.status, r.filters)
        BY <1>2, <3>1
      <3>3. Stored(matches[p])
        BY <1>1, <3>2
      <3> QED
        BY <3>1, <3>2, <3>3
    <2>3. PICK m : m = key[1]
      OBVIOUS
    <2>4. PICK i : i = key[2]
      OBVIOUS
    <2>5. m \in Memories /\ i \in Nat
      BY <2>3, <2>4, KeyParts
    <2>6. PICK c : c = Conversation(m)
      OBVIOUS
    <2>7. Admitted(Conversation(m), r.status, r.filters)
      BY <2>2, <2>3 DEF AdmittedMatch
    <2>8. /\ c # None /\ memory[m] # None /\ ProjectOf[m] = Project
          /\ <<m, r.status>> \in r.was.status
          /\ conversation_matches_filters(c, r.filters)
      BY <2>5, <2>6, <2>7, AdmittedLemma
    <2>9. c \in Conversations /\ c.size = memory[m].size
      BY <2>5, <2>6, <2>8, ConversationOf
    <2>10. Windows[m][i].message \in 1 .. memory[m].size
      <3>1. i \in DOMAIN Windows[m] /\ Windows[m][i].message <= memory[m].size
        BY <2>2, <2>3, <2>4 DEF Stored
      <3>2. Windows[m][i].message \in Nat \ {0}
        BY <2>5, <3>1, TextAssumption DEF Memories
      <3>3. memory[m].size \in Nat
        BY <2>9 DEF Conversations
      <3> QED
        BY <3>1, <3>2, <3>3
    <2>11. PICK row : row = rows[n]
      OBVIOUS
    <2>12. row = [id |-> m, chunk |-> i, kind |-> "window", conversation |-> c]
      BY <1>4, <1>7, <2>1, <2>3, <2>4, <2>6, <2>11 DEF MatchRow
    <2>13. /\ row.id = m /\ row.chunk = i /\ row.kind = "window"
           /\ row.conversation = c /\ row \in Rows
      BY <2>5, <2>9, <2>12 DEF Rows
    <2>14. MessageOf(row) \in 1 .. memory[m].size
      BY <2>10, <2>13 DEF MessageOf
    <2>15. Asked(row, r)
      BY <2>8, <2>13, <2>14 DEF Asked, Held
    <2> QED
      BY <2>11, <2>13, <2>15
  <1>10. rows \in Seq(Rows) /\ Len(rows) = Len(kept)
    <2>1. Len(kept) \in Nat /\ DOMAIN kept = 1 .. Len(kept)
      BY <1>7
    <2>2. rows = [n \in 1 .. Len(kept) |-> rows[n]]
      BY <1>4, <2>1
    <2>3. \A n \in 1 .. Len(kept) : rows[n] \in Rows
      BY <1>9
    <2>4. rows \in [1 .. Len(kept) -> Rows]
      BY <2>2, <2>3
    <2> QED
      BY <2>1, <2>4
  <1> QED
    BY <1>5, <1>9, <1>10

-----------------------------------------------------------------------------
(* The inductive invariant.                                                 *)

Answers == [facts : SUBSET Memories, basis : {"none", "conflict", "fact_layer"}]
Witnesses == [status : SUBSET (Memories \X Statuses), facts : SUBSET Memories]
Phases == Reading \cup {"rank", "answer"}

Requests ==
    [pc : Phases, op : {"search", "ask", "handoff"}, status : Statuses, top_k : Nat,
     named : BOOLEAN, explicit : Filters, filters : Filters, k : Nat, matches : Seq(Chunks),
     lexical : Seq(Rows), dense : Seq(Rows), graph : Seq(Rows), fact : Seq(Rows),
     ranked : Seq(Rows), answer : Answers, was : Witnesses, quiet : BOOLEAN]

(* An answer from facts says one thing, of facts that were current.         *)
Current(basis, used, was) ==
    basis = "fact_layer" => Cardinality({Says[m] : m \in used}) = 1 /\ used \subseteq was.facts

(* A ranked row was asked for, or has a key of the graph's list.            *)
Wanted(row, r) ==
    Asked(row, r) \/ (Related(row, r) /\ candidate_key(row) \in Keys(r.graph))

(* The oversampling loop stopped for one of its three reasons.              *)
Searched(r) ==
    /\ r.matches = vector_search(r.named, r.k)
    /\ \/ matching_vector_candidate_count(r.matches, r) >= r.top_k
       \/ Exhausted(r.matches, r.k)
       \/ r.k >= Cap

(* What a request relies on while it reads: what it recorded includes what  *)
(* is the case now, and each list holds what its reader let through.        *)
Knows(r) ==
    /\ UpToDate(r.was) /\ Narrowed(r.filters, r.explicit) /\ r.k <= Cap
    /\ Current(r.answer.basis, r.answer.facts, r.was)
    /\ \A n \in 1 .. Len(r.matches) : Stored(r.matches[n])
    /\ \A n \in 1 .. Len(r.dense) : Asked(r.dense[n], r)
    /\ \A n \in 1 .. Len(r.lexical) : Asked(r.lexical[n], r)
    /\ \A n \in 1 .. Len(r.fact) : Asked(r.fact[n], r)
    /\ \A n \in 1 .. Len(r.graph) : Related(r.graph[n], r)
    /\ (r.pc = "keyword" /\ r.quiet) => Searched(r)
    /\ r.pc = "answer" => Distinct(r.ranked) /\ \A n \in 1 .. Len(r.ranked) : Wanted(r.ranked[n], r)

(* A row of an answer, which keeps the keys of the graph's list only.       *)
Answered(row, r) ==
    /\ Held(row)
    /\ \/ /\ <<row.id, r.status>> \in r.was.status
          /\ conversation_matches_filters(row.conversation, r.explicit)
       \/ <<row.id, "active">> \in r.was.status /\ candidate_key(row) \in r.graph

Answer(r) ==
    /\ r.rows \in Seq(Rows) /\ Distinct(r.rows)
    /\ \A n \in 1 .. Len(r.rows) : Answered(r.rows[n], r)
    /\ Current(r.basis, r.facts, r.was)

RequestOK(r) ==
    \/ r.pc = "idle"
    \/ r \in Requests /\ Knows(r)
    \/ r.pc = "done" /\ Answer(r)

IInv == StoresOK /\ RequestOK(req)

LEMMA StoredChunksLemma ==
    ASSUME NEW m \in Memories, memory[m] # None, NEW key \in StoredChunks(m)
    PROVE  key \in Chunks /\ Stored(key)
  <1>1. PICK j \in DOMAIN Windows[m] : key = <<m, j>> /\ Windows[m][j].message <= memory[m].size
    BY DEF StoredChunks
  <1>2. j \in Nat
    BY <1>1, TextAssumption DEF Memories
  <1>3. key[1] = m /\ key[2] = j
    BY <1>1
  <1> QED
    BY <1>1, <1>2, <1>3 DEF Chunks, Stored

LEMMA InitOK ==
    ASSUME Init
    PROVE  IInv
  <1>1. memory \in [Memories -> {None} \cup MemoryRows]
    <2>1. MaxRank \in Nat
      BY FusionAssumption
    <2>2. {None} \cup [status : {"active", "pending_review"}, size : 1 .. MaxRank]
            \subseteq {None} \cup MemoryRows
      BY <2>1 DEF MemoryRows, Statuses
    <2> QED
      BY <2>2 DEF Init
  <1>2. PICK indexed \in SUBSET {m \in Memories : memory[m] # None} :
            vectors = UNION {StoredChunks(m) : m \in indexed}
    BY DEF Init
  <1>3. ASSUME NEW key \in vectors PROVE key \in Chunks /\ Stored(key)
    <2>1. PICK m \in indexed : key \in StoredChunks(m)
      BY <1>2
    <2>2. m \in Memories /\ memory[m] # None
      BY <1>2
    <2> QED
      BY <2>1, <2>2, StoredChunksLemma
  <1>4. facts \in [Memories -> {"none", "active", "superseded"}] /\ links \subseteq Memories
    BY DEF Init
  <1>5. req.pc = "idle"
    BY DEF Init, Idle
  <1> QED
    BY <1>1, <1>3, <1>4, <1>5 DEF IInv, StoresOK, RequestOK

(* A request that is neither idle nor done.                                 *)
LEMMA Running ==
    ASSUME IInv, req.pc \in Phases
    PROVE  req \in Requests /\ Knows(req)
  BY DEF IInv, RequestOK, Phases, Reading

LEMMA SearchSame ==
    ASSUME UNCHANGED stores, NEW named, NEW k
    PROVE  vector_search(named, k)' = vector_search(named, k)
  BY DEF stores, vector_search

LEMMA CountSame ==
    ASSUME UNCHANGED stores, NEW matches, NEW r
    PROVE  matching_vector_candidate_count(matches, r)' = matching_vector_candidate_count(matches, r)
  BY DEF stores, matching_vector_candidate_count, Conversation

(* A step that writes nothing leaves a request what it knows.               *)
LEMMA KnowsSame ==
    ASSUME UNCHANGED stores, NEW r, Knows(r)
    PROVE  Knows(r)'
  <1>1. memory' = memory /\ facts' = facts
    BY DEF stores
  <1>2. UpToDate(r.was)'
    BY <1>1 DEF Knows, UpToDate
  <1>3. \A row : Held(row)' <=> Held(row)
    BY <1>1 DEF Held
  <1>4. \A row : (Asked(row, r)' <=> Asked(row, r)) /\ (Related(row, r)' <=> Related(row, r))
    BY <1>3 DEF Asked, Related
  <1>5. \A row : Wanted(row, r)' <=> Wanted(row, r)
    BY <1>4 DEF Wanted
  <1>6. \A key : Stored(key)' <=> Stored(key)
    BY <1>1 DEF Stored
  <1>7. Searched(r)' <=> Searched(r)
    BY SearchSame, CountSame DEF Searched
  <1> QED
    BY <1>2, <1>4, <1>5, <1>6, <1>7 DEF Knows

LEMMA AnswerSame ==
    ASSUME UNCHANGED stores, NEW r, Answer(r)
    PROVE  Answer(r)'
  <1>1. memory' = memory
    BY DEF stores
  <1>2. \A row : Held(row)' <=> Held(row)
    BY <1>1 DEF Held
  <1>3. \A row : Answered(row, r)' <=> Answered(row, r)
    BY <1>2 DEF Answered
  <1> QED
    BY <1>3 DEF Answer

LEMMA ReadStep ==
    ASSUME StoresOK, UNCHANGED stores, NEW r, req' = r, RequestOK(r)
    PROVE  IInv'
  <1>1. StoresOK'
    BY DEF StoresOK, stores, Stored
  <1>2. RequestOK(r)'
    BY KnowsSame, AnswerSame DEF RequestOK
  <1> QED
    BY <1>1, <1>2 DEF IInv

-----------------------------------------------------------------------------
(* The steps of a request.                                                  *)

LEMMA PlanLemma ==
    ASSUME NEW planned \in Filters, NEW proposal \in call_planner, NEW explicit \in Filters
    PROVE  /\ plan_retrieval_query(planned, proposal, explicit) \in Filters
           /\ Narrowed(plan_retrieval_query(planned, proposal, explicit), explicit)
  <1>1. PICK p : p = IF proposal = None THEN planned ELSE apply_proposal(planned, proposal)
    OBVIOUS
  <1>2. p \in Filters
    BY <1>1 DEF Filters, call_planner, apply_proposal
  <1>3. PICK f : f = merge_explicit_filters(p, explicit)
    OBVIOUS
  <1>4. f \in Filters /\ Narrowed(f, explicit)
    BY <1>2, <1>3 DEF Filters, merge_explicit_filters, Narrowed
  <1> QED
    BY <1>1, <1>3, <1>4 DEF plan_retrieval_query

LEMMA NowLemma ==
    ASSUME StoresOK
    PROVE  Now \in Witnesses /\ UpToDate(Now)
  <1>1. PICK w : w = Now
    OBVIOUS
  <1>2. /\ w.status = {<<m, memory[m].status>> : m \in {n \in Memories : memory[n] # None}}
        /\ w.facts = {m \in Memories : facts[m] = "active"}
        /\ w = [status |-> w.status, facts |-> w.facts]
    BY <1>1 DEF Now
  <1>3. \A m \in Memories : memory[m] # None => memory[m].status \in Statuses
    BY DEF StoresOK, MemoryRows
  <1>4. w.status \in SUBSET (Memories \X Statuses) /\ w.facts \in SUBSET Memories
    BY <1>2, <1>3
  <1>5. w \in Witnesses
    BY <1>2, <1>4 DEF Witnesses
  <1>6. UpToDate(w)
    BY <1>2 DEF UpToDate
  <1> QED
    BY <1>1, <1>5, <1>6

(* The limit of a search, doubled or not, stays within the cap.             *)
LEMMA CapLemma ==
    ASSUME NEW k \in Nat
    PROVE  Min({k, Cap}) \in Nat /\ Min({k, Cap}) <= Cap
  <1>1. Cap \in Nat
    BY RetrievalAssumption
  <1>2. Min({k, Cap}) = IF k <= Cap THEN k ELSE Cap
    BY <1>1, MinOfTwo
  <1> QED
    BY <1>1, <1>2

LEMMA StartOK ==
    ASSUME IInv, Start
    PROVE  IInv'
  <1>1. PICK op \in {"search", "ask", "handoff"}, status \in {"active", "pending_review"},
             top_k \in TopKs, named \in BOOLEAN, explicit \in Filters,
             planned \in deterministic_plan, proposal \in call_planner :
            req' = Request(op, status, top_k, named, explicit,
                           plan_retrieval_query(planned, proposal, explicit))
    BY DEF Start
  <1>2. PICK f : f = plan_retrieval_query(planned, proposal, explicit)
    OBVIOUS
  <1>3. f \in Filters /\ Narrowed(f, explicit)
    BY <1>2, PlanLemma DEF deterministic_plan
  <1>4. PICK w : w = Now
    OBVIOUS
  <1>5. w \in Witnesses /\ UpToDate(w)
    BY <1>4, NowLemma DEF IInv
  <1>6. PICK k : k = Min({top_k * Multiplier, Cap})
    OBVIOUS
  <1>7. k \in Nat /\ k <= Cap /\ top_k \in Nat
    <2>1. top_k \in Nat /\ Multiplier \in Nat
      BY RetrievalAssumption
    <2>2. top_k * Multiplier \in Nat
      BY <2>1
    <2> QED
      BY <1>6, <2>1, <2>2, CapLemma
  <1>8. PICK pc : pc = IF op = "ask" THEN "facts" ELSE "vectors"
    OBVIOUS
  <1>9. PICK nm : nm = (named \/ op # "search")
    OBVIOUS
  <1>10. nm \in BOOLEAN /\ pc \in Phases /\ pc # "keyword" /\ pc # "answer" /\ status \in Statuses
    BY <1>8, <1>9 DEF Phases, Reading, Statuses
  <1>11. PICK r : r = [pc |-> pc, op |-> op, status |-> status, top_k |-> top_k, named |-> nm,
            explicit |-> explicit, filters |-> f, k |-> k, matches |-> <<>>, lexical |-> <<>>,
            dense |-> <<>>, graph |-> <<>>, fact |-> <<>>, ranked |-> <<>>, answer |-> NoAnswer,
            was |-> w, quiet |-> TRUE]
    OBVIOUS
  <1>12. req' = r
    BY <1>1, <1>2, <1>4, <1>6, <1>8, <1>9, <1>11 DEF Request
  <1>13. /\ NoAnswer \in Answers /\ NoAnswer.basis = "none"
         /\ <<>> \in Seq(Rows) /\ <<>> \in Seq(Chunks) /\ Len(<<>>) = 0
    BY DEF NoAnswer, Answers
  <1>14. r \in Requests
    BY <1>3, <1>5, <1>7, <1>10, <1>11, <1>13 DEF Requests
  <1>15. /\ r.was = w /\ r.filters = f /\ r.explicit = explicit /\ r.k = k /\ r.answer = NoAnswer
         /\ r.matches = <<>> /\ r.dense = <<>> /\ r.lexical = <<>> /\ r.fact = <<>> /\ r.graph = <<>>
         /\ r.pc = pc
    BY <1>11
  <1>16. Knows(r)
    BY <1>3, <1>5, <1>7, <1>10, <1>13, <1>15 DEF Knows, Current
  <1>17. UNCHANGED stores /\ RequestOK(r) /\ StoresOK
    BY <1>14, <1>16 DEF Start, RequestOK, IInv
  <1> QED
    BY <1>12, <1>17, ReadStep

LEMMA AnswerFromFactsLemma ==
    ASSUME StoresOK, NEW r, UpToDate(r.was)
    PROVE  /\ answer_from_facts(r) \in Answers
           /\ Current(answer_from_facts(r).basis, answer_from_facts(r).facts, r.was)
  <1>1. PICK matching : matching = {m \in ActiveFacts : r.filters = NoFilters
                            \/ conversation_matches_filters(Conversation(m), r.filters)}
    OBVIOUS
  <1>2. PICK latest : latest = {m \in matching : \A n \in matching : At[n] <= At[m]}
    OBVIOUS
  <1>3. latest \subseteq Memories /\ latest \subseteq r.was.facts
    BY <1>1, <1>2 DEF ActiveFacts, UpToDate
  <1>4. PICK said : said = {Says[m] : m \in latest}
    OBVIOUS
  <1>5. IsFiniteSet(latest)
    BY <1>3, MemoriesFinite
  <1>6. IsFiniteSet(said)
    <2> DEFINE f == [m \in latest |-> Says[m]]
    <2>1. f \in Surjection(latest, said)
      BY <1>4 DEF Surjection
    <2> QED
      BY <1>5, <2>1, FS_Surjection
  <1>7. latest # {} => Cardinality(said) \in Nat /\ Cardinality(said) # 0
    <2>1. Cardinality(said) \in Nat
      BY <1>6, FS_CardinalityType
    <2>2. latest # {} => said # {}
      BY <1>4
    <2> QED
      BY <1>6, <2>1, <2>2, FS_EmptySet
  <1>8. PICK basis : basis = IF latest = {} THEN "none"
                             ELSE IF Cardinality(said) > 1 THEN "conflict" ELSE "fact_layer"
    OBVIOUS
  <1>9. answer_from_facts(r) = [facts |-> latest, basis |-> basis]
    BY <1>1, <1>2, <1>4, <1>8 DEF answer_from_facts
  <1>10. basis = "fact_layer" => Cardinality(said) = 1
    BY <1>7, <1>8
  <1>11. basis \in {"none", "conflict", "fact_layer"}
    BY <1>8
  <1> QED
    BY <1>3, <1>4, <1>9, <1>10, <1>11 DEF Answers, Current

(* Of a row only the status, the filters and what was recorded matter.      *)
LEMMA AskedKept ==
    ASSUME NEW q, NEW r, r.status = q.status, r.filters = q.filters, r.was = q.was
    PROVE  \A row : (Asked(row, q) => Asked(row, r)) /\ (Related(row, q) => Related(row, r))
  BY DEF Asked, Related

LEMMA FilteredVectorCandidatesOK ==
    ASSUME IInv, FilteredVectorCandidates
    PROVE  IInv'
  <1>1. PICK q : q = req
    OBVIOUS
  <1>2. q \in Requests /\ Knows(q) /\ q.pc = "vectors" /\ StoresOK /\ UNCHANGED stores
    <2>1. UNCHANGED stores /\ req.pc = "vectors" /\ req.pc \in Phases
      BY DEF FilteredVectorCandidates, Continue, Phases, Reading
    <2> QED
      BY <1>1, <2>1, Running DEF IInv
  <1>3. PICK matches : matches = vector_search(q.named, q.k)
    OBVIOUS
  <1>4. q.k \in Nat /\ q.k <= Cap /\ Cap \in Nat
    BY <1>2, RetrievalAssumption DEF Requests, Knows
  <1>5. matches \in Seq(Chunks) /\ \A n \in 1 .. Len(matches) : Stored(matches[n])
    BY <1>2, <1>3, <1>4, VectorSearchLemma
  <1>6. CASE /\ \/ matching_vector_candidate_count(matches, q) >= q.top_k
                \/ Exhausted(matches, q.k) \/ q.k >= Cap
             /\ req' = [[q EXCEPT !.matches = matches] EXCEPT !.pc = "keyword"]
    <2>1. PICK r : r = [[q EXCEPT !.matches = matches] EXCEPT !.pc = "keyword"]
      OBVIOUS
    <2>2. r \in Requests
      BY <1>2, <1>5, <2>1 DEF Requests, Phases, Reading
    <2>3. /\ r.was = q.was /\ r.filters = q.filters /\ r.explicit = q.explicit /\ r.k = q.k
          /\ r.answer = q.answer /\ r.dense = q.dense /\ r.lexical = q.lexical /\ r.fact = q.fact
          /\ r.graph = q.graph /\ r.status = q.status /\ r.named = q.named /\ r.top_k = q.top_k
          /\ r.matches = matches /\ r.pc = "keyword"
      BY <1>2, <2>1 DEF Requests
    <2>4. matching_vector_candidate_count(matches, r) = matching_vector_candidate_count(matches, q)
      BY <2>3 DEF matching_vector_candidate_count
    <2>5. Searched(r)
      BY <1>3, <1>6, <2>3, <2>4 DEF Searched
    <2>6. \A row : (Asked(row, q) => Asked(row, r)) /\ (Related(row, q) => Related(row, r))
      BY <2>3, AskedKept
    <2>7. Knows(r)
      BY <1>2, <1>5, <2>3, <2>5, <2>6 DEF Knows
    <2>8. RequestOK(r) /\ req' = r
      BY <1>6, <2>1, <2>2, <2>7 DEF RequestOK
    <2> QED
      BY <1>2, <2>8, ReadStep
  <1>7. CASE req' = [[q EXCEPT !.k = Min({2 * q.k, Cap})] EXCEPT !.pc = "vectors"]
    <2>1. PICK k : k = Min({2 * q.k, Cap})
      OBVIOUS
    <2>2. k \in Nat /\ k <= Cap
      BY <1>4, <2>1, CapLemma
    <2>3. PICK r : r = [[q EXCEPT !.k = k] EXCEPT !.pc = "vectors"]
      OBVIOUS
    <2>4. r \in Requests
      BY <1>2, <2>2, <2>3 DEF Requests, Phases, Reading
    <2>5. /\ r.was = q.was /\ r.filters = q.filters /\ r.explicit = q.explicit /\ r.k = k
          /\ r.answer = q.answer /\ r.dense = q.dense /\ r.lexical = q.lexical /\ r.fact = q.fact
          /\ r.graph = q.graph /\ r.status = q.status /\ r.matches = q.matches /\ r.pc = "vectors"
      BY <1>2, <2>3 DEF Requests
    <2>6. \A row : (Asked(row, q) => Asked(row, r)) /\ (Related(row, q) => Related(row, r))
      BY <2>5, AskedKept
    <2>7. Knows(r)
      BY <1>2, <2>2, <2>5, <2>6 DEF Knows
    <2>8. RequestOK(r) /\ req' = r
      BY <1>7, <2>1, <2>3, <2>4, <2>7 DEF RequestOK
    <2> QED
      BY <1>2, <2>8, ReadStep
  <1> QED
    BY <1>1, <1>3, <1>6, <1>7 DEF FilteredVectorCandidates, Continue

LEMMA KeywordConversationsOK ==
    ASSUME IInv, KeywordConversations
    PROVE  IInv'
  <1>1. PICK q : q = req
    OBVIOUS
  <1>2. /\ q \in Requests /\ Knows(q) /\ StoresOK /\ UNCHANGED stores
        /\ req' = [[q EXCEPT !.lexical = RowsOf(keyword_conversations(q))] EXCEPT !.pc = "hydrate"]
    <2>1. /\ UNCHANGED stores /\ req.pc \in Phases
          /\ req' = [[q EXCEPT !.lexical = RowsOf(keyword_conversations(q))] EXCEPT !.pc = "hydrate"]
      BY <1>1 DEF KeywordConversations, Continue, Phases, Reading
    <2> QED
      BY <1>1, <2>1, Running DEF IInv
  <1>3. PICK rows : rows = RowsOf(keyword_conversations(q))
    OBVIOUS
  <1>4. UpToDate(q.was) /\ q.top_k \in Nat
    BY <1>2 DEF Knows, Requests
  <1>5. rows \in Seq(Rows) /\ \A n \in 1 .. Len(rows) : Asked(rows[n], q)
    BY <1>2, <1>3, <1>4, KeywordLemma
  <1>6. PICK r : r = [[q EXCEPT !.lexical = rows] EXCEPT !.pc = "hydrate"]
    OBVIOUS
  <1>7. r \in Requests
    BY <1>2, <1>5, <1>6 DEF Requests, Phases, Reading
  <1>8. /\ r.was = q.was /\ r.filters = q.filters /\ r.explicit = q.explicit /\ r.k = q.k
        /\ r.answer = q.answer /\ r.dense = q.dense /\ r.lexical = rows /\ r.fact = q.fact
        /\ r.graph = q.graph /\ r.status = q.status /\ r.matches = q.matches /\ r.pc = "hydrate"
    BY <1>2, <1>6 DEF Requests
  <1>9. \A row : (Asked(row, q) => Asked(row, r)) /\ (Related(row, q) => Related(row, r))
    BY <1>8, AskedKept
  <1>10. Knows(r)
    BY <1>2, <1>5, <1>8, <1>9 DEF Knows
  <1>11. RequestOK(r) /\ req' = r
    BY <1>2, <1>3, <1>6, <1>7, <1>10 DEF RequestOK
  <1> QED
    BY <1>2, <1>11, ReadStep

LEMMA HydrateOK ==
    ASSUME IInv, Hydrate
    PROVE  IInv'
  <1>1. PICK q : q = req
    OBVIOUS
  <1>2. /\ q \in Requests /\ Knows(q) /\ StoresOK /\ UNCHANGED stores
        /\ req' = [[q EXCEPT !.dense = dense_rows(q)] EXCEPT !.pc = "graph"]
    <2>1. /\ UNCHANGED stores /\ req.pc \in Phases
          /\ req' = [[q EXCEPT !.dense = dense_rows(q)] EXCEPT !.pc = "graph"]
      BY <1>1 DEF Hydrate, Continue, Phases, Reading
    <2> QED
      BY <1>1, <2>1, Running DEF IInv
  <1>3. PICK rows : rows = dense_rows(q)
    OBVIOUS
  <1>4. /\ UpToDate(q.was) /\ q.matches \in Seq(Chunks)
        /\ \A n \in 1 .. Len(q.matches) : Stored(q.matches[n])
    BY <1>2 DEF Knows, Requests
  <1>5. rows \in Seq(Rows) /\ \A n \in 1 .. Len(rows) : Asked(rows[n], q)
    BY <1>2, <1>3, <1>4, DenseLemma
  <1>6. PICK r : r = [[q EXCEPT !.dense = rows] EXCEPT !.pc = "graph"]
    OBVIOUS
  <1>7. r \in Requests
    BY <1>2, <1>5, <1>6 DEF Requests, Phases, Reading
  <1>8. /\ r.was = q.was /\ r.filters = q.filters /\ r.explicit = q.explicit /\ r.k = q.k
        /\ r.answer = q.answer /\ r.dense = rows /\ r.lexical = q.lexical /\ r.fact = q.fact
        /\ r.graph = q.graph /\ r.status = q.status /\ r.matches = q.matches /\ r.pc = "graph"
    BY <1>2, <1>6 DEF Requests
  <1>9. \A row : (Asked(row, q) => Asked(row, r)) /\ (Related(row, q) => Related(row, r))
    BY <1>8, AskedKept
  <1>10. Knows(r)
    BY <1>2, <1>5, <1>8, <1>9 DEF Knows
  <1>11. RequestOK(r) /\ req' = r
    BY <1>2, <1>3, <1>6, <1>7, <1>10 DEF RequestOK
  <1> QED
    BY <1>2, <1>11, ReadStep

LEMMA GraphCandidatesOK ==
    ASSUME IInv, GraphCandidates
    PROVE  IInv'
  <1>1. PICK q : q = req
    OBVIOUS
  <1>2. /\ q \in Requests /\ Knows(q) /\ StoresOK /\ UNCHANGED stores
        /\ req' = [[q EXCEPT !.graph = graph_candidate_rows(q)] EXCEPT !.pc = "fact"]
    <2>1. /\ UNCHANGED stores /\ req.pc \in Phases
          /\ req' = [[q EXCEPT !.graph = graph_candidate_rows(q)] EXCEPT !.pc = "fact"]
      BY <1>1 DEF GraphCandidates, Continue, Phases, Reading
    <2> QED
      BY <1>1, <2>1, Running DEF IInv
  <1>3. PICK rows : rows = graph_candidate_rows(q)
    OBVIOUS
  <1>4. UpToDate(q.was) /\ q.top_k \in Nat
    BY <1>2 DEF Knows, Requests
  <1>5. rows \in Seq(Rows) /\ \A n \in 1 .. Len(rows) : Related(rows[n], q)
    BY <1>2, <1>3, <1>4, GraphLemma
  <1>6. PICK r : r = [[q EXCEPT !.graph = rows] EXCEPT !.pc = "fact"]
    OBVIOUS
  <1>7. r \in Requests
    BY <1>2, <1>5, <1>6 DEF Requests, Phases, Reading
  <1>8. /\ r.was = q.was /\ r.filters = q.filters /\ r.explicit = q.explicit /\ r.k = q.k
        /\ r.answer = q.answer /\ r.dense = q.dense /\ r.lexical = q.lexical /\ r.fact = q.fact
        /\ r.graph = rows /\ r.status = q.status /\ r.matches = q.matches /\ r.pc = "fact"
    BY <1>2, <1>6 DEF Requests
  <1>9. \A row : (Asked(row, q) => Asked(row, r)) /\ (Related(row, q) => Related(row, r))
    BY <1>8, AskedKept
  <1>10. Knows(r)
    BY <1>2, <1>5, <1>8, <1>9 DEF Knows
  <1>11. RequestOK(r) /\ req' = r
    BY <1>2, <1>3, <1>6, <1>7, <1>10 DEF RequestOK
  <1> QED
    BY <1>2, <1>11, ReadStep

LEMMA FactCandidatesOK ==
    ASSUME IInv, FactCandidates
    PROVE  IInv'
  <1>1. PICK q : q = req
    OBVIOUS
  <1>2. /\ q \in Requests /\ Knows(q) /\ StoresOK /\ UNCHANGED stores
        /\ req' = [[q EXCEPT !.fact = fact_candidate_rows(q), !.matches = <<>>, !.k = 0,
                             !.named = TRUE] EXCEPT !.pc = "rank"]
    <2>1. /\ UNCHANGED stores /\ req.pc \in Phases
          /\ req' = [[q EXCEPT !.fact = fact_candidate_rows(q), !.matches = <<>>, !.k = 0,
                               !.named = TRUE] EXCEPT !.pc = "rank"]
      BY <1>1 DEF FactCandidates, Continue, Phases, Reading
    <2> QED
      BY <1>1, <2>1, Running DEF IInv
  <1>3. PICK rows : rows = fact_candidate_rows(q)
    OBVIOUS
  <1>4. UpToDate(q.was) /\ q.top_k \in Nat
    BY <1>2 DEF Knows, Requests
  <1>5. rows \in Seq(Rows) /\ \A n \in 1 .. Len(rows) : Asked(rows[n], q)
    BY <1>2, <1>3, <1>4, FactLemma
  <1>6. PICK r : r = [[q EXCEPT !.fact = rows, !.matches = <<>>, !.k = 0,
                                !.named = TRUE] EXCEPT !.pc = "rank"]
    OBVIOUS
  <1>7. r \in Requests
    <2>1. <<>> \in Seq(Chunks)
      OBVIOUS
    <2> QED
      BY <1>2, <1>5, <1>6, <2>1 DEF Requests, Phases, Reading
  <1>8. /\ r.was = q.was /\ r.filters = q.filters /\ r.explicit = q.explicit /\ r.k = 0
        /\ r.answer = q.answer /\ r.dense = q.dense /\ r.lexical = q.lexical /\ r.fact = rows
        /\ r.graph = q.graph /\ r.status = q.status /\ r.matches = <<>> /\ r.pc = "rank"
    BY <1>2, <1>6 DEF Requests
  <1>9. \A row : (Asked(row, q) => Asked(row, r)) /\ (Related(row, q) => Related(row, r))
    BY <1>8, AskedKept
  <1>10. 0 <= Cap /\ Len(<<>>) = 0
    BY RetrievalAssumption
  <1>11. Knows(r)
    BY <1>2, <1>5, <1>8, <1>9, <1>10 DEF Knows
  <1>12. RequestOK(r) /\ req' = r
    BY <1>2, <1>3, <1>6, <1>7, <1>11 DEF RequestOK
  <1> QED
    BY <1>2, <1>12, ReadStep

LEMMA RankOK ==
    ASSUME IInv, Rank
    PROVE  IInv'
  <1>1. PICK q : q = req
    OBVIOUS
  <1>2. PICK L : L = Lists(q)
    OBVIOUS
  <1>3. PICK answer : /\ UNCHANGED stores /\ req.pc = "rank"
                      /\ req' = [[q EXCEPT !.ranked = group_conversation_results(L,
                                                          rank_candidate_lists(L, answer)),
                                           !.dense = <<>>, !.lexical = <<>>, !.fact = <<>>]
                                    EXCEPT !.pc = "answer"]
    BY <1>1, <1>2 DEF Rank, Continue
  <1>4. q \in Requests /\ Knows(q) /\ StoresOK
    <2>1. req.pc \in Phases
      BY <1>3 DEF Phases
    <2> QED
      BY <1>1, <2>1, Running DEF IInv
  <1>5. /\ L \in RowLists
        /\ L.dense = q.dense /\ L.lexical = q.lexical /\ L.fact = q.fact /\ L.graph = q.graph
    BY <1>2, <1>4 DEF Lists, RowLists, Requests
  <1>6. PICK ranked : ranked = rank_candidate_lists(L, answer)
    OBVIOUS
  <1>7. /\ ranked \in Seq(AllKeys(L))
        /\ \A m, n \in 1 .. Len(ranked) : ranked[m] = ranked[n] => m = n
    BY <1>5, <1>6, RankedLemma
  <1>8. PICK rows : rows = group_conversation_results(L, ranked)
    OBVIOUS
  <1>9. /\ rows \in Seq(Rows) /\ Distinct(rows)
        /\ \A n \in 1 .. Len(rows) : \E k \in AllKeys(L) : rows[n] = RowOf(L, k)
    BY <1>5, <1>7, <1>8, GroupLemma
  <1>10. ASSUME NEW n \in 1 .. Len(rows) PROVE Wanted(rows[n], q)
    <2>1. PICK k \in AllKeys(L) : rows[n] = RowOf(L, k)
      BY <1>9
    <2>2. PICK row : row = RowOf(L, k)
      OBVIOUS
    <2>3. \/ Listed(row, L.dense) \/ Listed(row, L.lexical)
          \/ Listed(row, L.fact) \/ Listed(row, L.graph)
      BY <1>5, <2>2, RowOfLemma
    <2>4. CASE Listed(row, L.dense) \/ Listed(row, L.lexical) \/ Listed(row, L.fact)
      BY <1>4, <1>5, <2>1, <2>2, <2>4 DEF Listed, Knows, Wanted
    <2>5. CASE Listed(row, L.graph)
      <3>1. PICK i \in 1 .. Len(q.graph) : row = q.graph[i]
        BY <1>5, <2>5 DEF Listed
      <3>2. Related(row, q)
        BY <1>4, <3>1 DEF Knows
      <3>3. q.graph \in Seq(Rows)
        BY <1>4 DEF Requests
      <3>4. candidate_key(row) \in Keys(q.graph)
        BY <3>1, <3>3 DEF Keys
      <3> QED
        BY <2>1, <2>2, <3>2, <3>4 DEF Wanted
    <2> QED
      BY <2>3, <2>4, <2>5
  <1>11. PICK r : r = [[q EXCEPT !.ranked = rows, !.dense = <<>>, !.lexical = <<>>, !.fact = <<>>]
                          EXCEPT !.pc = "answer"]
    OBVIOUS
  <1>12. <<>> \in Seq(Rows) /\ Len(<<>>) = 0
    OBVIOUS
  <1>13. r \in Requests
    BY <1>4, <1>9, <1>11, <1>12 DEF Requests, Phases
  <1>14. /\ r.was = q.was /\ r.filters = q.filters /\ r.explicit = q.explicit /\ r.k = q.k
         /\ r.answer = q.answer /\ r.dense = <<>> /\ r.lexical = <<>> /\ r.fact = <<>>
         /\ r.graph = q.graph /\ r.status = q.status /\ r.matches = q.matches /\ r.pc = "answer"
         /\ r.ranked = rows
    BY <1>4, <1>11 DEF Requests
  <1>15. \A row : (Asked(row, q) => Asked(row, r)) /\ (Related(row, q) => Related(row, r))
    BY <1>14, AskedKept
  <1>16. \A n \in 1 .. Len(rows) : Wanted(rows[n], r)
    BY <1>10, <1>14, <1>15 DEF Wanted
  <1>17. Knows(r)
    BY <1>4, <1>9, <1>12, <1>14, <1>15, <1>16 DEF Knows
  <1>18. RequestOK(r) /\ req' = r
    BY <1>3, <1>6, <1>8, <1>11, <1>13, <1>17 DEF RequestOK
  <1> QED
    BY <1>3, <1>4, <1>18, ReadStep

-----------------------------------------------------------------------------
(* Answers.                                                                 *)

LEMMA SelectsItself ==
    ASSUME NEW rows \in Seq(Rows)
    PROVE  Selection(rows, rows)
  BY DEF Selection

LEMMA ResultsSelect ==
    ASSUME NEW r \in Requests, NEW mode \in Modes
    PROVE  Selection(Results(r, mode), r.ranked)
  <1>1. PICK rows \in Seq(Rows) : rows = r.ranked
    BY DEF Requests
  <1>2. PICK k \in Nat : k = r.top_k
    BY DEF Requests
  <1>3. PICK u : u = apply_result_mode(rows, mode)
    OBVIOUS
  <1>4. Selection(u, rows)
    <2>1. CASE mode = "chunks"
      <3>1. u = rows
        BY <1>3, <2>1 DEF apply_result_mode
      <3> QED
        BY <3>1, SelectsItself
    <2>2. CASE mode = "threads"
      <3>1. PICK g : g = [n \in DOMAIN rows |-> ThreadOf[rows[n].id]]
        OBVIOUS
      <3>2. u = FirstOfEach(rows, g)
        BY <1>3, <2>2, <3>1 DEF apply_result_mode
      <3> QED
        BY <3>2, FirstOfEachSelects
    <2>3. CASE mode = "conversations"
      <3>1. PICK g : g = [n \in DOMAIN rows |-> rows[n].id]
        OBVIOUS
      <3>2. u = FirstOfEach(rows, g)
        BY <1>3, <2>3, <3>1 DEF apply_result_mode
      <3> QED
        BY <3>2, FirstOfEachSelects
    <2> QED
      BY <2>1, <2>2, <2>3 DEF Modes
  <1>5. u \in Seq(Rows)
    BY <1>4 DEF Selection
  <1>6. PICK v : v = Prefix(u, k)
    OBVIOUS
  <1>7. Selection(v, u)
    BY <1>5, <1>6, PrefixSelects
  <1>8. Selection(v, rows)
    BY <1>4, <1>7, SelectionTransitive
  <1>9. Results(r, mode) = v
    BY <1>1, <1>2, <1>3, <1>6 DEF Results
  <1> QED
    BY <1>1, <1>8, <1>9

LEMMA ContextSelects ==
    ASSUME NEW rows \in Seq(Rows), NEW budget
    PROVE  Selection(select_ask_context(rows, budget), rows)
  <1>1. CASE budget = None
    BY <1>1, SelectsItself DEF select_ask_context
  <1>2. CASE budget # None
    <2>1. PICK P : P = {n \in DOMAIN rows : budget - (n - 1) * RowTokens > CitationTokens}
      OBVIOUS
    <2>2. Len(rows) \in Nat /\ P \in SUBSET (1 .. Len(rows))
      BY <2>1
    <2>3. PICK k : k = Cardinality(P)
      OBVIOUS
    <2>4. k \in Nat
      BY <2>2, <2>3, Positions
    <2>5. select_ask_context(rows, budget) = Prefix(rows, k)
      BY <1>2, <2>1, <2>3 DEF select_ask_context
    <2> QED
      BY <2>4, <2>5, PrefixSelects
  <1> QED
    BY <1>1, <1>2

LEMMA EvidenceSelects ==
    ASSUME NEW answer, NEW rows \in Seq(Rows), NEW mode, NEW top_k \in Nat
    PROVE  LET evidence == arbitrate_fact_and_chunk_evidence(answer, rows, mode, top_k)
           IN  /\ Selection(evidence.rows, rows) /\ evidence.facts = answer.facts
               /\ evidence.basis = "fact_layer" => answer.basis = "fact_layer"
  <1> DEFINE said(row) == mode = "chunks" /\ <<row.id, MessageOf(row)>> \in UserSaid
  <1>1. PICK P : P = {n \in DOMAIN rows : said(rows[n])}
    OBVIOUS
  <1>2. PICK Q : Q = {n \in DOMAIN rows : ~said(rows[n])}
    OBVIOUS
  <1>3. PICK u : u = Subsequence(rows, P) \o Subsequence(rows, Q)
    OBVIOUS
  <1>4. Selection(u, rows)
    BY <1>1, <1>2, <1>3, PartitionSelects
  <1>5. u \in Seq(Rows)
    BY <1>4 DEF Selection
  <1>6. PICK ranked : ranked = Prefix(u, top_k)
    OBVIOUS
  <1>7. Selection(ranked, u)
    BY <1>5, <1>6, PrefixSelects
  <1>8. Selection(ranked, rows)
    BY <1>4, <1>7, SelectionTransitive
  <1>9. PICK direct : direct = {n \in DOMAIN ranked : said(ranked[n])}
    OBVIOUS
  <1>10. PICK supporting : supporting = {n \in direct : \E m \in answer.facts :
                               Says[m] \in TextOf(ranked[n])}
    OBVIOUS
  <1>11. PICK corrected : corrected = \E m \in answer.facts : Quality[m] = "corrected_by_user"
    OBVIOUS
  <1>12. PICK basis : basis = IF answer.basis = "conflict"
                                   \/ (direct # {} /\ supporting = {} /\ ~corrected)
                              THEN "conflict" ELSE "mixed"
    OBVIOUS
  <1>13. arbitrate_fact_and_chunk_evidence(answer, rows, mode, top_k) =
           IF rows = <<>> THEN [facts |-> answer.facts, rows |-> <<>>, basis |-> answer.basis]
           ELSE [facts |-> answer.facts, rows |-> ranked, basis |-> basis]
    BY <1>1, <1>2, <1>3, <1>6, <1>9, <1>10, <1>11, <1>12 DEF arbitrate_fact_and_chunk_evidence
  <1>14. basis # "fact_layer"
    BY <1>12
  <1>15. rows = <<>> => Selection(<<>>, rows)
    BY SelectsItself
  <1> QED
    BY <1>8, <1>13, <1>14, <1>15

(* An answer made of ranked rows.                                           *)
LEMMA RespondOK ==
    ASSUME IInv, req \in Requests, Knows(req), NEW rows, NEW basis, NEW used,
           Respond(rows, basis, used),
           rows \in Seq(Rows) /\ Distinct(rows),
           \A n \in 1 .. Len(rows) : Wanted(rows[n], req),
           Current(basis, used, req.was)
    PROVE  IInv'
  <1>1. PICK q : q = req
    OBVIOUS
  <1>2. PICK r : r = [pc |-> "done", op |-> q.op, status |-> q.status, explicit |-> q.explicit,
               top_k |-> q.top_k, was |-> q.was, graph |-> Keys(q.graph),
               rows |-> rows, basis |-> basis, facts |-> used]
    OBVIOUS
  <1>3. req' = r /\ UNCHANGED stores
    BY <1>1, <1>2 DEF Respond
  <1>4. /\ r.pc = "done" /\ r.status = q.status /\ r.explicit = q.explicit /\ r.was = q.was
        /\ r.graph = Keys(q.graph) /\ r.rows = rows /\ r.basis = basis /\ r.facts = used
    BY <1>2
  <1>5. Narrowed(q.filters, q.explicit)
    BY <1>1 DEF Knows
  <1>6. ASSUME NEW c, conversation_matches_filters(c, q.filters)
        PROVE  conversation_matches_filters(c, q.explicit)
    BY <1>5, <1>6 DEF conversation_matches_filters, Narrowed
  <1>7. ASSUME NEW n \in 1 .. Len(rows) PROVE Answered(rows[n], r)
    <2>1. PICK row : row = rows[n]
      OBVIOUS
    <2>2. Asked(row, q) \/ (Related(row, q) /\ candidate_key(row) \in Keys(q.graph))
      BY <1>1, <2>1 DEF Wanted
    <2>3. CASE Asked(row, q)
      BY <1>4, <1>6, <2>1, <2>3 DEF Asked, Answered
    <2>4. CASE Related(row, q) /\ candidate_key(row) \in Keys(q.graph)
      BY <1>4, <2>1, <2>4 DEF Related, Answered
    <2> QED
      BY <2>2, <2>3, <2>4
  <1>8. Answer(r)
    BY <1>1, <1>4, <1>7 DEF Answer
  <1>9. RequestOK(r) /\ StoresOK
    BY <1>4, <1>8 DEF RequestOK, IInv
  <1> QED
    BY <1>3, <1>9, ReadStep

LEMMA SelectedRows ==
    ASSUME NEW r \in Requests, Knows(r), r.pc = "answer", NEW rows, Selection(rows, r.ranked)
    PROVE  rows \in Seq(Rows) /\ Distinct(rows) /\ \A n \in 1 .. Len(rows) : Wanted(rows[n], r)
  BY DEF Knows, Selection

LEMMA AnswerFromFactsOK ==
    ASSUME IInv, AnswerFromFacts
    PROVE  IInv'
  <1>1. PICK q : q = req
    OBVIOUS
  <1>2. PICK answer : answer = answer_from_facts(q)
    OBVIOUS
  <1>3. /\ req.pc = "facts"
        /\ \/ Respond(<<>>, answer.basis, answer.facts)
           \/ Continue("vectors", [q EXCEPT !.answer = answer])
    BY <1>1, <1>2 DEF AnswerFromFacts
  <1>4. q \in Requests /\ Knows(q) /\ StoresOK
    <2>1. req.pc \in Phases
      BY <1>3 DEF Phases, Reading
    <2> QED
      BY <1>1, <2>1, Running DEF IInv
  <1>5. answer \in Answers /\ Current(answer.basis, answer.facts, q.was)
    BY <1>2, <1>4, AnswerFromFactsLemma DEF Knows
  <1>6. CASE Respond(<<>>, answer.basis, answer.facts)
    <2>1. <<>> \in Seq(Rows) /\ Len(<<>>) = 0
      OBVIOUS
    <2>2. PICK e : e = <<>>
      OBVIOUS
    <2>3. e \in Seq(Rows) /\ Distinct(e) /\ \A n \in 1 .. Len(e) : Wanted(e[n], req)
      BY <2>1, <2>2 DEF Distinct
    <2>4. PICK basis : basis = answer.basis
      OBVIOUS
    <2>5. PICK used : used = answer.facts
      OBVIOUS
    <2>6. Respond(e, basis, used) /\ Current(basis, used, req.was)
      BY <1>1, <1>5, <1>6, <2>2, <2>4, <2>5
    <2> QED
      BY <1>1, <1>4, <2>3, <2>6, RespondOK
  <1>7. CASE Continue("vectors", [q EXCEPT !.answer = answer])
    <2>1. PICK r : r = [[q EXCEPT !.answer = answer] EXCEPT !.pc = "vectors"]
      OBVIOUS
    <2>2. r \in Requests
      BY <1>4, <1>5, <2>1 DEF Requests, Phases, Reading
    <2>3. /\ r.was = q.was /\ r.filters = q.filters /\ r.explicit = q.explicit /\ r.k = q.k
          /\ r.answer = answer /\ r.dense = q.dense /\ r.lexical = q.lexical /\ r.fact = q.fact
          /\ r.graph = q.graph /\ r.status = q.status /\ r.matches = q.matches /\ r.pc = "vectors"
      BY <1>4, <2>1 DEF Requests
    <2>4. \A row : (Asked(row, q) => Asked(row, r)) /\ (Related(row, q) => Related(row, r))
      BY <2>3, AskedKept
    <2>5. Knows(r)
      BY <1>4, <1>5, <2>3, <2>4 DEF Knows
    <2>6. RequestOK(r) /\ req' = r /\ UNCHANGED stores
      BY <1>7, <2>1, <2>2, <2>5 DEF RequestOK, Continue
    <2> QED
      BY <1>4, <2>6, ReadStep
  <1> QED
    BY <1>3, <1>6, <1>7

LEMMA AnswerSearchOK ==
    ASSUME IInv, AnswerSearch \/ AnswerHandoff
    PROVE  IInv'
  <1>1. req.pc = "answer" /\ req.pc \in Phases
    BY DEF AnswerSearch, AnswerHandoff, Phases
  <1>2. req \in Requests /\ Knows(req)
    BY <1>1, Running
  <1>3. CASE AnswerSearch
    <2>1. PICK mode \in Modes : Respond(Results(req, mode), "search", {})
      BY <1>3 DEF AnswerSearch
    <2>2. PICK rows : rows = Results(req, mode)
      OBVIOUS
    <2>3. Selection(rows, req.ranked)
      BY <1>2, <2>2, ResultsSelect
    <2>4. rows \in Seq(Rows) /\ Distinct(rows) /\ \A n \in 1 .. Len(rows) : Wanted(rows[n], req)
      BY <1>1, <1>2, <2>3, SelectedRows
    <2>5. Respond(rows, "search", {}) /\ Current("search", {}, req.was)
      BY <2>1, <2>2 DEF Current
    <2> QED
      BY <1>2, <2>4, <2>5, RespondOK
  <1>4. CASE AnswerHandoff
    <2>1. PICK budget : Respond(select_ask_context(Results(req, "chunks"), budget), "handoff", {})
      BY <1>4 DEF AnswerHandoff
    <2>2. PICK all : all = Results(req, "chunks")
      OBVIOUS
    <2>3. "chunks" \in Modes
      BY DEF Modes
    <2>4. Selection(all, req.ranked)
      BY <1>2, <2>2, <2>3, ResultsSelect
    <2>5. PICK rows : rows = select_ask_context(all, budget)
      OBVIOUS
    <2>6. all \in Seq(Rows)
      BY <2>4 DEF Selection
    <2>7. Selection(rows, all)
      BY <2>5, <2>6, ContextSelects
    <2>8. Selection(rows, req.ranked)
      BY <2>4, <2>7, SelectionTransitive
    <2>9. rows \in Seq(Rows) /\ Distinct(rows) /\ \A n \in 1 .. Len(rows) : Wanted(rows[n], req)
      BY <1>1, <1>2, <2>8, SelectedRows
    <2>10. Respond(rows, "handoff", {}) /\ Current("handoff", {}, req.was)
      BY <2>1, <2>2, <2>5 DEF Current
    <2> QED
      BY <1>2, <2>9, <2>10, RespondOK
  <1> QED
    BY <1>3, <1>4

LEMMA AnswerAskOK ==
    ASSUME IInv, AnswerAsk
    PROVE  IInv'
  <1>1. PICK q : q = req
    OBVIOUS
  <1>2. q.pc = "answer" /\ q.pc \in Phases
    BY <1>1 DEF AnswerAsk, Phases
  <1>3. q \in Requests /\ Knows(q)
    BY <1>1, <1>2, Running
  <1>4. PICK mode \in Modes, budget \in Budgets :
            LET rows == Results(q, mode)
                evidence == arbitrate_fact_and_chunk_evidence(q.answer, rows, mode, q.top_k)
                shown == select_ask_context(evidence.rows, budget)
            IN  IF q.answer.basis # "none" /\ q.status = "active"
                THEN Respond(shown, IF shown = <<>> THEN q.answer.basis ELSE evidence.basis,
                             evidence.facts)
                ELSE IF rows = <<>> THEN Respond(<<>>, "not_found", {})
                ELSE Respond(select_ask_context(rows, budget), "direct_memory", {})
    BY <1>1 DEF AnswerAsk
  <1>5. PICK rows : rows = Results(q, mode)
    OBVIOUS
  <1>6. PICK evidence : evidence = arbitrate_fact_and_chunk_evidence(q.answer, rows, mode, q.top_k)
    OBVIOUS
  <1>7. PICK shown : shown = select_ask_context(evidence.rows, budget)
    OBVIOUS
  <1>8. PICK cited : cited = select_ask_context(rows, budget)
    OBVIOUS
  <1>9. PICK basis : basis = IF shown = <<>> THEN q.answer.basis ELSE evidence.basis
    OBVIOUS
  <1>10. \/ Respond(shown, basis, evidence.facts)
         \/ rows = <<>> /\ Respond(rows, "not_found", {})
         \/ Respond(cited, "direct_memory", {})
    BY <1>4, <1>5, <1>6, <1>7, <1>8, <1>9
  <1>11. Selection(rows, q.ranked) /\ rows \in Seq(Rows)
    BY <1>3, <1>5, ResultsSelect DEF Selection
  <1>12. PICK answer : answer = q.answer
    OBVIOUS
  <1>13. PICK top_k \in Nat : top_k = q.top_k
    BY <1>3 DEF Requests
  <1>14. /\ Selection(evidence.rows, rows) /\ evidence.facts = answer.facts
         /\ evidence.basis = "fact_layer" => answer.basis = "fact_layer"
    BY <1>6, <1>11, <1>12, <1>13, EvidenceSelects
  <1>15. PICK kept : kept = evidence.rows
    OBVIOUS
  <1>16. Selection(kept, rows) /\ kept \in Seq(Rows)
    BY <1>14, <1>15 DEF Selection
  <1>17. Selection(shown, kept) /\ Selection(cited, rows)
    BY <1>7, <1>8, <1>11, <1>15, <1>16, ContextSelects
  <1>18. Selection(shown, q.ranked) /\ Selection(cited, q.ranked)
    BY <1>11, <1>16, <1>17, SelectionTransitive
  <1>19. CASE Respond(shown, basis, evidence.facts)
    <2>1. shown \in Seq(Rows) /\ Distinct(shown) /\ \A n \in 1 .. Len(shown) : Wanted(shown[n], req)
      BY <1>1, <1>2, <1>3, <1>18, SelectedRows
    <2>2. PICK used : used = evidence.facts
      OBVIOUS
    <2>3. Current(answer.basis, answer.facts, q.was)
      BY <1>3, <1>12 DEF Knows
    <2>4. Current(basis, used, req.was)
      BY <1>1, <1>9, <1>12, <1>14, <2>2, <2>3 DEF Current
    <2>5. Respond(shown, basis, used)
      BY <1>19, <2>2
    <2> QED
      BY <1>1, <1>3, <2>1, <2>4, <2>5, RespondOK
  <1>20. CASE Respond(rows, "not_found", {})
    <2>1. rows \in Seq(Rows) /\ Distinct(rows) /\ \A n \in 1 .. Len(rows) : Wanted(rows[n], req)
      BY <1>1, <1>2, <1>3, <1>11, SelectedRows
    <2>2. Current("not_found", {}, req.was)
      BY DEF Current
    <2> QED
      BY <1>1, <1>3, <1>20, <2>1, <2>2, RespondOK
  <1>21. CASE Respond(cited, "direct_memory", {})
    <2>1. cited \in Seq(Rows) /\ Distinct(cited) /\ \A n \in 1 .. Len(cited) : Wanted(cited[n], req)
      BY <1>1, <1>2, <1>3, <1>18, SelectedRows
    <2>2. Current("direct_memory", {}, req.was)
      BY DEF Current
    <2> QED
      BY <1>1, <1>3, <1>21, <2>1, <2>2, RespondOK
  <1> QED
    BY <1>10, <1>19, <1>20, <1>21

-----------------------------------------------------------------------------
(* The steps of a writer: memories only grow, and what a request recorded   *)
(* grows with them.                                                         *)

LEMMA RowShape ==
    ASSUME StoresOK, NEW m \in Memories, memory[m] # None
    PROVE  /\ memory[m] \in MemoryRows /\ memory[m].status \in Statuses
           /\ memory[m].size \in Nat /\ memory[m].size # 0
  BY DEF StoresOK, MemoryRows

(* A row of a memory is never no memory.                                    *)
LEMMA RowsAreSome ==
    ASSUME NEW row \in MemoryRows
    PROVE  row # None
  BY RetrievalAssumption DEF MemoryRows

Grown ==
    \A x \in Memories : memory[x] # None =>
        /\ memory'[x] # None /\ memory'[x] \in MemoryRows /\ memory[x].size <= memory'[x].size

LEMMA WitnessedLemma ==
    ASSUME StoresOK', NEW was \in Witnesses, NEW w, w = Witnessed(was)
    PROVE  /\ w \in Witnesses /\ UpToDate(w)'
           /\ was.status \subseteq w.status /\ was.facts \subseteq w.facts
  <1>2. /\ w.status = was.status \cup {<<m, memory'[m].status>> :
                                          m \in {n \in Memories : memory'[n] # None}}
        /\ w.facts = was.facts \cup {m \in Memories : facts'[m] = "active"}
        /\ w = [status |-> w.status, facts |-> w.facts]
    BY DEF Witnessed
  <1>3. \A m \in Memories : memory'[m] # None => memory'[m].status \in Statuses
    BY DEF StoresOK, MemoryRows
  <1>4. w.status \in SUBSET (Memories \X Statuses) /\ w.facts \in SUBSET Memories
    BY <1>2, <1>3 DEF Witnesses
  <1>5. w \in Witnesses
    BY <1>2, <1>4 DEF Witnesses
  <1>6. UpToDate(w)'
    BY <1>2 DEF UpToDate
  <1> QED
    BY <1>2, <1>5, <1>6

LEMMA WriteOK ==
    ASSUME IInv, StoresOK', Grown, NEW m, Write(m)
    PROVE  IInv'
  <1>1. PICK q : q = req
    OBVIOUS
  <1>2. q.pc \in Reading /\ q.pc \in Phases
    BY <1>1 DEF Write, Phases
  <1>3. q \in Requests /\ Knows(q) /\ StoresOK
    BY <1>1, <1>2, Running DEF IInv
  <1>4. PICK w : w = Witnessed(q.was)
    OBVIOUS
  <1>5. w \in Witnesses /\ UpToDate(w)' /\ q.was.status \subseteq w.status /\ q.was.facts \subseteq w.facts
    <2>1. PICK was \in Witnesses : was = q.was
      BY <1>3 DEF Requests
    <2>2. w = Witnessed(was)
      BY <1>4, <2>1
    <2> QED
      BY <2>1, <2>2, WitnessedLemma
  <1>6. PICK r : r = [q EXCEPT !.was = w, !.quiet = FALSE]
    OBVIOUS
  <1>7. req' = r
    BY <1>1, <1>4, <1>6 DEF Write
  <1>8. r \in Requests
    BY <1>3, <1>5, <1>6 DEF Requests
  <1>9. /\ r.was = w /\ r.filters = q.filters /\ r.explicit = q.explicit /\ r.k = q.k
        /\ r.answer = q.answer /\ r.dense = q.dense /\ r.lexical = q.lexical /\ r.fact = q.fact
        /\ r.graph = q.graph /\ r.status = q.status /\ r.matches = q.matches /\ r.pc = q.pc
        /\ r.quiet = FALSE
    BY <1>3, <1>6 DEF Requests
  <1>10. ASSUME NEW x \in Memories, NEW i \in Int, memory[x] # None, i <= memory[x].size
         PROVE  memory'[x] # None /\ memory'[x].size \in Nat /\ i <= memory'[x].size
    <2>1. memory'[x] # None /\ memory'[x] \in MemoryRows /\ memory[x].size <= memory'[x].size
      BY <1>10 DEF Grown
    <2>2. memory[x].size \in Nat /\ memory'[x].size \in Nat
      BY <1>3, <1>10, <2>1, RowShape DEF MemoryRows
    <2> QED
      BY <1>10, <2>1, <2>2
  <1>11. ASSUME NEW row \in Rows
         PROVE  /\ Asked(row, q) => Asked(row, r)'
                /\ Related(row, q) => Related(row, r)'
    <2>1. row.id \in Memories /\ row.chunk \in Nat
      BY DEF Rows
    <2>2. ASSUME Held(row) PROVE Held(row)'
      <3>1. PICK x \in Memories : x = row.id
        BY <2>1
      <3>2. PICK i : i = MessageOf(row)
        OBVIOUS
      <3>3. memory[x] # None /\ i \in 1 .. memory[x].size /\ ProjectOf[x] = Project
        BY <2>2, <3>1, <3>2 DEF Held
      <3>4. i \in Int /\ 1 <= i /\ i <= memory[x].size
        BY <1>3, <3>3, RowShape
      <3>5. memory'[x] # None /\ memory'[x].size \in Nat /\ i <= memory'[x].size
        BY <1>10, <3>3, <3>4
      <3>6. i \in 1 .. memory'[x].size
        BY <3>4, <3>5
      <3> QED
        BY <3>1, <3>2, <3>3, <3>5, <3>6 DEF Held
    <2> QED
      BY <1>5, <1>9, <2>2 DEF Asked, Related
  <1>12. ASSUME NEW key \in Chunks, Stored(key) PROVE Stored(key)'
    <2>1. PICK x \in Memories : x = key[1]
      BY KeyParts
    <2>2. PICK i : i = Windows[x][key[2]].message
      OBVIOUS
    <2>3. memory[x] # None /\ key[2] \in DOMAIN Windows[x] /\ i <= memory[x].size
      BY <1>12, <2>1, <2>2 DEF Stored
    <2>4. i \in Int
      BY <2>2, <2>3, TextAssumption DEF Memories
    <2>5. memory'[x] # None /\ i <= memory'[x].size
      BY <1>10, <2>3, <2>4
    <2> QED
      BY <2>1, <2>2, <2>3, <2>5 DEF Stored
  <1>13. /\ q.matches \in Seq(Chunks) /\ q.dense \in Seq(Rows) /\ q.lexical \in Seq(Rows)
         /\ q.fact \in Seq(Rows) /\ q.graph \in Seq(Rows)
    BY <1>3 DEF Requests
  <1>14. Current(r.answer.basis, r.answer.facts, r.was)
    BY <1>3, <1>5, <1>9 DEF Knows, Current
  <1>15. \A n \in 1 .. Len(r.matches) : Stored(r.matches[n])'
    BY <1>3, <1>9, <1>12, <1>13 DEF Knows
  <1>16. /\ \A n \in 1 .. Len(r.dense) : Asked(r.dense[n], r)'
         /\ \A n \in 1 .. Len(r.lexical) : Asked(r.lexical[n], r)'
         /\ \A n \in 1 .. Len(r.fact) : Asked(r.fact[n], r)'
         /\ \A n \in 1 .. Len(r.graph) : Related(r.graph[n], r)'
    <2>1. /\ \A n \in 1 .. Len(q.dense) : q.dense[n] \in Rows /\ Asked(q.dense[n], q)
          /\ \A n \in 1 .. Len(q.lexical) : q.lexical[n] \in Rows /\ Asked(q.lexical[n], q)
          /\ \A n \in 1 .. Len(q.fact) : q.fact[n] \in Rows /\ Asked(q.fact[n], q)
          /\ \A n \in 1 .. Len(q.graph) : q.graph[n] \in Rows /\ Related(q.graph[n], q)
      BY <1>3, <1>13 DEF Knows
    <2>2. \A n \in 1 .. Len(r.dense) : Asked(r.dense[n], r)'
      BY <1>9, <1>11, <2>1
    <2>3. \A n \in 1 .. Len(r.lexical) : Asked(r.lexical[n], r)'
      BY <1>9, <1>11, <2>1
    <2>4. \A n \in 1 .. Len(r.fact) : Asked(r.fact[n], r)'
      BY <1>9, <1>11, <2>1
    <2>5. \A n \in 1 .. Len(r.graph) : Related(r.graph[n], r)'
      BY <1>9, <1>11, <2>1
    <2> QED
      BY <2>2, <2>3, <2>4, <2>5
  <1>17. UpToDate(r.was)' /\ Narrowed(r.filters, r.explicit) /\ r.k <= Cap /\ r.pc # "answer"
    BY <1>2, <1>3, <1>5, <1>9 DEF Knows, Reading
  <1>18. Knows(r)'
    BY <1>9, <1>14, <1>15, <1>16, <1>17 DEF Knows
  <1>19. RequestOK(r)'
    BY <1>8, <1>18 DEF RequestOK
  <1> QED
    BY <1>7, <1>19 DEF IInv

(* The stores after one memory has changed.                                 *)
LEMMA MemoryGrows ==
    ASSUME StoresOK, NEW m \in Memories, NEW row \in MemoryRows,
           memory[m] # None => memory[m].size <= row.size,
           memory' = [memory EXCEPT ![m] = row], UNCHANGED <<vectors, facts, links>>
    PROVE  StoresOK' /\ Grown
  <1>1. memory \in [Memories -> {None} \cup MemoryRows]
    BY DEF StoresOK
  <1>2. memory' \in [Memories -> {None} \cup MemoryRows] /\ memory'[m] = row
    BY <1>1
  <1>3. \A x \in Memories : x # m => memory'[x] = memory[x]
    BY <1>1
  <1>4. Grown
    <2> SUFFICES ASSUME NEW x \in Memories, memory[x] # None
                 PROVE  /\ memory'[x] # None /\ memory'[x] \in MemoryRows
                        /\ memory[x].size <= memory'[x].size
      BY DEF Grown
    <2>1. CASE x = m
      BY <1>2, <2>1, RowsAreSome
    <2>2. CASE x # m
      <3>1. memory'[x] = memory[x] /\ memory[x] \in MemoryRows /\ memory[x].size \in Nat
        BY <1>3, <2>2, RowShape
      <3> QED
        BY <3>1
    <2> QED
      BY <2>1, <2>2
  <1>5. ASSUME NEW key \in vectors' PROVE Stored(key)'
    <2>1. key \in Chunks /\ Stored(key)
      BY <1>5 DEF StoresOK
    <2>2. PICK x : x = key[1]
      OBVIOUS
    <2>3. PICK i : i = Windows[x][key[2]].message
      OBVIOUS
    <2>4. /\ x \in Memories /\ memory[x] # None
          /\ key[2] \in DOMAIN Windows[x] /\ i <= memory[x].size
      BY <2>1, <2>2, <2>3, KeyParts DEF Stored
    <2>7. i \in Int
      BY <2>3, <2>4, TextAssumption DEF Memories
    <2>5. /\ memory'[x] # None /\ memory'[x] \in MemoryRows
          /\ memory[x].size <= memory'[x].size /\ memory[x].size \in Nat
      BY <1>4, <2>4, RowShape DEF Grown
    <2>6. memory'[x].size \in Nat
      BY <2>5 DEF MemoryRows
    <2>8. i <= memory'[x].size
      BY <2>4, <2>5, <2>6, <2>7
    <2> QED
      BY <2>2, <2>3, <2>4, <2>5, <2>8 DEF Stored
  <1> QED
    BY <1>2, <1>4, <1>5 DEF StoresOK

(* The stores when the memories stay as they are.                           *)
LEMMA MemoryStays ==
    ASSUME StoresOK, UNCHANGED memory,
           vectors' \subseteq Chunks, \A key \in vectors' : Stored(key),
           facts' \in [Memories -> {"none", "active", "superseded"}], links' \subseteq Memories
    PROVE  StoresOK' /\ Grown
  <1>1. \A key \in vectors' : Stored(key)'
    BY DEF Stored
  <1>2. memory' \in [Memories -> {None} \cup MemoryRows]
    BY DEF StoresOK
  <1>3. StoresOK'
    BY <1>1, <1>2 DEF StoresOK
  <1>4. ASSUME NEW x \in Memories, memory[x] # None
        PROVE  memory'[x] # None /\ memory'[x] \in MemoryRows /\ memory[x].size <= memory'[x].size
    BY <1>4, RowShape
  <1> QED
    BY <1>3, <1>4 DEF Grown

LEMMA WriterOK ==
    ASSUME IInv, WriterStep
    PROVE  IInv'
  <1>1. StoresOK
    BY DEF IInv
  <1>2. PICK m \in Memories :
            Save(m) \/ Index(m) \/ AppendMessage(m) \/ Review(m) \/ Derive(m) \/ Supersede(m)
    BY DEF WriterStep
  <1>3. Write(m)
    BY <1>2 DEF Save, Index, AppendMessage, Review, Derive, Supersede
  <1>4. /\ memory \in [Memories -> {None} \cup MemoryRows] /\ links \subseteq Memories
        /\ vectors \subseteq Chunks /\ \A key \in vectors : Stored(key)
        /\ facts \in [Memories -> {"none", "active", "superseded"}]
    BY <1>1 DEF StoresOK
  <1>5. CASE Save(m)
    <2>1. PICK status \in {"active", "pending_review"} :
              memory' = [memory EXCEPT ![m] = [status |-> status, size |-> 1]]
      BY <1>5 DEF Save
    <2>2. PICK row : row = [status |-> status, size |-> 1]
      OBVIOUS
    <2>3. row \in MemoryRows
      BY <2>2 DEF MemoryRows, Statuses
    <2>4. memory[m] = None /\ memory' = [memory EXCEPT ![m] = row] /\ UNCHANGED <<vectors, facts, links>>
      BY <1>5, <2>1, <2>2 DEF Save
    <2>5. StoresOK' /\ Grown
      BY <1>1, <2>3, <2>4, MemoryGrows
    <2> QED
      BY <1>3, <2>5, WriteOK
  <1>6. CASE AppendMessage(m)
    <2>1. memory[m] # None
      BY <1>6 DEF AppendMessage
    <2>2. PICK old : old = memory[m]
      OBVIOUS
    <2>3. old \in MemoryRows /\ old.size \in Nat
      BY <1>1, <2>1, <2>2, RowShape
    <2>4. PICK row : row = [old EXCEPT !.size = old.size + 1]
      OBVIOUS
    <2>5. row \in MemoryRows /\ row.size = old.size + 1
      BY <2>3, <2>4 DEF MemoryRows
    <2>6. memory' = [memory EXCEPT ![m] = row] /\ UNCHANGED <<vectors, facts, links>>
      BY <1>4, <1>6, <2>2, <2>4 DEF AppendMessage
    <2>7. memory[m].size <= row.size
      BY <2>2, <2>3, <2>5
    <2>8. StoresOK' /\ Grown
      BY <1>1, <2>5, <2>6, <2>7, MemoryGrows
    <2> QED
      BY <1>3, <2>8, WriteOK
  <1>7. CASE Review(m)
    <2>1. memory[m] # None
      BY <1>7 DEF Review
    <2>2. PICK old : old = memory[m]
      OBVIOUS
    <2>3. old \in MemoryRows /\ old.size \in Nat
      BY <1>1, <2>1, <2>2, RowShape
    <2>4. PICK status \in {"active", "rejected"} : memory' = [memory EXCEPT ![m].status = status]
      BY <1>7 DEF Review
    <2>5. PICK row : row = [old EXCEPT !.status = status]
      OBVIOUS
    <2>6. row \in MemoryRows /\ row.size = old.size
      BY <2>3, <2>5 DEF MemoryRows, Statuses
    <2>7. memory' = [memory EXCEPT ![m] = row] /\ UNCHANGED <<vectors, facts, links>>
      BY <1>4, <1>7, <2>2, <2>4, <2>5 DEF Review
    <2>8. memory[m].size <= row.size
      BY <2>2, <2>3, <2>6
    <2>9. StoresOK' /\ Grown
      BY <1>1, <2>6, <2>7, <2>8, MemoryGrows
    <2> QED
      BY <1>3, <2>9, WriteOK
  <1>8. CASE Index(m)
    <2>1. memory[m] # None /\ vectors' = vectors \cup StoredChunks(m) /\ UNCHANGED <<memory, facts, links>>
      BY <1>8 DEF Index
    <2>3. ASSUME NEW key \in StoredChunks(m) PROVE key \in Chunks /\ Stored(key)
      BY <2>1, <2>3, StoredChunksLemma
    <2>4. vectors' \subseteq Chunks /\ \A key \in vectors' : Stored(key)
      BY <1>4, <2>1, <2>3
    <2>5. StoresOK' /\ Grown
      BY <1>1, <1>4, <2>1, <2>4, MemoryStays
    <2> QED
      BY <1>3, <2>5, WriteOK
  <1>9. CASE Derive(m) \/ Supersede(m)
    <2>1. /\ UNCHANGED <<memory, vectors>>
          /\ facts' \in [Memories -> {"none", "active", "superseded"}] /\ links' \subseteq Memories
      BY <1>4, <1>9 DEF Derive, Supersede
    <2>2. StoresOK' /\ Grown
      BY <1>1, <1>4, <2>1, MemoryStays
    <2> QED
      BY <1>3, <2>2, WriteOK
  <1> QED
    BY <1>2, <1>5, <1>6, <1>7, <1>8, <1>9

LEMMA StepOK ==
    ASSUME IInv, [Next]_vars
    PROVE  IInv'
  <1>1. CASE UNCHANGED vars
    <2>1. PICK r : r = req
      OBVIOUS
    <2>2. UNCHANGED stores /\ req' = r /\ RequestOK(r) /\ StoresOK
      BY <1>1, <2>1 DEF vars, stores, IInv
    <2> QED
      BY <2>2, ReadStep
  <1>2. CASE RequestStep
    BY <1>2, StartOK, AnswerFromFactsOK, FilteredVectorCandidatesOK, KeywordConversationsOK, HydrateOK,
       GraphCandidatesOK, FactCandidatesOK, RankOK, AnswerSearchOK, AnswerAskOK DEF RequestStep
  <1>3. CASE WriterStep
    BY <1>3, WriterOK
  <1> QED
    BY <1>1, <1>2, <1>3 DEF Next

-----------------------------------------------------------------------------
(* The theorems.                                                            *)

LEMMA Invariance == Spec => []IInv
  <1>1. Init => IInv
    BY InitOK
  <1>2. IInv /\ [Next]_vars => IInv'
    BY StepOK
  <1> QED
    BY <1>1, <1>2, PTL DEF Spec

LEMMA FinishedAnswer ==
    ASSUME IInv, Finished
    PROVE  Answer(req)
  BY DEF IInv, RequestOK, Finished, Requests, Phases, Reading

LEMMA DistinctCount ==
    ASSUME NEW rows \in Seq(Rows), Distinct(rows)
    PROVE  Cardinality({candidate_key(row) : row \in {rows[n] : n \in DOMAIN rows}}) = Len(rows)
  <1>1. PICK T : T = {candidate_key(row) : row \in {rows[n] : n \in DOMAIN rows}}
    OBVIOUS
  <1>2. PICK N : N = Len(rows)
    OBVIOUS
  <1>3. N \in Nat /\ DOMAIN rows = 1 .. N
    BY <1>2
  <1>4. PICK f : f = [n \in 1 .. N |-> candidate_key(rows[n])]
    OBVIOUS
  <1>5. f \in [1 .. N -> T] /\ \A n \in 1 .. N : f[n] = candidate_key(rows[n])
    BY <1>1, <1>3, <1>4
  <1>6. ASSUME NEW t \in T PROVE \E n \in 1 .. N : f[n] = t
    BY <1>1, <1>3, <1>5, <1>6
  <1>7. f \in Surjection(1 .. N, T)
    BY <1>5, <1>6 DEF Surjection
  <1>8. f \in Injection(1 .. N, T)
    BY <1>2, <1>5 DEF Injection, IsInjective, Distinct
  <1>9. IsFiniteSet(1 .. N) /\ Cardinality(1 .. N) = N
    BY <1>3, FS_Interval
  <1>10. Cardinality(T) = N
    BY <1>7, <1>8, <1>9, FS_Surjection
  <1> QED
    BY <1>1, <1>2, <1>10

(* Whatever is saved, reviewed or indexed between the reads of a search or  *)
(* an ask, its answer holds only rows of memories that were, at some moment *)
(* of the request, in the caller's project with the status asked for (or    *)
(* active, for the graph's rows), each of a message the memory has, whole   *)
(* or a window of it, and no candidate key twice: through fusion,           *)
(* reranking, grouping, result modes and budgets, however the numbers of    *)
(* messages and of their windows relate.                                    *)
THEOREM OnlyVisibleRowsShown == Spec => []ShowsOnlyVisible
  <1>1. ASSUME IInv PROVE ShowsOnlyVisible
    <2> SUFFICES ASSUME Finished
                 PROVE  /\ Cardinality({candidate_key(row) : row \in Shown}) = Len(req.rows)
                        /\ \A row \in Shown :
                              ProjectOf[row.id] = Project /\ MessageOf(row) \in 1 .. memory[row.id].size
                        /\ \A row \in AskedFor : <<row.id, req.status>> \in req.was.status
                        /\ \A row \in Shown \ AskedFor :
                              \E s \in {req.status, "active"} : <<row.id, s>> \in req.was.status
      BY DEF ShowsOnlyVisible
    <2>1. Answer(req)
      BY <1>1, FinishedAnswer
    <2>2. PICK rows : rows = req.rows
      OBVIOUS
    <2>3. rows \in Seq(Rows) /\ Distinct(rows)
      BY <2>1, <2>2 DEF Answer
    <2>4. \A row \in Shown : Answered(row, req)
      BY <2>1, <2>2, <2>3 DEF Answer, Shown
    <2>5. Cardinality({candidate_key(row) : row \in Shown}) = Len(req.rows)
      BY <2>2, <2>3, DistinctCount DEF Shown
    <2> QED
      BY <2>4, <2>5 DEF Answered, Held, AskedFor
  <1> QED
    BY <1>1, Invariance, PTL

(* The filters the caller gave hold of every row of the answer that the     *)
(* graph did not bring in, whatever the deterministic plan reads off the    *)
(* question and whatever the planner model proposes.                        *)
THEOREM CallerFiltersHold == Spec => []PlannerOnlyNarrows
  <1>1. ASSUME IInv PROVE PlannerOnlyNarrows
    <2> SUFFICES ASSUME Finished, NEW row \in AskedFor
                 PROVE  conversation_matches_filters(row.conversation, req.explicit)
      BY DEF PlannerOnlyNarrows
    <2>1. Answer(req)
      BY <1>1, FinishedAnswer
    <2>2. Answered(row, req) /\ candidate_key(row) \notin req.graph
      BY <2>1 DEF Answer, Shown, AskedFor
    <2> QED
      BY <2>2 DEF Answered
  <1> QED
    BY <1>1, Invariance, PTL

(* The oversampling loop of _filtered_vector_candidates, undisturbed, stops *)
(* with top_k matches or with all the cap lets it reach, for every top_k,   *)
(* multiplier and cap.                                                      *)
THEOREM OversamplingIsThorough == Spec => []FallbackReachesCap
  <1>1. ASSUME IInv PROVE FallbackReachesCap
    <2>1. PICK q : q = req
      OBVIOUS
    <2> SUFFICES ASSUME q.pc = "keyword", q.quiet
                 PROVE  matching_vector_candidate_count(q.matches, q) >=
                          Min({q.top_k, matching_vector_candidate_count(vector_search(q.named, Cap), q)})
      BY <2>1 DEF FallbackReachesCap
    <2>2. q \in Requests /\ Knows(q) /\ StoresOK
      <3>1. req.pc \in Phases
        BY <2>1 DEF Phases, Reading
      <3> QED
        BY <1>1, <2>1, <3>1, Running DEF IInv
    <2>3. PICK reachable : reachable = vector_search(q.named, Cap)
      OBVIOUS
    <2>4. PICK matches : matches = q.matches
      OBVIOUS
    <2>5. /\ matches = vector_search(q.named, q.k)
          /\ \/ matching_vector_candidate_count(matches, q) >= q.top_k
             \/ Exhausted(matches, q.k) \/ q.k >= Cap
      BY <2>2, <2>4 DEF Knows, Searched
    <2>6. q.k \in Nat /\ q.k <= Cap /\ Cap \in Nat /\ q.top_k \in Nat
      BY <2>2, RetrievalAssumption DEF Requests, Knows
    <2>7. matches \in Seq(Chunks) /\ reachable \in Seq(Chunks)
      BY <2>2, <2>3, <2>5, <2>6, VectorSearchLemma
    <2>8. PICK a : a = matching_vector_candidate_count(matches, q)
      OBVIOUS
    <2>9. PICK b : b = matching_vector_candidate_count(reachable, q)
      OBVIOUS
    <2>10. a \in Nat /\ b \in Nat
      <3>1. ASSUME NEW s \in Seq(Chunks) PROVE matching_vector_candidate_count(s, q) \in Nat
        <4>1. PICK P : P = {n \in DOMAIN s : Admitted(Conversation(s[n][1]), q.status, q.filters)}
          OBVIOUS
        <4>2. Len(s) \in Nat /\ P \in SUBSET (1 .. Len(s))
          BY <4>1
        <4>3. Cardinality(P) \in Nat
          BY <4>2, Positions
        <4> QED
          BY <4>1, <4>3 DEF matching_vector_candidate_count
      <3> QED
        BY <2>7, <2>8, <2>9, <3>1
    <2>11. CASE a >= q.top_k
      BY <2>3, <2>4, <2>6, <2>8, <2>9, <2>10, <2>11, MinOfTwo
    <2>12. CASE Exhausted(matches, q.k) \/ q.k >= Cap
      <3>1. matches = reachable
        <4>1. PICK u : u = Subsequence(Nearest, {n \in DOMAIN Nearest :
                             Nearest[n] \in vectors /\ InScope(Nearest[n], q.named)})
          OBVIOUS
        <4>2. matches = Prefix(u, q.k) /\ reachable = Prefix(u, Cap)
          BY <2>3, <2>5, <4>1 DEF vector_search
        <4>3. u \in Seq(Chunks)
          <5>1. Nearest \in Seq(Chunks)
            BY RetrievalAssumption DEF Chunks, Memories
          <5> QED
            BY <4>1, <5>1, SubsequenceLemma
        <4>4. CASE q.k >= Cap
          BY <2>6, <4>2, <4>4
        <4>5. CASE Exhausted(matches, q.k)
          <5>1. Len(matches) < q.k
            BY <4>5 DEF Exhausted
          <5>2. Len(matches) = IF q.k <= Len(u) THEN q.k ELSE Len(u)
            BY <2>6, <4>2, <4>3, PrefixLemma
          <5>3. Len(u) \in Nat /\ Len(u) <= q.k /\ Len(u) <= Cap
            BY <2>6, <4>3, <5>1, <5>2
          <5>4. matches = u /\ reachable = u
            BY <2>6, <4>2, <4>3, <5>3, PrefixLemma
          <5> QED
            BY <5>4
        <4> QED
          BY <2>12, <4>4, <4>5
      <3>2. a = b
        BY <2>8, <2>9, <3>1
      <3> QED
        BY <2>3, <2>4, <2>6, <2>8, <2>9, <2>10, <3>2, MinOfTwo
    <2> QED
      BY <2>5, <2>8, <2>11, <2>12
  <1> QED
    BY <1>1, Invariance, PTL

(* Whatever the reranker answers, rank_candidate_lists returns every        *)
(* candidate, exact matches before the others; an answer that failed, came  *)
(* late or names an unknown candidate leaves the order without a reranker.  *)
THEOREM RerankingOnlyReorders == Spec => []RerankerOnlyReorders
  <1>1. ASSUME IInv PROVE RerankerOnlyReorders
    <2>1. PICK L : L = Lists(req)
      OBVIOUS
    <2>2. PICK keys : keys = AllKeys(L)
      OBVIOUS
    <2> SUFFICES ASSUME req.pc = "rank", NEW answer \in RerankerAnswers(keys)
                 PROVE  /\ Range(rank_candidate_lists(L, answer)) = keys
                        /\ \A n \in 2 .. Len(rank_candidate_lists(L, answer)) :
                              exact_priority(L, rank_candidate_lists(L, answer)[n - 1])
                                <= exact_priority(L, rank_candidate_lists(L, answer)[n])
                        /\ (answer.alien \/ answer.failure # "none") =>
                              rank_candidate_lists(L, answer) = rank_candidate_lists(L, NoReranker)
      BY <2>1, <2>2 DEF RerankerOnlyReorders
    <2>3. req \in Requests
      <3>1. req.pc \in Phases
        BY DEF Phases
      <3> QED
        BY <1>1, <3>1, Running
    <2>4. L \in RowLists
      BY <2>1, <2>3 DEF Lists, RowLists, Requests
    <2>5. PICK ranked : ranked = rank_candidate_lists(L, answer)
      OBVIOUS
    <2>6. /\ ranked \in Seq(keys)
          /\ \A k \in keys : \E n \in 1 .. Len(ranked) : ranked[n] = k
          /\ \A m, n \in 1 .. Len(ranked) :
                m < n => exact_priority(L, ranked[m]) <= exact_priority(L, ranked[n])
      BY <2>2, <2>4, <2>5, RankedLemma
    <2>7. Range(ranked) = keys
      BY <2>6 DEF Range
    <2>8. ASSUME NEW n \in 2 .. Len(ranked)
          PROVE  exact_priority(L, ranked[n - 1]) <= exact_priority(L, ranked[n])
      <3>1. n - 1 \in 1 .. Len(ranked) /\ n \in 1 .. Len(ranked) /\ n - 1 < n
        BY <2>6
      <3> QED
        BY <2>6, <3>1
    <2>9. ASSUME answer.alien \/ answer.failure # "none"
          PROVE  rank_candidate_lists(L, answer) = rank_candidate_lists(L, NoReranker)
      <3>1. ~reranker_scores(answer)
        BY <2>9 DEF reranker_scores
      <3> QED
        BY <2>4, <3>1, RankWithoutScores
    <2> QED
      BY <2>5, <2>7, <2>8, <2>9
  <1> QED
    BY <1>1, Invariance, PTL

(* An answer from facts alone states one value, from facts each of which    *)
(* was active at some moment of the request, whatever was superseded while  *)
(* it ran.                                                                  *)
THEOREM FactAnswersAreCurrent == Spec => []FactAnswerIsCurrent
  <1>1. ASSUME IInv PROVE FactAnswerIsCurrent
    <2>1. Finished => Answer(req)
      BY <1>1, FinishedAnswer
    <2> QED
      BY <2>1 DEF FactAnswerIsCurrent, Answer, Current
  <1> QED
    BY <1>1, Invariance, PTL

=============================================================================
