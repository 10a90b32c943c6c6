------------------------------ MODULE Ranking ------------------------------
(***************************************************************************)
(* How search orders what it found (src/memory/ingestion/                  *)
(* retrieval_ranking.py and the grouping of mvp_ingestion.py): fusion of   *)
(* the candidate lists by rank, exact matches first, an optional semantic  *)
(* reranker that may be slow, fail or answer nonsense, deterministic       *)
(* boosts, and the grouping by conversation.                               *)
(*                                                                         *)
(* A row is a record with the fields id (the memory), chunk and kind.  A   *)
(* match of the vector store is a window of a message, and chunk is the    *)
(* number of the window in the memory; every other row is a whole message, *)
(* and chunk is the number of the message.  id and chunk are the candidate *)
(* key of either.  Memories are numbered, so that the code's final         *)
(* tie-break by id and chunk is the order of the numbers.  Floating point  *)
(* scores 1 / (k + rank) are the integers Scale / (k + rank).              *)
(***************************************************************************)
EXTENDS Integers, Sequences, FiniteSetsExt

CONSTANTS
    Text,            \* Text[m][i]: the words of message i of memory m
    Windows,         \* Windows[m][j]: the message and the words of chunk j of memory m
    Query,           \* the words of the semantic query
    Named,           \* the memories whose id is part of the query
    ExactTerms,      \* the quoted phrases of the query
    Distinctive,     \* the words of the query that are long or hold a digit
    Weights,         \* the weight of each candidate list
    FusionK,         \* retrieval_rank_fusion_k
    MaxRank,         \* the longest candidate list
    Scale,           \* a common multiple of the denominators k + rank
    RerankerLimit    \* reranker_candidate_limit

ASSUME FusionAssumption ==
    /\ FusionK \in Nat \ {0} /\ MaxRank \in Nat
    /\ Scale \in Nat /\ \A r \in 1 .. MaxRank : Scale % (FusionK + r) = 0
    /\ RerankerLimit \in Nat \ {0}
    /\ Weights \in [dense : Nat, lexical : Nat, fact : Nat, graph : Nat]

ASSUME TextAssumption ==
    /\ DOMAIN Text \subseteq Nat /\ IsFiniteSet(DOMAIN Text)
    /\ IsFiniteSet(Query)
    /\ \A m \in DOMAIN Text : /\ DOMAIN Windows[m] \subseteq Nat
                             /\ \A j \in DOMAIN Windows[m] : Windows[m][j].message \in Nat \ {0}

-----------------------------------------------------------------------------
(* Candidates.                                                             *)

ListNames == <<"dense", "lexical", "fact", "graph">>

candidate_key(row) == <<row.id, row.chunk>>
Keys(rows) == {candidate_key(rows[n]) : n \in DOMAIN rows}
AllKeys(lists) == UNION {Keys(lists[s]) : s \in DOMAIN lists}

MessageOf(row) == IF row.kind = "window" THEN Windows[row.id][row.chunk].message ELSE row.chunk
TextOf(row) == IF row.kind = "window" THEN Windows[row.id][row.chunk].text ELSE Text[row.id][row.chunk]
chunk_keyword_overlap(row) == Cardinality(Query \cap TextOf(row))

(* A later row with the same key, be it of the same message or not, only    *)
(* adds to the score of the first one, and to its boost.                    *)
FirstRank(rows, key) == Min({n \in DOMAIN rows : candidate_key(rows[n]) = key})

RowOf(lists, key) ==
    LET s == CHOOSE n \in DOMAIN ListNames :
                 /\ key \in Keys(lists[ListNames[n]])
                 /\ \A p \in 1 .. (n - 1) : key \notin Keys(lists[ListNames[p]])
        rows == lists[ListNames[s]]
    IN  rows[FirstRank(rows, key)]
KeyText(lists, key) == TextOf(RowOf(lists, key))

RowsWith(rows, key) == {rows[n] : n \in {p \in DOMAIN rows : candidate_key(rows[p]) = key}}
deterministic_ranking_boosts(lists, key) ==
    Max({Min({chunk_keyword_overlap(row), 3}) :
            row \in UNION {RowsWith(lists[s], key) : s \in DOMAIN lists}})

RankScore(rows, weight, key) ==
    IF key \in Keys(rows) THEN weight * (Scale \div (FusionK + FirstRank(rows, key))) ELSE 0

reciprocal_rank_fusion(lists, key) ==
    RankScore(lists.dense, Weights.dense, key) + RankScore(lists.lexical, Weights.lexical, key)
    + RankScore(lists.fact, Weights.fact, key) + RankScore(lists.graph, Weights.graph, key)

-----------------------------------------------------------------------------
(* Sorting a set by a tuple of numbers (Python's sorted with a key).       *)

LexLess(a, b) ==
    \E n \in DOMAIN a : a[n] < b[n] /\ \A p \in 1 .. (n - 1) : a[p] = b[p]

Sorted(S, sortKey) ==
    [n \in 1 .. Cardinality(S) |->
        CHOOSE x \in S :
            Cardinality({y \in S : LexLess(sortKey[y], sortKey[x])}) = n - 1]

(* The rows at some places, in their order.                                *)
Subsequence(rows, places) ==
    LET order == Sorted(places, [n \in places |-> <<n>>])
    IN  [n \in DOMAIN order |-> rows[order[n]]]

Prefix(seq, n) == SubSeq(seq, 1, Min({n, Len(seq)}))

-----------------------------------------------------------------------------
(* Exact matches.                                                          *)

rare_exact_terms(lists) ==
    LET keys == AllKeys(lists)
    IN  {w \in Distinctive : Cardinality({k \in keys : w \in KeyText(lists, k)})
                                <= Max({1, Cardinality(keys) \div 4})}

exact_priority(lists, key) ==
    IF key[1] \in Named THEN 0
    ELSE IF KeyText(lists, key) \cap ExactTerms # {} THEN 1
    ELSE IF KeyText(lists, key) \cap rare_exact_terms(lists) # {} THEN 2
    ELSE 3

exact_ordered(lists) ==
    LET keys == AllKeys(lists)
    IN  Sorted(keys, [k \in keys |-> <<exact_priority(lists, k),
                                       - reciprocal_rank_fusion(lists, k), k[1], k[2]>>])

-----------------------------------------------------------------------------
(* The reranker runs in a thread of its own.  Its answer is a failure, or   *)
(* the candidates it scored high; it may also name a key it was not given.  *)

Failures == {"absent", "timeout", "error"}
RerankerAnswers(keys) ==
    {[failure |-> f, high |-> {}, alien |-> FALSE] : f \in Failures}
    \cup [failure : {"none"}, high : SUBSET keys, alien : BOOLEAN]

NoReranker == [failure |-> "absent", high |-> {}, alien |-> FALSE]

(* Mutant: the scores parsed before the unknown key are kept.               *)
ParsedSoFar(answer) == answer.failure = "none"

reranker_scores(answer) == answer.failure = "none" /\ ~answer.alien

(* All the fused rows are ranked, whether the reranker saw them or not.     *)
RankedKeys(keys, bounded) == keys

rank_candidate_lists(lists, answer) ==
    LET keys == AllKeys(lists)
        bounded == Prefix(exact_ordered(lists), RerankerLimit)
        shown == IF Len(bounded) <= 1 THEN {} ELSE Range(bounded)
        semantic == IF reranker_scores(answer) THEN shown ELSE {}
    IN  Sorted(RankedKeys(keys, Range(bounded)),
               [k \in keys |-> <<exact_priority(lists, k),
                                 IF k \in semantic THEN 0 ELSE 1,
                                 IF k \in semantic \cap answer.high THEN 0 ELSE 1,
                                 - deterministic_ranking_boosts(lists, k),
                                 - reciprocal_rank_fusion(lists, k), k[1], k[2]>>])

-----------------------------------------------------------------------------
(* Rows of one conversation are drawn together when they are at most two    *)
(* places behind the best of them.                                          *)

group_conversation_results(lists, ranked) ==
    LET best(id) == Min({n \in DOMAIN ranked : ranked[n][1] = id})
        grouped(n) == IF n - best(ranked[n][1]) <= 2 THEN best(ranked[n][1]) ELSE n
        order == Sorted(DOMAIN ranked, [n \in DOMAIN ranked |->
                     <<grouped(n), - reciprocal_rank_fusion(lists, ranked[n]),
                       ranked[n][1], ranked[n][2]>>])
    IN  [n \in DOMAIN order |-> RowOf(lists, ranked[order[n]])]

(* One row per group: the first, in the order the groups first appear.      *)
FirstOfEach(rows, group) ==
    Subsequence(rows, {n \in DOMAIN rows : \A p \in 1 .. (n - 1) : group[p] # group[n]})

=============================================================================
