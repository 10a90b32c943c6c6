----------------------------- MODULE Retrieval -----------------------------
(***************************************************************************)
(* search and ask (src/memory/ingestion/mvp_ingestion.py) with the query   *)
(* planner (query_planning.py) and the ranking of module Ranking.          *)
(*                                                                         *)
(* One request reads the vector store, the conversations, the graph and    *)
(* the facts one after the other, without a lock and without a             *)
(* transaction, while saves, reviews and repairs go on: every read is a    *)
(* step of its own.  What a writer does is taken from modules Ingestion    *)
(* and DerivedRecords, one action per write a reader can see.              *)
(*                                                                         *)
(* The texts, the distances of the chunks to the query, the project, the   *)
(* owner and the tags of each memory are constants.                        *)
(***************************************************************************)
EXTENDS Ranking

CONSTANTS
    None,
    ProjectOf, OwnerOf, SourceOf, MarksOf, ThreadOf,  \* of each memory
    Says, Quality, At,  \* the fact a memory states, how, and its timestamp
    FactMessages,       \* the messages it was extracted from
    UserSaid,           \* the messages a user wrote
    Nearest,            \* all chunks, the closest to the query first
    Near,               \* those within retrieval_vector_score_threshold
    Project, Owner,     \* the project resolved for the caller, and the caller
    Sources, Marks,     \* filter values; a mark is a tag or the handoff flag
    TopKs, Multiplier,  \* top_k of a request, retrieval_candidate_multiplier
    Cap,                \* _MAX_FILTER_FALLBACK_CANDIDATES
    ListLimit,          \* the keyword and the fact candidate limit
    Budgets, RowTokens, CitationTokens,  \* token budgets of ask, or None
    GraphOn,            \* retrieval_graph_enabled and its quality gate
    MaxWrites           \* bound on the writes during a request

Statuses == {"active", "pending_review", "rejected"}

ASSUME RetrievalAssumption ==
    /\ Nearest \in Seq((DOMAIN Text) \X Nat)
    /\ TopKs \subseteq Nat /\ {Multiplier, Cap, ListLimit, MaxWrites} \subseteq Nat
    /\ None \notin [status : Statuses, size : Nat]

VARIABLES
    memory,   \* memory[m]: status and number of messages, or None
    vectors,  \* the chunks in the vector store
    facts,    \* facts[m]: "none", "active" or "superseded"
    links,    \* the memories some graph relationship was derived from
    req,      \* the request and what it has read
    writes    \* the writes so far

vars == <<memory, vectors, facts, links, req, writes>>
stores == <<memory, vectors, facts, links>>

Memories == DOMAIN Text
Conversation(m) == IF memory[m] = None THEN None
                   ELSE [id |-> m, status |-> memory[m].status, size |-> memory[m].size]
StoredChunks(m) ==
    {<<m, j>> : j \in {n \in DOMAIN Windows[m] : Windows[m][n].message <= memory[m].size}}

-----------------------------------------------------------------------------
(* Query plans: the filters read off the question, those a model proposes,  *)
(* and those the caller gave.                                               *)

Filters == [source : Sources \cup {None}, marks : SUBSET Marks]
NoFilters == [source |-> None, marks |-> {}]

(* What the patterns of _deterministic_plan find in a question.             *)
deterministic_plan == Filters

(* A planner times out, fails, answers something invalid, or proposes.      *)
call_planner == Filters \cup {None}

apply_proposal(base, proposed) ==
    [source |-> IF base.source # None THEN base.source ELSE proposed.source,
     marks |-> base.marks \cup proposed.marks]

(* Mutant: the planned source is kept.                                      *)
PlannedFirst(planned, explicit) ==
    [source |-> IF planned.source # None THEN planned.source ELSE explicit.source,
     marks |-> planned.marks \cup explicit.marks]

merge_explicit_filters(planned, explicit) ==
    [source |-> IF explicit.source # None THEN explicit.source ELSE planned.source,
     marks |-> planned.marks \cup explicit.marks]

plan_retrieval_query(deterministic, proposal, explicit) ==
    merge_explicit_filters(
        IF proposal = None THEN deterministic ELSE apply_proposal(deterministic, proposal),
        explicit)

-----------------------------------------------------------------------------
(* Visibility.                                                              *)

conversation_visible(c, status) ==
    c # None /\ ProjectOf[c.id] = Project /\ c.status = status

conversation_matches_filters(c, filters) ==
    /\ filters.source \in {None, SourceOf[c.id]}
    /\ filters.marks \subseteq MarksOf[c.id]

Admitted(c, status, filters) ==
    conversation_visible(c, status) /\ conversation_matches_filters(c, filters)

(* Mutant: a chunk of the vector store is taken as it comes.                *)
AdmittedByVector(c, status, filters) == conversation_matches_filters(c, filters)

(* Each match of the vector store is checked against the conversation.      *)
AdmittedMatch(c, status, filters) == Admitted(c, status, filters)

-----------------------------------------------------------------------------
(* What the stores answer.                                                  *)

(* Owner and project are the fields a vector store can filter on; the owner *)
(* is pushed down only when the caller named no project.                    *)
InScope(key, named) == ProjectOf[key[1]] = Project /\ (named \/ OwnerOf[key[1]] = Owner)

vector_search(named, k) ==
    Prefix(Subsequence(Nearest, {n \in DOMAIN Nearest :
                                    Nearest[n] \in vectors /\ InScope(Nearest[n], named)}), k)

matching_vector_candidate_count(matches, r) ==
    Cardinality({n \in DOMAIN matches :
                    Admitted(Conversation(matches[n][1]), r.status, r.filters)})

WordsOf(c) == UNION {Text[c.id][i] : i \in 1 .. c.size}

(* Newest first, which is the highest number.                               *)
search_text(words, limit) ==
    Prefix(Sorted({m \in Memories : /\ memory[m] # None
                                    /\ ProjectOf[m] = Project
                                    /\ words \subseteq WordsOf(Conversation(m))},
                  [m \in Memories |-> <<-m>>]), limit)

AdmittedOf(ids, r) == {m \in ids : Admitted(Conversation(m), r.status, r.filters)}

adaptive_candidate_limit(r) ==
    IF r.filters # NoFilters \/ r.status # "active"
    THEN ListLimit
    ELSE Min({ListLimit, r.top_k * Multiplier})

Shared(m) == Cardinality(Query \cap WordsOf(Conversation(m)))

(* When no conversation holds every word, each word is searched for alone.  *)
keyword_conversations(r) ==
    LET limit == adaptive_candidate_limit(r)
        found == search_text(Query, limit)
        all == Subsequence(found, {n \in DOMAIN found : found[n] \in AdmittedOf(Memories, r)})
        expanded == UNION {AdmittedOf(Range(search_text({w}, limit)), r) : w \in Query}
        any == Sorted(expanded, [m \in expanded |-> <<- Shared(m), m>>])
        ids == IF all # <<>> \/ Cardinality(Query) < 2 THEN all ELSE Prefix(any, limit)
    IN  [n \in DOMAIN ids |-> Conversation(ids[n])]

(* The message that shares most words with the query, the first of them.    *)
BestMessage(c, messages) ==
    Sorted(messages, [i \in messages |-> <<- Cardinality(Query \cap Text[c.id][i]), i>>])[1]

MessageRow(c, messages) ==
    [id |-> c.id, chunk |-> BestMessage(c, messages), kind |-> "message", conversation |-> c]
keyword_result_row(c) == MessageRow(c, 1 .. c.size)
RowsOf(cs) == [n \in DOMAIN cs |-> keyword_result_row(cs[n])]

(* Of a fact's messages, if the conversation still has one of them.         *)
SourceMessages(c) ==
    LET own == FactMessages[c.id] \cap (1 .. c.size)
    IN  IF own = {} THEN 1 .. c.size ELSE own

(* Mutant: superseded facts are still offered.                              *)
FactsEver == {m \in Memories : facts[m] # "none" /\ ProjectOf[m] = Project}

(* The facts of the project that no later fact supersedes.                  *)
ActiveFacts == {m \in Memories : facts[m] = "active" /\ ProjectOf[m] = Project}

fact_candidate_rows(r) ==
    LET admitted == AdmittedOf({m \in ActiveFacts : Query \cap WordsOf(Conversation(m)) # {}}, r)
        ids == Prefix(Sorted(admitted, [m \in admitted |-> <<- Shared(m), m>>]),
                      adaptive_candidate_limit(r))
    IN  [n \in DOMAIN ids |-> MessageRow(Conversation(ids[n]), SourceMessages(Conversation(ids[n])))]

(* The caller's own relationships; of each the conversation is retrieved,   *)
(* which must be active, whatever status and filters the request has.       *)
graph_candidate_rows(r) ==
    LET related == {m \in links : /\ ProjectOf[m] = Project /\ OwnerOf[m] = Owner
                                  /\ Query \cap WordsOf(Conversation(m)) # {}}
        first == Prefix(Sorted(related, [m \in related |-> <<m>>]), r.top_k)
        ids == Subsequence(first, {n \in DOMAIN first :
                   conversation_visible(Conversation(first[n]), "active")})
    IN  IF GraphOn THEN RowsOf([n \in DOMAIN ids |-> Conversation(ids[n])]) ELSE <<>>

passes_retrieval_threshold(row) == candidate_key(row) \in Near \/ chunk_keyword_overlap(row) > 0

MatchRow(key) == [id |-> key[1], chunk |-> key[2], kind |-> "window", conversation |-> Conversation(key[1])]

dense_rows(r) ==
    LET kept == Subsequence(r.matches, {n \in DOMAIN r.matches :
                    /\ AdmittedMatch(Conversation(r.matches[n][1]), r.status, r.filters)
                    /\ passes_retrieval_threshold(MatchRow(r.matches[n]))})
    IN  [n \in DOMAIN kept |-> MatchRow(kept[n])]

-----------------------------------------------------------------------------
(* Facts as an answer.                                                      *)

(* The facts of the newest source conversation; more than one value among   *)
(* them is a conflict.                                                      *)
answer_from_facts(r) ==
    LET matching == {m \in ActiveFacts : r.filters = NoFilters
                            \/ conversation_matches_filters(Conversation(m), r.filters)}
        latest == {m \in matching : \A n \in matching : At[n] <= At[m]}
    IN  [facts |-> latest,
         basis |-> IF latest = {} THEN "none"
                   ELSE IF Cardinality({Says[m] : m \in latest}) > 1 THEN "conflict"
                   ELSE "fact_layer"]

Authoritative == {"direct_user_statement", "corrected_by_user"}

fact_answer_fast_path(answer, context) ==
    /\ answer.basis = "fact_layer"
    /\ ~context
    /\ \A m \in answer.facts : Quality[m] \in Authoritative

(* The rows a user wrote are ranked before the others; one that stands for  *)
(* a conversation or a thread names no role.                                *)
arbitrate_fact_and_chunk_evidence(answer, rows, mode, top_k) ==
    LET said(row) == mode = "chunks" /\ <<row.id, MessageOf(row)>> \in UserSaid
        ranked == Prefix(Subsequence(rows, {n \in DOMAIN rows : said(rows[n])})
                         \o Subsequence(rows, {n \in DOMAIN rows : ~said(rows[n])}), top_k)
        direct == {n \in DOMAIN ranked : said(ranked[n])}
        supporting == {n \in direct : \E m \in answer.facts :
                          Says[m] \in TextOf(ranked[n])}
        corrected == \E m \in answer.facts : Quality[m] = "corrected_by_user"
    IN  IF rows = <<>> THEN [facts |-> answer.facts, rows |-> <<>>, basis |-> answer.basis]
        ELSE [facts |-> answer.facts, rows |-> ranked,
              basis |-> IF answer.basis = "conflict"
                              \/ (direct # {} /\ supporting = {} /\ ~corrected)
                        THEN "conflict" ELSE "mixed"]

(* Each row takes RowTokens of the budget, the last one shown what is left; *)
(* a budget that does not exceed the citation's own tokens shows nothing.   *)
select_ask_context(rows, budget) ==
    IF budget = None THEN rows
    ELSE Prefix(rows, Cardinality({n \in DOMAIN rows :
                          budget - (n - 1) * RowTokens > CitationTokens}))

-----------------------------------------------------------------------------
(* A request.  was records what could have been shown at some moment since  *)
(* it began: the conversations with their statuses, and the active facts.   *)

Idle == [pc |-> "idle"]

Witnessed(was) == [status |-> was.status \cup {<<m, memory'[m].status>> :
                                  m \in {n \in Memories : memory'[n] # None}},
                   facts |-> was.facts \cup {m \in Memories : facts'[m] = "active"}]

Now == [status |-> {<<m, memory[m].status>> : m \in {n \in Memories : memory[n] # None}},
        facts |-> {m \in Memories : facts[m] = "active"}]

NoAnswer == [facts |-> {}, basis |-> "none"]

(* The filters are planned once; named says whether the caller named a      *)
(* project, which ask, having resolved it, always does.  "handoff" is ask   *)
(* with the handoff result mode, which leaves the facts alone.              *)
Request(op, status, top_k, named, explicit, filters) ==
    [pc |-> IF op = "ask" THEN "facts" ELSE "vectors",
     op |-> op, status |-> status, top_k |-> top_k, named |-> named \/ op # "search",
     explicit |-> explicit, filters |-> filters,
     k |-> Min({top_k * Multiplier, Cap}), matches |-> <<>>, lexical |-> <<>>,
     dense |-> <<>>, graph |-> <<>>, fact |-> <<>>, ranked |-> <<>>, answer |-> NoAnswer,
     was |-> Now, quiet |-> TRUE]

Start ==
    /\ req.pc = "idle"
    /\ \E op \in {"search", "ask", "handoff"}, status \in {"active", "pending_review"}, top_k \in TopKs,
          named \in BOOLEAN, explicit \in Filters, planned \in deterministic_plan,
          proposal \in call_planner :
        req' = Request(op, status, top_k, named, explicit,
                       plan_retrieval_query(planned, proposal, explicit))
    /\ UNCHANGED <<stores, writes>>

Continue(pc, r) == req' = [r EXCEPT !.pc = pc] /\ UNCHANGED <<stores, writes>>

(* Only the answer of a finished request is of interest.                    *)
Respond(rows, basis, used) ==
    /\ req' = [pc |-> "done", op |-> req.op, status |-> req.status, explicit |-> req.explicit,
               top_k |-> req.top_k, was |-> req.was, graph |-> Keys(req.graph),
               rows |-> rows, basis |-> basis, facts |-> used]
    /\ UNCHANGED <<stores, writes>>

(* ask: facts first; some questions ask for context as well.                *)
AnswerFromFacts ==
    /\ req.pc = "facts"
    /\ \E context \in BOOLEAN :
        LET answer == answer_from_facts(req)
        IN  IF req.status = "active" /\ fact_answer_fast_path(answer, context)
            THEN Respond(<<>>, answer.basis, answer.facts)
            ELSE Continue("vectors", [req EXCEPT !.answer = answer])

(* Mutant: a full page is taken for the last one.                           *)
LastPage(matches, k) == Len(matches) <= k

(* Fewer matches than asked for: the store has no more.                     *)
Exhausted(matches, k) == Len(matches) < k

(* One attempt of _filtered_vector_candidates.  The status is never pushed  *)
(* down, so there is always a residual filter.                              *)
FilteredVectorCandidates ==
    /\ req.pc = "vectors"
    /\ LET matches == vector_search(req.named, req.k)
           enough == matching_vector_candidate_count(matches, req) >= req.top_k
       IN  IF enough \/ Exhausted(matches, req.k) \/ req.k >= Cap
           THEN Continue("keyword", [req EXCEPT !.matches = matches])
           ELSE Continue("vectors", [req EXCEPT !.k = Min({2 * req.k, Cap})])

KeywordConversations ==
    /\ req.pc = "keyword"
    /\ Continue("hydrate", [req EXCEPT !.lexical = RowsOf(keyword_conversations(req))])

Hydrate ==
    /\ req.pc = "hydrate"
    /\ Continue("graph", [req EXCEPT !.dense = dense_rows(req)])

GraphCandidates ==
    /\ req.pc = "graph"
    /\ Continue("fact", [req EXCEPT !.graph = graph_candidate_rows(req)])

(* The last read: only the lists matter from here on.                       *)
FactCandidates ==
    /\ req.pc = "fact"
    /\ Continue("rank", [req EXCEPT !.fact = fact_candidate_rows(req),
                                    !.matches = <<>>, !.k = 0, !.named = TRUE])

Lists(r) == [dense |-> r.dense, lexical |-> r.lexical, fact |-> r.fact, graph |-> r.graph]

Modes == {"chunks", "threads", "conversations"}

apply_result_mode(rows, mode) ==
    CASE mode = "chunks"        -> rows
      [] mode = "threads"       -> FirstOfEach(rows, [n \in DOMAIN rows |-> ThreadOf[rows[n].id]])
      [] mode = "conversations" -> FirstOfEach(rows, [n \in DOMAIN rows |-> rows[n].id])

(* The reranker is called, and its answer is used if it comes in time.      *)
Rank ==
    /\ req.pc = "rank"
    /\ \E reranker \in RerankerAnswers(AllKeys(Lists(req))) :
        LET lists == Lists(req)
        IN  Continue("answer", [req EXCEPT
                !.ranked = group_conversation_results(lists, rank_candidate_lists(lists, reranker)),
                !.dense = <<>>, !.lexical = <<>>, !.fact = <<>>])

Results(r, mode) == Prefix(apply_result_mode(r.ranked, mode), r.top_k)

(* search answers the ranked rows.                                          *)
AnswerSearch ==
    /\ req.pc = "answer" /\ req.op = "search"
    /\ \E mode \in Modes : Respond(Results(req, mode), "search", {})

(* A handoff packet cites the rows that fit its budget.                     *)
AnswerHandoff ==
    /\ req.pc = "answer" /\ req.op = "handoff"
    /\ \E budget \in Budgets :
        Respond(select_ask_context(Results(req, "chunks"), budget), "handoff", {})

(* ask weighs the rows against the facts, if there are any, and fits what   *)
(* it shows to the budget; with no room for a row the facts stand alone.    *)
AnswerAsk ==
    /\ req.pc = "answer" /\ req.op = "ask"
    /\ \E mode \in Modes, budget \in Budgets :
        LET rows == Results(req, mode)
            evidence == arbitrate_fact_and_chunk_evidence(req.answer, rows, mode, req.top_k)
            shown == select_ask_context(evidence.rows, budget)
        IN  IF req.answer.basis # "none" /\ req.status = "active"
            THEN Respond(shown, IF shown = <<>> THEN req.answer.basis ELSE evidence.basis,
                         evidence.facts)
            ELSE IF rows = <<>> THEN Respond(<<>>, "not_found", {})
            ELSE Respond(select_ask_context(rows, budget), "direct_memory", {})

-----------------------------------------------------------------------------
(* Writers, while the request reads.                                        *)

Reading == {"facts", "vectors", "keyword", "hydrate", "graph", "fact"}

Write(m) ==
    /\ req.pc \in Reading
    /\ writes < MaxWrites
    /\ writes' = writes + 1
    /\ req' = [req EXCEPT !.was = Witnessed(@), !.quiet = FALSE]

Save(m) ==
    /\ memory[m] = None
    /\ \E status \in {"active", "pending_review"} :
        memory' = [memory EXCEPT ![m] = [status |-> status, size |-> 1]]
    /\ UNCHANGED <<vectors, facts, links>>
    /\ Write(m)

(* Vectors of a save, of an append, or of a repair, which also indexes a    *)
(* memory that is held.                                                     *)
Index(m) ==
    /\ memory[m] # None
    /\ ~ StoredChunks(m) \subseteq vectors
    /\ vectors' = vectors \cup StoredChunks(m)
    /\ UNCHANGED <<memory, facts, links>>
    /\ Write(m)

AppendMessage(m) ==
    /\ memory[m] # None
    /\ memory[m].status = "active" /\ memory[m].size < Len(Text[m])
    /\ memory' = [memory EXCEPT ![m].size = @ + 1]
    /\ UNCHANGED <<vectors, facts, links>>
    /\ Write(m)

Review(m) ==
    /\ memory[m] # None
    /\ memory[m].status = "pending_review"
    /\ \E status \in {"active", "rejected"} : memory' = [memory EXCEPT ![m].status = status]
    /\ UNCHANGED <<vectors, facts, links>>
    /\ Write(m)

Derive(m) ==
    /\ memory[m] # None
    /\ memory[m].status = "active" /\ facts[m] = "none"
    /\ FactMessages[m] \subseteq 1 .. memory[m].size
    /\ facts' = [facts EXCEPT ![m] = "active"]
    /\ links' = links \cup {m}
    /\ UNCHANGED <<memory, vectors>>
    /\ Write(m)

Supersede(m) ==
    /\ facts[m] = "active"
    /\ facts' = [facts EXCEPT ![m] = "superseded"]
    /\ UNCHANGED <<memory, vectors, links>>
    /\ Write(m)

-----------------------------------------------------------------------------

Foreign == {m \in Memories : ProjectOf[m] # Project}

(* A memory of the project is unsaved, held or active; a held one may have  *)
(* been indexed by a repair, an active one may lack its vectors or facts.   *)
(* The memories of other projects are complete: what a request has to keep  *)
(* out.                                                                     *)
Init ==
    /\ memory \in [Memories -> {None} \cup [status : {"active", "pending_review"}, size : 1 .. MaxRank]]
    /\ \A m \in Memories : memory[m] # None => memory[m].size <= Len(Text[m])
    /\ \A m \in Foreign : memory[m] # None /\ memory[m].status = "active"
    /\ \E indexed \in SUBSET {m \in Memories : memory[m] # None} :
        Foreign \subseteq indexed /\ vectors = UNION {StoredChunks(m) : m \in indexed}
    /\ facts \in [Memories -> {"none", "active", "superseded"}]
    /\ \A m \in Memories : facts[m] # "none" => /\ memory[m] # None /\ memory[m].status = "active"
                                               /\ FactMessages[m] \subseteq 1 .. memory[m].size
    /\ \A m \in Foreign : facts[m] = "active"
    /\ links = {m \in Memories : facts[m] # "none"}
    /\ req = Idle
    /\ writes = 0

RequestStep ==
    \/ Start \/ AnswerFromFacts \/ FilteredVectorCandidates \/ KeywordConversations
    \/ Hydrate \/ GraphCandidates \/ FactCandidates
    \/ Rank \/ AnswerSearch \/ AnswerHandoff \/ AnswerAsk

WriterStep == \E m \in Memories :
    Save(m) \/ Index(m) \/ AppendMessage(m) \/ Review(m) \/ Derive(m) \/ Supersede(m)

Next == RequestStep \/ WriterStep

Spec == Init /\ [][Next]_vars

-----------------------------------------------------------------------------
(* Properties.                                                              *)

Finished == req.pc = "done"
Shown == {req.rows[n] : n \in DOMAIN req.rows}

(* Only the graph list brings in rows that were not asked for.              *)
AskedFor == {row \in Shown : candidate_key(row) \notin req.graph}

(* Whatever is saved, reviewed or indexed while a search or an ask reads    *)
(* its stores, a row is shown only of a memory that at some moment of the   *)
(* request was in the caller's project and, the graph's rows apart, had     *)
(* the status asked for, and what it shows is, or is a window of, a message *)
(* the memory has.  No key is shown twice; a message can be, as a whole and *)
(* as windows, and of two messages with one key only one is.                *)
ShowsOnlyVisible ==
    Finished =>
        /\ Cardinality({candidate_key(row) : row \in Shown}) = Len(req.rows)
        /\ \A row \in Shown : ProjectOf[row.id] = Project /\ MessageOf(row) \in 1 .. memory[row.id].size
        /\ \A row \in AskedFor : <<row.id, req.status>> \in req.was.status
        /\ \A row \in Shown \ AskedFor : \E s \in {req.status, "active"} : <<row.id, s>> \in req.was.status

(* The caller's own filters hold for what is returned (the graph's rows     *)
(* apart), whatever the question's wording suggests and whatever a planner  *)
(* model proposes, be it late, invalid or contradictory.                    *)
PlannerOnlyNarrows ==
    Finished => \A row \in AskedFor :
        conversation_matches_filters(row.conversation, req.explicit)

(* The oversampling loop does not give up early: in a request no write      *)
(* disturbs, either top_k matches are at hand, or every chunk in scope that *)
(* the cap lets it reach was looked at.                                     *)
FallbackReachesCap ==
    (req.pc = "keyword" /\ req.quiet) =>
        LET reachable == vector_search(req.named, Cap)
        IN  matching_vector_candidate_count(req.matches, req) >=
                Min({req.top_k, matching_vector_candidate_count(reachable, req)})

(* A reranker decides nothing but an order: every candidate stays, exact    *)
(* matches stay first, and one that is late, fails or names a candidate it  *)
(* was not given leaves the deterministic order as it is.                   *)
RerankerOnlyReorders ==
    req.pc = "rank" =>
        LET lists == Lists(req)
            keys == AllKeys(lists)
            plain == rank_candidate_lists(lists, NoReranker)
        IN  \A answer \in RerankerAnswers(keys) :
                LET ranked == rank_candidate_lists(lists, answer)
                IN  /\ Range(ranked) = keys
                    /\ \A n \in 2 .. Len(ranked) :
                          exact_priority(lists, ranked[n - 1]) <= exact_priority(lists, ranked[n])
                    /\ (answer.alien \/ answer.failure # "none") =>
                          ranked = plain

(* An answer from facts alone says one thing, and says it from facts that   *)
(* were current at some moment of the request.                              *)
FactAnswerIsCurrent ==
    (Finished /\ req.basis = "fact_layer") =>
        /\ Cardinality({Says[m] : m \in req.facts}) = 1
        /\ req.facts \subseteq req.was.facts

=============================================================================
