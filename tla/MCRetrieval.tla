---------------------------- MODULE MCRetrieval ----------------------------
(* Two memories of the caller's project, one of them another member's, and *)
(* one of another project; the first can grow by a message, and its first  *)
(* message has two windows.                                                *)
EXTENDS Retrieval

MCText == <<<<{"alpha", "leaf"}, {"alpha", "tea"}>>, <<{"alpha", "beta", "milk"}>>, <<{"gamma"}>>>>
Window(i, words) == [message |-> i, text |-> words]
MCWindows == <<<<Window(1, {"leaf"}), Window(1, {"alpha"}), Window(2, {"alpha", "tea"})>>,
               <<Window(1, {"alpha", "beta", "milk"})>>, <<Window(1, {"gamma"})>>>>
MCQuery == {"alpha", "beta"}
MCNamed == {}
MCExactTerms == {"tea"}
MCDistinctive == {"alpha"}
MCWeights == [dense |-> 2, lexical |-> 1, fact |-> 1, graph |-> 1]
MCProjectOf == <<"p", "p", "q">>
MCOwnerOf == <<"me", "you", "me">>
MCSourceOf == <<"codex", "claude", "codex">>
MCMarksOf == <<{"tag"}, {}, {"tag"}>>
MCThreadOf == <<"t1", "t1", "t2">>
MCSays == <<"tea", "milk", "tea">>
MCQuality == <<"direct_user_statement", "corrected_by_user", "assistant_statement">>
MCAt == <<1, 1, 2>>
MCFactMessages == <<{2}, {1}, {1}>>
MCUserSaid == {<<1, 1>>, <<1, 2>>, <<2, 1>>}
MCNearest == <<<<3, 1>>, <<2, 1>>, <<1, 1>>, <<1, 2>>, <<1, 3>>>>
MCNear == {<<3, 1>>, <<2, 1>>, <<1, 1>>}

(* Bound: when a request begins, the other member's memory is not stored or *)
(* all of it is indexed; the caller's own may lack its vectors.             *)
OthersAreIndexed ==
    req.pc = "idle" => memory[2] = None \/ StoredChunks(2) \subseteq vectors
=============================================================================
