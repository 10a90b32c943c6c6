--------------------------- MODULE MCOAuthTokens ---------------------------
(* Small instances of the token endpoint.                                   *)
EXTENDS OAuthTokens, TLC

Interchangeable == Permutations(Pairs) \cup Permutations(Families)
                   \cup Permutations(Handlers)
=============================================================================
