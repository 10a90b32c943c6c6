------------------------------- MODULE MCLogin -------------------------------
(* Instances of Login for TLC.  Ids are interchangeable.                    *)
EXTENDS Login, TLC

Symmetry == Permutations(Browsers) \cup Permutations(States) \cup Permutations(Sessions)
              \cup Permutations(Tokens) \cup Permutations(Clients)
=============================================================================
