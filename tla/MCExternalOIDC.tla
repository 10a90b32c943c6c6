--------------------------- MODULE MCExternalOIDC ---------------------------
(* Instances of ExternalOIDC for TLC.  The first key has a kid; the one     *)
(* that replaces it has another, re-uses it or has none.                    *)
EXTENDS ExternalOIDC, TLC

CONSTANTS k1, k2, k3, k4

MCKidOf == [k \in Keys |-> CASE k \in {k1, k3} -> "a" [] k = k2 -> "b" [] k = k4 -> Absent]

Symmetry == Permutations(Checkers)
=============================================================================
