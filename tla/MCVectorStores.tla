--------------------------- MODULE MCVectorStores ---------------------------
(* Small instances of the vector stores: three embedding configurations,    *)
(* two of them of the same dimension.                                       *)
EXTENDS VectorStores, TLC

CONSTANTS small, wide, other, m1, m2

MCDimensionOf == (small :> 1) @@ (other :> 1) @@ (wide :> 2)

Interchangeable == Permutations({m1, m2})
=============================================================================
