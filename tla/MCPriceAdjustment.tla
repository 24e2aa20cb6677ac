--------------------------- MODULE MCPriceAdjustment ---------------------------
(* Small instances of PriceAdjustment.                                      *)
EXTENDS PriceAdjustment, TLC

\* A floor of two decimals and one of three.
MCFloors == {330, 334}

Symmetry == Permutations(Calls) \cup Permutations(Adjustments)
================================================================================
