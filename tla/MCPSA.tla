------------------------------- MODULE MCPSA -------------------------------
(* Instances of PSA for TLC.                                               *)
EXTENDS Claims, TLC
CONSTANTS c1, c2
Ops21 == (c1 :> 2) @@ (c2 :> 1)
Ops11 == (c1 :> 1) @@ (c2 :> 1)

Symmetry == Permutations(CPUs)
=============================================================================
