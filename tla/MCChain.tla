------------------------------ MODULE MCChain ------------------------------
(***************************************************************************)
(* Chain for TLC: two sessions of one log directory, one with a plan that  *)
(* keeps its link once and changes it once, one with a single phase.       *)
(***************************************************************************)
EXTENDS Chain, TLC

CONSTANTS s1, s2, slow, fast, d1

TwoPlans == (s1 :> <<slow, slow, fast>>) @@ (s2 :> <<fast>>)
SharedLogDir == [s \in Sessions |-> d1]
=============================================================================
