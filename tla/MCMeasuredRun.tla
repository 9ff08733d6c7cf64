--------------------------- MODULE MCMeasuredRun ---------------------------
(***************************************************************************)
(* MeasuredRun for TLC.                                                    *)
(***************************************************************************)
EXTENDS MeasuredRun, TLC

Symmetry == Permutations(Leases) \union Permutations(Sources)
=============================================================================
