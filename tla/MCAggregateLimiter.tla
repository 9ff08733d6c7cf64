------------------------- MODULE MCAggregateLimiter -------------------------
(***************************************************************************)
(* AggregateLimiter for TLC: two relay goroutines on one link.             *)
(***************************************************************************)
EXTENDS AggregateLimiter, TLC

Symmetry == Permutations(Callers)
=============================================================================
