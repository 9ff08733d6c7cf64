---------------------------- MODULE MCAttestation ----------------------------
(***************************************************************************)
(* Attestation for TLC: two runs' leases, two clients and two connection   *)
(* slots, and one snapshot reader.                                         *)
(***************************************************************************)
EXTENDS Attestation, TLC

Symmetry == Permutations(Leases) \union Permutations(Sources)
                \union Permutations(Conns) \union Permutations(Articles)
==============================================================================
