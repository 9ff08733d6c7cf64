----------------------------- MODULE MCSuiteRun -----------------------------
(***************************************************************************)
(* SuiteRun for TLC: two controllers compete for the storage with one      *)
(* suite each, or one of them has a plan of two suites.                    *)
(***************************************************************************)
EXTENDS SuiteRun, TLC

CONSTANTS c1, c2

P(suites, profile) == [suites |-> suites, profile |-> profile]

SmallPlans == {(c1 :> P(1, "nfs-both")) @@ (c2 :> P(1, "nfs")),
               (c1 :> P(2, "nfs")) @@ (c2 :> P(1, "local"))}
=============================================================================
