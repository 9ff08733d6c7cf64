--------------------------- MODULE MCQueueMonitor ---------------------------
(***************************************************************************)
(* QueueMonitor for TLC: every product and both submission modes, with two *)
(* runs where they meet: in the queue, and one after the other.            *)
(***************************************************************************)
EXTENDS QueueMonitor

SmallInputs == {<<"nzbget", "queued", 2>>, <<"weaver", "sequential", 2>>,
                <<"sab", "queued", 1>>, <<"nzbfast", "queued", 1>>, <<"weaver", "queued", 1>>,
                <<"sab", "sequential", 1>>, <<"nzbfast", "sequential", 1>>}
=============================================================================
