---------------------------- MODULE LosslessPipe ----------------------------
(***************************************************************************)
(* What one direction of a relayed connection promises, whatever carries   *)
(* it: chunks come out in the order they went in, at most Capacity bytes   *)
(* are in between, and a pipe that was closed and did not break delivers   *)
(* everything it accepted.                                                 *)
(***************************************************************************)
EXTENDS Integers, Sequences

CONSTANTS Chunks,    \* [id, size] records that may be sent
          Capacity   \* bytes the pipe holds

VARIABLES sent, received, held, pipe

pipeVars == <<sent, received, held, pipe>>

PipeInit == sent = <<>> /\ received = <<>> /\ held = 0 /\ pipe = "open"

Send(c) ==
    /\ pipe = "open"
    /\ held + c.size <= Capacity
    /\ held' = held + c.size
    /\ sent' = Append(sent, c)
    /\ UNCHANGED <<received, pipe>>

Receive ==
    /\ Len(received) < Len(sent)
    /\ received' = Append(received, sent[Len(received) + 1])
    /\ held' = held - sent[Len(received) + 1].size
    /\ UNCHANGED <<sent, pipe>>

Close ==
    /\ pipe = "open"
    /\ pipe' = "closed"
    /\ UNCHANGED <<sent, received, held>>

Break ==
    /\ pipe # "broken"
    /\ pipe' = "broken"
    /\ UNCHANGED <<sent, received, held>>

PipeNext == (\E c \in Chunks : Send(c)) \/ Receive \/ Close \/ Break

PipeSafety == PipeInit /\ [][PipeNext]_pipeVars

\* What was accepted comes out, unless the pipe breaks.
PipeFlows == WF_pipeVars(Receive /\ pipe # "broken")
=============================================================================
