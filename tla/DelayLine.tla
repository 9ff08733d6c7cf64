----------------------------- MODULE DelayLine -----------------------------
(***************************************************************************)
(* One direction of one proxied connection on a delayed link: the relay    *)
(* goroutine that feeds a DelayLine, the Deliver goroutine that drains it, *)
(* and the throughDelayLine call that joins them                           *)
(* (internal/nntpshaper/delay.go and cmd/nntpshaper/main.go).              *)
(*                                                                         *)
(* The condition variables are explicit: a goroutine that finds nothing to *)
(* do parks, and runs again only when some step signals it, so a missing   *)
(* Broadcast is a behaviour of the model.  Time is the age of each chunk,  *)
(* counted up to one unit past its due instant.                            *)
(***************************************************************************)
EXTENDS Integers, Sequences

CONSTANTS
    Sizes,      \* byte counts one source.Read may return
    Capacity,   \* capacityBytes
    Delay,      \* delay, in clock units
    MaxChunks   \* bound: chunks read from the source

\* NewDelayLine refuses a non-positive delay and a queue below one relay chunk.
ASSUME LineAssumption ==
    /\ Delay \in Nat \ {0}
    /\ Capacity \in Nat
    /\ Sizes \subseteq 1..Capacity
    /\ MaxChunks \in Nat

VARIABLES
    queue,      \* l.queue
    queued,     \* l.queued
    closed,     \* l.closed
    failed,     \* l.failed # nil
    producer,   \* relay inside throughDelayLine
    consumer,   \* Deliver
    floor,      \* observer.minResidencyNanos
    cancelled,  \* ctx.Err() # nil
    written,    \* history: chunks the line accepted
    delivered   \* history: chunks the destination took

lineVars == <<queue, queued, closed, failed>>
history == <<written, delivered>>
vars == <<lineVars, producer, consumer, floor, cancelled, history>>

MaxAge == Delay + 1
Young(size) == [id |-> Len(written) + 1, size |-> size, age |-> 0]
Older(c) == [c EXCEPT !.age = IF @ < MaxAge THEN @ + 1 ELSE @]
Label(c) == [id |-> c.id, size |-> c.size]
NoChunk == [id |-> 0, size |-> 0, age |-> 0]

Init ==
    /\ queue = <<>> /\ queued = 0 /\ closed = FALSE /\ failed = FALSE
    /\ producer = [pc |-> "reading", size |-> 0, then |-> "more"]
    /\ consumer = [pc |-> "next", chunk |-> NoChunk, residency |-> 0]
    /\ floor = 0
    /\ cancelled = FALSE
    /\ written = <<>> /\ delivered = <<>>

(***************************************************************************)
(* Signals: a goroutine parked on the condition rechecks its predicate.    *)
(***************************************************************************)
SignalReady(c) == IF c.pc = "parked" THEN [c EXCEPT !.pc = "next"] ELSE c
BroadcastSpace(p) == IF p.pc = "parked" THEN [p EXCEPT !.pc = "writing"] ELSE p

(***************************************************************************)
(* The relay loop.                                                         *)
(***************************************************************************)
\* source.Read returned size bytes, zero bytes with an error, or both.
Read(size, then) ==
    /\ producer.pc = "reading"
    /\ size > 0 => Len(written) < MaxChunks
    /\ size = 0 => then # "more"
    /\ producer' = [pc |-> IF size > 0 THEN "pacing" ELSE "ending", size |-> size, then |-> then]
    /\ UNCHANGED <<lineVars, consumer, floor, cancelled, history>>

\* limiter.WaitN let the chunk through, or ctx ended the wait.
Pace ==
    /\ producer.pc = "pacing"
    /\ \/ producer' = [producer EXCEPT !.pc = "writing"]
       \/ cancelled /\ producer' = [producer EXCEPT !.pc = "ending", !.then = "error"]
    /\ UNCHANGED <<lineVars, consumer, floor, cancelled, history>>

HasSpace == queued + producer.size <= Capacity

writeChunkParks ==
    /\ producer.pc = "writing"
    /\ ~failed /\ ~closed /\ ~HasSpace
    /\ producer' = [producer EXCEPT !.pc = "parked"]
    /\ UNCHANGED <<lineVars, consumer, floor, cancelled, history>>

writeChunkFails ==
    /\ producer.pc = "writing"
    /\ failed \/ closed
    /\ producer' = [producer EXCEPT !.pc = "ending", !.then = "error"]
    /\ UNCHANGED <<lineVars, consumer, floor, cancelled, history>>

writeChunk ==
    /\ producer.pc = "writing"
    /\ ~failed /\ ~closed /\ HasSpace
    /\ queue' = Append(queue, Young(producer.size))
    /\ queued' = queued + producer.size
    /\ written' = Append(written, Label(Young(producer.size)))
    /\ consumer' = SignalReady(consumer)
    /\ producer' = [producer EXCEPT !.pc = IF producer.then = "more" THEN "reading" ELSE "ending"]
    /\ UNCHANGED <<closed, failed, floor, cancelled, delivered>>

\* Mutant: the consumer is not signalled.
CloseWriteSilent ==
    /\ producer.pc = "ending" /\ producer.then = "eof"
    /\ closed' = TRUE
    /\ producer' = [producer EXCEPT !.pc = "joining"]
    /\ UNCHANGED <<queue, queued, failed, consumer, floor, cancelled, history>>

\* throughDelayLine after produce returned EOF.
CloseWrite ==
    /\ producer.pc = "ending" /\ producer.then = "eof"
    /\ closed' = TRUE
    /\ consumer' = SignalReady(consumer)
    /\ producer' = [producer EXCEPT !.pc = "joining"]
    /\ UNCHANGED <<queue, queued, failed, floor, cancelled, history>>

\* throughDelayLine after produce returned any other error.
ProducerAbort ==
    /\ producer.pc = "ending" /\ producer.then = "error"
    /\ failed' = TRUE /\ closed' = TRUE
    /\ consumer' = SignalReady(consumer)
    /\ producer' = [producer EXCEPT !.pc = "joining"]
    /\ UNCHANGED <<queue, queued, floor, cancelled, history>>

\* <-delivered.
Join ==
    /\ producer.pc = "joining" /\ consumer.pc = "returned"
    /\ producer' = [producer EXCEPT !.pc = "returned"]
    /\ UNCHANGED <<lineVars, consumer, floor, cancelled, history>>

(***************************************************************************)
(* Deliver.                                                                *)
(***************************************************************************)
nextParks ==
    /\ consumer.pc = "next"
    /\ queue = <<>> /\ ~closed /\ ~failed
    /\ consumer' = [consumer EXCEPT !.pc = "parked"]
    /\ UNCHANGED <<lineVars, producer, floor, cancelled, history>>

\* Mutant: a closed line is taken for a drained one.
nextReturnsClosed ==
    /\ consumer.pc = "next"
    /\ failed \/ closed
    /\ consumer' = [consumer EXCEPT !.pc = "returned"]
    /\ UNCHANGED <<lineVars, producer, floor, cancelled, history>>

\* Nothing more will come, or the line failed: Deliver returns.
nextReturns ==
    /\ consumer.pc = "next"
    /\ failed \/ (queue = <<>> /\ closed)
    /\ consumer' = [consumer EXCEPT !.pc = "returned"]
    /\ UNCHANGED <<lineVars, producer, floor, cancelled, history>>

\* Pop the head; a chunk not yet due starts a timer.
nextChunk ==
    /\ consumer.pc = "next"
    /\ ~failed /\ queue # <<>>
    /\ queue' = Tail(queue)
    /\ consumer' = [pc |-> IF Head(queue).age < Delay THEN "timer" ELSE "due",
                    chunk |-> Head(queue), residency |-> 0]
    /\ UNCHANGED <<queued, closed, failed, producer, floor, cancelled, history>>

\* Mutant: the timer is one unit short.
TimerFiresEarly ==
    /\ consumer.pc = "timer"
    /\ consumer.chunk.age >= Delay - 1
    /\ consumer' = [consumer EXCEPT !.pc = "due"]
    /\ UNCHANGED <<lineVars, producer, floor, cancelled, history>>

TimerFires ==
    /\ consumer.pc = "timer"
    /\ consumer.chunk.age >= Delay
    /\ consumer' = [consumer EXCEPT !.pc = "due"]
    /\ UNCHANGED <<lineVars, producer, floor, cancelled, history>>

\* Residency is read at release, before the write.
Release ==
    /\ consumer.pc = "due"
    /\ consumer' = [consumer EXCEPT !.pc = "sending", !.residency = consumer.chunk.age]
    /\ UNCHANGED <<lineVars, producer, floor, cancelled, history>>

\* Mutant: a producer waiting for space is not woken.
DeliverAbortSilent ==
    /\ \/ consumer.pc = "timer" /\ cancelled
       \/ consumer.pc = "sending"
    /\ failed' = TRUE /\ closed' = TRUE
    /\ consumer' = [consumer EXCEPT !.pc = "returned"]
    /\ UNCHANGED <<queue, queued, producer, floor, cancelled, history>>

\* Deliver calls Abort: ctx ended the wait, or the destination refused bytes.
DeliverAbort ==
    /\ \/ consumer.pc = "timer" /\ cancelled
       \/ consumer.pc = "sending"
    /\ failed' = TRUE /\ closed' = TRUE
    /\ producer' = BroadcastSpace(producer)
    /\ consumer' = [consumer EXCEPT !.pc = "returned"]
    /\ UNCHANGED <<queue, queued, floor, cancelled, history>>

observe(residency) ==
    IF floor # 0 /\ floor <= residency THEN floor ELSE residency

\* The destination took the chunk and the observer saw its residency.
Send ==
    /\ consumer.pc = "sending"
    /\ delivered' = Append(delivered, Label(consumer.chunk))
    /\ floor' = observe(consumer.residency)
    /\ consumer' = [consumer EXCEPT !.pc = "settling"]
    /\ UNCHANGED <<lineVars, producer, cancelled, written>>

\* The chunk's bytes stop counting against the capacity only now.
Settle ==
    /\ consumer.pc = "settling"
    /\ queued' = queued - consumer.chunk.size
    /\ producer' = BroadcastSpace(producer)
    /\ consumer' = [pc |-> "next", chunk |-> NoChunk, residency |-> 0]
    /\ UNCHANGED <<queue, closed, failed, floor, cancelled, history>>

(***************************************************************************)
(* The environment: time passes, the process is told to shut down.         *)
(***************************************************************************)
Tick ==
    /\ queue' = [i \in DOMAIN queue |-> Older(queue[i])]
    /\ consumer' = [consumer EXCEPT !.chunk = IF consumer.chunk = NoChunk THEN NoChunk ELSE Older(consumer.chunk)]
    /\ UNCHANGED <<queued, closed, failed, producer, floor, cancelled, history>>

CancelContext ==
    /\ ~cancelled
    /\ cancelled' = TRUE
    /\ UNCHANGED <<lineVars, producer, consumer, floor, history>>

SourceStep == \E size \in Sizes \union {0}, then \in {"more", "eof", "error"} : Read(size, then)
ProducerStep ==
    \/ Pace \/ writeChunkParks \/ writeChunkFails \/ writeChunk
    \/ CloseWrite \/ ProducerAbort \/ Join
ConsumerStep ==
    \/ nextParks \/ nextReturns \/ nextChunk \/ TimerFires
    \/ Release \/ DeliverAbort \/ Send \/ Settle

Done == producer.pc = "returned" /\ UNCHANGED vars

Next == SourceStep \/ ProducerStep \/ ConsumerStep \/ Tick \/ CancelContext \/ Done

(***************************************************************************)
(* Properties.                                                             *)
(***************************************************************************)
Chunk == [id : Nat, size : Nat, age : 0..MaxAge]

\* Types; the byte count never exceeds the capacity, whatever sizes arrive.
TypeOK ==
    /\ queue \in Seq(Chunk) /\ queued \in 0..Capacity
    /\ closed \in BOOLEAN /\ failed \in BOOLEAN /\ cancelled \in BOOLEAN
    /\ producer \in [pc : {"reading", "pacing", "writing", "parked", "ending", "joining", "returned"},
                     size : Sizes \union {0}, then : {"more", "eof", "error"}]
    /\ consumer \in [pc : {"next", "parked", "timer", "due", "sending", "settling", "returned"},
                     chunk : Chunk, residency : 0..MaxAge]
    /\ floor \in 0..MaxAge

\* A chunk is never handed over before its delay has passed, so the observed
\* floor the control plane reports is at least the configured delay.
FloorNotEarly == floor # 0 => floor >= Delay

\* The one thing a line waits for without a limit: the destination does not take the
\* chunk it is given, and its socket does not fail.
Stuck == [](consumer.pc = "sending")

\* A producer parked on a full queue is always unblocked, by delivery or Abort, and once
\* the source has ended (or the line failed under a running producer) the call
\* returns: no lost wakeup leaves either goroutine waiting for the other, and only a
\* write that never returns holds them.
PumpReturns ==
    /\ producer.pc = "parked" ~> (producer.pc # "parked" \/ Stuck)
    /\ producer.pc = "ending" ~> (producer.pc = "returned" \/ Stuck)

\* The lossless pipe as the line implements it.
Pipe == INSTANCE LosslessPipe WITH
    Chunks <- [id : 1..MaxChunks, size : Sizes],
    sent <- written,
    received <- delivered,
    held <- queued - (IF consumer.pc = "settling" THEN consumer.chunk.size ELSE 0),
    pipe <- IF failed THEN "broken" ELSE IF closed THEN "closed" ELSE "open"

\* The line implements the lossless pipe: nothing is lost, invented, reordered or accepted
\* beyond the capacity (Write, Deliver, Abort), and what was accepted flows
\* until the line breaks or its destination takes no more.
PipeSpec ==
    /\ Pipe!PipeSafety
    /\ Pipe!PipeFlows \/ <>Stuck
=============================================================================
