---------------------------- MODULE ProxyProofs ----------------------------
(***************************************************************************)
(* Proofs about DelayLine and Proxy for any delay, capacity and sizes.     *)
(*                                                                         *)
(* Every step of a proxied connection is a step of its downstream line or  *)
(* leaves the line alone, so what is proved of the line holds of the       *)
(* proxy.  LInv is the line's inductive invariant: the chunk Deliver       *)
(* holds has served its delay once it is due (Served), and what is         *)
(* accepted and not yet delivered is the chunk in flight followed by the   *)
(* queue, in the order written (InOrder).  After an Abort the chunk in     *)
(* flight is dropped, so InOrder speaks only of a Deliver that has not     *)
(* returned.  BInv counts bytes: queued is what was accepted less what was *)
(* delivered, and a chunk just delivered until it is settled.              *)
(***************************************************************************)
EXTENDS Proxy, Sums

ProducerPcs == {"reading", "pacing", "writing", "parked", "ending", "joining", "returned"}
ConsumerPcs == {"next", "parked", "timer", "due", "sending", "settling", "returned"}
FlightPcs == {"timer", "due", "sending"}

Producer == [pc : ProducerPcs, size : Sizes \union {0}, then : {"more", "eof", "error"}]
Consumer == [pc : ConsumerPcs, chunk : Chunk, residency : 0..MaxAge]
Labels == [id : Nat, size : Nat]

\* The variables' types; that queued is never negative needs its account (BInv).
Typed ==
    /\ queue \in Seq(Chunk) /\ queued \in Int
    /\ closed \in BOOLEAN /\ failed \in BOOLEAN /\ cancelled \in BOOLEAN
    /\ producer \in Producer /\ consumer \in Consumer
    /\ floor \in 0..MaxAge
    /\ written \in Seq(Labels) /\ delivered \in Seq(Labels)

\* A producer with bytes in hand has read them within the bound.
Holding(p) == p.pc \in {"pacing", "writing", "parked"} =>
    p.size \in Sizes /\ Len(written) < MaxChunks

\* A due chunk has waited out the delay, and so has a recorded residency.
Served(c) ==
    /\ c.pc = "due" => c.chunk.age >= Delay
    /\ c.pc = "sending" => c.residency >= Delay

Flight(c) == IF c.pc \in FlightPcs THEN 1 ELSE 0

\* Accepted = delivered, then the chunk in flight, then the queue.
InOrder(c) == c.pc # "returned" =>
    /\ Len(written) = Len(delivered) + Flight(c) + Len(queue)
    /\ c.pc \in FlightPcs => written[Len(delivered) + 1] = Label(c.chunk)
    /\ \A i \in 1..Len(queue) : written[Len(delivered) + Flight(c) + i] = Label(queue[i])

\* The inductive invariant of the line.
LInv ==
    /\ Typed
    /\ Holding(producer)
    /\ Served(consumer)
    /\ InOrder(consumer)
    /\ FloorNotEarly
    /\ queued <= Capacity

(***************************************************************************)
(* The line keeps its invariant.                                           *)
(***************************************************************************)
LEMMA LineStarts == Init => LInv
<1> SUFFICES ASSUME Init PROVE LInv
  OBVIOUS
<1>1. NoChunk \in Chunk
  BY LineAssumption DEF NoChunk, Chunk, MaxAge
<1>2. Typed
  <2>1. producer \in Producer
    BY DEF Init, Producer, ProducerPcs
  <2>2. consumer \in Consumer
    BY <1>1, LineAssumption DEF Init, Consumer, ConsumerPcs, MaxAge
  <2>3. floor \in 0..MaxAge /\ queued \in Int
    BY LineAssumption DEF Init, MaxAge
  <2>4. closed \in BOOLEAN /\ failed \in BOOLEAN /\ cancelled \in BOOLEAN
    BY Zenon DEF Init
  <2>5. queue \in Seq(Chunk) /\ written \in Seq(Labels) /\ delivered \in Seq(Labels)
    BY DEF Init
  <2> QED
    BY <2>1, <2>2, <2>3, <2>4, <2>5 DEF Typed
<1>3. InOrder(consumer)
  <2>1. Len(written) = 0 /\ Len(delivered) = 0 /\ Len(queue) = 0 /\ consumer.pc = "next"
    BY DEF Init
  <2> QED
    BY <2>1 DEF InOrder, Flight, FlightPcs
<1>4. Holding(producer) /\ Served(consumer)
  BY DEF Init, Holding, Served
<1> QED
  BY <1>2, <1>3, <1>4, LineAssumption DEF Init, LInv, FloorNotEarly

\* The consumer differs at most by where it stands, and not by what it holds.
Alike(c, d) ==
    /\ c \in Consumer
    /\ c.chunk = d.chunk /\ c.residency = d.residency
    /\ Flight(c) = Flight(d)
    /\ c.pc # d.pc => c.pc \notin FlightPcs /\ d.pc \notin FlightPcs
    /\ c.pc = "settling" <=> d.pc = "settling"
    /\ c.pc = "returned" <=> d.pc = "returned"

\* A signal moves a parked consumer to its predicate and nothing else.
LEMMA SignalKeeps ==
    ASSUME NEW c \in Consumer
    PROVE  Alike(SignalReady(c), c)
BY DEF Alike, SignalReady, Consumer, ConsumerPcs, Flight, FlightPcs

\* A broadcast moves a parked producer to its predicate and nothing else.
LEMMA BroadcastKeeps ==
    ASSUME NEW p \in Producer, Holding(p)
    PROVE  BroadcastSpace(p) \in Producer /\ Holding(BroadcastSpace(p))
BY DEF BroadcastSpace, Producer, ProducerPcs, Holding

\* A step that keeps the line's content and what the consumer holds.
LEMMA ContentKept ==
    ASSUME LInv, UNCHANGED <<queue, queued, floor, written, delivered>>,
           closed' \in BOOLEAN, failed' \in BOOLEAN, cancelled' \in BOOLEAN,
           producer' \in Producer, Holding(producer'), Alike(consumer', consumer)
    PROVE  LInv'
<1>1. Typed'
  BY DEF LInv, Typed, Alike
<1>2. Holding(producer)'
  BY DEF Holding
<1>3. Served(consumer)'
  BY DEF LInv, Served, Alike, FlightPcs
<1>4. InOrder(consumer)'
  BY DEF LInv, InOrder, Alike, FlightPcs
<1> QED
  BY <1>1, <1>2, <1>3, <1>4 DEF LInv, FloorNotEarly

\* A consumer is alike itself.
LEMMA AlikeSelf == ASSUME NEW c \in Consumer PROVE Alike(c, c)
BY DEF Alike

\* The producer's steps up to its write.
LEMMA ProducerSteps ==
    ASSUME LInv,
           SourceStep \/ Pace \/ writeChunkParks \/ writeChunkFails \/ Join
    PROVE  LInv'
<1>1. Alike(consumer, consumer)
  BY AlikeSelf DEF LInv, Typed
<1>2. producer' \in Producer /\ Holding(producer')
  <2>1. CASE SourceStep
    BY <2>1, LineAssumption DEF LInv, Typed, SourceStep, Read, Producer, ProducerPcs, Holding
  <2>2. CASE Pace
    BY <2>2 DEF LInv, Typed, Pace, Producer, ProducerPcs, Holding
  <2>3. CASE writeChunkParks
    BY <2>3 DEF LInv, Typed, writeChunkParks, Producer, ProducerPcs, Holding
  <2>4. CASE writeChunkFails
    BY <2>4 DEF LInv, Typed, writeChunkFails, Producer, ProducerPcs, Holding
  <2>5. CASE Join
    BY <2>5 DEF LInv, Typed, Join, Producer, ProducerPcs, Holding
  <2> QED
    BY <2>1, <2>2, <2>3, <2>4, <2>5
<1>3. UNCHANGED <<lineVars, consumer, floor, cancelled, history>>
  BY DEF SourceStep, Read, Pace, writeChunkParks, writeChunkFails, Join
<1> QED
  BY <1>1, <1>2, <1>3, ContentKept DEF LInv, Typed, lineVars, history

\* The end of the source: the line is closed or aborted and Deliver signalled.
LEMMA EndSteps ==
    ASSUME LInv, CloseWrite \/ ProducerAbort
    PROVE  LInv'
<1>1. Alike(consumer', consumer)
  BY SignalKeeps DEF LInv, Typed, CloseWrite, ProducerAbort
<1>2. producer' \in Producer /\ Holding(producer')
  BY DEF LInv, Typed, CloseWrite, ProducerAbort, Producer, ProducerPcs, Holding
<1> QED
  BY <1>1, <1>2, ContentKept DEF LInv, Typed, CloseWrite, ProducerAbort, history

\* An accepted chunk joins the queue's tail.
LEMMA WriteStep ==
    ASSUME LInv, writeChunk
    PROVE  LInv'
<1> DEFINE y == Young(producer.size)
<1>1. producer.size \in Sizes /\ producer.size \in Nat /\ Len(written) < MaxChunks
  BY LineAssumption DEF LInv, Holding, writeChunk
<1>2. y \in Chunk /\ Label(y) \in Labels
  BY <1>1, LineAssumption DEF Young, Chunk, MaxAge, Label, Labels, LInv, Typed
<1> HIDE DEF y
<1>3. queue' = Append(queue, y) /\ written' = Append(written, Label(y))
  BY DEF writeChunk, y
<1>4. Alike(consumer', consumer)
  BY SignalKeeps DEF LInv, Typed, writeChunk
<1>5. producer' \in Producer /\ producer'.pc \in {"reading", "ending"}
  BY DEF writeChunk, LInv, Typed, Producer, ProducerPcs
<1>6. Typed'
  BY <1>1, <1>2, <1>3, <1>4, <1>5 DEF LInv, Typed, writeChunk, Alike
<1>7. Served(consumer)'
  BY <1>4 DEF LInv, Served, Alike, FlightPcs
<1>8. InOrder(consumer)'
  <2> SUFFICES ASSUME consumer'.pc # "returned" PROVE InOrder(consumer)'
    BY DEF InOrder
  <2>1. consumer.pc # "returned" /\ Flight(consumer') = Flight(consumer)
    BY <1>4 DEF Alike
  <2>2. Flight(consumer) \in Nat /\ Len(delivered) \in Nat /\ Len(queue) \in Nat
        /\ delivered' = delivered
    BY DEF Flight, LInv, Typed, writeChunk
  <2>3. Len(written) = Len(delivered) + Flight(consumer) + Len(queue)
    BY <2>1 DEF LInv, InOrder
  <2>4. Len(written') = Len(written) + 1 /\ Len(queue') = Len(queue) + 1
    BY <1>2, <1>3 DEF LInv, Typed
  <2>5. ASSUME consumer'.pc \in FlightPcs
        PROVE  written'[Len(delivered') + 1] = Label(consumer'.chunk)
    <3>1. consumer.pc \in FlightPcs /\ consumer'.chunk = consumer.chunk
      BY <1>4, <2>5 DEF Alike
    <3>2. written[Len(delivered) + 1] = Label(consumer.chunk) /\ Flight(consumer) = 1
      BY <3>1, <2>1 DEF LInv, InOrder, Flight
    <3> QED
      BY <3>1, <3>2, <2>2, <2>3, <1>2, <1>3 DEF LInv, Typed
  <2>6. ASSUME NEW i \in 1..Len(queue')
        PROVE  written'[Len(delivered') + Flight(consumer') + i] = Label(queue'[i])
    <3>1. CASE i = Len(queue) + 1
      BY <3>1, <2>1, <2>2, <2>3, <1>2, <1>3 DEF LInv, Typed
    <3>2. CASE i \in 1..Len(queue)
      <4>1. written[Len(delivered) + Flight(consumer) + i] = Label(queue[i])
        BY <3>2, <2>1 DEF LInv, InOrder
      <4>2. Len(delivered) + Flight(consumer) + i \in 1..Len(written)
        BY <3>2, <2>2, <2>3
      <4> QED
        BY <4>1, <4>2, <3>2, <2>1, <2>2, <1>2, <1>3 DEF LInv, Typed
    <3> QED
      BY <3>1, <3>2, <2>2, <2>4
  <2>7. Len(written') = Len(delivered') + Flight(consumer') + Len(queue')
    BY <2>1, <2>2, <2>3, <2>4
  <2> QED
    BY <2>5, <2>6, <2>7 DEF InOrder
<1>9. queued' <= Capacity /\ FloorNotEarly'
  BY DEF writeChunk, HasSpace, LInv, FloorNotEarly
<1> QED
  BY <1>5, <1>6, <1>7, <1>8, <1>9 DEF LInv, Holding

\* Deliver's steps that neither take a chunk nor hand one over.
LEMMA DeliverSteps ==
    ASSUME LInv, nextParks \/ nextReturns \/ TimerFires \/ Release \/ DeliverAbort
    PROVE  LInv'
<1>1. UNCHANGED <<queue, queued, floor, cancelled, history>>
  BY DEF nextParks, nextReturns, TimerFires, Release, DeliverAbort, lineVars
<1>2. closed' \in BOOLEAN /\ failed' \in BOOLEAN
  BY DEF nextParks, nextReturns, TimerFires, Release, DeliverAbort, lineVars, LInv, Typed
<1>3. producer' \in Producer /\ Holding(producer')
  BY BroadcastKeeps
  DEF nextParks, nextReturns, TimerFires, Release, DeliverAbort, LInv, Typed
<1>4. consumer' \in Consumer /\ Served(consumer') /\ InOrder(consumer')
  <2> USE DEF LInv, Typed, Consumer, ConsumerPcs, Served, InOrder, Flight, FlightPcs
  <2>1. CASE nextParks
    BY <2>1 DEF nextParks
  <2>2. CASE nextReturns
    BY <2>2 DEF nextReturns
  <2>3. CASE TimerFires
    BY <2>3 DEF TimerFires
  <2>4. CASE Release
    <3>1. consumer.chunk.age \in 0..MaxAge
      BY DEF Chunk
    <3> QED
      BY <2>4, <3>1 DEF Release
  <2>5. CASE DeliverAbort
    BY <2>5 DEF DeliverAbort
  <2> QED
    BY <2>1, <2>2, <2>3, <2>4, <2>5
<1>5. Typed'
  BY <1>1, <1>2, <1>3, <1>4 DEF Typed, LInv, history
<1>6. Holding(producer)' /\ Served(consumer)' /\ InOrder(consumer)'
  BY <1>1, <1>3, <1>4 DEF Holding, InOrder, Served, history
<1> QED
  BY <1>1, <1>5, <1>6 DEF LInv, FloorNotEarly

\* The chunk in flight is the queue's head.
LEMMA TakeStep ==
    ASSUME LInv, nextChunk
    PROVE  LInv'
<1> DEFINE h == Head(queue)
<1>1. /\ queue # <<>> /\ queue' = Tail(queue) /\ consumer.pc = "next"
      /\ UNCHANGED <<queued, closed, failed, producer, floor, cancelled, history>>
  BY DEF nextChunk
<1>2. h = queue[1] /\ h \in Chunk /\ Len(queue) \in Nat \ {0}
  BY <1>1 DEF LInv, Typed
<1> HIDE DEF h
<1>3. /\ consumer' = [pc |-> IF h.age < Delay THEN "timer" ELSE "due",
                       chunk |-> h, residency |-> 0]
  BY DEF nextChunk, h
<1>4. consumer' \in Consumer /\ Served(consumer') /\ consumer'.pc \in {"timer", "due"}
      /\ consumer'.chunk = h
  BY <1>2, <1>3, LineAssumption DEF Consumer, ConsumerPcs, Served, Chunk, MaxAge
<1>5. queue' \in Seq(Chunk) /\ Len(queue') = Len(queue) - 1
      /\ \A i \in 1..Len(queue') : queue'[i] = queue[i + 1]
  BY <1>1 DEF LInv, Typed
<1>6. Flight(consumer) = 0 /\ Flight(consumer') = 1
  BY <1>1, <1>4 DEF Flight, FlightPcs
<1>7. Len(written) = Len(delivered) + Len(queue)
      /\ \A i \in 1..Len(queue) : written[Len(delivered) + i] = Label(queue[i])
      /\ Len(delivered) \in Nat
  BY <1>1, <1>6 DEF LInv, InOrder, Typed
<1>8. InOrder(consumer)'
  <2>1. Len(written') = Len(delivered') + Flight(consumer') + Len(queue')
    BY <1>1, <1>2, <1>5, <1>6, <1>7 DEF history
  <2>2. written'[Len(delivered') + 1] = Label(consumer'.chunk)
    BY <1>1, <1>2, <1>4, <1>7 DEF history
  <2>3. ASSUME NEW i \in 1..Len(queue')
        PROVE  written'[Len(delivered') + Flight(consumer') + i] = Label(queue'[i])
    <3>1. i + 1 \in 1..Len(queue) /\ queue'[i] = queue[i + 1]
      BY <1>2, <1>5
    <3>2. Len(delivered) + 1 + i = Len(delivered) + (i + 1)
      BY <1>7, <1>5, <1>2
    <3> QED
      BY <3>1, <3>2, <1>1, <1>6, <1>7 DEF history
  <2> QED
    BY <2>1, <2>2, <2>3 DEF InOrder
<1>9. Typed' /\ Holding(producer)' /\ Served(consumer)'
  BY <1>1, <1>4, <1>5 DEF LInv, Typed, Holding, Served, history
<1> QED
  BY <1>1, <1>8, <1>9 DEF LInv, FloorNotEarly

\* The chunk in flight becomes the last one delivered, and its residency is
\* the least observed or leaves the least as it was.
LEMMA SendStep ==
    ASSUME LInv, Send
    PROVE  LInv'
<1>1. /\ consumer.pc = "sending" /\ delivered' = Append(delivered, Label(consumer.chunk))
      /\ UNCHANGED <<queue, queued, closed, failed, producer, cancelled, written>>
  BY DEF Send, lineVars
<1>2. consumer' \in Consumer /\ consumer'.pc = "settling"
  BY DEF Send, LInv, Typed, Consumer, ConsumerPcs
<1>3. consumer.chunk \in Chunk /\ consumer.residency \in 0..MaxAge /\ consumer.residency >= Delay
  BY <1>1 DEF LInv, Typed, Consumer, Served
<1>4. Label(consumer.chunk) \in Labels
  BY <1>3 DEF Label, Labels, Chunk
<1>5. floor' \in 0..MaxAge /\ FloorNotEarly'
  BY <1>3 DEF Send, observe, LInv, FloorNotEarly, Typed
<1>6. delivered' \in Seq(Labels) /\ Len(delivered') = Len(delivered) + 1
  BY <1>1, <1>4 DEF LInv, Typed
<1>7. Flight(consumer) = 1 /\ Flight(consumer') = 0
  BY <1>1, <1>2 DEF Flight, FlightPcs
<1>8. InOrder(consumer)'
  <2>1. Len(written) = Len(delivered) + 1 + Len(queue) /\ Len(delivered) \in Nat /\ Len(queue) \in Nat
        /\ \A i \in 1..Len(queue) : written[Len(delivered) + 1 + i] = Label(queue[i])
    <3>1. Len(delivered) \in Nat /\ Len(queue) \in Nat /\ consumer.pc # "returned"
      BY <1>1 DEF LInv, Typed
    <3> QED
      BY <3>1, <1>7 DEF LInv, InOrder
  <2>2. Len(written') = Len(delivered') + Flight(consumer') + Len(queue')
    BY <2>1, <1>1, <1>6, <1>7
  <2>3. ASSUME NEW i \in 1..Len(queue')
        PROVE  written'[Len(delivered') + Flight(consumer') + i] = Label(queue'[i])
    <3>1. Len(delivered') + Flight(consumer') + i = Len(delivered) + 1 + i
      BY <2>1, <1>1, <1>6, <1>7
    <3> QED
      BY <3>1, <2>1, <1>1
  <2> QED
    BY <2>2, <2>3, <1>2 DEF InOrder, FlightPcs
<1>9. Typed' /\ Holding(producer)' /\ Served(consumer)'
  BY <1>1, <1>2, <1>5, <1>6 DEF LInv, Typed, Holding, Served
<1> QED
  BY <1>1, <1>5, <1>8, <1>9 DEF LInv

\* The delivered chunk's bytes leave the count.
LEMMA SettleStep ==
    ASSUME LInv, Settle
    PROVE  LInv'
<1>1. /\ consumer.pc = "settling"
      /\ UNCHANGED <<queue, closed, failed, floor, cancelled, written, delivered>>
  BY DEF Settle, history
<1>2. consumer' \in Consumer /\ consumer'.pc = "next"
  BY LineAssumption DEF Settle, Consumer, ConsumerPcs, NoChunk, Chunk, MaxAge
<1>3. producer' \in Producer /\ Holding(producer')
  BY BroadcastKeeps DEF Settle, LInv, Typed
<1>4. queued' \in Int /\ queued' <= Capacity
  <2>1. consumer.chunk.size \in Nat
    BY DEF LInv, Typed, Consumer, Chunk
  <2> QED
    BY <2>1, LineAssumption DEF Settle, LInv, Typed
<1>5. Flight(consumer) = 0 /\ Flight(consumer') = 0
  BY <1>1, <1>2 DEF Flight, FlightPcs
<1>6. InOrder(consumer)'
  BY <1>1, <1>2, <1>5 DEF LInv, InOrder, FlightPcs
<1>7. Typed' /\ Holding(producer)' /\ Served(consumer)'
  BY <1>1, <1>2, <1>3, <1>4 DEF LInv, Typed, Holding, Served
<1> QED
  BY <1>1, <1>4, <1>6, <1>7 DEF LInv, FloorNotEarly

\* Time never makes a chunk younger, nor another chunk.
LEMMA OlderKeeps ==
    ASSUME NEW c \in Chunk
    PROVE  Older(c) \in Chunk /\ Label(Older(c)) = Label(c) /\ Older(c).age >= c.age
           /\ Older(c).size = c.size
BY LineAssumption DEF Older, Chunk, Label, MaxAge

\* Time passes: every chunk ages.
LEMMA TickStep ==
    ASSUME LInv, Tick
    PROVE  LInv'
<1>1. UNCHANGED <<queued, closed, failed, producer, floor, cancelled, history>>
  BY DEF Tick
<1>2. queue' \in Seq(Chunk) /\ Len(queue') = Len(queue)
      /\ \A i \in 1..Len(queue) : Label(queue'[i]) = Label(queue[i])
  <2>1. Len(queue) \in Nat /\ DOMAIN queue = 1..Len(queue)
        /\ \A i \in 1..Len(queue) : queue[i] \in Chunk
    BY DEF LInv, Typed
  <2>2. queue' = [i \in 1..Len(queue) |-> Older(queue[i])]
    BY <2>1 DEF Tick
  <2>3. queue' \in [1..Len(queue) -> Chunk]
    BY <2>1, <2>2, OlderKeeps
  <2>4. queue' \in Seq(Chunk) /\ Len(queue') = Len(queue)
    BY <2>1, <2>2, <2>3
  <2> QED
    BY <2>1, <2>2, <2>4, OlderKeeps
<1>3. consumer' \in Consumer /\ Alike(consumer', [consumer EXCEPT !.chunk = consumer'.chunk])
      /\ consumer'.pc = consumer.pc /\ consumer'.residency = consumer.residency
      /\ Label(consumer'.chunk) = Label(consumer.chunk)
      /\ consumer'.chunk.age >= consumer.chunk.age
  <2> DEFINE k == IF consumer.chunk = NoChunk THEN NoChunk ELSE Older(consumer.chunk)
  <2>1. k \in Chunk /\ Label(k) = Label(consumer.chunk) /\ k.age >= consumer.chunk.age
    BY OlderKeeps DEF LInv, Typed, Consumer, NoChunk, Chunk
  <2>2. consumer' = [consumer EXCEPT !.chunk = k]
    BY DEF Tick
  <2> HIDE DEF k
  <2> QED
    BY <2>1, <2>2 DEF LInv, Typed, Consumer, Alike, FlightPcs, Flight
<1>4. Served(consumer)'
  <2>1. consumer.chunk.age \in Int /\ consumer'.chunk.age \in Int
    BY <1>3 DEF LInv, Typed, Consumer, Chunk
  <2> QED
    BY <1>3, <2>1, LineAssumption DEF LInv, Served
<1>5. InOrder(consumer)'
  <2>1. Flight(consumer') = Flight(consumer)
    BY <1>3 DEF Flight
  <2> QED
    BY <1>1, <1>2, <1>3, <2>1 DEF LInv, InOrder, history
<1>6. Typed' /\ Holding(producer)'
  BY <1>1, <1>2, <1>3 DEF LInv, Typed, Holding, history
<1> QED
  BY <1>1, <1>4, <1>5, <1>6 DEF LInv, FloorNotEarly

\* A line that is left alone keeps its invariant.
LEMMA LineAlone ==
    ASSUME LInv, UNCHANGED vars
    PROVE  LInv'
BY DEF LInv, vars, lineVars, history, Typed, Holding, Served, InOrder, FloorNotEarly, Flight

\* Shutdown touches nothing of the line.
LEMMA CancelStep ==
    ASSUME LInv, CancelContext
    PROVE  LInv'
BY DEF CancelContext, LInv, lineVars, history, Typed, Holding, Served, InOrder, FloorNotEarly, Flight

\* Every step of the line keeps the invariant.
LEMMA LineSteps == LInv /\ [Next]_vars => LInv'
<1> SUFFICES ASSUME LInv, [Next]_vars PROVE LInv'
  OBVIOUS
<1>1. CASE SourceStep \/ Pace \/ writeChunkParks \/ writeChunkFails \/ Join
  BY <1>1, ProducerSteps
<1>2. CASE CloseWrite \/ ProducerAbort
  BY <1>2, EndSteps
<1>3. CASE nextParks \/ nextReturns \/ TimerFires \/ Release \/ DeliverAbort
  BY <1>3, DeliverSteps
<1>4. CASE UNCHANGED vars
  BY <1>4, LineAlone
<1> QED
  BY <1>1, <1>2, <1>3, <1>4, WriteStep, TakeStep, SendStep, SettleStep, TickStep, CancelStep
  DEF Next, ProducerStep, ConsumerStep, Done

(***************************************************************************)
(* The byte count is exact.                                                *)
(***************************************************************************)
BytesIn(chunks) == SumFunction([i \in 1..Len(chunks) |-> chunks[i].size])

\* The bytes of a chunk that is delivered and still counted.
Unsettled(c) == IF c.pc = "settling" THEN c.chunk.size ELSE 0

\* What was delivered is the beginning of what was accepted.
PrefixDelivered ==
    /\ Len(delivered) <= Len(written)
    /\ \A i \in 1..Len(delivered) : delivered[i] = written[i]

\* The account of the bytes: nothing is counted twice and nothing is forgotten,
\* through parks, aborts and shutdown.
BInv ==
    /\ PrefixDelivered
    /\ queued = BytesIn(written) - BytesIn(delivered) + Unsettled(consumer)

\* The sizes of a sequence of chunks are a function on its positions.
LEMMA SizesTyped ==
    ASSUME NEW w \in Seq(Labels)
    PROVE  /\ Len(w) \in Nat /\ IsFiniteSet(1..Len(w))
           /\ [i \in 1..Len(w) |-> w[i].size] \in [1..Len(w) -> Nat]
           /\ BytesIn(w) \in Nat
<1>1. Len(w) \in Nat /\ \A i \in 1..Len(w) : w[i].size \in Nat
  <2>1. Len(w) \in Nat /\ \A i \in 1..Len(w) : w[i] \in Labels
    OBVIOUS
  <2>2. \A x \in Labels : x.size \in Nat
    BY DEF Labels
  <2> QED
    BY <2>1, <2>2
<1>2. IsFiniteSet(1..Len(w))
  BY <1>1, FS_Interval
<1>3. [i \in 1..Len(w) |-> w[i].size] \in [1..Len(w) -> Nat]
  BY <1>1
<1> QED
  BY <1>1, <1>2, <1>3, SumTyped DEF BytesIn

\* No chunks, no bytes.
LEMMA NoBytes == BytesIn(<<>>) = 0
<1> DEFINE f == [i \in 1..Len(<<>>) |-> <<>>[i].size]
<1>1. DOMAIN f = {} /\ IsFiniteSet({})
  BY FS_EmptySet
<1> HIDE DEF f
<1>2. SumFunction(f) = 0
  BY <1>1, SumEquation
<1> QED
  BY <1>2 DEF BytesIn, f

\* One chunk more brings its size.
LEMMA BytesAppended ==
    ASSUME NEW w \in Seq(Labels), NEW x \in Labels
    PROVE  BytesIn(Append(w, x)) = BytesIn(w) + x.size
<1> DEFINE n == Len(w)
           D == 1..n
           k == n + 1
           E == 1..Len(Append(w, x))
           f == [i \in D |-> w[i].size]
           v == Append(w, x)
           g == [i \in E |-> v[i].size]
<1>1. n \in Nat /\ IsFiniteSet(D) /\ f \in [D -> Nat]
  BY SizesTyped
<1>2. Len(v) = k /\ v[k] = x /\ (\A i \in D : v[i] = w[i]) /\ v \in Seq(Labels)
  BY <1>1
<1>3. k \notin D /\ E = D \cup {k}
  BY <1>1, <1>2
<1>4. g \in [E -> Nat]
  BY <1>2, SizesTyped
<1>5. g[k] = x.size /\ \A i \in D : g[i] = f[i]
  BY <1>2, <1>3
<1> HIDE DEF n, D, E, k, f, v, g
<1>6. Summable(D, f) /\ Summable(E, g)
  <2>1. IsFiniteSet(E) /\ f \in [D -> Int] /\ g \in [E -> Int]
    BY <1>1, <1>3, <1>4, FS_AddElement
  <2> QED
    BY <1>1, <2>1 DEF Summable
<1>7. SumFunction(g) = SumFunction(f) + g[k]
  BY <1>3, <1>5, <1>6, SumExtended
<1> QED
  BY <1>5, <1>7 DEF BytesIn, n, D, E, f, v, g

\* A beginning has no more bytes than the whole.
LEMMA BytesOfPrefix ==
    ASSUME NEW v \in Seq(Labels), NEW w \in Seq(Labels), Len(v) <= Len(w),
           \A i \in 1..Len(v) : v[i] = w[i]
    PROVE  BytesIn(v) <= BytesIn(w)
<1> DEFINE D == 1..Len(v)
           E == 1..Len(w)
           f == [i \in D |-> v[i].size]
           g == [i \in E |-> w[i].size]
<1>1. /\ IsFiniteSet(D) /\ f \in [D -> Nat] /\ Len(v) \in Nat
      /\ IsFiniteSet(E) /\ g \in [E -> Nat] /\ Len(w) \in Nat
  BY SizesTyped
<1>2. D \subseteq E /\ \A i \in D : f[i] = g[i]
  BY <1>1
<1> HIDE DEF D, E, f, g
<1>3. SumFunction(f) <= SumFunction(g)
  BY <1>1, <1>2, SumPart
<1> QED
  BY <1>3 DEF BytesIn, D, E, f, g

\* A new line counts nothing.
LEMMA BytesStart == Init => BInv
BY NoBytes DEF Init, BInv, PrefixDelivered, Unsettled

\* A step that leaves the content alone and what is still to settle.
LEMMA BytesKept ==
    ASSUME BInv, UNCHANGED <<queued, written, delivered>>, Unsettled(consumer') = Unsettled(consumer)
    PROVE  BInv'
BY DEF BInv, PrefixDelivered

\* Every step keeps the account.
LEMMA BytesStep ==
    ASSUME LInv, BInv, [Next]_vars
    PROVE  BInv'
<1>1. /\ consumer \in Consumer /\ producer \in Producer /\ queue \in Seq(Chunk) /\ queued \in Int
      /\ written \in Seq(Labels) /\ delivered \in Seq(Labels)
      /\ BytesIn(written) \in Nat /\ BytesIn(delivered) \in Nat
  BY SizesTyped DEF LInv, Typed
<1>2. CASE SourceStep \/ Pace \/ writeChunkParks \/ writeChunkFails \/ Join
           \/ CancelContext \/ UNCHANGED vars
  <2>1. UNCHANGED <<queued, written, delivered, consumer>>
    BY <1>2 DEF SourceStep, Read, Pace, writeChunkParks, writeChunkFails, Join, CancelContext,
                vars, lineVars, history
  <2> QED
    BY <2>1, BytesKept
<1>3. CASE CloseWrite \/ ProducerAbort
  <2>1. UNCHANGED <<queued, written, delivered>> /\ consumer' = SignalReady(consumer)
    BY <1>3 DEF CloseWrite, ProducerAbort, history
  <2>2. Unsettled(consumer') = Unsettled(consumer)
    BY <1>1, <2>1, SignalKeeps DEF Alike, Unsettled
  <2> QED
    BY <2>1, <2>2, BytesKept
<1>4. CASE nextParks \/ nextReturns \/ nextChunk \/ TimerFires \/ Release \/ DeliverAbort
  <2>1. UNCHANGED <<queued, written, delivered>>
    BY <1>4 DEF nextParks, nextReturns, nextChunk, TimerFires, Release, DeliverAbort, lineVars, history
  <2>2. consumer.pc # "settling" /\ consumer'.pc # "settling"
    <3> USE <1>1 DEF Consumer, ConsumerPcs
    <3>1. CASE nextParks
      BY <3>1 DEF nextParks
    <3>2. CASE nextReturns
      BY <3>2 DEF nextReturns
    <3>3. CASE nextChunk
      BY <3>3 DEF nextChunk
    <3>4. CASE TimerFires
      BY <3>4 DEF TimerFires
    <3>5. CASE Release
      BY <3>5 DEF Release
    <3>6. CASE DeliverAbort
      BY <3>6 DEF DeliverAbort
    <3> QED
      BY <1>4, <3>1, <3>2, <3>3, <3>4, <3>5, <3>6
  <2> QED
    BY <2>1, <2>2, BytesKept DEF Unsettled
<1>5. CASE writeChunk
  <2> DEFINE x == Label(Young(producer.size))
  <2>1. /\ x \in Labels /\ x.size = producer.size /\ producer.size \in Nat
        /\ written' = Append(written, x) /\ delivered' = delivered
        /\ queued' = queued + producer.size /\ consumer' = SignalReady(consumer)
    <3>1. producer.size \in Nat
      BY <1>5, LineAssumption DEF LInv, Holding, writeChunk
    <3>2. Len(written) \in Nat
      BY <1>1
    <3> QED
      BY <1>5, <3>1, <3>2 DEF writeChunk, Label, Young, Labels
  <2> HIDE DEF x
  <2>2. Unsettled(consumer') = Unsettled(consumer) /\ Unsettled(consumer) \in Nat
    <3>1. consumer.chunk.size \in Nat
      BY <1>1 DEF Consumer, Chunk
    <3> QED
      BY <1>1, <2>1, <3>1, SignalKeeps DEF Alike, Unsettled
  <2>3. BytesIn(written') = BytesIn(written) + producer.size
    BY <1>1, <2>1, BytesAppended
  <2>4. PrefixDelivered'
    <3>1. Len(written') = Len(written) + 1 /\ \A i \in 1..Len(written) : written'[i] = written[i]
      BY <1>1, <2>1
    <3>2. Len(delivered) \in Nat /\ Len(written) \in Nat
      BY <1>1
    <3> QED
      BY <2>1, <3>1, <3>2 DEF BInv, PrefixDelivered
  <2>5. queued' = BytesIn(written') - BytesIn(delivered') + Unsettled(consumer')
    BY <1>1, <2>1, <2>2, <2>3 DEF BInv
  <2> QED
    BY <2>4, <2>5 DEF BInv
<1>6. CASE Send
  <2> DEFINE x == Label(consumer.chunk)
             n == Len(delivered)
  <2>1. /\ consumer.pc = "sending" /\ consumer'.pc = "settling" /\ consumer'.chunk = consumer.chunk
        /\ delivered' = Append(delivered, x) /\ written' = written /\ queued' = queued
    BY <1>1, <1>6 DEF Send, lineVars, Consumer
  <2>2. x \in Labels /\ x.size = consumer.chunk.size /\ x.size \in Nat
    BY <1>1 DEF Consumer, Chunk, Label, Labels
  <2>3. n \in Nat /\ n + 1 <= Len(written) /\ written[n + 1] = x
    <3>1. Len(queue) \in Nat /\ n \in Nat
      BY <1>1
    <3> QED
      BY <2>1, <3>1 DEF LInv, InOrder, Flight, FlightPcs
  <2> HIDE DEF x
  <2>4. BytesIn(delivered') = BytesIn(delivered) + x.size
    BY <1>1, <2>1, <2>2, BytesAppended
  <2>5. Unsettled(consumer) = 0 /\ Unsettled(consumer') = x.size
    BY <2>1, <2>2 DEF Unsettled
  <2>6. PrefixDelivered'
    <3>1. Len(delivered') = n + 1 /\ delivered'[n + 1] = x /\ \A i \in 1..n : delivered'[i] = delivered[i]
      BY <1>1, <2>1, <2>2
    <3>2. \A i \in 1..(n + 1) : i \in 1..n \/ i = n + 1
      BY <2>3
    <3> QED
      BY <2>1, <2>3, <3>1, <3>2 DEF BInv, PrefixDelivered
  <2>7. queued' = BytesIn(written') - BytesIn(delivered') + Unsettled(consumer')
    BY <1>1, <2>1, <2>2, <2>4, <2>5 DEF BInv
  <2> QED
    BY <2>6, <2>7 DEF BInv
<1>7. CASE Settle
  <2>1. /\ consumer.pc = "settling" /\ consumer'.pc = "next"
        /\ queued' = queued - consumer.chunk.size /\ UNCHANGED <<written, delivered>>
    BY <1>7 DEF Settle, history
  <2>2. Unsettled(consumer) = consumer.chunk.size /\ Unsettled(consumer') = 0
        /\ consumer.chunk.size \in Nat
    BY <1>1, <2>1 DEF Unsettled, Consumer, Chunk
  <2>3. queued' = BytesIn(written') - BytesIn(delivered') + Unsettled(consumer')
    BY <1>1, <2>1, <2>2 DEF BInv
  <2> QED
    BY <2>1, <2>3 DEF BInv, PrefixDelivered
<1>8. CASE Tick
  <2>1. UNCHANGED <<queued, written, delivered>>
    BY <1>8 DEF Tick, history
  <2>2. consumer'.pc = consumer.pc /\ consumer'.chunk.size = consumer.chunk.size
    <3> DEFINE k == IF consumer.chunk = NoChunk THEN NoChunk ELSE Older(consumer.chunk)
    <3>1. k.size = consumer.chunk.size
      BY <1>1, OlderKeeps DEF Consumer
    <3>2. consumer' = [consumer EXCEPT !.chunk = k]
      BY <1>8 DEF Tick
    <3> HIDE DEF k
    <3> QED
      BY <1>1, <3>1, <3>2 DEF Consumer
  <2> QED
    BY <2>1, <2>2, BytesKept DEF Unsettled
<1> QED
  BY <1>2, <1>3, <1>4, <1>5, <1>6, <1>7, <1>8 DEF Next, ProducerStep, ConsumerStep, Done

\* What is accepted and not delivered fits the queue, and is never negative.
LEMMA BytesBounded ==
    ASSUME LInv, BInv
    PROVE  /\ BytesIn(written) - BytesIn(delivered) \in 0..Capacity
           /\ queued \in 0..Capacity
<1>1. /\ consumer \in Consumer /\ written \in Seq(Labels) /\ delivered \in Seq(Labels)
      /\ queued <= Capacity /\ Capacity \in Nat
      /\ BytesIn(written) \in Nat /\ BytesIn(delivered) \in Nat
  BY SizesTyped, LineAssumption DEF LInv, Typed
<1>2. BytesIn(delivered) <= BytesIn(written)
  BY <1>1, BytesOfPrefix DEF BInv, PrefixDelivered
<1>3. Unsettled(consumer) \in Nat
  BY <1>1 DEF Unsettled, Consumer, Chunk
<1> QED
  BY <1>1, <1>2, <1>3 DEF BInv

(***************************************************************************)
(* The line implements the lossless pipe: each step is a step of the pipe  *)
(* or leaves it alone.                                                     *)
(***************************************************************************)
\* What the pipe holds: the bytes counted, less a chunk already delivered.
Held(c) == queued - (IF c.pc = "settling" THEN c.chunk.size ELSE 0)
PipeState == IF failed THEN "broken" ELSE IF closed THEN "closed" ELSE "open"

\* A fresh line is an empty open pipe.
LEMMA PipeStarts == Init => Pipe!PipeInit
<1> SUFFICES ASSUME Init PROVE Pipe!PipeInit
  OBVIOUS
<1>1. consumer.pc = "next" /\ queued = 0
  BY DEF Init
<1> QED
  BY <1>1 DEF Init, Pipe!PipeInit

\* A step that keeps the content and what is held can only close or break.
LEMMA PipeEnds ==
    ASSUME written' = written, delivered' = delivered, Held(consumer)' = Held(consumer),
           \/ closed' = closed /\ failed' = failed
           \/ closed' = TRUE /\ failed' = failed
           \/ failed' = TRUE,
           closed \in BOOLEAN, failed \in BOOLEAN
    PROVE  [Pipe!PipeNext]_(Pipe!pipeVars)
<1> USE DEF Held
<1>1. PipeState' = PipeState \/ (PipeState = "open" /\ PipeState' = "closed")
      \/ (PipeState # "broken" /\ PipeState' = "broken")
  BY DEF PipeState
<1> QED
  BY <1>1 DEF PipeState, Pipe!PipeNext, Pipe!pipeVars, Pipe!Close, Pipe!Break

\* An accepted chunk is sent into the pipe.
LEMMA PipeSend ==
    ASSUME LInv, writeChunk
    PROVE  Pipe!PipeNext
<1> DEFINE y == Label(Young(producer.size))
<1>1. producer.size \in Sizes /\ producer.size \in Nat /\ Len(written) < MaxChunks
      /\ Len(written) \in Nat
  BY LineAssumption DEF LInv, Typed, Holding, writeChunk
<1>2. y \in [id : 1..MaxChunks, size : Sizes] /\ y.size = producer.size
  BY <1>1, LineAssumption DEF Young, Label
<1> HIDE DEF y
<1>3. consumer.chunk.size \in Nat /\ queued \in Int /\ consumer \in Consumer
  BY DEF LInv, Typed, Consumer, Chunk
<1>4. Alike(consumer', consumer)
  BY SignalKeeps DEF LInv, Typed, writeChunk
<1>5. (IF consumer'.pc = "settling" THEN consumer'.chunk.size ELSE 0)
      = (IF consumer.pc = "settling" THEN consumer.chunk.size ELSE 0)
  BY <1>4 DEF Alike
<1>6. /\ ~failed /\ ~closed /\ closed' = closed /\ failed' = failed /\ delivered' = delivered
      /\ written' = Append(written, y)
      /\ queued + y.size <= Capacity /\ queued' = queued + y.size
  BY <1>2 DEF writeChunk, HasSpace, y
<1> DEFINE owed == IF consumer.pc = "settling" THEN consumer.chunk.size ELSE 0
<1>7. owed \in Nat /\ owed' = owed /\ y.size \in Nat /\ Capacity \in Nat
  BY <1>1, <1>2, <1>3, <1>5, LineAssumption
<1> HIDE DEF owed
<1>8. (queued - owed) + y.size <= Capacity /\ queued' - owed' = (queued - owed) + y.size
  BY <1>3, <1>6, <1>7
<1>9. Pipe!Send(y)
  BY <1>6, <1>8 DEF Pipe!Send, owed
<1> QED
  BY <1>2, <1>9 DEF Pipe!PipeNext

\* A delivered chunk is the oldest the pipe holds.
LEMMA PipeReceive ==
    ASSUME LInv, Send
    PROVE  Pipe!PipeNext
<1>1. /\ consumer.pc = "sending" /\ delivered' = Append(delivered, Label(consumer.chunk))
      /\ UNCHANGED <<queue, queued, closed, failed, producer, cancelled, written>>
  BY DEF Send, lineVars
<1>2. consumer'.pc = "settling" /\ consumer'.chunk = consumer.chunk
  BY DEF Send, LInv, Typed, Consumer, ConsumerPcs
<1>3. Len(written) = Len(delivered) + 1 + Len(queue) /\ Len(delivered) \in Nat /\ Len(queue) \in Nat
      /\ written[Len(delivered) + 1] = Label(consumer.chunk)
  <2>1. Len(delivered) \in Nat /\ Len(queue) \in Nat /\ consumer.pc # "returned"
        /\ consumer.pc \in FlightPcs
    BY <1>1 DEF LInv, Typed, FlightPcs
  <2> QED
    BY <2>1 DEF LInv, InOrder, Flight
<1>4. Label(consumer.chunk).size = consumer.chunk.size
  BY DEF Label
<1>5. Len(delivered) < Len(written)
  BY <1>3
<1>6. queued \in Int /\ consumer.chunk.size \in Nat
  BY DEF LInv, Typed, Consumer, Chunk
<1>7. Pipe!Receive
  BY <1>1, <1>2, <1>3, <1>4, <1>5, <1>6 DEF Pipe!Receive
<1> QED
  BY <1>7 DEF Pipe!PipeNext

\* Every other step of the line keeps content and holding.
LEMMA PipeSteps ==
    ASSUME LInv, [Next]_vars
    PROVE  [Pipe!PipeNext]_(Pipe!pipeVars)
<1>1. closed \in BOOLEAN /\ failed \in BOOLEAN /\ consumer \in Consumer /\ queued \in Int
      /\ consumer.chunk.size \in Nat
  BY DEF LInv, Typed, Consumer, Chunk
<1>2. CASE writeChunk
  BY <1>2, PipeSend
<1>3. CASE Send
  BY <1>3, PipeReceive
<1>4. CASE \/ SourceStep \/ Pace \/ writeChunkParks \/ writeChunkFails \/ Join
           \/ CancelContext \/ UNCHANGED vars
  <2>1. UNCHANGED <<lineVars, consumer, history>>
    BY <1>4 DEF SourceStep, Read, Pace, writeChunkParks, writeChunkFails, Join, CancelContext,
                vars, lineVars, history
  <2> QED
    BY <1>1, <2>1, PipeEnds DEF lineVars, history, Held
<1>5. CASE CloseWrite \/ ProducerAbort
  <2>1. Alike(consumer', consumer)
    BY <1>5, <1>1, SignalKeeps DEF CloseWrite, ProducerAbort
  <2>2. UNCHANGED <<queued, history>> /\ closed' = TRUE /\ (failed' = failed \/ failed' = TRUE)
    BY <1>5 DEF CloseWrite, ProducerAbort
  <2>3. Held(consumer)' = Held(consumer)
    BY <2>1, <2>2 DEF Held, Alike
  <2> QED
    BY <1>1, <2>2, <2>3, PipeEnds DEF history
<1>6. CASE nextParks \/ nextReturns \/ TimerFires \/ Release \/ DeliverAbort \/ nextChunk
  <2>1. consumer.pc # "settling" /\ consumer'.pc # "settling"
    <3>1. CASE nextParks
      BY <3>1, <1>1 DEF nextParks, Consumer
    <3>2. CASE nextReturns
      BY <3>2, <1>1 DEF nextReturns, Consumer
    <3>3. CASE TimerFires \/ Release
      BY <3>3, <1>1 DEF TimerFires, Release, Consumer
    <3>4. CASE DeliverAbort
      BY <3>4, <1>1 DEF DeliverAbort, Consumer
    <3>5. CASE nextChunk
      BY <3>5 DEF nextChunk
    <3> QED
      BY <1>6, <3>1, <3>2, <3>3, <3>4, <3>5
  <2>2. UNCHANGED <<queued, history>>
        /\ ((closed' = closed /\ failed' = failed) \/ failed' = TRUE)
    BY <1>6 DEF nextParks, nextReturns, TimerFires, Release, DeliverAbort, nextChunk, lineVars
  <2>3. Held(consumer)' = Held(consumer)
    BY <2>1, <2>2 DEF Held
  <2> QED
    BY <1>1, <2>2, <2>3, PipeEnds DEF history
<1>7. CASE Settle
  <2>1. consumer.pc = "settling" /\ consumer'.pc = "next" /\ queued' = queued - consumer.chunk.size
        /\ UNCHANGED <<closed, failed, history>>
    BY <1>7 DEF Settle
  <2>2. Held(consumer)' = Held(consumer)
    BY <1>1, <2>1 DEF Held
  <2> QED
    BY <1>1, <2>1, <2>2, PipeEnds DEF history
<1>8. CASE Tick
  <2>1. UNCHANGED <<queued, closed, failed, history>>
    BY <1>8 DEF Tick
  <2> DEFINE k == IF consumer.chunk = NoChunk THEN NoChunk ELSE Older(consumer.chunk)
  <2>2. k.size = consumer.chunk.size
    BY <1>1, OlderKeeps DEF Consumer
  <2>3. consumer' = [consumer EXCEPT !.chunk = k]
    BY <1>8 DEF Tick
  <2> HIDE DEF k
  <2>4. Held(consumer)' = Held(consumer)
    BY <1>1, <2>1, <2>2, <2>3 DEF Held, Consumer
  <2> QED
    BY <1>1, <2>1, <2>4, PipeEnds DEF history
<1> QED
  BY <1>2, <1>3, <1>4, <1>5, <1>6, <1>7, <1>8 DEF Next, ProducerStep, ConsumerStep, Done

(***************************************************************************)
(* The proxy's downstream direction is a line, and its end is final.       *)
(***************************************************************************)
\* A proxy's step is the line's or leaves the line alone.
LEMMA ProxyStepsLine == ProxyNext => [Next]_vars
BY DEF ProxyNext, SessionStep, Dialled, NotDialled, CloseBoth, ProxyReturns, UpRead, UpStep,
       DeliverStep, UpReadEnds, UpTakes, UpDeliverReturns, UpObserves, UpEnds, ServerStep, UpDelivers, UpDeliveryFails, SourceStep,
       ServerHangsUp, LineStep, ClientCloses, Shutdown, ProxyDone, downVars, allVars, Next

\* Every connection's downstream direction keeps the line's invariant.
THEOREM LineInvariance == ProxySpec => []LInv
<1>1. ProxyInit => LInv
  BY LineStarts DEF ProxyInit
<1>2. LInv /\ [ProxyNext]_allVars => LInv'
  BY ProxyStepsLine, LineSteps DEF allVars, downVars
<1> QED
  BY <1>1, <1>2, PTL DEF ProxySpec

\* No chunk leaves before its delay: the floor the control plane reports for
\* the link is never below the configured one-way delay.
THEOREM NeverEarly == ProxySpec => []FloorNotEarly
<1>1. LInv => FloorNotEarly
  BY DEF LInv
<1> QED
  BY <1>1, LineInvariance, PTL

\* The account of the bytes holds of every connection.
LEMMA BytesInvariance == ProxySpec => []BInv
<1>1. ProxyInit => BInv
  BY BytesStart DEF ProxyInit
<1>2. LInv /\ BInv /\ [ProxyNext]_allVars => BInv'
  BY ProxyStepsLine, BytesStep DEF allVars, downVars
<1> QED
  BY <1>1, <1>2, LineInvariance, PTL DEF ProxySpec

\* queued (DelayLine's counter) is exact whatever parks, aborts and delays
\* happen: the bytes accepted and not yet delivered, and for the moment between the
\* write and the settlement those of the chunk just delivered.  So a
\* line never holds more than its capacity, and never thinks it holds less than nothing.
ByteCountExact ==
    /\ queued = BytesIn(written) - BytesIn(delivered) + Unsettled(consumer)
    /\ BytesIn(written) - BytesIn(delivered) \in 0..Capacity

THEOREM LineCountsBytes == ProxySpec => []ByteCountExact
<1>1. LInv /\ BInv => ByteCountExact
  BY BytesBounded DEF BInv, ByteCountExact
<1> QED
  BY <1>1, LineInvariance, BytesInvariance, PTL

\* The line's variables keep their types, the counter within 0..capacityBytes.
THEOREM LineTypeCorrect == ProxySpec => []TypeOK
<1>1. LInv /\ BInv => TypeOK
  BY BytesBounded DEF LInv, Typed, TypeOK, Producer, ProducerPcs, Consumer, ConsumerPcs
<1> QED
  BY <1>1, LineInvariance, BytesInvariance, PTL

\* The safety half of PipeSpec: whatever parks, aborts, delays and shutdowns
\* happen, what comes out of the line is a prefix of what went in, in order,
\* within the capacity, and a broken or closed line accepts nothing more.
THEOREM LineIsLossless == ProxySpec => Pipe!PipeSafety
<1>1. ProxyInit => Pipe!PipeInit
  BY PipeStarts DEF ProxyInit
<1>2. LInv /\ [ProxyNext]_allVars => [Pipe!PipeNext]_(Pipe!pipeVars)
  BY ProxyStepsLine, PipeSteps DEF allVars, downVars
<1> QED
  BY <1>1, <1>2, LineInvariance, PTL DEF ProxySpec, Pipe!PipeSafety

\* The upstream goroutine's state.
Upstream == [pc : {"none", "reading", "draining", "ended"},
             deliver : {"next", "holding", "counting", "returned"},
             queued : Nat, failed : BOOLEAN, observed : Nat, halfClosed : BOOLEAN]

\* A released connection has no Deliver that can still write or count a command: the
\* upstream goroutine ends only after its Deliver has returned, Abort or not.
Released(s, u) ==
    /\ u \in Upstream
    /\ s = "handshake" => u.pc = "none"
    /\ s = "returned" => u.pc \in {"none", "ended"}
    /\ u.pc = "none" => u.deliver = "next"
    /\ u.pc = "ended" => u.deliver = "returned"

UInv == Released(session, up)

\* UInv is kept by every step of the proxy.
LEMMA UpSteps == UInv /\ [ProxyNext]_allVars => UInv'
<1> SUFFICES ASSUME UInv, [ProxyNext]_allVars PROVE Released(session', up')
  BY DEF UInv
<1> USE DEF UInv, Released, Upstream
<1>1. CASE Dialled
  BY <1>1 DEF Dialled
<1>2. CASE NotDialled \/ CloseBoth \/ ProxyReturns
  BY <1>2 DEF NotDialled, CloseBoth, ProxyReturns
<1>3. CASE UpRead
  <2>1. up.queued + 1 \in Nat
    OBVIOUS
  <2> QED
    BY <1>3, <2>1 DEF UpRead, SocketsClosed
<1>4. CASE UpReadEnds
  <2>1. PICK error \in {TRUE, SocketsClosed} :
          up' = [up EXCEPT !.pc = "draining", !.failed = @ \/ error]
    BY <1>4 DEF UpReadEnds
  <2>2. up.pc = "reading" /\ session' = session
    BY <1>4 DEF UpReadEnds
  <2>3. (up.failed \/ error) \in BOOLEAN
    BY Zenon
  <2> QED
    BY <2>1, <2>2, <2>3
<1>5. CASE UpTakes
  <2> DEFINE n == up.queued - 1
  <2>1. n \in Nat
    BY <1>5 DEF UpTakes
  <2>2. up' = [up EXCEPT !.deliver = "holding", !.queued = n] /\ session' = session
        /\ up.pc \in {"reading", "draining"}
    BY <1>5 DEF UpTakes, Forwarding
  <2> HIDE DEF n
  <2> QED
    BY <2>1, <2>2
<1>6. CASE UpDelivers \/ UpDeliveryFails \/ UpDeliverReturns
  BY <1>6 DEF UpDelivers, UpDeliveryFails, UpDeliverReturns, Forwarding
<1>7. CASE UpObserves
  <2> DEFINE n == up.observed + 1
  <2>1. n \in Nat
    OBVIOUS
  <2>2. PICK refused \in BOOLEAN :
          up' = [up EXCEPT !.deliver = IF refused THEN "returned" ELSE "next",
                           !.failed = @ \/ refused, !.observed = n]
    BY <1>7 DEF UpObserves
  <2>3. session' = session /\ up.pc \in {"reading", "draining"}
    BY <1>7 DEF UpObserves
  <2>4. (up.failed \/ refused) \in BOOLEAN
    BY Zenon
  <2> HIDE DEF n
  <2> QED
    BY <2>1, <2>2, <2>3, <2>4
<1>8. CASE UpEnds
  BY <1>8 DEF UpEnds
<1>9. CASE session' = session /\ up' = up
  BY <1>9
<1> QED
  BY <1>1, <1>2, <1>3, <1>4, <1>5, <1>6, <1>7, <1>8, <1>9
  DEF ProxyNext, SessionStep, UpStep, DeliverStep, ServerStep, ServerHangsUp, LineStep, ClientCloses,
      Shutdown, ProxyDone, proxyVars, allVars

\* UInv holds of every state of a connection.
THEOREM UpInvariance == ProxySpec => []UInv
<1>1. ProxyInit => UInv
  BY DEF ProxyInit, UInv, Released, Upstream
<1> QED
  BY <1>1, UpSteps, PTL DEF ProxySpec

\* The safety half of ActiveWhileUsed: once proxy's deferred release has run,
\* no byte is delivered downstream and none is counted upstream, also when the client
\* failed while Deliver held a chunk.
THEOREM QuietOnceReleased == ProxySpec => [][QuietAfterRelease]_allVars
<1>1. UInv /\ [ProxyNext]_allVars => [QuietAfterRelease]_allVars
  <2> SUFFICES ASSUME UInv, ProxyNext, session = "returned"
               PROVE  delivered' = delivered /\ up'.observed = up.observed
    BY DEF QuietAfterRelease
  <2>1. up.deliver \in {"next", "returned"} /\ up.pc \in {"none", "ended"}
    BY DEF UInv, Released
  <2> QED
    BY <2>1
    DEF ProxyNext, SessionStep, Dialled, NotDialled, CloseBoth, ProxyReturns, UpRead, UpStep,
        DeliverStep, UpReadEnds, UpTakes, UpDeliverReturns, UpObserves, UpEnds, Forwarding, ServerStep, UpDelivers, UpDeliveryFails, ServerHangsUp,
        LineStep, ClientCloses, Shutdown, ProxyDone, CancelContext, proxyVars, downVars, vars, history,
        allVars
<1> QED
  BY <1>1, UpInvariance, PTL DEF ProxySpec
=============================================================================
