-------------------------- MODULE AggregateLimiter --------------------------
(***************************************************************************)
(* internal/nntpshaper/limiter.go: the one leaky bucket every downstream   *)
(* connection of an enabled shaper shares.  A relay goroutine reads the    *)
(* clock, reserves send time for one chunk under the mutex, and sleeps     *)
(* until its reservation ends; cancellation abandons the reservation.      *)
(* A disabled limiter (rate 0, or nil on the upstream direction) returns   *)
(* from WaitN at once and is not modelled further.                         *)
(*                                                                         *)
(* Time is integer: one second is Second units, durations are truncated to *)
(* a unit as time.Duration(float) truncates to a nanosecond.  The zero     *)
(* time.Time, far before any clock value, is Never.                        *)
(***************************************************************************)
EXTENDS Integers, Sequences, FiniteSets, Functions

CONSTANTS
    Callers,        \* relay goroutines inside WaitN
    Second,         \* clock units per second
    Rate,           \* rateBytesPerSecond
    BurstBytes,     \* burstBytes
    MaxPacedChunk,  \* maxPacedChunk
    Writes,         \* the byte counts WaitN is called with
    MaxClock,       \* bound: clock
    MaxGrants       \* bound: reservations ever made

ASSUME RateAssumption ==
    /\ {Second, Rate, BurstBytes, MaxPacedChunk} \subseteq Nat \ {0}
    /\ Writes \subseteq Nat \ {0}
ASSUME LimitsAssumption == MaxClock \in Nat /\ MaxGrants \in Nat

VARIABLES
    clock,     \* time.Now
    next,      \* l.next
    caller,    \* per goroutine: where it is in WaitN / waitChunk
    granted,   \* history: the reservations made, in order
    total,     \* history: the send time reserved so far
    released   \* history: the reservations whose chunk was let onto the wire

vars == <<clock, next, caller, granted, total, released>>

\* Mutant: the division comes first.
durationForWholeSeconds(n) == (n \div Rate) * Second

durationFor(n) == (n * Second) \div Rate

BurstDuration == durationFor(BurstBytes)

\* The zero time: earlier than any credit an idle link can have earned.
Never == -BurstDuration - 1

Least(a, b) == IF a < b THEN a ELSE b

\* WaitN's chunk: at most one relay chunk and at most one burst.
Chunk(n) == Least(Least(n, MaxPacedChunk), BurstBytes)

Idle == [pc |-> "idle", left |-> 0, now |-> 0, grant |-> 0]

Init ==
    /\ clock = 0
    /\ next = Never
    /\ caller = [c \in Callers |-> Idle]
    /\ granted = <<>>
    /\ total = 0
    /\ released = {}

Tick ==
    /\ clock < MaxClock
    /\ clock' = clock + 1
    /\ UNCHANGED <<next, caller, granted, total, released>>

\* WaitN with n bytes still to send: waitChunk reads the clock.
Sampled(n) == [pc |-> "sampled", left |-> n, now |-> clock, grant |-> 0]

WaitN(c, n) ==
    /\ caller[c].pc = "idle"
    /\ caller' = [caller EXCEPT ![c] = Sampled(n)]
    /\ UNCHANGED <<clock, next, granted, total, released>>

\* Mutant: earlier reservations are ignored.
ReserveStartAlone(now) == now - BurstDuration

\* An idle link has earned at most one burst: the reservation starts no earlier
\* than a burst before the clock reading, which may be stale by now.
ReserveStart(now) ==
    IF next < now - BurstDuration THEN now - BurstDuration ELSE next

reserveChunkAt(c) ==
    /\ caller[c].pc = "sampled"
    /\ Len(granted) < MaxGrants
    /\ LET n == Chunk(caller[c].left)
           start == ReserveStart(caller[c].now)
           finish == start + durationFor(n)
       IN  /\ next' = finish
           /\ total' = total + durationFor(n)
           /\ granted' = Append(granted, [start |-> start, finish |-> finish, bytes |-> n,
                                          total |-> total + durationFor(n)])
    /\ caller' = [caller EXCEPT ![c].pc = "waiting", ![c].grant = Len(granted) + 1]
    /\ UNCHANGED <<clock, released>>

\* Mutant: a reservation that starts now is not waited out.
waitChunkToStart(c) ==
    /\ caller[c].pc = "waiting"
    /\ clock >= granted[caller[c].grant].start
    /\ released' = released \union {caller[c].grant}
    /\ LET left == caller[c].left - granted[caller[c].grant].bytes
       IN  caller' = [caller EXCEPT ![c] = IF left > 0 THEN Sampled(left) ELSE Idle]
    /\ UNCHANGED <<clock, next, granted, total>>

\* The timer fires no earlier than the end of the reservation; a reservation
\* already over at the clock reading needs no timer.  WaitN then goes on with
\* its next chunk or returns.
waitChunk(c) ==
    /\ caller[c].pc = "waiting"
    /\ clock >= granted[caller[c].grant].finish
    /\ released' = released \union {caller[c].grant}
    /\ LET left == caller[c].left - granted[caller[c].grant].bytes
       IN  caller' = [caller EXCEPT ![c] = IF left > 0 THEN Sampled(left) ELSE Idle]
    /\ UNCHANGED <<clock, next, granted, total>>

\* ctx is done while the timer runs: WaitN returns the error and the bytes are
\* never written, but the send time stays reserved.
Cancel(c) ==
    /\ caller[c].pc = "waiting"
    /\ granted[caller[c].grant].finish > caller[c].now
    /\ caller' = [caller EXCEPT ![c] = Idle]
    /\ UNCHANGED <<clock, next, granted, total, released>>

Next ==
    \/ Tick
    \/ \E c \in Callers :
          \/ \E n \in Writes : WaitN(c, n)
          \/ reserveChunkAt(c)
          \/ waitChunk(c)
          \/ Cancel(c)

Spec == Init /\ [][Next]_vars

(***************************************************************************)
(* Properties.                                                             *)
(***************************************************************************)
Grants == 1..Len(granted)
Grant == [start : Int, finish : Int, bytes : Nat, total : Nat]
Caller == [pc : {"idle", "sampled", "waiting"}, left : Nat, now : Nat, grant : Nat]

\* Types; every waiting goroutine has a reservation and only reservations made
\* are ever let out.
TypeOK ==
    /\ clock \in Nat /\ next \in Int /\ total \in Nat
    /\ granted \in Seq(Grant)
    /\ caller \in [Callers -> Caller]
    /\ \A c \in Callers : caller[c].pc = "waiting" => caller[c].grant \in Grants
    /\ released \subseteq Grants

\* Two reservations never overlap: concurrent connections cannot spend the same
\* stretch of link time, whatever order they read the clock and took the lock.
Disjoint ==
    \A i, j \in Grants : i < j => granted[i].finish <= granted[j].start

\* Work reserved between any two reservations fits in the time between their
\* ends: the burst is earned by idling, never granted twice.
PacedBetween ==
    \A i, j \in Grants : i < j =>
        granted[j].total - granted[i].total <= granted[j].finish - granted[i].finish

\* The rate contract: when a chunk is let onto the wire, all send time reserved
\* up to and including it is at most the time elapsed plus one burst.
RateContract ==
    \A i \in released : granted[i].total <= clock + BurstDuration

\* In bytes: what has been let out exceeds the stated rate plus one burst by
\* less than one clock unit's worth per chunk, the price of truncating every
\* chunk's duration to a whole unit.
BytesPacedUpToTruncation ==
    SumFunction([i \in released |-> granted[i].bytes]) * Second
        <= Rate * (clock + Cardinality(released)) + BurstBytes * Second
=============================================================================
