----------------------- MODULE AggregateLimiterProofs -----------------------
(***************************************************************************)
(* The limiter's rate contract for any rate, burst, chunk size and number  *)
(* of connections.  The inductive invariant ties l.next to the work        *)
(* reserved so far: l.next never falls behind total - BurstDuration, and   *)
(* since any earlier reservation it has advanced by at least the work      *)
(* reserved since.  For the contract in bytes Truncated adds what the send *)
(* time of each chunk lost to the clock's resolution.                      *)
(***************************************************************************)
EXTENDS AggregateLimiter, Sums

\* l.next carries all work reserved, less one burst.
Paced ==
    /\ granted = <<>> => total = 0
    /\ granted # <<>> => total <= next + BurstDuration
    /\ \A i \in Grants :
          /\ granted[i].finish <= next
          /\ total - granted[i].total <= next - granted[i].finish
          /\ granted[i].total <= granted[i].finish + BurstDuration

\* A chunk is let out no earlier than the end of its reservation.
ReleasedLate == \A i \in released : granted[i].finish <= clock

\* The inductive invariant.
IInv == TypeOK /\ Paced /\ ReleasedLate /\ Disjoint /\ PacedBetween

\* A chunk's duration is a natural number of clock units.
LEMMA DurationNat ==
    ASSUME NEW n \in Nat
    PROVE  durationFor(n) \in Nat
<1>1. n * Second \in Nat /\ Rate \in Nat \ {0}
  BY RateAssumption
<1> HIDE DEF durationFor
<1>2. ASSUME NEW m \in Nat PROVE m \div Rate \in Nat
  BY <1>1
<1> QED
  BY <1>1, <1>2 DEF durationFor

\* WaitN cuts a positive count into chunks of natural size.
LEMMA ChunkNat ==
    ASSUME NEW n \in Nat
    PROVE  Chunk(n) \in Nat
  BY RateAssumption DEF Chunk, Least

\* The burst is a natural number of clock units.
LEMMA BurstNat == BurstDuration \in Nat
  BY DurationNat, RateAssumption DEF BurstDuration

\* What a reservation in the history is made of.
LEMMA GrantTypes ==
    ASSUME IInv, NEW i \in Grants
    PROVE  /\ granted[i].start \in Int /\ granted[i].finish \in Int
           /\ granted[i].bytes \in Nat /\ granted[i].total \in Nat
<1>1. granted[i] \in Grant
  BY DEF IInv, TypeOK, Grants
<1> QED
  BY <1>1 DEF Grant

\* A new limiter has reserved nothing.
LEMMA InitIInv == Init => IInv
  BY BurstNat DEF Init, IInv, TypeOK, Paced, ReleasedLate, Disjoint, PacedBetween,
                  Grants, Idle, Never, Caller

\* A reservation preserves the invariant: it starts where the last one ended,
\* or later by link time nobody reserved.
LEMMA ReserveIInv ==
    ASSUME IInv, NEW c \in Callers, reserveChunkAt(c)
    PROVE  IInv'
<1> DEFINE d == durationFor(Chunk(caller[c].left))
           start == ReserveStart(caller[c].now)
           g == [start |-> start, finish |-> start + d,
                 bytes |-> Chunk(caller[c].left), total |-> total + d]
<1>0. caller[c].left \in Nat /\ caller[c].now \in Nat
  BY DEF IInv, TypeOK, Caller
<1>1. d \in Nat /\ Chunk(caller[c].left) \in Nat
  BY <1>0, ChunkNat, DurationNat
<1>2. start \in Int /\ start >= next /\ start >= -BurstDuration
  BY <1>0, BurstNat DEF IInv, TypeOK, ReserveStart
<1>3. /\ next' = start + d
      /\ total' = total + d
      /\ granted' = Append(granted, g)
      /\ UNCHANGED <<clock, released>>
  BY DEF reserveChunkAt
<1>4. caller' = [caller EXCEPT ![c].pc = "waiting", ![c].grant = Len(granted) + 1]
  BY DEF reserveChunkAt
<1> HIDE DEF d, start
<1>5. /\ g \in Grant
      /\ g.start = start /\ g.finish = start + d /\ g.total = total + d
  BY <1>1, <1>2 DEF IInv, TypeOK, Grant
<1> HIDE DEF g
<1>6. /\ Len(granted') = Len(granted) + 1
      /\ \A i \in Grants : granted'[i] = granted[i]
      /\ granted'[Len(granted) + 1] = g
      /\ granted' \in Seq(Grant)
  BY <1>3, <1>5 DEF IInv, TypeOK, Grants
<1>7. Grants' = Grants \union {Len(granted) + 1} /\ Len(granted) \in Nat
      /\ Len(granted) + 1 \notin Grants
  BY <1>6 DEF Grants, IInv, TypeOK
<1>8. TypeOK'
  <2>1. clock' \in Nat /\ next' \in Int /\ total' \in Nat
    BY <1>1, <1>2, <1>3 DEF IInv, TypeOK
  <2>2. caller' \in [Callers -> Caller]
    <3>1. caller[c] \in Caller
      BY DEF IInv, TypeOK
    <3>2. ASSUME NEW k \in Nat
          PROVE  [caller[c] EXCEPT !.pc = "waiting", !.grant = k] \in Caller
      BY <3>1 DEF Caller
    <3>3. Len(granted) + 1 \in Nat
      BY <1>7
    <3> QED
      BY <1>4, <3>2, <3>3 DEF IInv, TypeOK
  <2>3. \A b \in Callers : caller'[b].pc = "waiting" => caller'[b].grant \in Grants'
    <3> SUFFICES ASSUME NEW b \in Callers, caller'[b].pc = "waiting"
                 PROVE  caller'[b].grant \in Grants'
      OBVIOUS
    <3>1. CASE b = c
      <4>1. caller'[c].grant = Len(granted) + 1
        BY <1>4 DEF IInv, TypeOK, Caller
      <4> QED
        BY <3>1, <4>1, <1>7
    <3>2. CASE b # c
      BY <3>2, <1>4, <1>7 DEF IInv, TypeOK
    <3> QED
      BY <3>1, <3>2
  <2>4. released' \subseteq Grants'
    BY <1>3, <1>7 DEF IInv, TypeOK
  <2> QED
    BY <2>1, <2>2, <2>3, <2>4, <1>6 DEF TypeOK
<1>9. \A i \in Grants : /\ granted[i].finish \in Int /\ granted[i].start \in Int
                        /\ granted[i].total \in Nat
  BY GrantTypes
<1>10. total' <= next' + BurstDuration
  <2>1. CASE granted = <<>>
    BY <2>1, <1>1, <1>2, <1>3, BurstNat DEF IInv, Paced
  <2>2. CASE granted # <<>>
    BY <2>2, <1>1, <1>2, <1>3, BurstNat DEF IInv, Paced, TypeOK
  <2> QED
    BY <2>1, <2>2
<1>11. Paced'
  <2>1. granted' # <<>>
    BY <1>6, <1>7
  <2>2. ASSUME NEW i \in Grants
        PROVE  /\ granted'[i].finish <= next'
               /\ total' - granted'[i].total <= next' - granted'[i].finish
               /\ granted'[i].total <= granted'[i].finish + BurstDuration
    <3>1. /\ granted[i].finish <= next
          /\ total - granted[i].total <= next - granted[i].finish
          /\ granted[i].total <= granted[i].finish + BurstDuration
      BY DEF IInv, Paced
    <3>2. granted'[i] = granted[i]
      BY <1>6
    <3>3. next \in Int /\ total \in Nat
      BY DEF IInv, TypeOK
    <3>4. /\ granted[i].finish <= start + d
          /\ (total + d) - granted[i].total <= (start + d) - granted[i].finish
      BY <3>1, <3>3, <1>1, <1>2, <1>9
    <3> QED
      BY <3>1, <3>2, <3>4, <1>3
  <2>3. /\ g.finish <= next'
        /\ total' - g.total <= next' - g.finish
        /\ g.total <= g.finish + BurstDuration
    BY <1>1, <1>2, <1>3, <1>5, <1>10, BurstNat DEF IInv, TypeOK
  <2> QED
    BY <2>1, <2>2, <2>3, <1>6, <1>7, <1>10 DEF Paced, BurstDuration
<1>12. ReleasedLate'
  BY <1>3, <1>6 DEF IInv, TypeOK, ReleasedLate
<1>13. \A i \in Grants : /\ granted[i].finish <= g.start
                         /\ g.total - granted[i].total <= g.finish - granted[i].finish
  <2> SUFFICES ASSUME NEW i \in Grants
               PROVE  /\ granted[i].finish <= g.start
                      /\ g.total - granted[i].total <= g.finish - granted[i].finish
    OBVIOUS
  <2>1. /\ granted[i].finish <= next
        /\ total - granted[i].total <= next - granted[i].finish
    BY DEF IInv, Paced
  <2>2. next \in Int /\ total \in Nat
    BY DEF IInv, TypeOK
  <2>3. /\ granted[i].finish <= start
        /\ (total + d) - granted[i].total <= (start + d) - granted[i].finish
    BY <2>1, <2>2, <1>1, <1>2, <1>9
  <2> QED
    BY <2>3, <1>5
<1>14. \A i, j \in Grants' : i < j => i \in Grants
  BY <1>7 DEF Grants
<1>15. Disjoint' /\ PacedBetween'
  BY <1>6, <1>7, <1>13, <1>14 DEF IInv, Disjoint, PacedBetween
<1> QED
  BY <1>8, <1>11, <1>12, <1>15 DEF IInv

\* No other step touches the bucket.
LEMMA OtherIInv ==
    ASSUME IInv, UNCHANGED <<next, granted, total>>, TypeOK', ReleasedLate'
    PROVE  IInv'
  BY DEF IInv, Paced, Disjoint, PacedBetween, Grants, BurstDuration

\* Every step of the limiter preserves the invariant.
LEMMA NextIInv == IInv /\ [Next]_vars => IInv'
<1> SUFFICES ASSUME IInv, [Next]_vars PROVE IInv'
  OBVIOUS
<1> USE DEF TypeOK
<1>0. /\ \A i \in Grants : granted[i].finish \in Int /\ granted[i].bytes \in Nat
      /\ \A i \in released : granted[i].finish \in Int
  BY GrantTypes DEF IInv
<1>1. CASE Tick
  <2>1. TypeOK'
    BY <1>1 DEF Tick, IInv, Grants
  <2>2. ReleasedLate'
    BY <1>0, <1>1 DEF Tick, IInv, ReleasedLate
  <2> QED
    BY <1>1, <2>1, <2>2, OtherIInv DEF Tick
<1>2. ASSUME NEW c \in Callers, NEW n \in Writes, WaitN(c, n) PROVE IInv'
  <2>1. TypeOK'
    BY <1>2, RateAssumption DEF WaitN, Sampled, IInv, Grants, Caller
  <2>2. ReleasedLate'
    BY <1>2 DEF WaitN, IInv, ReleasedLate
  <2> QED
    BY <1>2, <2>1, <2>2, OtherIInv DEF WaitN
<1>3. ASSUME NEW c \in Callers, reserveChunkAt(c) PROVE IInv'
  BY <1>3, ReserveIInv
<1>4. ASSUME NEW c \in Callers, waitChunk(c) PROVE IInv'
  <2>0. caller[c].grant \in Grants
    BY <1>4 DEF waitChunk, IInv
  <2> DEFINE left == caller[c].left - granted[caller[c].grant].bytes
             after == IF left > 0 THEN Sampled(left) ELSE Idle
  <2>3. left \in Int
    BY <1>0, <2>0 DEF IInv, Caller
  <2>4. after \in Caller /\ after.pc # "waiting"
    BY <2>3 DEF Sampled, Idle, IInv, Caller
  <2>5. /\ caller' = [caller EXCEPT ![c] = after]
        /\ released' = released \union {caller[c].grant}
        /\ UNCHANGED <<clock, next, granted, total>>
    BY <1>4 DEF waitChunk
  <2> HIDE DEF after
  <2>1. TypeOK'
    BY <2>0, <2>4, <2>5 DEF IInv, Grants
  <2>2. ReleasedLate'
    BY <1>4, <2>0 DEF waitChunk, IInv, ReleasedLate
  <2> QED
    BY <1>4, <2>1, <2>2, OtherIInv DEF waitChunk
<1>5. ASSUME NEW c \in Callers, Cancel(c) PROVE IInv'
  <2>1. TypeOK'
    BY <1>5 DEF Cancel, Idle, IInv, Grants, Caller
  <2>2. ReleasedLate'
    BY <1>5 DEF Cancel, IInv, ReleasedLate
  <2> QED
    BY <1>5, <2>1, <2>2, OtherIInv DEF Cancel
<1>6. CASE UNCHANGED vars
  <2>1. TypeOK' /\ ReleasedLate'
    BY <1>6 DEF vars, IInv, ReleasedLate, Grants
  <2> QED
    BY <1>6, <2>1, OtherIInv DEF vars
<1> QED
  BY <1>1, <1>2, <1>3, <1>4, <1>5, <1>6 DEF Next

\* The limiter's inductive invariant always holds.
THEOREM Invariance == Spec => []IInv
<1> QED
  BY InitIInv, NextIInv, PTL DEF Spec

\* Types hold in every reachable state.
THEOREM TypeCorrect == Spec => []TypeOK
<1>1. IInv => TypeOK
  BY DEF IInv
<1> QED
  BY <1>1, Invariance, PTL

\* Concurrent connections never share link time.
THEOREM ReservationsDisjoint == Spec => []Disjoint
<1>1. IInv => Disjoint
  BY DEF IInv
<1> QED
  BY <1>1, Invariance, PTL

\* The burst is earned by idling and never granted twice.
THEOREM ReservationsPaced == Spec => []PacedBetween
<1>1. IInv => PacedBetween
  BY DEF IInv
<1> QED
  BY <1>1, Invariance, PTL

\* A chunk let out has waited for its reservation to end, and no reservation
\* ends more than a burst ahead of the work reserved.
LEMMA RateContractState == IInv => RateContract
<1> SUFFICES ASSUME IInv, NEW i \in released
             PROVE  granted[i].total <= clock + BurstDuration
  BY DEF RateContract
<1>1. i \in Grants /\ granted[i].finish <= clock
  BY DEF IInv, TypeOK, ReleasedLate
<1>2. granted[i].total <= granted[i].finish + BurstDuration
  BY <1>1 DEF IInv, Paced
<1>3. granted[i].finish \in Int /\ granted[i].total \in Nat /\ clock \in Nat
  BY <1>1, GrantTypes DEF IInv, TypeOK
<1> QED
  BY <1>1, <1>2, <1>3, BurstNat

\* The aggregate rate contract.
THEOREM RateContractHolds == Spec => []RateContract
<1> QED
  BY RateContractState, Invariance, PTL

(***************************************************************************)
(* The contract in bytes.                                                  *)
(***************************************************************************)
\* The send time reserved by the first k reservations of a record of them.
ReservedBy(record, k) == IF k = 0 THEN 0 ELSE record[k].total

Reserved(k) == ReservedBy(granted, k)

\* Truncating its duration gives a chunk less than one clock unit for free.
Truncated ==
    /\ total = Reserved(Len(granted))
    /\ \A i \in Grants :
          /\ Reserved(i - 1) <= Reserved(i)
          /\ granted[i].bytes * Second <= Rate * (Reserved(i) - Reserved(i - 1) + 1)

\* What division does to a duration.
LEMMA DurationTruncates ==
    ASSUME NEW n \in Nat
    PROVE  /\ n * Second <= Rate * (durationFor(n) + 1)
           /\ Rate * durationFor(n) <= n * Second
<1> DEFINE a == n * Second
<1>1. a \in Nat /\ Rate \in Nat \ {0}
  BY RateAssumption
<1>2. durationFor(n) = a \div Rate
  BY DEF durationFor
<1> HIDE DEF a
<1>3. a <= Rate * ((a \div Rate) + 1) /\ Rate * (a \div Rate) <= a
  BY <1>1
<1> QED
  BY <1>2, <1>3 DEF a

\* A limiter that has reserved nothing.
LEMMA TruncatedInit == Init => Truncated
  BY DEF Init, Truncated, Reserved, ReservedBy, Grants

\* A reservation adds its own duration to what the earlier ones reserved.
LEMMA ReserveTruncated ==
    ASSUME IInv, Truncated, NEW c \in Callers, reserveChunkAt(c)
    PROVE  Truncated'
<1>1. caller[c].left \in Nat /\ total \in Nat /\ granted \in Seq(Grant)
  BY DEF IInv, TypeOK, Caller
<1>2. PICK n \in Nat, d \in Nat, k \in Nat :
          n = Chunk(caller[c].left) /\ d = durationFor(n) /\ k = Len(granted)
  <2>1. Chunk(caller[c].left) \in Nat
    BY <1>1, ChunkNat
  <2>2. durationFor(Chunk(caller[c].left)) \in Nat
    BY <2>1, DurationNat
  <2>3. Len(granted) \in Nat
    BY <1>1
  <2> QED
    BY <2>1, <2>2, <2>3
<1>3. PICK g : granted' = Append(granted, g) /\ g.bytes = n /\ g.total = total + d
  BY <1>2 DEF reserveChunkAt
<1>4. total' = total + d
  BY <1>2 DEF reserveChunkAt
<1>5. n * Second <= Rate * (d + 1)
  BY <1>2, DurationTruncates
<1>6. Len(granted') = k + 1 /\ granted'[k + 1] = g /\ \A i \in 1..k : granted'[i] = granted[i]
  BY <1>1, <1>2, <1>3
<1>7. Grants = 1..k /\ Grants' = 1..(k + 1)
  BY <1>2, <1>6 DEF Grants
<1>8. \A i \in 0..k : ReservedBy(granted', i) = ReservedBy(granted, i)
  BY <1>2, <1>6 DEF ReservedBy
<1>9. ReservedBy(granted', k + 1) = total + d /\ ReservedBy(granted, k) = total
  BY <1>2, <1>3, <1>6 DEF ReservedBy, Reserved, Truncated
<1>10. total' = ReservedBy(granted', Len(granted'))
  BY <1>4, <1>6, <1>9
<1> SUFFICES ASSUME NEW i \in 1..(k + 1)
             PROVE  /\ ReservedBy(granted', i - 1) <= ReservedBy(granted', i)
                    /\ granted'[i].bytes * Second
                         <= Rate * (ReservedBy(granted', i) - ReservedBy(granted', i - 1) + 1)
  BY <1>7, <1>10 DEF Truncated, Reserved
<1>11. CASE i \in 1..k
  <2>1. i - 1 \in 0..k /\ i \in 0..k
    BY <1>11
  <2>2. ReservedBy(granted', i - 1) = ReservedBy(granted, i - 1)
        /\ ReservedBy(granted', i) = ReservedBy(granted, i)
        /\ granted'[i] = granted[i]
    BY <1>6, <1>8, <1>11, <2>1
  <2> QED
    BY <1>7, <1>11, <2>2 DEF Truncated, Reserved
<1>12. CASE i = k + 1
  <2>1. k \in 0..k /\ i - 1 = k
    BY <1>12
  <2>2. ReservedBy(granted', i - 1) = total /\ ReservedBy(granted', i) = total + d
        /\ granted'[i].bytes = n
    BY <1>3, <1>6, <1>8, <1>9, <1>12, <2>1
  <2>3. (total + d) - total = d /\ total <= total + d
    BY <1>1, <1>2
  <2> QED
    BY <1>5, <2>2, <2>3
<1> QED
  BY <1>11, <1>12

\* Every step keeps the account of the reservations.
LEMMA TruncatedNext ==
    ASSUME IInv, Truncated, [Next]_vars
    PROVE  Truncated'
<1>1. ASSUME UNCHANGED <<granted, total>> PROVE Truncated'
  BY <1>1 DEF Truncated, Reserved, ReservedBy, Grants
<1> QED
  BY <1>1, ReserveTruncated DEF Next, Tick, WaitN, waitChunk, Cancel, vars

\* The bytes of each chunk let out.
Bytes == [i \in released |-> granted[i].bytes]

\* A chunk let out counts once.
LEMMA BytesSplit ==
    ASSUME IsFiniteSet(released), Bytes \in [released -> Int],
           NEW s \in SUBSET released, NEW i \in s
    PROVE  SumOf(Bytes)[s] = Bytes[i] + SumOf(Bytes)[s \ {i}]
  BY SumTake

\* Any of the first k reservations together carry no more bytes than their send
\* time lets through, and one unit's worth each.
LEMMA PrefixPaced ==
    ASSUME IInv, Truncated, NEW k \in 0..Len(granted),
           NEW S \in SUBSET released, S \subseteq 1..k
    PROVE  SumOf(Bytes)[S] * Second <= Rate * (Reserved(k) + Cardinality(S))
<1>1. /\ released \subseteq Grants /\ Len(granted) \in Nat
      /\ IsFiniteSet(released)
  <2>1. released \subseteq Grants /\ Len(granted) \in Nat
    BY DEF IInv, TypeOK
  <2>2. IsFiniteSet(Grants)
    BY <2>1, FS_Interval DEF Grants
  <2> QED
    BY <2>1, <2>2, FS_Subset
<1>2. /\ Second \in Nat /\ Rate \in Nat /\ Bytes \in [released -> Int]
      /\ \A i \in released : Bytes[i] = granted[i].bytes
  BY <1>1, RateAssumption, GrantTypes DEF Bytes
<1>3. \A i \in 0..Len(granted) : Reserved(i) \in Nat
  <2>1. \A i \in Grants : granted[i].total \in Nat
    BY GrantTypes
  <2> QED
    BY <1>1, <2>1 DEF Reserved, ReservedBy, Grants
<1> DEFINE Fits(j) == \A s \in SUBSET released : s \subseteq 1..j =>
                         SumOf(Bytes)[s] * Second <= Rate * (Reserved(j) + Cardinality(s))
           G == {j \in Nat : j <= Len(granted) => Fits(j)}
<1>4. 0 \in G
  <2> SUFFICES ASSUME NEW s \in SUBSET released, s \subseteq 1..0
               PROVE  SumOf(Bytes)[s] * Second <= Rate * (Reserved(0) + Cardinality(s))
    OBVIOUS
  <2>1. s = {}
    OBVIOUS
  <2>2. DOMAIN Bytes = released
    BY <1>2
  <2>3. SumOf(Bytes)[s] = 0
    BY <1>1, <2>1, <2>2, SumEquation
  <2>4. Cardinality(s) = 0 /\ Reserved(0) = 0
    BY <2>1, FS_EmptySet DEF Reserved, ReservedBy
  <2> QED
    BY <1>2, <2>3, <2>4
<1>5. ASSUME NEW j \in Nat, j \in G PROVE j + 1 \in G
  <2> SUFFICES ASSUME j + 1 <= Len(granted), NEW s \in SUBSET released, s \subseteq 1..(j + 1)
               PROVE  SumOf(Bytes)[s] * Second <= Rate * (Reserved(j + 1) + Cardinality(s))
    OBVIOUS
  <2>1. Fits(j)
    BY <1>1, <1>5
  <2>2. j \in 0..Len(granted) /\ j + 1 \in 0..Len(granted) /\ j + 1 \in Grants /\ (j + 1) - 1 = j
    BY <1>1 DEF Grants
  <2>3. /\ Reserved(j) <= Reserved(j + 1)
        /\ granted[j + 1].bytes * Second <= Rate * (Reserved(j + 1) - Reserved(j) + 1)
    BY <2>2 DEF Truncated
  <2>4. Reserved(j) \in Nat /\ Reserved(j + 1) \in Nat
    BY <1>3, <2>2
  <2>5. IsFiniteSet(s) /\ Cardinality(s) \in Nat
    BY <1>1, FS_Subset, FS_CardinalityType
  <2> HIDE DEF G, Fits
  <2>6. CASE j + 1 \notin s
    <3>1. s \subseteq 1..j
      BY <2>6
    <3>2. SumOf(Bytes)[s] * Second <= Rate * (Reserved(j) + Cardinality(s))
      BY <2>1, <3>1 DEF Fits
    <3>3. SumOf(Bytes)[s] \in Int
      BY <1>1, <1>2, SumTyped
    <3> DEFINE x == SumOf(Bytes)[s] * Second
               y == Cardinality(s)
               u == Reserved(j)
               v == Reserved(j + 1)
    <3>4. x \in Int /\ y \in Nat /\ u \in Nat /\ v \in Nat /\ u <= v /\ x <= Rate * (u + y)
      BY <1>2, <2>3, <2>4, <2>5, <3>2, <3>3
    <3> HIDE DEF x, y, u, v
    <3>5. x <= Rate * (v + y)
      <4>1. Rate * (v + y) = Rate * (u + y) + Rate * (v - u)
        BY <1>2, <3>4
      <4>2. Rate * (v - u) \in Nat /\ Rate * (u + y) \in Nat
        BY <1>2, <3>4
      <4> QED
        BY <3>4, <4>1, <4>2
    <3> QED
      BY <3>5 DEF x, y, v
  <2>7. CASE j + 1 \in s
    <3> DEFINE t == s \ {j + 1}
    <3>1. t \in SUBSET released /\ t \subseteq 1..j
      OBVIOUS
    <3>2. SumOf(Bytes)[t] * Second <= Rate * (Reserved(j) + Cardinality(t))
      BY <2>1, <3>1 DEF Fits
    <3>3. SumOf(Bytes)[s] = Bytes[j + 1] + SumOf(Bytes)[t]
      <4>1. IsFiniteSet(released) /\ Bytes \in [released -> Int]
        BY <1>1, <1>2
      <4>2. SumOf(Bytes)[s] = Bytes[j + 1] + SumOf(Bytes)[s \ {j + 1}]
        BY <2>7, <4>1, BytesSplit
      <4> QED
        BY <4>2
    <3>4. Cardinality(t) = Cardinality(s) - 1
      BY <2>5, <2>7, FS_RemoveElement
    <3>5. SumOf(Bytes)[t] \in Int /\ Bytes[j + 1] \in Int /\ Bytes[j + 1] = granted[j + 1].bytes
      BY <1>1, <1>2, <2>7, <3>1, SumTyped
    <3> DEFINE x == SumOf(Bytes)[t]
               b == Bytes[j + 1]
               y == Cardinality(s)
               u == Reserved(j)
               v == Reserved(j + 1)
    <3>6. /\ x \in Int /\ b \in Int /\ y \in Nat /\ u \in Nat /\ v \in Nat
          /\ SumOf(Bytes)[s] = b + x
          /\ x * Second <= Rate * (u + (y - 1)) /\ b * Second <= Rate * (v - u + 1)
      BY <2>3, <2>4, <2>5, <3>2, <3>3, <3>4, <3>5
    <3> HIDE DEF x, b, y, u, v
    <3>7. (b + x) * Second = b * Second + x * Second
      BY <1>2, <3>6
    <3>8. Rate * (u + (y - 1)) + Rate * (v - u + 1) = Rate * (v + y)
      BY <1>2, <3>6
    <3>9. /\ b * Second \in Int /\ x * Second \in Int
          /\ Rate * (u + (y - 1)) \in Int /\ Rate * (v - u + 1) \in Int
      BY <1>2, <3>6
    <3>10. (b + x) * Second <= Rate * (v + y)
      BY <3>6, <3>7, <3>8, <3>9
    <3> QED
      BY <3>6, <3>10 DEF y, v
  <2> QED
    BY <2>6, <2>7
<1>6. Nat \subseteq G
  <2> HIDE DEF G
  <2> QED
    BY <1>4, <1>5, AllNumbers
<1> QED
  BY <1>1, <1>6

\* Of reservations let out, one is the last.
LEMMA LastReleased ==
    ASSUME released \subseteq Grants, released # {}, Len(granted) \in Nat
    PROVE  \E m \in released : \A i \in released : i <= m
<1> DEFINE G == {j \in Nat : \A S \in SUBSET released :
                     S # {} /\ S \subseteq 1..j => \E m \in S : \A i \in S : i <= m}
<1>1. 0 \in G
  OBVIOUS
<1>2. ASSUME NEW j \in Nat, j \in G PROVE j + 1 \in G
  <2> SUFFICES ASSUME NEW S \in SUBSET released, S # {}, S \subseteq 1..(j + 1)
               PROVE  \E m \in S : \A i \in S : i <= m
    OBVIOUS
  <2>1. CASE j + 1 \in S
    BY <2>1
  <2>2. CASE j + 1 \notin S
    <3>1. S \subseteq 1..j
      BY <2>2
    <3> QED
      BY <1>2, <3>1
  <2> QED
    BY <2>1, <2>2
<1>3. Nat \subseteq G
  <2> HIDE DEF G
  <2> QED
    BY <1>1, <1>2, AllNumbers
<1> QED
  BY <1>3 DEF Grants

\* The last reservation let out bounds them all: what is on the wire exceeds the
\* rate and one burst by less than a clock unit's worth per chunk.
LEMMA BytesPaced ==
    ASSUME IInv, Truncated
    PROVE  BytesPacedUpToTruncation
<1> DEFINE sum == SumFunction(Bytes)
           size == Cardinality(released)
           burst == BurstBytes * Second
<1>1. /\ released \subseteq Grants /\ Len(granted) \in Nat /\ clock \in Nat
      /\ IsFiniteSet(released)
  <2>1. released \subseteq Grants /\ Len(granted) \in Nat /\ clock \in Nat
    BY DEF IInv, TypeOK
  <2>2. IsFiniteSet(Grants)
    BY <2>1, FS_Interval DEF Grants
  <2> QED
    BY <2>1, <2>2, FS_Subset
<1>2. size \in Nat /\ burst \in Nat /\ Rate \in Nat /\ Second \in Nat
  BY <1>1, FS_CardinalityType, RateAssumption
<1>3. sum = SumOf(Bytes)[released]
  <2>1. DOMAIN Bytes = released
    BY DEF Bytes
  <2> QED
    BY <1>1, <2>1, SumEquation
<1>4. CASE released = {}
  <2>1. sum = 0
    <3>1. DOMAIN Bytes = {}
      BY <1>4 DEF Bytes
    <3> QED
      BY <1>1, <1>3, <1>4, <3>1, SumEquation
  <2> HIDE DEF sum, size, burst
  <2>2. 0 * Second = 0 /\ Rate * (clock + size) \in Nat
    BY <1>1, <1>2
  <2>3. sum * Second <= Rate * (clock + size) + burst
    BY <1>2, <2>1, <2>2
  <2> QED
    BY <2>3 DEF BytesPacedUpToTruncation, Bytes, sum, size, burst
<1>5. CASE released # {}
  <2>1. PICK m \in released : \A i \in released : i <= m
    BY <1>1, <1>5, LastReleased
  <2>2. m \in Grants /\ released \subseteq 1..m /\ m \in 0..Len(granted) /\ m # 0
    BY <1>1, <2>1 DEF Grants
  <2>3. sum * Second <= Rate * (Reserved(m) + size)
    BY <1>3, <2>2, PrefixPaced
  <2>4. Reserved(m) = granted[m].total /\ Reserved(m) \in Nat
    BY <2>2, GrantTypes DEF Reserved, ReservedBy
  <2>5. Reserved(m) <= clock + BurstDuration
    BY <2>1, <2>4, RateContractState DEF RateContract
  <2>6. Rate * BurstDuration <= burst /\ BurstDuration \in Nat
    BY BurstNat, DurationTruncates, RateAssumption DEF BurstDuration
  <2>7. sum \in Int
    <3>1. Bytes \in [released -> Int]
      BY <1>1, GrantTypes DEF Bytes
    <3> QED
      BY <1>1, <3>1, SumTyped
  <2> DEFINE v == Reserved(m)
             w == BurstDuration
  <2>8. /\ v \in Nat /\ w \in Nat /\ v <= clock + w /\ Rate * w <= burst
        /\ sum * Second <= Rate * (v + size)
    BY <2>3, <2>4, <2>5, <2>6
  <2> HIDE DEF sum, size, burst, v, w
  <2>9. Rate * (v + size) + Rate * ((clock + w) - v) = Rate * (clock + size) + Rate * w
    BY <1>1, <1>2, <2>8
  <2>10. /\ Rate * ((clock + w) - v) \in Nat /\ Rate * (v + size) \in Int
         /\ Rate * (clock + size) \in Int /\ Rate * w \in Int /\ sum * Second \in Int
    BY <1>1, <1>2, <2>7, <2>8
  <2>11. sum * Second <= Rate * (clock + size) + burst
    BY <1>2, <2>8, <2>9, <2>10
  <2> QED
    BY <2>11 DEF BytesPacedUpToTruncation, Bytes, sum, size, burst
<1> QED
  BY <1>4, <1>5

\* The rate contract in bytes.
THEOREM BytesPacedHolds == Spec => []BytesPacedUpToTruncation
<1>1. Init => Truncated
  BY TruncatedInit
<1>2. IInv /\ Truncated /\ [Next]_vars => Truncated'
  BY TruncatedNext
<1>3. IInv /\ Truncated => BytesPacedUpToTruncation
  BY BytesPaced
<1> QED
  BY <1>1, <1>2, <1>3, Invariance, PTL DEF Spec
=============================================================================
