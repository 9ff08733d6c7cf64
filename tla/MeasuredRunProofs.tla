------------------------- MODULE MeasuredRunProofs -------------------------
(***************************************************************************)
(* Proofs about Attestation and about the runs measured with it.           *)
(*                                                                         *)
(* Part 1 is the shaper on its own, for any number of leases, sources,     *)
(* connections and snapshot readers.  Its inductive invariant is IInv.     *)
(* LeaseCoversConnections is not inductive by itself: that a release or an *)
(* acquisition finds no connection follows from the counter it tests, so   *)
(* ActiveCountsOpen has to be carried along, and with it that a slot with  *)
(* bytes still to be attributed is open.  BytesConserved is kept by that:  *)
(* attribution moves bytes from a slot to a source.  CutInv says that a    *)
(* snapshot's copy of the sources is behind the counters, never ahead.     *)
(*                                                                         *)
(* Part 2 is MeasuredRun, for any number of overlapping runs, any number   *)
(* of late requests and any traffic.  The composition takes only steps the *)
(* shaper allows (UsesTheShaper), so every theorem of part 1 holds of it.  *)
(* KInv says who still answers for a lease a run has: the run itself, its  *)
(* background goroutine or a recorded loss.  OInv says every stamp (lease, *)
(* acquisition) that was ever copied into a snapshot, a run or a credit    *)
(* names the lease that made that acquisition; the witness is the list of  *)
(* owners so far.  LInv says that every such copy lies between the byte    *)
(* total its acquisition began with and that plus what was served under    *)
(* it; the witness is the list of those totals.                            *)
(***************************************************************************)
EXTENDS MeasuredRun, Sums

(***************************************************************************)
(* Part 1: the shaper.                                                     *)
(***************************************************************************)
\* Bytes are only ever pending on an open connection.
PendingOnOpen == \A c \in Conns : conn[c].pending > 0 => conn[c].state = "open"

\* The inductive invariant.
IInv ==
    /\ TypeOK
    /\ ActiveCountsOpen
    /\ LeaseCoversConnections
    /\ OneSourcePerLease
    /\ PendingOnOpen

\* The set of open connections is finite, whatever the state.
LEMMA OpenFinite == IsFiniteSet(Open) /\ Cardinality(Open) \in Nat
<1>1. Open \subseteq Conns
  BY DEF Open
<1> QED
  BY <1>1, ConnsAssumption, FS_Subset, FS_CardinalityType

\* With the lock free and the active counter at zero every slot is free: the
\* test AcquireExecutionLease and ReleaseExecutionLease make is the right one.
LEMMA QuietMeansFree ==
    ASSUME TypeOK, ActiveCountsOpen, SourcesUnlocked, active = 0
    PROVE  \A c \in Conns : conn[c].state = "free"
<1>1. Open = {}
  BY OpenFinite, FS_EmptySet DEF ActiveCountsOpen
<1> QED
  BY <1>1 DEF Open, TypeOK, SourcesUnlocked

\* One connection becoming open adds one to the number of open connections,
\* one ceasing to be open takes one away, anything else leaves it.
LEMMA OpenAdds ==
    ASSUME NEW c \in Conns, conn[c].state # "open", conn'[c].state = "open",
           \A d \in Conns \ {c} : conn'[d].state = conn[d].state
    PROVE  Cardinality(Open') = Cardinality(Open) + 1
<1>1. Open' = Open \union {c} /\ c \notin Open
  BY DEF Open
<1> QED
  BY <1>1, OpenFinite, FS_AddElement

\* The converse of OpenAdds: CloseDownstream takes exactly one away.
LEMMA OpenRemoves ==
    ASSUME NEW c \in Conns, conn[c].state = "open", conn'[c].state # "open",
           \A d \in Conns \ {c} : conn'[d].state = conn[d].state
    PROVE  Cardinality(Open') = Cardinality(Open) - 1
<1>1. Open' = Open \ {c} /\ c \in Open
  BY DEF Open
<1> QED
  BY <1>1, OpenFinite, FS_RemoveElement

\* A step that changes nobody's openness leaves the open connections.
LEMMA OpenSame ==
    ASSUME \A d \in Conns : (conn'[d].state = "open") <=> (conn[d].state = "open")
    PROVE  Open' = Open
  BY DEF Open

\* The initial state satisfies the inductive invariant.
LEMMA InitIInv == Init => IInv
<1> SUFFICES ASSUME Init PROVE IInv
  OBVIOUS
<1> USE DEF Init, NewAttestation, NoLeaseHeld, ZeroCounters, FreeSlot
<1>1. TypeOK
  BY DEF TypeOK, Counters
<1>2. ActiveCountsOpen
  <2>1. Open = {}
    BY DEF Open
  <2> QED
    BY <2>1, FS_EmptySet DEF ActiveCountsOpen
<1>3. LeaseCoversConnections
  BY DEF LeaseCoversConnections
<1>4. OneSourcePerLease
  BY DEF OneSourcePerLease
<1>5. PendingOnOpen
  BY DEF PendingOnOpen
<1> QED
  BY <1>1, <1>2, <1>3, <1>4, <1>5 DEF IInv

\* AcquireExecutionLease preserves the invariant.
LEMMA AcquireIInv ==
    ASSUME IInv, NEW l \in Leases, AcquireExecutionLease(l)
    PROVE  IInv'
<1> USE DEF IInv
<1>0. \A c \in Conns : conn[c].state = "free"
  BY QuietMeansFree DEF AcquireExecutionLease, CanAcquire
<1>1. UNCHANGED <<connections, active, bytes, sourceConnections, sourceBytes, conn>>
  BY DEF AcquireExecutionLease, trafficVars
<1>2. TypeOK'
  BY <1>1 DEF TypeOK, AcquireExecutionLease, Baseline, Counters
<1>3. ActiveCountsOpen'
  BY <1>1, OpenSame DEF ActiveCountsOpen
<1>4. LeaseCoversConnections'
  BY <1>0, <1>1 DEF LeaseCoversConnections
<1>5. OneSourcePerLease'
  BY <1>1 DEF OneSourcePerLease, AcquireExecutionLease, Baseline
<1>6. PendingOnOpen'
  BY <1>1 DEF PendingOnOpen
<1> QED
  BY <1>2, <1>3, <1>4, <1>5, <1>6

\* ReleaseExecutionLease preserves the invariant.
LEMMA ReleaseIInv ==
    ASSUME IInv, NEW l \in Leases, ReleaseExecutionLease(l)
    PROVE  IInv'
<1> USE DEF IInv
<1>0. \A c \in Conns : conn[c].state = "free"
  BY QuietMeansFree DEF ReleaseExecutionLease, CanRelease
<1>1. UNCHANGED <<connections, active, bytes, sourceConnections, sourceBytes, conn,
                  census, acquired, baseline>>
  BY DEF ReleaseExecutionLease, trafficVars
<1>2. TypeOK'
  BY <1>1 DEF TypeOK, ReleaseExecutionLease, NoLeaseHeld, Counters
<1>3. ActiveCountsOpen'
  BY <1>1, OpenSame DEF ActiveCountsOpen
<1>4. LeaseCoversConnections'
  BY <1>0, <1>1 DEF LeaseCoversConnections
<1>5. OneSourcePerLease'
  BY DEF OneSourcePerLease, ReleaseExecutionLease, NoLeaseHeld
<1>6. PendingOnOpen'
  BY <1>1 DEF PendingOnOpen
<1> QED
  BY <1>2, <1>3, <1>4, <1>5, <1>6

\* OpenDownstream preserves the invariant: the source it binds is the one every
\* other open connection already has.
LEMMA OpenIInv ==
    ASSUME IInv, NEW c \in Conns, NEW s \in Sources, OpenDownstream(c, s)
    PROVE  IInv'
<1> USE DEF IInv
<1>1. TypeOK'
  BY DEF TypeOK, OpenDownstream, Counters
<1>2. ActiveCountsOpen'
  <2>1. Open' = Open
    BY OpenSame DEF OpenDownstream, TypeOK
  <2> QED
    BY <2>1 DEF ActiveCountsOpen, OpenDownstream
<1>3. LeaseCoversConnections'
  BY NoSourceAssumption DEF LeaseCoversConnections, OpenDownstream, Admits, TypeOK
<1>4. OneSourcePerLease'
  <2>1. lease'.source = s
    BY DEF OpenDownstream, TypeOK
  <2> SUFFICES ASSUME NEW t \in Sources, t # s
               PROVE  /\ sourceConnections'[t] = baseline'.sourceConnections[t]
                      /\ sourceBytes'[t] = baseline'.sourceBytes[t]
    BY <2>1 DEF OneSourcePerLease
  <2>2. t # lease.source /\ lease.id # NoLease
    BY NoSourceAssumption DEF OpenDownstream, Admits
  <2>3. sourceConnections'[t] = sourceConnections[t]
    BY DEF OpenDownstream, TypeOK, Counters
  <2> QED
    BY <2>2, <2>3 DEF OneSourcePerLease, OpenDownstream
<1>5. PendingOnOpen'
  BY DEF PendingOnOpen, OpenDownstream, TypeOK
<1> QED
  BY <1>1, <1>2, <1>3, <1>4, <1>5

\* The second critical section of OpenDownstream counts the connection.
LEMMA OpenActiveIInv ==
    ASSUME IInv, NEW c \in Conns, OpenDownstreamActive(c)
    PROVE  IInv'
<1> USE DEF IInv, OpenDownstreamActive, leaseVars
<1>1. TypeOK'
  BY DEF TypeOK, Counters
<1>2. ActiveCountsOpen'
  <2>1. Cardinality(Open') = Cardinality(Open) + 1
    BY OpenAdds DEF TypeOK
  <2> QED
    BY <2>1 DEF ActiveCountsOpen
<1>3. LeaseCoversConnections'
  BY DEF LeaseCoversConnections, TypeOK
<1>4. OneSourcePerLease'
  BY DEF OneSourcePerLease
<1>5. PendingOnOpen'
  BY DEF PendingOnOpen, TypeOK
<1> QED
  BY <1>1, <1>2, <1>3, <1>4, <1>5

\* AddDownstreamBytes adds to the total under the lease of its connection.
LEMMA AddBytesIInv ==
    ASSUME IInv, NEW c \in Conns, NEW n \in 1..MaxBytes, AddDownstreamBytes(c, n)
    PROVE  IInv'
<1> USE BoundsAssumption DEF IInv, AddDownstreamBytes, leaseVars
<1>1. TypeOK'
  BY DEF TypeOK, Counters
<1>2. ActiveCountsOpen'
  <2>1. Open' = Open
    BY OpenSame DEF TypeOK
  <2> QED
    BY <2>1 DEF ActiveCountsOpen
<1>3. LeaseCoversConnections'
  BY DEF LeaseCoversConnections, TypeOK
<1>4. OneSourcePerLease'
  BY DEF OneSourcePerLease
<1>5. PendingOnOpen'
  BY DEF PendingOnOpen, TypeOK
<1> QED
  BY <1>1, <1>2, <1>3, <1>4, <1>5

\* The attribution step credits the bound source and no other, because the
\* connection with bytes pending is open and an open connection is the lease's.
LEMMA AddSourceIInv ==
    ASSUME IInv, NEW c \in Conns, AddSourceBytes(c)
    PROVE  IInv'
<1> USE DEF IInv, AddSourceBytes, leaseVars
<1>0. conn[c].state = "open" /\ conn[c].source \in Sources /\ lease.source = conn[c].source
  BY DEF PendingOnOpen, LeaseCoversConnections
<1>1. TypeOK'
  BY <1>0 DEF TypeOK, Counters
<1>2. ActiveCountsOpen'
  <2>1. Open' = Open
    BY OpenSame DEF TypeOK
  <2> QED
    BY <2>1 DEF ActiveCountsOpen
<1>3. LeaseCoversConnections'
  BY DEF LeaseCoversConnections, TypeOK
<1>4. OneSourcePerLease'
  BY <1>0 DEF OneSourcePerLease, TypeOK, Counters
<1>5. PendingOnOpen'
  BY DEF PendingOnOpen, TypeOK
<1> QED
  BY <1>1, <1>2, <1>3, <1>4, <1>5

\* ObserveCommand touches the census only.
LEMMA ObserveIInv ==
    ASSUME IInv, NEW c \in Conns, NEW a \in Articles \union {NoArticle}, ObserveCommand(c, a)
    PROVE  IInv'
<1> USE DEF IInv
<1>1. UNCHANGED <<lease, acquired, baseline, connections, active, bytes,
                  sourceConnections, sourceBytes, conn>>
  BY DEF ObserveCommand, leaseVars, trafficVars
<1>2. TypeOK'
  BY <1>1 DEF TypeOK, ObserveCommand, Counters
<1>3. ActiveCountsOpen'
  BY <1>1, OpenSame DEF ActiveCountsOpen
<1>4. LeaseCoversConnections' /\ OneSourcePerLease' /\ PendingOnOpen'
  BY <1>1 DEF LeaseCoversConnections, OneSourcePerLease, PendingOnOpen
<1> QED
  BY <1>2, <1>3, <1>4

\* The release of a connection takes it out of the active count.
LEMMA CloseIInv ==
    ASSUME IInv, NEW c \in Conns, CloseDownstream(c)
    PROVE  IInv'
<1> USE DEF IInv, CloseDownstream, leaseVars, FreeSlot
<1>1. Cardinality(Open') = Cardinality(Open) - 1
  BY OpenRemoves DEF TypeOK
<1>2. ActiveCountsOpen'
  BY <1>1 DEF ActiveCountsOpen
<1>3. active' \in Nat
  <2>1. Cardinality(Open') \in Nat
    <3>1. Open' \subseteq Conns
      BY DEF Open
    <3> QED
      BY <3>1, ConnsAssumption, FS_Subset, FS_CardinalityType
  <2> QED
    BY <2>1, <1>2 DEF ActiveCountsOpen
<1>4. TypeOK'
  BY <1>3 DEF TypeOK, Counters
<1>5. LeaseCoversConnections'
  BY DEF LeaseCoversConnections, TypeOK
<1>6. OneSourcePerLease'
  BY DEF OneSourcePerLease
<1>7. PendingOnOpen'
  BY DEF PendingOnOpen, TypeOK
<1> QED
  BY <1>2, <1>4, <1>5, <1>6, <1>7

\* Snapshots only read.
LEMMA UnchangedIInv == IInv /\ UNCHANGED shaperVars => IInv'
<1> SUFFICES ASSUME IInv, UNCHANGED shaperVars PROVE IInv'
  OBVIOUS
<1>1. UNCHANGED <<lease, acquired, baseline, connections, active, bytes,
                  sourceConnections, sourceBytes, conn, census>>
  BY DEF shaperVars, leaseVars, trafficVars
<1>2. ActiveCountsOpen'
  BY <1>1, OpenSame DEF IInv, ActiveCountsOpen
<1> QED
  BY <1>1, <1>2 DEF IInv, TypeOK, LeaseCoversConnections, OneSourcePerLease, PendingOnOpen, Counters

\* The step of every snapshot reader leaves the shaper's own state alone.
LEMMA ReaderUnchanged ==
    ASSUME NEW r \in Readers, SnapshotCommands(r) \/ SnapshotStep(r) \/ SnapshotServed(r)
    PROVE  UNCHANGED shaperVars
  BY DEF SnapshotCommands, SnapshotStep, SnapshotSources, SnapshotConnections,
         SnapshotActive, SnapshotBytes, SnapshotServed

\* Every step preserves the inductive invariant.
LEMMA NextIInv == IInv /\ [Next]_vars => IInv'
<1> SUFFICES ASSUME IInv, [Next]_vars PROVE IInv'
  OBVIOUS
<1>1. CASE Traffic
  <2>1. PICK c \in Conns :
            \/ \E s \in Sources : OpenDownstream(c, s)
            \/ OpenDownstreamActive(c)
            \/ \E n \in 1..MaxBytes : AddDownstreamBytes(c, n)
            \/ AddSourceBytes(c)
            \/ \E a \in Articles \union {NoArticle} : ObserveCommand(c, a)
            \/ CloseDownstream(c)
    BY <1>1 DEF Traffic
  <2> QED
    BY <2>1, OpenIInv, OpenActiveIInv, AddBytesIInv, AddSourceIInv, ObserveIInv, CloseIInv
<1>2. CASE \E l \in Leases : AcquireExecutionLease(l) \/ ReleaseExecutionLease(l)
  BY <1>2, AcquireIInv, ReleaseIInv
<1>3. CASE \E r \in Readers : SnapshotCommands(r) \/ SnapshotStep(r) \/ SnapshotServed(r)
  BY <1>3, ReaderUnchanged, UnchangedIInv
<1>4. CASE UNCHANGED vars
  <2>1. UNCHANGED shaperVars
    BY <1>4 DEF vars
  <2> QED
    BY <2>1, UnchangedIInv
<1> QED
  BY <1>1, <1>2, <1>3, <1>4 DEF Next

\* The invariant holds in every reachable state.
THEOREM Invariance == Spec => []IInv
<1> QED
  BY InitIInv, NextIInv, PTL DEF Spec

\* Every variable keeps its type: the signed active counter never goes negative.
THEOREM TypeCorrect == Spec => []TypeOK
<1>1. IInv => TypeOK
  BY DEF IInv
<1> QED
  BY <1>1, Invariance, PTL

\* activeDownstreamConnections is the number of connections not yet released.
THEOREM ActiveExact == Spec => []ActiveCountsOpen
<1>1. IInv => ActiveCountsOpen
  BY DEF IInv
<1> QED
  BY <1>1, Invariance, PTL

\* No connection outlives its lease, and all are of the lease's one source.
THEOREM LeaseSafety == Spec => []LeaseCoversConnections
<1>1. IInv => LeaseCoversConnections
  BY DEF IInv
<1> QED
  BY <1>1, Invariance, PTL

\* Since its acquisition a lease has been credited the traffic of one source.
THEOREM Attribution == Spec => []OneSourcePerLease
<1>1. IInv => OneSourcePerLease
  BY DEF IInv
<1> QED
  BY <1>1, Invariance, PTL

\* The lease goes from run to run only through "no lease", with nobody connected.
THEOREM Handover == Spec => LeaseHandover
<1> DEFINE A == lease'.id # lease.id =>
                    /\ NoLease \in {lease.id, lease'.id}
                    /\ \A c \in Conns : conn[c].state = "free"
<1>1. IInv /\ [Next]_vars => [A]_vars
  <2> SUFFICES ASSUME IInv, Next, lease'.id # lease.id
               PROVE  /\ NoLease \in {lease.id, lease'.id}
                      /\ \A c \in Conns : conn[c].state = "free"
    OBVIOUS
  <2>1. CASE Traffic
    <3>1. lease'.id = lease.id
      BY <2>1 DEF Traffic, OpenDownstream, OpenDownstreamActive, AddDownstreamBytes,
                  AddSourceBytes, ObserveCommand, CloseDownstream, leaseVars, IInv, TypeOK
    <3> QED
      BY <3>1
  <2>2. ASSUME NEW l \in Leases, AcquireExecutionLease(l)
        PROVE  lease.id = NoLease /\ \A c \in Conns : conn[c].state = "free"
    BY <2>2, QuietMeansFree DEF AcquireExecutionLease, CanAcquire, IInv
  <2>3. ASSUME NEW l \in Leases, ReleaseExecutionLease(l)
        PROVE  lease'.id = NoLease /\ \A c \in Conns : conn[c].state = "free"
    BY <2>3, QuietMeansFree DEF ReleaseExecutionLease, CanRelease, NoLeaseHeld, IInv
  <2>4. CASE \E r \in Readers : SnapshotCommands(r) \/ SnapshotStep(r) \/ SnapshotServed(r)
    BY <2>4, ReaderUnchanged DEF shaperVars, leaseVars
  <2> QED
    BY <2>1, <2>2, <2>3, <2>4 DEF Next
<1> QED
  BY <1>1, Invariance, PTL DEF Spec, LeaseHandover

\* Nothing is counted while no lease is held.
THEOREM Counted == Spec => CountedUnderLease
<1> DEFINE A == lease.id = NoLease =>
                    UNCHANGED <<connections, bytes, sourceConnections, sourceBytes, census.requests>>
<1>1. IInv /\ [Next]_vars => [A]_vars
  <2> SUFFICES ASSUME IInv, Next, lease.id = NoLease
               PROVE  UNCHANGED <<connections, bytes, sourceConnections, sourceBytes, census.requests>>
    OBVIOUS
  <2>0. \A c \in Conns : conn[c].state = "free" /\ ~(conn[c].pending > 0)
    BY DEF IInv, LeaseCoversConnections, PendingOnOpen
  <2>1. CASE Traffic
    BY <2>0, <2>1 DEF Traffic, OpenDownstream, OpenDownstreamActive, AddDownstreamBytes,
                      AddSourceBytes, ObserveCommand, CloseDownstream, Admits
  <2>2. CASE \E l \in Leases : AcquireExecutionLease(l) \/ ReleaseExecutionLease(l)
    BY <2>2 DEF AcquireExecutionLease, ReleaseExecutionLease, trafficVars, IInv, TypeOK
  <2>4. CASE \E r \in Readers : SnapshotCommands(r) \/ SnapshotStep(r) \/ SnapshotServed(r)
    BY <2>4, ReaderUnchanged DEF shaperVars, trafficVars
  <2> QED
    BY <2>1, <2>2, <2>4 DEF Next
<1> QED
  BY <1>1, Invariance, PTL DEF Spec, CountedUnderLease
(***************************************************************************)
(* Bytes.                                                                  *)
(***************************************************************************)
Pendings == [c \in Conns |-> conn[c].pending]

\* Both sums of BytesConserved are sums of natural numbers over finite sets.
LEMMA SumsTyped ==
    ASSUME TypeOK
    PROVE  /\ sourceBytes \in [Sources -> Int] /\ Pendings \in [Conns -> Int]
           /\ SumFunction(sourceBytes) \in Nat /\ SumFunction(Pendings) \in Nat
<1>1. sourceBytes \in [Sources -> Nat] /\ Pendings \in [Conns -> Nat]
  BY DEF TypeOK, Counters, Pendings
<1>2. SumFunction(sourceBytes) \in Nat
  BY <1>1, SourcesAssumption, SumTyped
<1>3. SumFunction(Pendings) \in Nat
  BY <1>1, ConnsAssumption, SumTyped
<1> QED
  BY <1>1, <1>2, <1>3

\* A step that touches neither the total, nor the attribution, nor what is
\* pending conserves bytes.
LEMMA UntouchedConserves ==
    ASSUME BytesConserved, UNCHANGED <<bytes, sourceBytes>>,
           \A c \in Conns : conn'[c].pending = conn[c].pending
    PROVE  BytesConserved'
<1>1. Pendings' = Pendings
  BY DEF Pendings
<1> QED
  BY <1>1 DEF BytesConserved, Pendings

\* AddDownstreamBytes: the total and the pending bytes grow alike.
LEMMA AddBytesConserves ==
    ASSUME TypeOK, TypeOK', BytesConserved, NEW c \in Conns, NEW n \in 1..MaxBytes,
           AddDownstreamBytes(c, n)
    PROVE  BytesConserved'
<1>1. /\ bytes' = bytes + n /\ bytes \in Nat /\ n \in Int /\ sourceBytes' = sourceBytes
      /\ conn[c].pending = 0
  BY BoundsAssumption DEF AddDownstreamBytes, TypeOK
<1>2. /\ Pendings'[c] = n /\ Pendings[c] = 0
      /\ \A d \in Conns \ {c} : Pendings'[d] = Pendings[d]
  BY DEF AddDownstreamBytes, Pendings, TypeOK
<1>3. Pendings \in [Conns -> Int] /\ Pendings' \in [Conns -> Int]
  BY SumsTyped, BoundsAssumption DEF Pendings, TypeOK
<1>4. SumFunction(Pendings') = SumFunction(Pendings) + (Pendings'[c] - Pendings[c])
  BY <1>2, <1>3, ConnsAssumption, SumChange
<1>5. SumFunction(sourceBytes) \in Nat /\ SumFunction(Pendings) \in Nat
  BY SumsTyped
<1>6. bytes = SumFunction(sourceBytes) + SumFunction(Pendings)
  BY DEF BytesConserved, Pendings
<1>7. bytes' = SumFunction(sourceBytes') + SumFunction(Pendings')
  BY <1>1, <1>2, <1>4, <1>5, <1>6
<1> QED
  BY <1>7 DEF BytesConserved, Pendings

\* The attribution step moves the pending bytes of one connection to its source.
LEMMA AddSourceConserves ==
    ASSUME IInv, TypeOK', BytesConserved, NEW c \in Conns, AddSourceBytes(c)
    PROVE  BytesConserved'
<1> DEFINE s == conn[c].source
           n == conn[c].pending
<1>0. TypeOK /\ conn[c].state = "open" /\ s \in Sources /\ n \in Nat
  BY DEF IInv, PendingOnOpen, LeaseCoversConnections, AddSourceBytes, TypeOK
<1>1. bytes' = bytes
  BY DEF AddSourceBytes
<1>2. /\ Pendings'[c] = 0 /\ Pendings[c] = n
      /\ \A d \in Conns \ {c} : Pendings'[d] = Pendings[d]
  BY <1>0 DEF AddSourceBytes, Pendings, TypeOK
<1>3. /\ sourceBytes'[s] = sourceBytes[s] + n
      /\ \A t \in Sources \ {s} : sourceBytes'[t] = sourceBytes[t]
      /\ sourceBytes[s] \in Nat
  BY <1>0 DEF AddSourceBytes, TypeOK, Counters
<1>4. Pendings \in [Conns -> Int] /\ sourceBytes \in [Sources -> Int]
  BY <1>0, SumsTyped
<1>5. Pendings' \in [Conns -> Int] /\ sourceBytes' \in [Sources -> Int]
  BY DEF Pendings, TypeOK, Counters
<1> HIDE DEF s, n
<1>6. SumFunction(Pendings') = SumFunction(Pendings) + (Pendings'[c] - Pendings[c])
  BY <1>2, <1>4, <1>5, ConnsAssumption, SumChange
<1>7. SumFunction(sourceBytes') = SumFunction(sourceBytes) + (sourceBytes'[s] - sourceBytes[s])
  BY <1>0, <1>3, <1>4, <1>5, SourcesAssumption, SumChange
<1>8. SumFunction(sourceBytes) \in Nat /\ SumFunction(Pendings) \in Nat
  BY <1>0, SumsTyped
<1>9. bytes = SumFunction(sourceBytes) + SumFunction(Pendings)
  BY DEF BytesConserved, Pendings
<1>10. bytes' = SumFunction(sourceBytes') + SumFunction(Pendings')
  BY <1>0, <1>1, <1>2, <1>3, <1>6, <1>7, <1>8, <1>9
<1> QED
  BY <1>10 DEF BytesConserved, Pendings

\* Every other step of a connection leaves bytes where they are: it opens on a
\* slot with nothing pending and closes only then.
LEMMA TrafficConserves ==
    ASSUME IInv, IInv', BytesConserved, Traffic
    PROVE  BytesConserved'
<1>0. TypeOK /\ TypeOK'
  BY DEF IInv
<1>1. PICK c \in Conns :
          \/ \E s \in Sources : OpenDownstream(c, s)
          \/ OpenDownstreamActive(c)
          \/ \E n \in 1..MaxBytes : AddDownstreamBytes(c, n)
          \/ AddSourceBytes(c)
          \/ \E a \in Articles \union {NoArticle} : ObserveCommand(c, a)
          \/ CloseDownstream(c)
  BY DEF Traffic
<1>2. CASE \E s \in Sources : OpenDownstream(c, s)
  <2>1. conn[c].pending = 0
    BY <1>0, <1>2 DEF OpenDownstream, IInv, PendingOnOpen, TypeOK
  <2> QED
    BY <1>0, <1>2, <2>1, UntouchedConserves DEF OpenDownstream, TypeOK
<1>3. CASE OpenDownstreamActive(c)
  BY <1>0, <1>3, UntouchedConserves DEF OpenDownstreamActive, TypeOK
<1>4. CASE \E a \in Articles \union {NoArticle} : ObserveCommand(c, a)
  BY <1>4, UntouchedConserves DEF ObserveCommand, trafficVars
<1>5. CASE CloseDownstream(c)
  BY <1>0, <1>5, UntouchedConserves DEF CloseDownstream, FreeSlot, TypeOK
<1> QED
  BY <1>0, <1>1, <1>2, <1>3, <1>4, <1>5, AddBytesConserves, AddSourceConserves

\* Every step conserves bytes.
LEMMA NextConserves ==
    ASSUME IInv, IInv', BytesConserved, [Next]_vars
    PROVE  BytesConserved'
<1>1. CASE Traffic
  BY <1>1, TrafficConserves
<1>2. CASE \E l \in Leases : AcquireExecutionLease(l) \/ ReleaseExecutionLease(l)
  BY <1>2, UntouchedConserves DEF AcquireExecutionLease, ReleaseExecutionLease, trafficVars
<1>3. CASE UNCHANGED shaperVars
  BY <1>3, UntouchedConserves DEF shaperVars, trafficVars
<1> QED
  BY <1>1, <1>2, <1>3, ReaderUnchanged DEF Next, vars

\* Nothing has been delivered, nothing is pending, nothing attributed.
LEMMA InitConserves == Init => BytesConserved
<1> SUFFICES ASSUME Init PROVE BytesConserved
  OBVIOUS
<1>1. /\ bytes = 0 /\ sourceBytes \in [Sources -> Int] /\ Pendings \in [Conns -> Int]
      /\ \A s \in Sources : sourceBytes[s] = 0
      /\ \A c \in Conns : Pendings[c] = 0
  BY DEF Init, NewAttestation, ZeroCounters, FreeSlot, Pendings
<1>2. SumFunction(sourceBytes) = 0
  BY <1>1, SourcesAssumption, SumZero
<1>3. SumFunction(Pendings) = 0
  BY <1>1, ConnsAssumption, SumZero
<1>4. bytes = SumFunction(sourceBytes) + SumFunction(Pendings)
  BY <1>1, <1>2, <1>3
<1> QED
  BY <1>4 DEF BytesConserved, Pendings

\* No byte is lost or invented between the total and the attribution, however
\* AddDownstreamBytes calls interleave.
THEOREM Conservation == Spec => []BytesConserved
<1> QED
  BY Invariance, InitConserves, NextConserves, PTL DEF Spec

(***************************************************************************)
(* Snapshots.                                                              *)
(***************************************************************************)
Stages == {"idle", "commands", "sources", "connections", "active", "done"}
Distincts == {Cardinality(x) : x \in SUBSET Articles}

SnapshotRec ==
    [stage : Stages, requests : Nat, repeated : Nat, distinct : Distincts \union {0},
     sourceConnections : Counters, sourceBytes : Counters,
     leaseID : Leases \union {NoLease}, acquiredAt : Nat, status : {"ok", "degraded"},
     connections : Nat, active : Nat, bytes : Nat, truth : Nat]

\* What a step of a reader may make of the snapshot it assembles: dropped or
\* just begun; the locked copy of the sources and the lease; a load that leaves
\* that copy alone; the last load.
SnapshotBecomes(old, new) ==
    /\ new \in SnapshotRec
    /\ \/ /\ new.stage # "done"
          /\ new.leaseID = NoLease /\ new.acquiredAt = 0
          /\ new.sourceBytes = ZeroCounters /\ new.truth = 0
       \/ /\ new.stage = "sources"
          /\ new.leaseID = lease.id /\ new.acquiredAt = lease.acquiredAt
          /\ new.sourceBytes = sourceBytes /\ new.truth = bytes
       \/ /\ new.leaseID = old.leaseID /\ new.acquiredAt = old.acquiredAt
          /\ new.sourceBytes = old.sourceBytes /\ new.truth = old.truth
          /\ new.stage # "idle"
          /\ new.stage = "done" => new.bytes = bytes

\* An empty snapshot is well typed.
LEMMA EmptyTyped ==
    /\ EmptySnapshot \in SnapshotRec /\ EmptySnapshot.stage = "idle"
    /\ EmptySnapshot.leaseID = NoLease /\ EmptySnapshot.acquiredAt = 0
    /\ EmptySnapshot.sourceBytes = ZeroCounters /\ EmptySnapshot.truth = 0
BY DEF EmptySnapshot, SnapshotRec, Stages, Counters, ZeroCounters

\* A reader's step on its snapshot.
LEMMA ReaderMoves ==
    ASSUME TypeOK, snapshot \in [Readers -> SnapshotRec], NEW r \in Readers,
           SnapshotCommands(r) \/ SnapshotStep(r) \/ SnapshotServed(r)
    PROVE  \E s : snapshot' = [snapshot EXCEPT ![r] = s] /\ SnapshotBecomes(snapshot[r], s)
<1> DEFINE old == snapshot[r]
<1>1. old \in SnapshotRec
  OBVIOUS
<1>2. CASE SnapshotCommands(r)
  <2> DEFINE n == Cardinality(census.articles)
             s == [EmptySnapshot EXCEPT !.stage = "commands", !.requests = census.requests,
                                        !.repeated = census.repeated, !.distinct = n]
  <2>1. n \in Distincts /\ census.requests \in Nat /\ census.repeated \in Nat
    BY DEF Distincts, TypeOK
  <2>2. snapshot' = [snapshot EXCEPT ![r] = s]
    BY <1>2 DEF SnapshotCommands
  <2> HIDE DEF n
  <2>3. /\ s \in SnapshotRec /\ s.stage = "commands"
        /\ s.leaseID = NoLease /\ s.acquiredAt = 0
        /\ s.sourceBytes = ZeroCounters /\ s.truth = 0
    BY <2>1, EmptyTyped DEF SnapshotRec, Stages
  <2> HIDE DEF s
  <2> QED
    BY <2>2, <2>3 DEF SnapshotBecomes
<1>3. CASE SnapshotSources(r)
  <2> DEFINE s == [old EXCEPT !.stage = "sources", !.sourceConnections = sourceConnections,
                     !.sourceBytes = sourceBytes, !.leaseID = lease.id,
                     !.acquiredAt = lease.acquiredAt, !.truth = bytes]
  <2>1. snapshot' = [snapshot EXCEPT ![r] = s]
    BY <1>3 DEF SnapshotSources
  <2> HIDE DEF old
  <2>2. /\ s \in SnapshotRec /\ s.stage = "sources"
        /\ s.leaseID = lease.id /\ s.acquiredAt = lease.acquiredAt
        /\ s.sourceBytes = sourceBytes /\ s.truth = bytes
    BY <1>1 DEF SnapshotRec, Stages, TypeOK
  <2> HIDE DEF s
  <2> QED
    BY <2>1, <2>2 DEF SnapshotBecomes
<1>4. ASSUME NEW s \in SnapshotRec, snapshot' = [snapshot EXCEPT ![r] = s],
             s.leaseID = old.leaseID, s.acquiredAt = old.acquiredAt,
             s.sourceBytes = old.sourceBytes, s.truth = old.truth,
             s.stage # "idle", s.stage = "done" => s.bytes = bytes
      PROVE  \E t : snapshot' = [snapshot EXCEPT ![r] = t] /\ SnapshotBecomes(old, t)
  <2> HIDE DEF old
  <2> QED
    BY <1>4 DEF SnapshotBecomes
<1>5. CASE SnapshotConnections(r)
  <2>1. PICK status \in {"ok", "degraded"} :
          snapshot' = [snapshot EXCEPT ![r] = [old EXCEPT !.stage = "connections",
                         !.status = status, !.connections = connections]]
    BY <1>5 DEF SnapshotConnections
  <2> DEFINE s == [old EXCEPT !.stage = "connections", !.status = status,
                              !.connections = connections]
  <2>2. snapshot' = [snapshot EXCEPT ![r] = s]
    BY <2>1
  <2> HIDE DEF old
  <2>3. /\ s \in SnapshotRec /\ s.leaseID = old.leaseID /\ s.acquiredAt = old.acquiredAt
        /\ s.sourceBytes = old.sourceBytes /\ s.truth = old.truth /\ s.stage = "connections"
    BY <1>1 DEF SnapshotRec, Stages, TypeOK
  <2> HIDE DEF s
  <2>4. \E t : snapshot' = [snapshot EXCEPT ![r] = t] /\ SnapshotBecomes(old, t)
    BY <1>4, <2>2, <2>3
  <2> QED
    BY <2>4 DEF old
<1>6. CASE SnapshotActive(r)
  <2> DEFINE s == [old EXCEPT !.stage = "active", !.active = active]
  <2>1. snapshot' = [snapshot EXCEPT ![r] = s]
    BY <1>6 DEF SnapshotActive
  <2> HIDE DEF old
  <2>2. /\ s \in SnapshotRec /\ s.leaseID = old.leaseID /\ s.acquiredAt = old.acquiredAt
        /\ s.sourceBytes = old.sourceBytes /\ s.truth = old.truth /\ s.stage = "active"
    BY <1>1 DEF SnapshotRec, Stages, TypeOK
  <2> HIDE DEF s
  <2>3. \E t : snapshot' = [snapshot EXCEPT ![r] = t] /\ SnapshotBecomes(old, t)
    BY <1>4, <2>1, <2>2
  <2> QED
    BY <2>3 DEF old
<1>7. CASE SnapshotBytes(r)
  <2> DEFINE s == [old EXCEPT !.stage = "done", !.bytes = bytes]
  <2>1. snapshot' = [snapshot EXCEPT ![r] = s]
    BY <1>7 DEF SnapshotBytes
  <2> HIDE DEF old
  <2>2. /\ s \in SnapshotRec /\ s.leaseID = old.leaseID /\ s.acquiredAt = old.acquiredAt
        /\ s.sourceBytes = old.sourceBytes /\ s.truth = old.truth /\ s.bytes = bytes
        /\ s.stage = "done"
    BY <1>1 DEF SnapshotRec, Stages, TypeOK
  <2> HIDE DEF s
  <2>3. \E t : snapshot' = [snapshot EXCEPT ![r] = t] /\ SnapshotBecomes(old, t)
    BY <1>4, <2>1, <2>2
  <2> QED
    BY <2>3 DEF old
<1>8. CASE SnapshotServed(r)
  BY <1>8, EmptyTyped DEF SnapshotServed, SnapshotBecomes
<1> QED
  BY <1>2, <1>3, <1>5, <1>6, <1>7, <1>8 DEF SnapshotStep

\* The sources copied add up to no more than the total at the copy, which no
\* later total falls short of.
CutInv ==
    /\ snapshot \in [Readers -> SnapshotRec]
    /\ \A r \in Readers :
          /\ SumFunction(snapshot[r].sourceBytes) <= snapshot[r].truth
          /\ snapshot[r].truth <= bytes
          /\ snapshot[r].stage = "done" => snapshot[r].truth <= snapshot[r].bytes

\* Nothing attributed adds up to nothing.
LEMMA ZeroSum == SumFunction(ZeroCounters) = 0
<1>1. ZeroCounters \in [Sources -> Int] /\ \A s \in Sources : ZeroCounters[s] = 0
  BY DEF ZeroCounters
<1> HIDE DEF ZeroCounters
<1> QED
  BY <1>1, SourcesAssumption, SumZero

\* The total never goes down.
LEMMA BytesGrow ==
    ASSUME TypeOK, [Next]_vars
    PROVE  bytes' \in Int /\ bytes <= bytes'
<1> USE BoundsAssumption
<1>1. CASE Traffic
  BY <1>1 DEF Traffic, OpenDownstream, OpenDownstreamActive, AddDownstreamBytes, AddSourceBytes,
              ObserveCommand, CloseDownstream, trafficVars, TypeOK
<1>2. CASE \E l \in Leases : AcquireExecutionLease(l) \/ ReleaseExecutionLease(l)
  BY <1>2 DEF AcquireExecutionLease, ReleaseExecutionLease, trafficVars, TypeOK
<1>3. CASE UNCHANGED shaperVars
  BY <1>3 DEF shaperVars, trafficVars, TypeOK
<1> QED
  BY <1>1, <1>2, <1>3, ReaderUnchanged DEF Next, vars

\* The initial state of the readers.
LEMMA CutInit == Init => CutInv
<1> SUFFICES ASSUME Init PROVE CutInv
  OBVIOUS
<1>1. /\ snapshot \in [Readers -> SnapshotRec] /\ bytes = 0
      /\ \A r \in Readers : snapshot[r] = EmptySnapshot
  BY EmptyTyped DEF Init, NewAttestation
<1> QED
  BY <1>1, EmptyTyped, ZeroSum DEF CutInv

\* Readers keep the cut: a copy is taken with bytes conserved, and totals grow.
LEMMA CutStep ==
    ASSUME TypeOK, BytesConserved, CutInv, [Next]_vars
    PROVE  CutInv'
<1>1. bytes \in Int /\ bytes' \in Int /\ bytes <= bytes'
  BY BytesGrow DEF TypeOK
<1>2. ASSUME snapshot' = snapshot PROVE CutInv'
  <2> SUFFICES ASSUME NEW r \in Readers
               PROVE  /\ SumFunction(snapshot[r].sourceBytes) <= snapshot[r].truth
                      /\ snapshot[r].truth <= bytes'
                      /\ snapshot[r].stage = "done" => snapshot[r].truth <= snapshot[r].bytes
    BY <1>2 DEF CutInv
  <2>1. snapshot[r].truth \in Int
    BY DEF CutInv, SnapshotRec
  <2> QED
    BY <1>1, <2>1 DEF CutInv
<1>3. ASSUME NEW r \in Readers, SnapshotCommands(r) \/ SnapshotStep(r) \/ SnapshotServed(r)
      PROVE  CutInv'
  <2>1. PICK s : snapshot' = [snapshot EXCEPT ![r] = s] /\ SnapshotBecomes(snapshot[r], s)
    BY <1>3, ReaderMoves DEF CutInv
  <2>2. bytes' = bytes
    BY <1>3, ReaderUnchanged DEF shaperVars, trafficVars
  <2>3. s \in SnapshotRec /\ s.truth \in Int /\ s.bytes \in Int
    BY <2>1 DEF SnapshotBecomes, SnapshotRec
  <2>4. snapshot' \in [Readers -> SnapshotRec] /\ snapshot'[r] = s
        /\ \A q \in Readers \ {r} : snapshot'[q] = snapshot[q]
    BY <2>1, <2>3 DEF CutInv
  <2>5. SumFunction(sourceBytes) <= bytes
    <3>1. SumFunction(sourceBytes) \in Nat /\ SumFunction(Pendings) \in Nat
      BY SumsTyped
    <3>2. bytes = SumFunction(sourceBytes) + SumFunction(Pendings)
      BY DEF BytesConserved, Pendings
    <3> QED
      BY <3>1, <3>2
  <2>6. /\ SumFunction(s.sourceBytes) <= s.truth
        /\ s.truth <= bytes
        /\ s.stage = "done" => s.truth <= s.bytes
    <3>1. CASE s.stage # "done" /\ s.sourceBytes = ZeroCounters /\ s.truth = 0
      BY <3>1, ZeroSum DEF TypeOK
    <3>2. CASE s.stage = "sources" /\ s.sourceBytes = sourceBytes /\ s.truth = bytes
      BY <1>1, <2>5, <3>2
    <3>3. CASE /\ s.sourceBytes = snapshot[r].sourceBytes /\ s.truth = snapshot[r].truth
               /\ s.stage = "done" => s.bytes = bytes
      BY <3>3 DEF CutInv
    <3> QED
      BY <2>1, <3>1, <3>2, <3>3 DEF SnapshotBecomes
  <2> QED
    BY <2>2, <2>4, <2>6 DEF CutInv
<1> QED
  BY <1>2, <1>3 DEF Next, vars

\* In every reachable state the copies are behind the totals.
THEOREM CopiesBehind == Spec => []CutInv
<1>1. IInv => TypeOK
  BY DEF IInv
<1> QED
  BY <1>1, CutInit, CutStep, Invariance, Conservation, PTL DEF Spec

\* A snapshot whose attribution adds up to its total is the state at the copy.
THEOREM BalancedIsACut == Spec => []BalancedSnapshotIsACut
<1>1. CutInv => BalancedSnapshotIsACut
  <2> SUFFICES ASSUME CutInv, NEW r \in Readers, snapshot[r].stage = "done",
                      SumFunction(snapshot[r].sourceBytes) = snapshot[r].bytes
               PROVE  snapshot[r].bytes = snapshot[r].truth
    BY DEF BalancedSnapshotIsACut
  <2>1. snapshot[r].bytes \in Int /\ snapshot[r].truth \in Int
    BY DEF CutInv, SnapshotRec
  <2> QED
    BY <2>1 DEF CutInv
<1> QED
  BY <1>1, CopiesBehind, PTL

(***************************************************************************)
(* Part 2: the measured runs.                                              *)
(***************************************************************************)
RunPcs == {"idle", "posting", "granting", "refused", "measuring", "fetching", "failed", "over"}
          \union Deleting
CreditRec ==
    [holder : Leases \union {NoLease}, epoch : Nat, bytes : Int, requests : Int,
     distinct : Distincts \union {0}, repeated : Int]

RunRec ==
    [pc : RunPcs, held : BOOLEAN, background : BOOLEAN, gaveUp : BOOLEAN,
     evicted : BOOLEAN, before : SnapshotRec, credit : CreditRec]

RunTypes ==
    /\ run \in [Leases -> RunRec]
    /\ snapshot \in [Leases -> SnapshotRec]

\* Somebody still has the lease in hand, or its loss is on record.
Accountable(r, c) ==
    \/ c.pc \in {"granting", "measuring", "fetching"} \union Deleting
    \/ c.pc \in {"posting", "refused"} /\ c.held
    \/ c.background \/ c.gaveUp
    \/ r \in lost

Knows(c) ==
    /\ c.background => c.pc = "failed"
    /\ c.pc = "handing" => c.held

KInv ==
    /\ RunTypes
    /\ \A r \in Leases : Knows(run[r]) /\ (lease.id = r => Accountable(r, run[r]))

\* The stamp names the acquisition's owner.
Stamped(owner, id, at) == at \in 0..acquired /\ owner[at] = id

OwnedBy(owner) ==
    /\ owner[0] = NoLease
    /\ Stamped(owner, lease.id, lease.acquiredAt)
    /\ \A r \in Leases :
          /\ Stamped(owner, snapshot[r].leaseID, snapshot[r].acquiredAt)
          /\ Stamped(owner, run[r].before.leaseID, run[r].before.acquiredAt)
          /\ Stamped(owner, run[r].credit.holder, run[r].credit.epoch)

OInv ==
    /\ acquired <= MaxAcquired
    /\ \E owner \in [0..MaxAcquired -> Leases \union {NoLease}] : OwnedBy(owner)

(***************************************************************************)
(* The composition is a use of the shaper.                                 *)
(***************************************************************************)
\* Every step of the runs is a step the shaper allows, or none of its own.
LEMMA RunStepsShaper == RunNext => [Next]_vars
<1> SUFFICES ASSUME RunNext PROVE [Next]_vars
  OBVIOUS
<1>1. CASE ShaperTraffic
  BY <1>1 DEF ShaperTraffic, Next
<1>2. ASSUME NEW r \in Leases, ShaperSnapshot(r) PROVE [Next]_vars
  BY <1>2, ReadersAssumption DEF ShaperSnapshot, Next
<1>3. ASSUME NEW r \in Leases, LatePost(r) \/ LateDelete(r) PROVE [Next]_vars
  BY <1>3 DEF LatePost, LateDelete, Next
<1>4. ASSUME NEW r \in Leases, Acquiring(r) PROVE [Next]_vars
  <2>1. CASE GrantAnswered(r)
    <3>1. SnapshotServed(r)
      BY <2>1 DEF GrantAnswered, SnapshotServed, DropSnapshot
    <3> QED
      BY <3>1, ReadersAssumption DEF Next
  <2>2. CASE PostExecuted(r)
    BY <2>2 DEF PostExecuted, Next
  <2> QED
    BY <1>4, <2>1, <2>2
    DEF Acquiring, StartRun, PostFailed, PostTimedOut, GrantLost, Retry, GiveUpAcquiring, vars
<1>5. ASSUME NEW r \in Leases, Measuring(r) PROVE [Next]_vars
  <2>1. CASE FetchedQuiet(r) \/ FetchedBusy(r)
    <3>1. SnapshotServed(r)
      BY <2>1 DEF FetchedQuiet, FetchedBusy, SnapshotServed, DropSnapshot
    <3> QED
      BY <3>1, ReadersAssumption DEF Next
  <2> QED
    BY <1>5, <2>1 DEF Measuring, AdapterFails, AdapterReturns, FetchFailed, vars
<1>6. ASSUME NEW r \in Leases, Releasing(r) PROVE [Next]_vars
  <2>1. CASE ReleaseExecutionLease(r) /\ UNCHANGED snapshot
    BY <2>1 DEF Next
  <2> QED
    BY <1>6, <2>1
    DEF Releasing, DeleteAnswered, DeleteUnanswered, DeleteTimedOut, DeleteGivenUp,
        BackgroundRelease, BackgroundExpires, vars
<1> QED
  BY <1>1, <1>2, <1>3, <1>4, <1>5, <1>6 DEF RunNext

\* The harness's runs, however they overlap, lose and delay requests, are one
\* use of the shaper: RunSpec implements Attestation's Spec, and with it every
\* property proved of the shaper on its own holds while it is measured with.
THEOREM UsesTheShaper == RunSpec => Spec
<1>1. RunInit => Init
  BY DEF RunInit
<1>2. [RunNext]_allVars => [Next]_vars
  BY RunStepsShaper DEF allVars
<1> QED
  BY <1>1, <1>2, PTL DEF RunSpec, Spec

\* What the lease does in each kind of step.
LEMMA AcquireMoves ==
    ASSUME NEW r, AcquireExecutionLease(r)
    PROVE  /\ lease.id = NoLease /\ lease'.id = r
           /\ lease'.acquiredAt = acquired + 1 /\ acquired' = acquired + 1
           /\ acquired < MaxAcquired
BY DEF AcquireExecutionLease, CanAcquire

LEMMA ReleaseMoves ==
    ASSUME NEW r, ReleaseExecutionLease(r)
    PROVE  /\ lease.id = r /\ lease'.id = NoLease /\ lease'.acquiredAt = 0
           /\ acquired' = acquired
BY DEF ReleaseExecutionLease, CanRelease, NoLeaseHeld

LEMMA TrafficKeeps ==
    ASSUME TypeOK, Traffic
    PROVE  lease'.id = lease.id /\ lease'.acquiredAt = lease.acquiredAt /\ acquired' = acquired
<1>1. PICK c \in Conns :
        \/ \E s \in Sources : OpenDownstream(c, s)
        \/ leaseVars' = leaseVars
  BY DEF Traffic, OpenDownstreamActive, AddDownstreamBytes, AddSourceBytes, ObserveCommand,
         CloseDownstream
<1>2. ASSUME NEW s \in Sources, OpenDownstream(c, s)
      PROVE  lease'.id = lease.id /\ lease'.acquiredAt = lease.acquiredAt /\ acquired' = acquired
  BY <1>2 DEF OpenDownstream, TypeOK
<1> QED
  BY <1>1, <1>2 DEF leaseVars

(***************************************************************************)
(* Who answers for a lease.                                                *)
(***************************************************************************)
\* An empty snapshot and a new run are well typed.
LEMMA Empty ==
    /\ EmptySnapshot \in SnapshotRec /\ NoCredit \in CreditRec
    /\ EmptySnapshot.leaseID = NoLease /\ EmptySnapshot.acquiredAt = 0
    /\ NoCredit.holder = NoLease /\ NoCredit.epoch = 0
BY EmptyTyped DEF NoCredit, CreditRec

LEMMA NewRunTyped ==
    /\ NewRun \in RunRec /\ Knows(NewRun)
    /\ NewRun.before = EmptySnapshot /\ NewRun.credit = NoCredit
<1>1. NewRun \in RunRec
  BY Empty DEF NewRun, RunRec, RunPcs
<1> QED
  BY <1>1 DEF NewRun, Knows

\* Taking a snapshot is well typed.
LEMMA SnapshotTyped ==
    ASSUME RunTypes, TypeOK, NEW r \in Leases, SnapshotCommands(r) \/ SnapshotStep(r)
    PROVE  snapshot' \in [Leases -> SnapshotRec]
BY ReaderMoves, ReadersAssumption DEF RunTypes, SnapshotBecomes

\* One run steps; the lease stays, is freed, or is that run's.
LEMMA OneRun ==
    ASSUME KInv, NEW r \in Leases, NEW c \in RunRec, run' = [run EXCEPT ![r] = c],
           snapshot' \in [Leases -> SnapshotRec], lost \subseteq lost',
           lease'.id \in {lease.id, NoLease, r},
           Knows(c), lease'.id = r => Accountable(r, c) \/ r \in lost'
    PROVE  KInv'
<1>1. run \in [Leases -> RunRec]
  BY DEF KInv, RunTypes
<1>2. RunTypes'
  BY <1>1 DEF RunTypes
<1>3. ASSUME NEW q \in Leases PROVE (Knows(run[q]) /\ (lease.id = q => Accountable(q, run[q])))'
  <2>1. CASE q = r
    <3>1. run'[q] = c
      BY <1>1, <2>1
    <3> QED
      BY <2>1, <3>1 DEF Knows, Accountable
  <2>2. CASE q # r
    <3>1. run'[q] = run[q] /\ (lease'.id = q => lease.id = q)
      BY <1>1, <2>2, NoLeaseAssumption
    <3> QED
      BY <3>1 DEF KInv, Knows, Accountable
  <2> QED
    BY <2>1, <2>2
<1> QED
  BY <1>2, <1>3 DEF KInv

\* No run steps: traffic, a snapshot, or a request nobody waits for.
LEMMA NoRun ==
    ASSUME KInv, run' = run, snapshot' \in [Leases -> SnapshotRec], lost \subseteq lost',
           lease'.id \in {lease.id, NoLease} \union lost'
    PROVE  KInv'
<1>1. RunTypes'
  BY DEF KInv, RunTypes
<1>2. ASSUME NEW q \in Leases PROVE (Knows(run[q]) /\ (lease.id = q => Accountable(q, run[q])))'
  <2>1. lease'.id = q => lease.id = q \/ q \in lost'
    BY NoLeaseAssumption
  <2> QED
    BY <2>1 DEF KInv, Knows, Accountable
<1> QED
  BY <1>1, <1>2 DEF KInv

\* The fields of a run that only moves.
LEMMA RunMoves ==
    ASSUME NEW c \in RunRec, NEW pc \in RunPcs
    PROVE  LET d == [c EXCEPT !.pc = pc]
           IN  d \in RunRec /\ d.pc = pc /\ d.held = c.held /\ d.background = c.background
               /\ d.gaveUp = c.gaveUp /\ d.before = c.before /\ d.credit = c.credit
BY DEF RunRec

USE DEF Deleting, RunPcs

\* The shaper's own steps and the requests given up.
LEMMA ShaperKInv ==
    ASSUME KInv, TypeOK, NEW r \in Leases,
           ShaperTraffic \/ ShaperSnapshot(r) \/ LatePost(r) \/ LateDelete(r)
    PROVE  KInv'
<1>1. CASE ShaperTraffic
  BY <1>1, TrafficKeeps, NoRun DEF ShaperTraffic, KInv, RunTypes
<1>2. CASE ShaperSnapshot(r)
  <2>1. lease' = lease /\ UNCHANGED runVars
    BY <1>2 DEF ShaperSnapshot, SnapshotCommands, SnapshotStep, SnapshotSources, SnapshotConnections,
                SnapshotActive, SnapshotBytes, shaperVars, leaseVars
  <2>2. snapshot' \in [Leases -> SnapshotRec]
    BY <1>2, SnapshotTyped DEF ShaperSnapshot, KInv
  <2> QED
    BY <2>1, <2>2, NoRun DEF runVars
<1>3. CASE LatePost(r)
  BY <1>3, AcquireMoves, NoRun DEF LatePost, KInv, RunTypes
<1>4. CASE LateDelete(r)
  <2> DEFINE ev == run[r].evicted \/ At(r, "granting")
             d == [run[r] EXCEPT !.evicted = ev]
  <2>1. /\ run' = [run EXCEPT ![r] = d] /\ snapshot' = snapshot /\ lost' = lost
        /\ lease'.id = NoLease
    BY <1>4, ReleaseMoves DEF LateDelete, Become
  <2>2. run[r] \in RunRec /\ Knows(run[r]) /\ snapshot \in [Leases -> SnapshotRec]
    BY DEF KInv, RunTypes
  <2>3. ev \in BOOLEAN
    BY <2>2 DEF RunRec, At
  <2> HIDE DEF ev
  <2>4. d \in RunRec /\ d.pc = run[r].pc /\ d.held = run[r].held /\ d.background = run[r].background
    BY <2>2, <2>3 DEF RunRec
  <2> HIDE DEF d
  <2>5. Knows(d) /\ lease'.id # r
    BY <2>1, <2>2, <2>4, NoLeaseAssumption DEF Knows
  <2> QED
    BY <2>1, <2>2, <2>4, <2>5, OneRun
<1> QED
  BY <1>1, <1>2, <1>3, <1>4

\* Acquiring a lease, and giving up on it.
LEMMA AcquiringKInv ==
    ASSUME KInv, NEW r \in Leases, Acquiring(r)
    PROVE  KInv'
<1> DEFINE c == run[r]
<1>1. c \in RunRec /\ Knows(c) /\ (lease.id = r => Accountable(r, c))
      /\ snapshot \in [Leases -> SnapshotRec] /\ r # NoLease
  BY NoLeaseAssumption DEF KInv, RunTypes
<1>2. ASSUME NEW pc \in RunPcs, Goto(r, pc), snapshot' = snapshot, lost \subseteq lost',
             lease'.id \in {lease.id, r},
             c.pc # "failed", pc # "handing",
             pc = "granting" \/ r \in lost' \/ lease' = lease,
             \/ pc = "granting" \/ r \in lost'
             \/ pc \in {"posting", "refused"} /\ c.pc \in {"posting", "refused"}
             \/ c.pc = "idle"
             \/ c.pc = "refused" /\ pc = "failed" /\ ~c.held
             \/ pc = "stranded"
      PROVE  KInv'
  <2> DEFINE d == [c EXCEPT !.pc = pc]
  <2>1. /\ d \in RunRec /\ d.pc = pc /\ d.held = c.held /\ d.background = c.background
        /\ d.gaveUp = c.gaveUp
    BY <1>1, RunMoves
  <2>2. run' = [run EXCEPT ![r] = d]
    BY <1>2 DEF Goto, Become
  <2> HIDE DEF d, c
  <2>3. Knows(d)
    BY <1>1, <1>2, <2>1 DEF Knows
  <2>4. lease'.id = r => Accountable(r, d) \/ r \in lost'
    BY <1>1, <1>2, <2>1 DEF Accountable, Knows
  <2> QED
    BY <1>1, <1>2, <2>1, <2>2, <2>3, <2>4, OneRun
<1>3. CASE StartRun(r) \/ PostFailed(r) \/ PostTimedOut(r) \/ Retry(r)
  <2>1. PICK pc \in {"posting", "refused"} : Goto(r, pc) /\ c.pc \in {"idle", "posting", "refused"}
    BY <1>3 DEF StartRun, PostFailed, PostTimedOut, Retry, At
  <2>2. lease' = lease /\ snapshot' = snapshot /\ lost' = lost
    BY <1>3 DEF StartRun, PostFailed, PostTimedOut, Retry, shaperVars, leaseVars
  <2> HIDE DEF c
  <2> QED
    BY <1>2, <2>1, <2>2
<1>4. CASE PostExecuted(r)
  <2> DEFINE d == [c EXCEPT !.pc = "granting", !.evicted = FALSE]
  <2>1. /\ run' = [run EXCEPT ![r] = d] /\ snapshot' = snapshot /\ lost' = lost
        /\ c.pc = "posting" /\ lease'.id = r
    BY <1>4, AcquireMoves DEF PostExecuted, At, Become
  <2>2. d \in RunRec /\ d.pc = "granting" /\ d.background = c.background
    BY <1>1 DEF RunRec
  <2> HIDE DEF d, c
  <2>3. Knows(d) /\ Accountable(r, d)
    BY <1>1, <2>1, <2>2 DEF Knows, Accountable
  <2> QED
    BY <1>1, <2>1, <2>2, <2>3, OneRun
<1>5. CASE GrantLost(r)
  <2>1. Goto(r, "refused") /\ snapshot' = snapshot /\ lost' = lost \union {r} /\ c.pc = "granting"
        /\ lease' = lease
    BY <1>5 DEF GrantLost, At, shaperVars, leaseVars
  <2> HIDE DEF c
  <2> QED
    BY <1>2, <2>1
<1>6. CASE GiveUpAcquiring(r)
  <2>1. Goto(r, IF c.held THEN "stranded" ELSE "failed") /\ snapshot' = snapshot /\ lost' = lost
        /\ c.pc = "refused" /\ lease' = lease
    BY <1>6 DEF GiveUpAcquiring, At, shaperVars, leaseVars
  <2>2. (IF c.held THEN "stranded" ELSE "failed") \in RunPcs
        /\ (IF c.held THEN "stranded" ELSE "failed") # "handing"
        /\ (\/ (IF c.held THEN "stranded" ELSE "failed") = "stranded"
            \/ (IF c.held THEN "stranded" ELSE "failed") = "failed" /\ ~c.held)
    OBVIOUS
  <2> HIDE DEF c
  <2> QED
    BY <1>2, <2>1, <2>2
<1>7. CASE GrantAnswered(r)
  <2> DEFINE s == snapshot[r]
             pc == IF s.active # 0 THEN "handing"
                   ELSE IF ValidateFor(s) THEN "measuring" ELSE "returning"
             before == IF ValidateFor(s) THEN s ELSE c.before
             d == [c EXCEPT !.held = TRUE, !.before = before, !.pc = pc]
  <2>1. run' = [run EXCEPT ![r] = d] /\ lost' = lost /\ lease' = lease /\ c.pc = "granting"
    BY <1>7 DEF GrantAnswered, Become, shaperVars, leaseVars, At
  <2>2. snapshot' \in [Leases -> SnapshotRec]
    BY <1>1, <1>7, Empty DEF GrantAnswered, DropSnapshot
  <2>3. before \in SnapshotRec /\ pc \in {"handing", "measuring", "returning"}
    BY <1>1 DEF RunRec
  <2> HIDE DEF before, pc
  <2>4. d \in RunRec /\ d.pc = pc /\ d.held = TRUE /\ d.background = c.background /\ d.gaveUp = c.gaveUp
    BY <1>1, <2>3 DEF RunRec
  <2> HIDE DEF d, c
  <2>5. Knows(d) /\ Accountable(r, d)
    BY <1>1, <2>1, <2>3, <2>4 DEF Knows, Accountable
  <2> QED
    BY <2>1, <2>2, <2>4, <2>5, OneRun
<1> QED
  BY <1>3, <1>4, <1>5, <1>6, <1>7 DEF Acquiring

\* Handing a lease back, in the foreground and in the background.
LEMMA ReleasingKInv ==
    ASSUME KInv, NEW r \in Leases, Releasing(r)
    PROVE  KInv'
<1> DEFINE c == run[r]
<1>1. c \in RunRec /\ Knows(c) /\ (lease.id = r => Accountable(r, c))
      /\ snapshot \in [Leases -> SnapshotRec] /\ r # NoLease /\ run \in [Leases -> RunRec]
  BY NoLeaseAssumption DEF KInv, RunTypes
<1>2. CASE DeleteAnswered(r)
  <2> DEFINE pc == AfterRelease[c.pc]
             d == [c EXCEPT !.pc = pc, !.held = FALSE]
  <2>1. run' = [run EXCEPT ![r] = d] /\ snapshot' = snapshot /\ lost' = lost /\ c.pc \in Deleting
    BY <1>2 DEF DeleteAnswered, Become
  <2>2. lease'.id = NoLease
    BY <1>2, ReleaseMoves DEF DeleteAnswered
  <2>3. pc \in {"refused", "failed", "over"}
    BY <2>1 DEF AfterRelease
  <2> HIDE DEF pc
  <2>4. d \in RunRec /\ d.pc = pc /\ d.background = c.background
    BY <1>1, <2>3 DEF RunRec
  <2> HIDE DEF d, c
  <2>5. Knows(d)
    BY <1>1, <2>1, <2>3, <2>4 DEF Knows
  <2> QED
    BY <1>1, <2>1, <2>2, <2>4, <2>5, OneRun
<1>3. CASE DeleteUnanswered(r)
  BY <1>1, <1>3, ReleaseMoves, NoRun DEF DeleteUnanswered, runVars
<1>4. CASE DeleteTimedOut(r)
  BY <1>1, <1>4, NoRun DEF DeleteTimedOut, shaperVars, leaseVars
<1>5. CASE DeleteGivenUp(r)
  <2> DEFINE pc == AfterGivingUp[c.pc]
             bg == c.pc = "stranded"
             gu == c.gaveUp \/ c.pc = "releasing"
             d == [c EXCEPT !.pc = pc, !.background = bg, !.gaveUp = gu]
  <2>1. run' = [run EXCEPT ![r] = d] /\ snapshot' = snapshot /\ lost' = lost /\ c.pc \in Deleting
        /\ lease' = lease
    BY <1>5 DEF DeleteGivenUp, Become, At, shaperVars, leaseVars
  <2>2. /\ pc \in {"refused", "stranded", "failed", "over"}
        /\ c.pc = "handing" => pc = "refused"
        /\ c.pc = "returning" => pc = "stranded"
        /\ c.pc = "stranded" => pc = "failed"
    BY <2>1 DEF AfterGivingUp
  <2>3. bg \in BOOLEAN /\ gu \in BOOLEAN /\ (bg <=> c.pc = "stranded")
        /\ (c.pc = "releasing" => gu)
    BY <1>1 DEF RunRec
  <2> HIDE DEF pc, bg, gu
  <2>4. d \in RunRec /\ d.pc = pc /\ d.background = bg /\ d.gaveUp = gu /\ d.held = c.held
    BY <1>1, <2>2, <2>3 DEF RunRec
  <2> HIDE DEF d, c
  <2>5. Knows(d)
    BY <1>1, <2>2, <2>3, <2>4 DEF Knows
  <2>6. Accountable(r, d)
    BY <1>1, <2>1, <2>2, <2>3, <2>4 DEF Knows, Accountable
  <2> QED
    BY <1>1, <2>1, <2>4, <2>5, <2>6, OneRun
<1>6. CASE BackgroundRelease(r)
  <2> DEFINE d == [c EXCEPT !.background = FALSE]
  <2>1. run' = [run EXCEPT ![r] = d] /\ snapshot' = snapshot /\ lost' = lost
    BY <1>6 DEF BackgroundRelease, Become
  <2>2. lease'.id = NoLease
    BY <1>6, ReleaseMoves DEF BackgroundRelease
  <2>3. d \in RunRec /\ d.pc = c.pc /\ d.held = c.held /\ ~d.background
    BY <1>1 DEF RunRec
  <2> HIDE DEF d, c
  <2>4. Knows(d)
    BY <1>1, <2>3 DEF Knows
  <2> QED
    BY <1>1, <2>1, <2>2, <2>3, <2>4, OneRun
<1>7. CASE BackgroundExpires(r)
  <2> DEFINE d == [c EXCEPT !.background = FALSE, !.gaveUp = TRUE]
  <2>1. run' = [run EXCEPT ![r] = d] /\ snapshot' = snapshot /\ lost' = lost /\ lease' = lease
    BY <1>7 DEF BackgroundExpires, Become, shaperVars, leaseVars
  <2>2. d \in RunRec /\ d.pc = c.pc /\ d.held = c.held /\ ~d.background /\ d.gaveUp
    BY <1>1 DEF RunRec
  <2> HIDE DEF d, c
  <2>3. Knows(d) /\ Accountable(r, d)
    BY <1>1, <2>2 DEF Knows, Accountable
  <2> QED
    BY <1>1, <2>1, <2>2, <2>3, OneRun
<1> QED
  BY <1>2, <1>3, <1>4, <1>5, <1>6, <1>7 DEF Releasing

\* What a run records is well typed.
LEMMA CreditTyped ==
    ASSUME NEW b \in SnapshotRec, NEW a \in SnapshotRec
    PROVE  /\ Credit(b, a) \in CreditRec
           /\ Credit(b, a).holder = b.leaseID /\ Credit(b, a).epoch = a.acquiredAt
<1>1. /\ a.bytes - b.bytes \in Int /\ a.requests - b.requests \in Int
      /\ a.repeated - b.repeated \in Int /\ a.distinct \in Distincts \union {0}
      /\ b.leaseID \in Leases \union {NoLease} /\ a.acquiredAt \in Nat
  BY DEF SnapshotRec
<1> QED
  BY <1>1 DEF Credit, CreditRec

\* The measured part of a run: every way out of it is a release.
LEMMA FinishKInv ==
    ASSUME KInv, NEW r \in Leases, NEW credit \in CreditRec, Finish(r, credit),
           run[r].pc \in {"measuring", "fetching"},
           snapshot' \in [Leases -> SnapshotRec], lost' = lost, lease' = lease
    PROVE  KInv'
<1> DEFINE c == run[r]
           d == [c EXCEPT !.pc = "releasing", !.credit = credit, !.before = EmptySnapshot]
<1>1. c \in RunRec /\ Knows(c)
  BY DEF KInv, RunTypes
<1>2. d \in RunRec /\ d.pc = "releasing" /\ d.background = c.background
  BY <1>1, Empty DEF RunRec
<1>3. run' = [run EXCEPT ![r] = d] /\ c.pc # "failed"
  BY DEF Finish, Become
<1> HIDE DEF c, d
<1>4. Knows(d) /\ Accountable(r, d)
  BY <1>1, <1>2, <1>3 DEF Knows, Accountable
<1> QED
  BY <1>2, <1>3, <1>4, OneRun

LEMMA MeasuringKInv ==
    ASSUME KInv, NEW r \in Leases, Measuring(r)
    PROVE  KInv'
<1>1. run[r] \in RunRec /\ Knows(run[r]) /\ snapshot[r] \in SnapshotRec
      /\ snapshot \in [Leases -> SnapshotRec] /\ run[r].before \in SnapshotRec
  BY DEF KInv, RunTypes, RunRec
<1>2. CASE AdapterFails(r) \/ FetchFailed(r)
  BY <1>1, <1>2, Empty, FinishKInv DEF AdapterFails, FetchFailed, At, shaperVars, leaseVars
<1>3. CASE AdapterReturns(r)
  <2> DEFINE d == [run[r] EXCEPT !.pc = "fetching"]
  <2>1. run' = [run EXCEPT ![r] = d] /\ snapshot' = snapshot /\ lost' = lost /\ lease' = lease
        /\ run[r].pc = "measuring"
    BY <1>3 DEF AdapterReturns, Goto, Become, At, shaperVars, leaseVars
  <2>2. d \in RunRec /\ d.pc = "fetching" /\ d.background = run[r].background
    BY <1>1, RunMoves
  <2> HIDE DEF d
  <2>3. Knows(d) /\ Accountable(r, d)
    BY <1>1, <2>1, <2>2 DEF Knows, Accountable
  <2> QED
    BY <1>1, <2>1, <2>2, <2>3, OneRun
<1>4. CASE FetchedQuiet(r)
  <2> DEFINE credit == IF Accepts(run[r].before, snapshot[r])
                       THEN Credit(run[r].before, snapshot[r]) ELSE NoCredit
  <2>1. credit \in CreditRec
    BY <1>1, CreditTyped, Empty
  <2>2. Finish(r, credit) /\ run[r].pc = "fetching" /\ lost' = lost /\ lease' = lease
    BY <1>4 DEF FetchedQuiet, At, shaperVars, leaseVars
  <2>3. snapshot' \in [Leases -> SnapshotRec]
    BY <1>1, <1>4, Empty DEF FetchedQuiet, DropSnapshot
  <2> HIDE DEF credit
  <2> QED
    BY <2>1, <2>2, <2>3, FinishKInv
<1>5. CASE FetchedBusy(r)
  <2>1. snapshot' \in [Leases -> SnapshotRec]
    BY <1>1, <1>5, Empty DEF FetchedBusy, DropSnapshot
  <2> QED
    BY <1>5, <2>1, NoRun DEF FetchedBusy, runVars, shaperVars, leaseVars
<1> QED
  BY <1>2, <1>3, <1>4, <1>5 DEF Measuring

LEMMA KInvInit == RunInit => KInv
<1> SUFFICES ASSUME RunInit PROVE KInv
  OBVIOUS
<1>1. RunTypes
  BY NewRunTyped, Empty, ReadersAssumption DEF RunInit, Init, RunTypes
<1>2. \A r \in Leases : Knows(run[r]) /\ lease.id # r
  BY NewRunTyped, NoLeaseAssumption DEF RunInit, Init, NewAttestation, NoLeaseHeld
<1> QED
  BY <1>1, <1>2 DEF KInv

LEMMA KInvStep == KInv /\ TypeOK /\ [RunNext]_allVars => KInv'
<1> SUFFICES ASSUME KInv, TypeOK, [RunNext]_allVars PROVE KInv'
  OBVIOUS
<1>1. CASE UNCHANGED allVars
  BY <1>1, NoRun DEF allVars, vars, runVars, shaperVars, leaseVars, KInv, RunTypes
<1>2. CASE ShaperTraffic
  BY <1>2, TrafficKeeps, NoRun DEF ShaperTraffic, KInv, RunTypes
<1> QED
  BY <1>1, <1>2, ShaperKInv, AcquiringKInv, MeasuringKInv, ReleasingKInv DEF RunNext

\* In every behaviour of the runs, the shaper's invariant holds.
LEMMA ShaperTyped == RunSpec => []TypeOK
BY UsesTheShaper, TypeCorrect, PTL

\* Every lease a run has is in somebody's hands.
THEOREM Accounted == RunSpec => []KInv
<1>1. RunInit => KInv
  BY KInvInit
<1>2. KInv /\ TypeOK /\ [RunNext]_allVars => KInv'
  BY KInvStep
<1> QED
  BY <1>1, <1>2, ShaperTyped, PTL DEF RunSpec

\* However requests are lost, delayed and given up, a lease outlives its run
\* only behind a background goroutine, an exhausted budget or a lost answer.
THEOREM StrandedOnlyByLoss == RunSpec => []LeaseStrandedOnlyByLoss
<1>1. KInv => LeaseStrandedOnlyByLoss
  BY DEF KInv, Accountable, LeaseStrandedOnlyByLoss, Over
<1> QED
  BY <1>1, Accounted, PTL

(***************************************************************************)
(* Whose acquisition a stamp names.                                        *)
(***************************************************************************)
StampOf(s) == <<s.leaseID, s.acquiredAt>>
CreditStamp(c) == <<c.holder, c.epoch>>
NoStamp == <<NoLease, 0>>
LeaseStamp == <<lease.id, lease.acquiredAt>>

\* The copy a snapshot holds: of whom, and what had been attributed by then.
CopyOf(s) == <<StampOf(s), s.sourceBytes>>
NoCopy == <<NoStamp, ZeroCounters>>
LeaseCopy == <<LeaseStamp, sourceBytes>>

\* The snapshot a run started from is kept, dropped, or handed to it; its credit
\* is kept, dropped, or computed from a pair it accepts.
RunCopies(r, c, d) ==
    /\ d.before \in {c.before, EmptySnapshot, snapshot[r]}
    /\ \/ d.credit \in {c.credit, NoCredit}
       \/ Accepts(c.before, snapshot[r]) /\ d.credit = Credit(c.before, snapshot[r])

\* A step invents nothing: it copies what there is.
Copies ==
    \A r \in Leases :
        /\ CopyOf(snapshot'[r]) \in {CopyOf(snapshot[r]), NoCopy, LeaseCopy}
        /\ RunCopies(r, run[r], run'[r])

LEMMA OneRunCopies ==
    ASSUME RunTypes, NEW r \in Leases, NEW d, run' = [run EXCEPT ![r] = d], RunCopies(r, run[r], d),
           snapshot' = snapshot \/ DropSnapshot(r)
    PROVE  Copies
<1> SUFFICES ASSUME NEW q \in Leases
             PROVE  /\ CopyOf(snapshot'[q]) \in {CopyOf(snapshot[q]), NoCopy, LeaseCopy}
                    /\ RunCopies(q, run[q], run'[q])
  BY DEF Copies
<1>1. snapshot'[q] \in {snapshot[q], EmptySnapshot}
  BY DEF RunTypes, DropSnapshot
<1>2. CopyOf(EmptySnapshot) = NoCopy
  BY EmptyTyped DEF CopyOf, NoCopy, StampOf, NoStamp
<1>3. RunCopies(q, run[q], run[q])
  BY DEF RunCopies
<1>4. run'[q] = IF q = r THEN d ELSE run[q]
  BY DEF RunTypes
<1> QED
  BY <1>1, <1>2, <1>3, <1>4

LEMMA NoRunCopies ==
    ASSUME run' = run,
           \A r \in Leases : CopyOf(snapshot'[r]) \in {CopyOf(snapshot[r]), NoCopy, LeaseCopy}
    PROVE  Copies
BY DEF Copies, RunCopies

\* A snapshot in the making takes the stamp of the lease that is held, with
\* what is attributed at that instant.
LEMMA SnapshotCopies ==
    ASSUME RunTypes, TypeOK, NEW r \in Leases, SnapshotCommands(r) \/ SnapshotStep(r),
           NEW q \in Leases
    PROVE  CopyOf(snapshot'[q]) \in {CopyOf(snapshot[q]), NoCopy, LeaseCopy}
<1>1. PICK s : snapshot' = [snapshot EXCEPT ![r] = s] /\ SnapshotBecomes(snapshot[r], s)
  BY ReaderMoves, ReadersAssumption DEF RunTypes
<1>2. CopyOf(s) \in {CopyOf(snapshot[r]), NoCopy, LeaseCopy}
  BY <1>1 DEF SnapshotBecomes, CopyOf, NoCopy, LeaseCopy, StampOf, NoStamp, LeaseStamp
<1>3. snapshot'[q] = IF q = r THEN s ELSE snapshot[q]
  BY <1>1 DEF RunTypes
<1> QED
  BY <1>2, <1>3

\* Steps that leave a run's stamps alone.
LEMMA AcquiringCopies ==
    ASSUME RunTypes, NEW r \in Leases, Acquiring(r)
    PROVE  Copies
<1>1. run[r] \in RunRec
  BY DEF RunTypes
<1>2. ASSUME NEW pc \in RunPcs, Goto(r, pc), snapshot' = snapshot PROVE Copies
  <2> DEFINE d == [run[r] EXCEPT !.pc = pc]
  <2>1. run' = [run EXCEPT ![r] = d]
    BY <1>2 DEF Goto, Become
  <2>2. d.before = run[r].before /\ d.credit = run[r].credit
    BY <1>1, RunMoves
  <2> HIDE DEF d
  <2> QED
    BY <1>2, <2>1, <2>2, OneRunCopies DEF RunCopies
<1>3. CASE GrantAnswered(r)
  <2> DEFINE s == snapshot[r]
             pc == IF s.active # 0 THEN "handing"
                   ELSE IF ValidateFor(s) THEN "measuring" ELSE "returning"
             before == IF ValidateFor(s) THEN s ELSE run[r].before
             d == [run[r] EXCEPT !.held = TRUE, !.before = before, !.pc = pc]
  <2>1. run' = [run EXCEPT ![r] = d] /\ DropSnapshot(r)
    BY <1>3 DEF GrantAnswered, Become
  <2>2. before \in {s, run[r].before}
    OBVIOUS
  <2> HIDE DEF pc, before
  <2>3. d.before = before /\ d.credit = run[r].credit
    BY <1>1 DEF RunRec
  <2> HIDE DEF d
  <2> QED
    BY <2>1, <2>2, <2>3, OneRunCopies DEF RunCopies
<1>4. CASE GiveUpAcquiring(r)
  <2>1. (IF run[r].held THEN "stranded" ELSE "failed") \in RunPcs
    OBVIOUS
  <2> QED
    BY <1>2, <1>4, <2>1 DEF GiveUpAcquiring
<1>5. CASE PostExecuted(r)
  <2> DEFINE d == [run[r] EXCEPT !.pc = "granting", !.evicted = FALSE]
  <2>1. run' = [run EXCEPT ![r] = d] /\ snapshot' = snapshot
    BY <1>5 DEF PostExecuted, Become
  <2>2. d.before = run[r].before /\ d.credit = run[r].credit
    BY <1>1 DEF RunRec
  <2> HIDE DEF d
  <2> QED
    BY <2>1, <2>2, OneRunCopies DEF RunCopies
<1> QED
  BY <1>2, <1>3, <1>4, <1>5
  DEF Acquiring, StartRun, PostFailed, PostTimedOut, GrantLost, Retry

LEMMA ReleasingCopies ==
    ASSUME RunTypes, NEW r \in Leases, Releasing(r)
    PROVE  Copies
<1>1. run[r] \in RunRec
  BY DEF RunTypes
<1>2. ASSUME NEW d, Become(r, d), snapshot' = snapshot,
             d.before = run[r].before, d.credit = run[r].credit
      PROVE  Copies
  BY <1>2, OneRunCopies DEF RunCopies, Become
<1>3. CASE DeleteAnswered(r)
  BY <1>1, <1>2, <1>3 DEF DeleteAnswered, RunRec
<1>4. CASE DeleteUnanswered(r) \/ DeleteTimedOut(r)
  BY <1>4, NoRunCopies DEF DeleteUnanswered, DeleteTimedOut, runVars
<1>5. CASE DeleteGivenUp(r)
  BY <1>1, <1>2, <1>5 DEF DeleteGivenUp, RunRec
<1>6. CASE BackgroundRelease(r) \/ BackgroundExpires(r)
  BY <1>1, <1>2, <1>6 DEF BackgroundRelease, BackgroundExpires, RunRec
<1> QED
  BY <1>3, <1>4, <1>5, <1>6 DEF Releasing

\* The measured part drops the start and records a credit, or neither.
LEMMA MeasuringCopies ==
    ASSUME RunTypes, NEW r \in Leases, Measuring(r)
    PROVE  Copies
<1>1. run[r] \in RunRec
  BY DEF RunTypes
<1>2. ASSUME NEW credit, Finish(r, credit), snapshot' = snapshot \/ DropSnapshot(r),
             \/ credit = NoCredit
             \/ /\ Accepts(run[r].before, snapshot[r])
                /\ credit = Credit(run[r].before, snapshot[r])
      PROVE  Copies
  <2> DEFINE d == [run[r] EXCEPT !.pc = "releasing", !.credit = credit, !.before = EmptySnapshot]
  <2>1. run' = [run EXCEPT ![r] = d]
    BY <1>2 DEF Finish, Become
  <2>2. d.before = EmptySnapshot /\ d.credit = credit
    BY <1>1 DEF RunRec
  <2> HIDE DEF d
  <2> QED
    BY <1>2, <2>1, <2>2, OneRunCopies DEF RunCopies
<1>3. CASE AdapterFails(r) \/ FetchFailed(r)
  BY <1>2, <1>3 DEF AdapterFails, FetchFailed
<1>4. CASE AdapterReturns(r)
  <2> DEFINE d == [run[r] EXCEPT !.pc = "fetching"]
  <2>1. run' = [run EXCEPT ![r] = d] /\ snapshot' = snapshot
    BY <1>4 DEF AdapterReturns, Goto, Become
  <2>2. d.before = run[r].before /\ d.credit = run[r].credit
    BY <1>1, RunMoves
  <2> HIDE DEF d
  <2> QED
    BY <2>1, <2>2, OneRunCopies DEF RunCopies
<1>5. CASE FetchedQuiet(r)
  <2> DEFINE b == run[r].before
             a == snapshot[r]
             credit == IF Accepts(b, a) THEN Credit(b, a) ELSE NoCredit
  <2>1. Finish(r, credit) /\ DropSnapshot(r)
    BY <1>5 DEF FetchedQuiet
  <2>2. credit = NoCredit \/ (Accepts(b, a) /\ credit = Credit(b, a))
    OBVIOUS
  <2> HIDE DEF credit
  <2> QED
    BY <1>2, <2>1, <2>2
<1>6. CASE FetchedBusy(r)
  <2>1. CopyOf(EmptySnapshot) = NoCopy
    BY EmptyTyped DEF CopyOf, NoCopy, StampOf, NoStamp
  <2>2. \A q \in Leases : snapshot'[q] \in {snapshot[q], EmptySnapshot}
    BY <1>6 DEF FetchedBusy, DropSnapshot, RunTypes
  <2> QED
    BY <1>6, <2>1, <2>2, NoRunCopies DEF FetchedBusy, runVars
<1> QED
  BY <1>3, <1>4, <1>5, <1>6 DEF Measuring

\* Every step copies.
LEMMA RunNextCopies ==
    ASSUME RunTypes, TypeOK, RunNext
    PROVE  Copies
<1>1. CASE ShaperTraffic
  BY <1>1, NoRunCopies DEF ShaperTraffic
<1>2. ASSUME NEW r \in Leases, ShaperSnapshot(r) PROVE Copies
  BY <1>2, SnapshotCopies, NoRunCopies DEF ShaperSnapshot, runVars
<1>3. ASSUME NEW r \in Leases, LatePost(r) PROVE Copies
  BY <1>3, NoRunCopies DEF LatePost
<1>4. ASSUME NEW r \in Leases, LateDelete(r) PROVE Copies
  <2> DEFINE d == [run[r] EXCEPT !.evicted = @ \/ At(r, "granting")]
  <2>1. run' = [run EXCEPT ![r] = d] /\ snapshot' = snapshot
    BY <1>4 DEF LateDelete, Become
  <2>2. d.before = run[r].before /\ d.credit = run[r].credit
    BY DEF RunTypes, RunRec
  <2> HIDE DEF d
  <2> QED
    BY <2>1, <2>2, OneRunCopies DEF RunCopies
<1> QED
  BY <1>1, <1>2, <1>3, <1>4, AcquiringCopies, MeasuringCopies, ReleasingCopies DEF RunNext

\* Stamps are copied with the rest; a credit carries the stamp its run started
\* from, because a pair of snapshots with different stamps is refused.
LEMMA StampCopies ==
    ASSUME Copies, NEW r \in Leases
    PROVE  /\ StampOf(snapshot'[r]) \in {StampOf(snapshot[r]), NoStamp, LeaseStamp}
           /\ StampOf(run'[r].before) \in {StampOf(run[r].before), NoStamp, StampOf(snapshot[r])}
           /\ CreditStamp(run'[r].credit) \in
                {CreditStamp(run[r].credit), NoStamp, StampOf(run[r].before)}
<1>1. CopyOf(snapshot'[r]) \in {CopyOf(snapshot[r]), NoCopy, LeaseCopy}
  BY DEF Copies
<1>2. StampOf(snapshot'[r]) \in {StampOf(snapshot[r]), NoStamp, LeaseStamp}
  BY <1>1 DEF CopyOf, NoCopy, LeaseCopy
<1>3. StampOf(EmptySnapshot) = NoStamp /\ CreditStamp(NoCredit) = NoStamp
  BY Empty DEF StampOf, CreditStamp, NoStamp
<1>4. StampOf(run'[r].before) \in {StampOf(run[r].before), NoStamp, StampOf(snapshot[r])}
  BY <1>3 DEF Copies, RunCopies
<1>5. ASSUME NEW b, NEW a, Accepts(b, a) PROVE CreditStamp(Credit(b, a)) = StampOf(b)
  BY <1>5 DEF Accepts, PairValid, Credit, CreditStamp, StampOf
<1>6. CreditStamp(run'[r].credit) \in
        {CreditStamp(run[r].credit), NoStamp, StampOf(run[r].before)}
  BY <1>3, <1>5 DEF Copies, RunCopies
<1> QED
  BY <1>2, <1>4, <1>6

\* The lease itself: kept, freed, or the acquisition of a run.
LEMMA LeaseMoves ==
    ASSUME TypeOK, RunNext
    PROVE  \/ acquired' = acquired /\ LeaseStamp' \in {LeaseStamp, NoStamp}
           \/ \E r \in Leases : /\ acquired' = acquired + 1 /\ acquired < MaxAcquired
                               /\ LeaseStamp' = <<r, acquired + 1>>
<1>1. CASE ShaperTraffic
  BY <1>1, TrafficKeeps DEF ShaperTraffic, LeaseStamp
<1>2. ASSUME NEW r \in Leases, AcquireExecutionLease(r)
      PROVE  /\ acquired' = acquired + 1 /\ acquired < MaxAcquired
             /\ LeaseStamp' = <<r, acquired + 1>>
  BY <1>2, AcquireMoves DEF LeaseStamp
<1>3. ASSUME NEW r \in Leases, ReleaseExecutionLease(r)
      PROVE  acquired' = acquired /\ LeaseStamp' = NoStamp
  BY <1>3, ReleaseMoves DEF LeaseStamp, NoStamp
<1>4. ASSUME UNCHANGED leaseVars
      PROVE  acquired' = acquired /\ LeaseStamp' = LeaseStamp
  BY <1>4 DEF leaseVars, LeaseStamp
<1>5. ASSUME NEW r \in Leases, ShaperSnapshot(r) \/ LatePost(r) \/ LateDelete(r)
      PROVE  AcquireExecutionLease(r) \/ ReleaseExecutionLease(r) \/ UNCHANGED leaseVars
  BY <1>5 DEF ShaperSnapshot, SnapshotCommands, SnapshotStep, SnapshotSources, SnapshotConnections,
              SnapshotActive, SnapshotBytes, LatePost, LateDelete, shaperVars
<1>6. ASSUME NEW r \in Leases, Acquiring(r)
      PROVE  AcquireExecutionLease(r) \/ UNCHANGED leaseVars
  BY <1>6 DEF Acquiring, StartRun, PostExecuted, PostFailed, PostTimedOut, GrantLost, GrantAnswered,
              Retry, GiveUpAcquiring, shaperVars
<1>7. ASSUME NEW r \in Leases, Measuring(r) PROVE UNCHANGED leaseVars
  BY <1>7 DEF Measuring, AdapterFails, AdapterReturns, FetchedQuiet, FetchedBusy, FetchFailed, shaperVars
<1>8. ASSUME NEW r \in Leases, Releasing(r)
      PROVE  ReleaseExecutionLease(r) \/ UNCHANGED leaseVars
  BY <1>8 DEF Releasing, DeleteAnswered, DeleteUnanswered, DeleteTimedOut, DeleteGivenUp,
              BackgroundRelease, BackgroundExpires, shaperVars
<1> QED
  BY <1>1, <1>2, <1>3, <1>4, <1>5, <1>6, <1>7, <1>8 DEF RunNext

LEMMA OInvInit == RunInit => OInv
<1> SUFFICES ASSUME RunInit PROVE OInv
  OBVIOUS
<1> DEFINE owner == [e \in 0..MaxAcquired |-> NoLease]
<1>1. /\ acquired = 0 /\ MaxAcquired \in Nat
      /\ lease.id = NoLease /\ lease.acquiredAt = 0
  BY BoundsAssumption DEF RunInit, Init, NewAttestation, NoLeaseHeld
<1>2. \A r \in Leases : snapshot[r] = EmptySnapshot /\ run[r] = NewRun
  BY ReadersAssumption DEF RunInit, Init
<1>3. owner \in [0..MaxAcquired -> Leases \union {NoLease}] /\ owner[0] = NoLease
  BY <1>1
<1> HIDE DEF owner
<1>4. OwnedBy(owner)
  BY <1>1, <1>2, <1>3, Empty, NewRunTyped DEF OwnedBy, Stamped
<1> QED
  BY <1>1, <1>3, <1>4 DEF OInv

\* A step that copies stamps keeps them owned; an acquisition adds an owner.
LEMMA OInvStep ==
    ASSUME OInv, RunTypes, TypeOK, RunNext
    PROVE  OInv'
<1>1. PICK owner \in [0..MaxAcquired -> Leases \union {NoLease}] : OwnedBy(owner)
  BY DEF OInv
<1> DEFINE Was(x) == x[2] \in 0..acquired /\ owner[x[2]] = x[1]
<1>2. Was(NoStamp) /\ Was(LeaseStamp) /\ acquired \in Nat /\ MaxAcquired \in Nat
      /\ acquired <= MaxAcquired
  BY <1>1, BoundsAssumption DEF OwnedBy, Stamped, NoStamp, LeaseStamp, TypeOK, OInv
<1>3. ASSUME NEW r \in Leases
      PROVE  /\ Was(StampOf(snapshot[r])) /\ Was(StampOf(run[r].before))
             /\ Was(CreditStamp(run[r].credit))
  BY <1>1 DEF OwnedBy, Stamped, StampOf, CreditStamp
<1>4. ASSUME NEW r \in Leases
      PROVE  /\ Was(StampOf(snapshot'[r])) /\ Was(StampOf(run'[r].before))
             /\ Was(CreditStamp(run'[r].credit))
  <2>1. Copies
    BY RunNextCopies
  <2> HIDE DEF Was
  <2> QED
    BY <1>2, <1>3, <2>1, StampCopies
<1>5. ASSUME NEW new \in [0..MaxAcquired -> Leases \union {NoLease}], acquired' <= MaxAcquired,
             0..acquired \subseteq 0..acquired', \A e \in 0..acquired : new[e] = owner[e],
             LeaseStamp'[2] \in 0..acquired', new[LeaseStamp'[2]] = LeaseStamp'[1]
      PROVE  OInv'
  <2>1. new[0] = NoLease
    BY <1>1, <1>2, <1>5 DEF OwnedBy
  <2>2. (Stamped(new, lease.id, lease.acquiredAt))'
    BY <1>5 DEF Stamped, LeaseStamp
  <2>3. ASSUME NEW r \in Leases
        PROVE  (/\ Stamped(new, snapshot[r].leaseID, snapshot[r].acquiredAt)
                /\ Stamped(new, run[r].before.leaseID, run[r].before.acquiredAt)
                /\ Stamped(new, run[r].credit.holder, run[r].credit.epoch))'
    BY <1>4, <1>5 DEF Stamped, StampOf, CreditStamp
  <2>4. OwnedBy(new)'
    BY <2>1, <2>2, <2>3 DEF OwnedBy
  <2> QED
    BY <1>5, <2>4 DEF OInv
<1>6. CASE acquired' = acquired /\ LeaseStamp' \in {LeaseStamp, NoStamp}
  <2>1. Was(LeaseStamp')
    BY <1>2, <1>6
  <2> QED
    BY <1>2, <1>5, <1>6, <2>1
<1>7. ASSUME NEW r \in Leases, acquired' = acquired + 1, acquired < MaxAcquired,
             LeaseStamp' = <<r, acquired + 1>>
      PROVE  OInv'
  <2> DEFINE new == [owner EXCEPT ![acquired + 1] = r]
  <2>1. new \in [0..MaxAcquired -> Leases \union {NoLease}]
    OBVIOUS
  <2>2. acquired + 1 \in 0..MaxAcquired /\ new[acquired + 1] = r
    BY <1>2, <1>7
  <2>3. \A e \in 0..acquired : new[e] = owner[e]
    BY <1>2
  <2> HIDE DEF new
  <2> QED
    BY <1>2, <1>5, <1>7, <2>1, <2>2, <2>3
<1> QED
  BY <1>6, <1>7, LeaseMoves

\* Every stamp names the lease that made its acquisition.
THEOREM StampsOwned == RunSpec => []OInv
<1>1. RunInit => OInv
  BY OInvInit
<1>2. OInv /\ KInv /\ TypeOK /\ [RunNext]_allVars => OInv'
  <2> SUFFICES ASSUME OInv, KInv, TypeOK, UNCHANGED allVars PROVE OInv'
    BY OInvStep DEF KInv
  <2> QED
    BY DEF OInv, OwnedBy, Stamped, allVars, vars, runVars, shaperVars, leaseVars
<1> QED
  BY <1>1, <1>2, Accounted, ShaperTyped, PTL DEF RunSpec

(***************************************************************************)
(* Whose acquisition a run is credited.                                    *)
(***************************************************************************)
\* The lease a run's snapshots name is its own, unless it was evicted: the grant it was
\* answered for holds while the answer is assembled, and what the run starts from, and is
\* credited at the end, is that answer.
Own(r, c, s, id) ==
    /\ s.stage = "idle" => s.leaseID = NoLease
    /\ c.pc \notin {"granting", "fetching"} => s.leaseID = NoLease
    /\ c.pc = "granting" /\ ~c.evicted => id = r /\ s.leaseID \in {NoLease, r}
    /\ c.pc \in {"measuring", "fetching"} /\ ~c.evicted => c.before.leaseID = r
    /\ c.credit.holder # NoLease =>
          /\ c.pc \in {"releasing", "over"}
          /\ ~c.evicted => c.credit.holder = r

EInv == \A r \in Leases : Own(r, run[r], snapshot[r], lease.id)

\* A step of one run, on its own record, snapshot and lease.
LEMMA OneRunOwn ==
    ASSUME EInv, RunTypes, NEW r \in Leases, NEW d, NEW s,
           run' = [run EXCEPT ![r] = d], snapshot' = [snapshot EXCEPT ![r] = s],
           lease'.id = lease.id \/ lease.id \in {NoLease, r},
           Own(r, d, s, lease'.id)
    PROVE  EInv'
<1> SUFFICES ASSUME NEW q \in Leases
             PROVE  Own(q, run'[q], snapshot'[q], lease'.id)
  BY DEF EInv
<1>1. CASE q = r
  <2>1. run'[q] = d /\ snapshot'[q] = s
    BY <1>1 DEF RunTypes
  <2> QED
    BY <1>1, <2>1
<1>2. CASE q # r
  <2>1. run'[q] = run[q] /\ snapshot'[q] = snapshot[q] /\ (lease.id = q => lease'.id = q)
    BY <1>2, NoLeaseAssumption DEF RunTypes
  <2> QED
    BY <2>1 DEF EInv, Own
<1> QED
  BY <1>1, <1>2

\* A step that leaves the snapshots, and changes no more of a run than where it is.
LEMMA MovedOwn ==
    ASSUME EInv, RunTypes, NEW r \in Leases, NEW d,
           run' = [run EXCEPT ![r] = d], snapshot' = snapshot,
           lease'.id = lease.id \/ lease.id \in {NoLease, r},
           d.before = run[r].before, d.credit = run[r].credit,
           d.pc # "granting", d.pc \in {"measuring", "fetching"} => d.pc = run[r].pc,
           d.evicted = run[r].evicted,
           run[r].pc \in {"granting", "fetching"} => d.pc = run[r].pc \/ snapshot[r].stage = "idle",
           run[r].pc \in {"releasing", "over"} => d.pc \in {"releasing", "over"}
    PROVE  EInv'
<1>1. Own(r, run[r], snapshot[r], lease.id)
  BY DEF EInv
<1>2. Own(r, d, snapshot[r], lease'.id)
  BY <1>1 DEF Own
<1>3. snapshot' = [snapshot EXCEPT ![r] = snapshot[r]]
  BY DEF RunTypes
<1> QED
  BY <1>2, <1>3, OneRunOwn

\* A step of nobody's: the runs and their snapshots stay, and the lease stays or was free.
LEMMA NoRunOwn ==
    ASSUME EInv, run' = run, snapshot' = snapshot, lease'.id = lease.id \/ lease.id = NoLease
    PROVE  EInv'
<1> SUFFICES ASSUME NEW q \in Leases
             PROVE  Own(q, run[q], snapshot[q], lease'.id)
  BY DEF EInv
<1>1. Own(q, run[q], snapshot[q], lease.id) /\ q # NoLease
  BY NoLeaseAssumption DEF EInv
<1> QED
  BY <1>1 DEF Own

\* The shaper reads the lease it holds; a late hand-back of a lease whose grant is being
\* answered evicts its run.
LEMMA ShaperOwn ==
    ASSUME EInv, KInv, TypeOK, NEW r \in Leases,
           ShaperTraffic \/ ShaperSnapshot(r) \/ LatePost(r) \/ LateDelete(r)
    PROVE  EInv'
<1>1. Own(r, run[r], snapshot[r], lease.id) /\ run[r] \in RunRec /\ RunTypes /\ r # NoLease
  BY NoLeaseAssumption DEF EInv, KInv, RunTypes
<1>2. CASE ShaperTraffic
  BY <1>2, TrafficKeeps, NoRunOwn DEF ShaperTraffic
<1>3. CASE ShaperSnapshot(r)
  <2>1. PICK s : snapshot' = [snapshot EXCEPT ![r] = s] /\ SnapshotBecomes(snapshot[r], s)
    BY <1>1, <1>3, ReaderMoves, ReadersAssumption DEF RunTypes, ShaperSnapshot
  <2>2. /\ run' = run /\ lease' = lease /\ run[r].pc \in {"granting", "fetching"}
    BY <1>3 DEF ShaperSnapshot, SnapshotCommands, SnapshotStep, SnapshotSources,
                SnapshotConnections, SnapshotActive, SnapshotBytes, shaperVars, leaseVars, runVars
  <2>3. s.leaseID \in {NoLease, lease.id, snapshot[r].leaseID} /\ (s.stage = "idle" => s.leaseID = NoLease)
    BY <2>1 DEF SnapshotBecomes
  <2>4. Own(r, run[r], s, lease'.id)
    BY <1>1, <2>2, <2>3 DEF Own
  <2>5. run' = [run EXCEPT ![r] = run[r]]
    BY <1>1, <2>2 DEF RunTypes
  <2> QED
    BY <1>1, <2>1, <2>2, <2>4, <2>5, OneRunOwn
<1>4. CASE LatePost(r)
  BY <1>4, AcquireMoves, NoRunOwn DEF LatePost
<1>5. CASE LateDelete(r)
  <2> DEFINE ev == run[r].evicted \/ At(r, "granting")
             d == [run[r] EXCEPT !.evicted = ev]
  <2>1. /\ run' = [run EXCEPT ![r] = d] /\ snapshot' = snapshot /\ lease.id = r
    BY <1>5, ReleaseMoves DEF LateDelete, Become
  <2>2. /\ ev \in BOOLEAN /\ (run[r].evicted => ev) /\ (run[r].pc = "granting" => ev)
    BY <1>1 DEF RunRec, At
  <2> HIDE DEF ev
  <2>3. d.evicted = ev /\ d.pc = run[r].pc /\ d.before = run[r].before /\ d.credit = run[r].credit
    BY <1>1 DEF RunRec
  <2> HIDE DEF d
  <2>4. Own(r, d, snapshot[r], lease'.id)
    BY <1>1, <2>2, <2>3 DEF Own
  <2>5. snapshot' = [snapshot EXCEPT ![r] = snapshot[r]]
    BY <1>1, <2>1 DEF RunTypes
  <2> QED
    BY <1>1, <2>1, <2>4, <2>5, OneRunOwn
<1> QED
  BY <1>2, <1>3, <1>4, <1>5

\* A grant starts with the lease in hand; its answer is what the run starts from.
LEMMA AcquiringOwn ==
    ASSUME EInv, KInv, NEW r \in Leases, Acquiring(r)
    PROVE  EInv'
<1>1. Own(r, run[r], snapshot[r], lease.id) /\ run[r] \in RunRec /\ RunTypes /\ r # NoLease
  BY NoLeaseAssumption DEF EInv, KInv, RunTypes
<1>2. ASSUME NEW pc \in {"posting", "refused", "failed", "stranded"}, Goto(r, pc),
             snapshot' = snapshot, lease' = lease,
             run[r].pc \in {"idle", "posting", "refused", "granting"},
             run[r].pc = "granting" => snapshot[r].stage = "idle"
      PROVE  EInv'
  <2> DEFINE d == [run[r] EXCEPT !.pc = pc]
  <2>1. run' = [run EXCEPT ![r] = d]
    BY <1>2 DEF Goto, Become
  <2>2. /\ d.pc = pc /\ d.before = run[r].before /\ d.credit = run[r].credit
        /\ d.evicted = run[r].evicted
    BY <1>1 DEF RunRec
  <2> HIDE DEF d
  <2> QED
    BY <1>1, <1>2, <2>1, <2>2, MovedOwn
<1>3. CASE StartRun(r) \/ PostFailed(r) \/ PostTimedOut(r) \/ GrantLost(r) \/ Retry(r)
  BY <1>2, <1>3 DEF StartRun, PostFailed, PostTimedOut, GrantLost, Retry, At, shaperVars, leaseVars
<1>4. CASE GiveUpAcquiring(r)
  <2>1. PICK pc \in {"failed", "stranded"} : Goto(r, pc)
    BY <1>4 DEF GiveUpAcquiring
  <2> QED
    BY <1>2, <1>4, <2>1 DEF GiveUpAcquiring, At, shaperVars, leaseVars
<1>5. CASE PostExecuted(r)
  <2> DEFINE d == [run[r] EXCEPT !.pc = "granting", !.evicted = FALSE]
  <2>1. /\ run' = [run EXCEPT ![r] = d] /\ snapshot' = snapshot
        /\ run[r].pc = "posting" /\ lease'.id = r /\ lease.id = NoLease
    BY <1>5, AcquireMoves DEF PostExecuted, At, Become
  <2>2. d.pc = "granting" /\ d.credit = run[r].credit
    BY <1>1 DEF RunRec
  <2> HIDE DEF d
  <2>3. Own(r, d, snapshot[r], lease'.id)
    BY <1>1, <2>1, <2>2 DEF Own
  <2>4. snapshot' = [snapshot EXCEPT ![r] = snapshot[r]]
    BY <1>1, <2>1 DEF RunTypes
  <2> QED
    BY <1>1, <2>1, <2>3, <2>4, OneRunOwn
<1>6. CASE GrantAnswered(r)
  <2> DEFINE s == snapshot[r]
             pc == IF s.active # 0 THEN "handing"
                   ELSE IF ValidateFor(s) THEN "measuring" ELSE "returning"
             before == IF ValidateFor(s) THEN s ELSE run[r].before
             d == [run[r] EXCEPT !.held = TRUE, !.before = before, !.pc = pc]
  <2>1. /\ run' = [run EXCEPT ![r] = d] /\ snapshot' = [snapshot EXCEPT ![r] = EmptySnapshot]
        /\ lease' = lease /\ run[r].pc = "granting"
    BY <1>6 DEF GrantAnswered, Become, DropSnapshot, shaperVars, leaseVars, At
  <2>2. /\ pc \in {"handing", "measuring", "returning"}
        /\ pc = "measuring" => before = s /\ s.leaseID # NoLease
    BY DEF ValidateFor
  <2> HIDE DEF pc, before
  <2>3. /\ d.pc = pc /\ d.before = before /\ d.credit = run[r].credit /\ d.evicted = run[r].evicted
    BY <1>1 DEF RunRec
  <2> HIDE DEF d
  <2>4. Own(r, d, EmptySnapshot, lease'.id)
    BY <1>1, <2>1, <2>2, <2>3, Empty DEF Own
  <2> QED
    BY <1>1, <2>1, <2>4, OneRunOwn
<1> QED
  BY <1>3, <1>4, <1>5, <1>6 DEF Acquiring

\* A pair that is accepted is of one lease, the one the run started under.
LEMMA MeasuringOwn ==
    ASSUME EInv, KInv, NEW r \in Leases, Measuring(r)
    PROVE  EInv'
<1>1. Own(r, run[r], snapshot[r], lease.id) /\ run[r] \in RunRec /\ RunTypes
  BY DEF EInv, KInv, RunTypes
<1>2. ASSUME NEW credit, Finish(r, credit), run[r].pc \in {"measuring", "fetching"}, lease' = lease,
             NEW s, snapshot' = [snapshot EXCEPT ![r] = s], s.leaseID = NoLease,
             credit.holder # NoLease => credit.holder = run[r].before.leaseID
      PROVE  EInv'
  <2> DEFINE d == [run[r] EXCEPT !.pc = "releasing", !.credit = credit, !.before = EmptySnapshot]
  <2>1. run' = [run EXCEPT ![r] = d]
    BY <1>2 DEF Finish, Become
  <2>2. d.pc = "releasing" /\ d.credit = credit /\ d.evicted = run[r].evicted
    BY <1>1 DEF RunRec
  <2> HIDE DEF d
  <2>3. Own(r, d, s, lease'.id)
    BY <1>1, <1>2, <2>2 DEF Own
  <2> QED
    BY <1>1, <1>2, <2>1, <2>3, OneRunOwn
<1>3. CASE AdapterFails(r) \/ FetchFailed(r)
  <2>1. snapshot[r].leaseID = NoLease /\ snapshot' = [snapshot EXCEPT ![r] = snapshot[r]]
    BY <1>1, <1>3 DEF AdapterFails, FetchFailed, At, Own, RunTypes
  <2> QED
    BY <1>2, <1>3, <2>1, Empty DEF AdapterFails, FetchFailed, At, shaperVars, leaseVars
<1>4. CASE AdapterReturns(r)
  <2> DEFINE d == [run[r] EXCEPT !.pc = "fetching"]
  <2>1. /\ run' = [run EXCEPT ![r] = d] /\ lease' = lease /\ run[r].pc = "measuring"
        /\ snapshot' = [snapshot EXCEPT ![r] = snapshot[r]]
    BY <1>1, <1>4 DEF AdapterReturns, Goto, Become, At, shaperVars, leaseVars, RunTypes
  <2>2. /\ d.pc = "fetching" /\ d.before = run[r].before /\ d.credit = run[r].credit
        /\ d.evicted = run[r].evicted
    BY <1>1 DEF RunRec
  <2> HIDE DEF d
  <2>3. Own(r, d, snapshot[r], lease'.id)
    BY <1>1, <2>1, <2>2 DEF Own
  <2> QED
    BY <1>1, <2>1, <2>3, OneRunOwn
<1>5. CASE FetchedQuiet(r)
  <2> DEFINE credit == IF Accepts(run[r].before, snapshot[r])
                       THEN Credit(run[r].before, snapshot[r]) ELSE NoCredit
  <2>1. credit.holder # NoLease => credit.holder = run[r].before.leaseID
    BY Empty DEF Credit
  <2>2. Finish(r, credit) /\ run[r].pc = "fetching" /\ lease' = lease
        /\ snapshot' = [snapshot EXCEPT ![r] = EmptySnapshot]
    BY <1>5 DEF FetchedQuiet, At, shaperVars, leaseVars, DropSnapshot
  <2> HIDE DEF credit
  <2> QED
    BY <1>2, <2>1, <2>2, Empty
<1>6. CASE FetchedBusy(r)
  <2>1. /\ run' = [run EXCEPT ![r] = run[r]] /\ lease' = lease /\ run[r].pc = "fetching"
        /\ snapshot' = [snapshot EXCEPT ![r] = EmptySnapshot]
    BY <1>1, <1>6 DEF FetchedBusy, At, shaperVars, leaseVars, DropSnapshot, runVars, RunTypes
  <2>2. Own(r, run[r], EmptySnapshot, lease'.id)
    BY <1>1, <2>1, Empty DEF Own
  <2> QED
    BY <1>1, <2>1, <2>2, OneRunOwn
<1> QED
  BY <1>3, <1>4, <1>5, <1>6 DEF Measuring

\* A run hands back its own lease, and never while a grant is being answered.
LEMMA ReleasingOwn ==
    ASSUME EInv, KInv, NEW r \in Leases, Releasing(r)
    PROVE  EInv'
<1>1. run[r] \in RunRec /\ RunTypes /\ Knows(run[r])
  BY DEF EInv, KInv, RunTypes
<1>2. ASSUME NEW d, Become(r, d), snapshot' = snapshot, lease' = lease \/ lease.id = r,
             d.before = run[r].before, d.credit = run[r].credit, d.evicted = run[r].evicted,
             run[r].pc \in {"failed"} \union Deleting,
             d.pc \in {"refused", "failed", "stranded", "over"},
             run[r].pc = "releasing" => d.pc = "over"
      PROVE  EInv'
  BY <1>1, <1>2, MovedOwn DEF Become
<1>3. ASSUME ReleaseExecutionLease(r) PROVE lease.id = r
  BY <1>3, ReleaseMoves
<1>4. CASE DeleteAnswered(r)
  <2> DEFINE pc == AfterRelease[run[r].pc]
             d == [run[r] EXCEPT !.pc = pc, !.held = FALSE]
  <2>1. Become(r, d) /\ snapshot' = snapshot /\ run[r].pc \in Deleting /\ lease.id = r
    BY <1>3, <1>4 DEF DeleteAnswered
  <2>2. pc \in {"refused", "failed", "over"} /\ (run[r].pc = "releasing" => pc = "over")
    BY <2>1 DEF AfterRelease
  <2> HIDE DEF pc
  <2>3. /\ d.pc = pc /\ d.before = run[r].before /\ d.credit = run[r].credit
        /\ d.evicted = run[r].evicted
    BY <1>1 DEF RunRec
  <2> HIDE DEF d
  <2> QED
    BY <1>2, <2>1, <2>2, <2>3
<1>5. CASE DeleteUnanswered(r) \/ DeleteTimedOut(r)
  <2> DEFINE d == run[r]
  <2>1. /\ run' = [run EXCEPT ![r] = run[r]] /\ snapshot' = snapshot
        /\ lease' = lease \/ lease.id = r
        /\ run[r].pc \in Deleting
    BY <1>1, <1>3, <1>5 DEF DeleteUnanswered, DeleteTimedOut, runVars, shaperVars, leaseVars, RunTypes
  <2> QED
    BY <1>1, <2>1, MovedOwn
<1>6. CASE DeleteGivenUp(r)
  <2> DEFINE pc == AfterGivingUp[run[r].pc]
             d == [run[r] EXCEPT !.pc = pc, !.background = At(r, "stranded"),
                                 !.gaveUp = @ \/ At(r, "releasing")]
  <2>1. Become(r, d) /\ snapshot' = snapshot /\ run[r].pc \in Deleting /\ lease' = lease
    BY <1>6 DEF DeleteGivenUp, shaperVars, leaseVars
  <2>2. pc \in {"refused", "failed", "stranded", "over"} /\ (run[r].pc = "releasing" => pc = "over")
    BY <2>1 DEF AfterGivingUp
  <2> HIDE DEF pc
  <2>3. /\ d.pc = pc /\ d.before = run[r].before /\ d.credit = run[r].credit
        /\ d.evicted = run[r].evicted
    BY <1>1 DEF RunRec
  <2> HIDE DEF d
  <2> QED
    BY <1>2, <2>1, <2>2, <2>3
<1>7. CASE BackgroundRelease(r)
  <2> DEFINE d == [run[r] EXCEPT !.background = FALSE]
  <2>1. Become(r, d) /\ snapshot' = snapshot /\ run[r].pc = "failed" /\ lease.id = r
    BY <1>1, <1>3, <1>7 DEF BackgroundRelease, Knows
  <2>2. /\ d.pc = run[r].pc /\ d.before = run[r].before /\ d.credit = run[r].credit
        /\ d.evicted = run[r].evicted
    BY <1>1 DEF RunRec
  <2> HIDE DEF d
  <2> QED
    BY <1>2, <2>1, <2>2
<1>8. CASE BackgroundExpires(r)
  <2> DEFINE d == [run[r] EXCEPT !.background = FALSE, !.gaveUp = TRUE]
  <2>1. Become(r, d) /\ snapshot' = snapshot /\ run[r].pc = "failed" /\ lease' = lease
    BY <1>1, <1>8 DEF BackgroundExpires, Knows, shaperVars, leaseVars
  <2>2. /\ d.pc = run[r].pc /\ d.before = run[r].before /\ d.credit = run[r].credit
        /\ d.evicted = run[r].evicted
    BY <1>1 DEF RunRec
  <2> HIDE DEF d
  <2> QED
    BY <1>2, <2>1, <2>2
<1> QED
  BY <1>4, <1>5, <1>6, <1>7, <1>8 DEF Releasing

LEMMA EInvInit == RunInit => EInv
<1> SUFFICES ASSUME RunInit, NEW r \in Leases PROVE Own(r, run[r], snapshot[r], lease.id)
  BY DEF EInv
<1>1. run[r] = NewRun /\ snapshot[r] = EmptySnapshot
  BY ReadersAssumption DEF RunInit, Init
<1>2. NewRun.pc = "idle" /\ NewRun.credit = NoCredit
  BY DEF NewRun
<1> QED
  BY <1>1, <1>2, Empty DEF Own

\* Whatever a run that was not evicted measures with is its own.
THEOREM OwnStart == RunSpec => []EInv
<1>1. EInv /\ KInv /\ TypeOK /\ [RunNext]_allVars => EInv'
  <2> SUFFICES ASSUME EInv, KInv, TypeOK, [RunNext]_allVars PROVE EInv'
    OBVIOUS
  <2>1. CASE UNCHANGED allVars
    BY <2>1, NoRunOwn DEF allVars, vars, runVars, shaperVars, leaseVars
  <2>2. CASE ShaperTraffic
    BY <2>2, TrafficKeeps, NoRunOwn DEF ShaperTraffic
  <2> QED
    BY <2>1, <2>2, ShaperOwn, AcquiringOwn, MeasuringOwn, ReleasingOwn DEF RunNext
<1> QED
  BY <1>1, EInvInit, Accounted, ShaperTyped, PTL DEF RunSpec

\* A run that is credited a delivery is credited one of its own acquisition, unless a
\* hand-back of an earlier attempt was executed between its grant and its answer: however
\* calls are delayed, lost or interleaved, that is the only way to measure under another
\* run's lease (nothing compares the lease in a snapshot with the run's own).
THEOREM CreditedItsOwn == RunSpec => []CreditOwn
<1>1. EInv => CreditOwn
  BY DEF EInv, Own, CreditOwn, Credited
<1> QED
  BY <1>1, OwnStart, PTL

\* Two runs are credited the same acquisition only if one of them was evicted: an
\* acquisition has one owner, and the other run's credit is its own.
THEOREM NoByteForTwoRuns == RunSpec => []CreditExclusive
<1>1. OInv /\ CreditOwn => CreditExclusive
  BY DEF OInv, OwnedBy, Stamped, CreditOwn, CreditExclusive
<1> QED
  BY <1>1, StampsOwned, CreditedItsOwn, PTL

(***************************************************************************)
(* The ledger.                                                             *)
(***************************************************************************)
\* What was copied under acquisition "at" lies between the total the
\* acquisition began with and that plus what was served under it.
BookedBy(base, last, total, id, at, sum) ==
    id # NoLease =>
        /\ at \in 1..last
        /\ base[at] <= sum
        /\ sum <= base[at] + total[at]
Booked(base, id, at, sum) == BookedBy(base, acquired, served, id, at, sum)

Ledger(base) ==
    /\ lease.id # NoLease =>
          /\ lease.acquiredAt \in 1..acquired
          /\ bytes = base[lease.acquiredAt] + served[lease.acquiredAt]
          /\ base[lease.acquiredAt] <= SumFunction(sourceBytes)
    /\ \A r \in Leases :
          /\ Booked(base, snapshot[r].leaseID, snapshot[r].acquiredAt,
                    SumFunction(snapshot[r].sourceBytes))
          /\ Booked(base, run[r].before.leaseID, run[r].before.acquiredAt,
                    SumFunction(run[r].before.sourceBytes))
          /\ run[r].credit.holder # NoLease =>
                /\ run[r].credit.epoch \in 1..acquired
                /\ run[r].credit.bytes <= served[run[r].credit.epoch]

\* base[e]: the byte total when acquisition e was made.  Nothing is booked
\* under acquisitions still to come.
LInv ==
    /\ acquired <= MaxAcquired
    /\ served \in [1..MaxAcquired -> Nat]
    /\ \A e \in 1..MaxAcquired : e > acquired => served[e] = 0
    /\ \E base \in [1..MaxAcquired -> Nat] : Ledger(base)

\* What is booked stays booked: the ledger only grows.
LEMMA BookedKept ==
    ASSUME acquired \in Nat, acquired' \in Nat, acquired <= acquired', acquired <= MaxAcquired,
           MaxAcquired \in Nat,
           served \in [1..MaxAcquired -> Nat], served' \in [1..MaxAcquired -> Nat],
           \A e \in 1..acquired : served[e] <= served'[e],
           NEW base \in [1..MaxAcquired -> Nat], NEW new \in [1..MaxAcquired -> Nat],
           \A e \in 1..acquired : new[e] = base[e],
           NEW id, NEW at, NEW sum \in Int, Booked(base, id, at, sum)
    PROVE  BookedBy(new, acquired', served', id, at, sum)
<1> SUFFICES ASSUME id # NoLease
             PROVE  at \in 1..acquired' /\ new[at] <= sum /\ sum <= new[at] + served'[at]
  BY DEF BookedBy
<1>1. at \in 1..acquired /\ base[at] <= sum /\ sum <= base[at] + served[at]
  BY DEF Booked, BookedBy
<1>2. /\ new[at] = base[at] /\ served[at] <= served'[at]
      /\ base[at] \in Int /\ served[at] \in Int /\ served'[at] \in Int
  BY <1>1
<1> QED
  BY <1>1, <1>2

\* A pair of snapshots booked under one acquisition differs by no more than was
\* served under it.
LEMMA AcceptedBooked ==
    ASSUME MaxAcquired \in Nat, acquired \in Nat, acquired <= MaxAcquired,
           served \in [1..MaxAcquired -> Nat], NEW base \in [1..MaxAcquired -> Nat],
           NEW b \in SnapshotRec, NEW a \in SnapshotRec, Accepts(b, a),
           Booked(base, b.leaseID, b.acquiredAt, SumFunction(b.sourceBytes)),
           Booked(base, a.leaseID, a.acquiredAt, SumFunction(a.sourceBytes))
    PROVE  LET c == Credit(b, a)
           IN  c.epoch \in 1..acquired /\ c.bytes <= served[c.epoch]
<1> DEFINE e == a.acquiredAt
           delta == SourceDelta(b.sourceBytes, a.sourceBytes)
<1>1. /\ a.leaseID # NoLease /\ b.leaseID = a.leaseID /\ b.acquiredAt = e
      /\ SumFunction(delta) = a.bytes - b.bytes
  BY DEF Accepts, ValidateFor, PairValid
<1> DEFINE f == b.sourceBytes
           g == a.sourceBytes
<1>2. f \in [Sources -> Nat] /\ g \in [Sources -> Nat]
  BY DEF SnapshotRec, Counters
<1>3. /\ delta \in [Sources -> Int]
      /\ \A s \in Sources : delta[s] = g[s] - f[s]
  BY <1>2 DEF SourceDelta
<1>7. /\ e \in 1..acquired /\ base[e] <= SumFunction(f)
      /\ SumFunction(g) <= base[e] + served[e]
  BY <1>1 DEF Booked, BookedBy
<1> HIDE DEF delta, f, g
<1>4. g \in [Sources -> Int] /\ f \in [Sources -> Int]
  BY <1>2
<1>5. SumFunction(delta) = SumFunction(g) - SumFunction(f)
  <2>1. \A h \in [Sources -> Int] :
            (\A s \in Sources : h[s] = g[s] - f[s]) => SumFunction(h) = SumFunction(g) - SumFunction(f)
    BY <1>4, SourcesAssumption, SumDifference
  <2> QED
    BY <1>3, <2>1
<1>6. SumFunction(g) \in Int /\ SumFunction(f) \in Int
  BY <1>4, SourcesAssumption, SumTyped
<1>8. base[e] \in Int /\ served[e] \in Int
  BY <1>7
<1>9. a.bytes - b.bytes <= served[e]
  BY <1>1, <1>5, <1>6, <1>7, <1>8
<1> QED
  BY <1>7, <1>9 DEF Credit

\* The lease's own copy is booked: what is attributed is at most the total.
LEMMA LeaseBooked ==
    ASSUME TypeOK, BytesConserved, NEW base, Ledger(base)
    PROVE  Booked(base, lease.id, lease.acquiredAt, SumFunction(sourceBytes))
<1>1. SumFunction(sourceBytes) \in Nat /\ SumFunction(Pendings) \in Nat
  BY SumsTyped
<1>2. bytes = SumFunction(sourceBytes) + SumFunction(Pendings)
  BY DEF BytesConserved, Pendings
<1>3. SumFunction(sourceBytes) <= bytes
  BY <1>1, <1>2
<1> QED
  BY <1>3 DEF Ledger, Booked, BookedBy

\* Whatever copies leaves the books in order, once the lease's own account is.
LEMMA LedgerCopies ==
    ASSUME TypeOK, BytesConserved, RunTypes, Copies,
           MaxAcquired \in Nat, acquired <= MaxAcquired,
           acquired' \in Nat, acquired <= acquired',
           served \in [1..MaxAcquired -> Nat], served' \in [1..MaxAcquired -> Nat],
           \A e \in 1..acquired : served[e] <= served'[e],
           NEW base \in [1..MaxAcquired -> Nat], NEW new \in [1..MaxAcquired -> Nat],
           \A e \in 1..acquired : new[e] = base[e],
           Ledger(base),
           lease'.id # NoLease =>
              /\ lease'.acquiredAt \in 1..acquired'
              /\ bytes' = new[lease'.acquiredAt] + served'[lease'.acquiredAt]
              /\ new[lease'.acquiredAt] <= SumFunction(sourceBytes')
    PROVE  Ledger(new)'
<1> DEFINE Fine(id, at, f) == Booked(base, id, at, SumFunction(f)) /\ f \in [Sources -> Int]
<1>1. ASSUME NEW id, NEW at, NEW f, Fine(id, at, f) PROVE BookedBy(new, acquired', served', id, at, SumFunction(f))
  <2>1. SumFunction(f) \in Int
    BY <1>1, SourcesAssumption, SumTyped
  <2>2. acquired \in Nat
    BY DEF TypeOK
  <2> QED
    BY <1>1, <2>1, <2>2, BookedKept
<1>2. Fine(lease.id, lease.acquiredAt, sourceBytes)
  BY LeaseBooked, SumsTyped
<1>3. Fine(NoLease, 0, ZeroCounters)
  BY DEF Booked, BookedBy, ZeroCounters
<1>4. ASSUME NEW r \in Leases
      PROVE  /\ Fine(snapshot[r].leaseID, snapshot[r].acquiredAt, snapshot[r].sourceBytes)
             /\ Fine(run[r].before.leaseID, run[r].before.acquiredAt, run[r].before.sourceBytes)
  <2>1. snapshot[r] \in SnapshotRec /\ run[r].before \in SnapshotRec
    BY DEF RunTypes, RunRec
  <2>2. \A s \in SnapshotRec : s.sourceBytes \in [Sources -> Int]
    BY DEF SnapshotRec, Counters
  <2> QED
    BY <2>1, <2>2 DEF Ledger
<1> SUFFICES ASSUME NEW r \in Leases
             PROVE  /\ BookedBy(new, acquired', served', snapshot'[r].leaseID,
                                snapshot'[r].acquiredAt, SumFunction(snapshot'[r].sourceBytes))
                    /\ BookedBy(new, acquired', served', run'[r].before.leaseID,
                                run'[r].before.acquiredAt,
                                SumFunction(run'[r].before.sourceBytes))
                    /\ run'[r].credit.holder # NoLease =>
                          /\ run'[r].credit.epoch \in 1..acquired'
                          /\ run'[r].credit.bytes <= served'[run'[r].credit.epoch]
  BY DEF Ledger, Booked
<1>5. Fine(snapshot'[r].leaseID, snapshot'[r].acquiredAt, snapshot'[r].sourceBytes)
  <2>1. CopyOf(snapshot'[r]) \in {CopyOf(snapshot[r]), NoCopy, LeaseCopy}
    BY DEF Copies
  <2> HIDE DEF Fine
  <2> QED
    BY <1>2, <1>3, <1>4, <2>1
    DEF CopyOf, NoCopy, LeaseCopy, StampOf, NoStamp, LeaseStamp
<1>6. Fine(run'[r].before.leaseID, run'[r].before.acquiredAt, run'[r].before.sourceBytes)
  <2>1. run'[r].before \in {run[r].before, EmptySnapshot, snapshot[r]}
    BY DEF Copies, RunCopies
  <2> HIDE DEF Fine
  <2> QED
    BY <1>3, <1>4, <2>1, EmptyTyped
<1>7. ASSUME NEW e \in 1..acquired, NEW n \in Int, n <= served[e]
      PROVE  e \in 1..acquired' /\ n <= served'[e]
  <2>1. acquired \in Nat
    BY DEF TypeOK
  <2>2. served[e] \in Int /\ served'[e] \in Int /\ served[e] <= served'[e]
    BY <2>1
  <2> QED
    BY <1>7, <2>1, <2>2
<1>8. LET c == run'[r].credit
      IN  /\ c.holder # NoLease => c.epoch \in 1..acquired /\ c.bytes <= served[c.epoch]
          /\ c.bytes \in Int
  <2>0. /\ run[r].credit \in CreditRec /\ run[r].before \in SnapshotRec
        /\ snapshot[r] \in SnapshotRec /\ acquired \in Nat
    BY DEF RunTypes, RunRec, TypeOK
  <2>1. CASE run'[r].credit = run[r].credit
    BY <2>0, <2>1 DEF Ledger, CreditRec
  <2>2. CASE run'[r].credit = NoCredit
    BY <2>2, Empty DEF CreditRec
  <2>3. CASE /\ Accepts(run[r].before, snapshot[r])
             /\ run'[r].credit = Credit(run[r].before, snapshot[r])
    <3> DEFINE c == Credit(run[r].before, snapshot[r])
    <3>1. c.epoch \in 1..acquired /\ c.bytes <= served[c.epoch]
      BY <2>0, <2>3, AcceptedBooked DEF Ledger
    <3>2. c \in CreditRec
      BY <2>0, CreditTyped
    <3>3. c.bytes \in Int
      BY <3>2 DEF CreditRec
    <3> HIDE DEF c
    <3> QED
      BY <2>3, <3>1, <3>3 DEF c
  <2> QED
    BY <2>1, <2>2, <2>3 DEF Copies, RunCopies
<1> HIDE DEF Fine
<1>9. BookedBy(new, acquired', served', snapshot'[r].leaseID, snapshot'[r].acquiredAt,
               SumFunction(snapshot'[r].sourceBytes))
  BY <1>1, <1>5
<1>10. BookedBy(new, acquired', served', run'[r].before.leaseID, run'[r].before.acquiredAt,
                SumFunction(run'[r].before.sourceBytes))
  BY <1>1, <1>6
<1> QED
  BY <1>7, <1>8, <1>9, <1>10

\* Attribution only grows.
LEMMA SumGrows ==
    ASSUME IInv, IInv', Traffic
    PROVE  SumFunction(sourceBytes) <= SumFunction(sourceBytes')
<1>1. sourceBytes \in [Sources -> Nat] /\ sourceBytes' \in [Sources -> Nat]
  BY DEF IInv, TypeOK, Counters
<1>2. \A s \in Sources : sourceBytes[s] <= sourceBytes'[s]
  <2>1. CASE sourceBytes' = sourceBytes
    BY <1>1, <2>1
  <2>2. ASSUME NEW c \in Conns, AddSourceBytes(c)
        PROVE  \A s \in Sources : sourceBytes[s] <= sourceBytes'[s]
    <3> SUFFICES ASSUME NEW s \in Sources PROVE sourceBytes[s] <= sourceBytes'[s]
      OBVIOUS
    <3>1. conn[c].pending \in Nat /\ sourceBytes[s] \in Nat
      BY <1>1 DEF IInv, TypeOK
    <3>2. sourceBytes' = [sourceBytes EXCEPT ![conn[c].source] = @ + conn[c].pending]
      BY <2>2 DEF AddSourceBytes
    <3>3. sourceBytes'[s] \in {sourceBytes[s], sourceBytes[s] + conn[c].pending}
      BY <1>1, <3>2
    <3> QED
      BY <3>1, <3>3
  <2>3. (sourceBytes' = sourceBytes) \/ \E c \in Conns : AddSourceBytes(c)
    BY DEF Traffic, OpenDownstream, OpenDownstreamActive, AddDownstreamBytes, ObserveCommand,
           CloseDownstream, trafficVars
  <2> QED
    BY <2>1, <2>2, <2>3
<1>3. sourceBytes \in [Sources -> Int] /\ sourceBytes' \in [Sources -> Int]
  BY <1>1
<1> QED
  BY <1>2, <1>3, SourcesAssumption, SumMonotone

\* With every slot free all bytes are attributed.
LEMMA QuietAttributed ==
    ASSUME IInv, BytesConserved, \A c \in Conns : conn[c].state = "free"
    PROVE  SumFunction(sourceBytes) = bytes
<1>1. TypeOK
  BY DEF IInv
<1>2. \A c \in Conns : Pendings[c] = 0
  BY <1>1 DEF IInv, PendingOnOpen, Pendings, TypeOK
<1>3. SumFunction(sourceBytes) \in Nat /\ Pendings \in [Conns -> Int]
  BY <1>1, SumsTyped
<1>4. SumFunction(Pendings) = 0
  BY <1>2, <1>3, ConnsAssumption, SumZero
<1>5. bytes = SumFunction(sourceBytes) + SumFunction(Pendings)
  BY DEF BytesConserved, Pendings
<1> QED
  BY <1>3, <1>4, <1>5

\* Traffic is booked under the lease it flows under.
LEMMA TrafficLedger ==
    ASSUME IInv, IInv', BytesConserved, RunTypes, LInv, ShaperTraffic, Copies
    PROVE  LInv'
<1>1. PICK base \in [1..MaxAcquired -> Nat] : Ledger(base)
  BY DEF LInv
<1> DEFINE at == lease.acquiredAt
           n == bytes' - bytes
<1>2. /\ TypeOK /\ lease'.id = lease.id /\ lease'.acquiredAt = at /\ acquired' = acquired
      /\ acquired \in Nat /\ acquired <= MaxAcquired /\ MaxAcquired \in Nat
      /\ served \in [1..MaxAcquired -> Nat]
  BY TrafficKeeps, BoundsAssumption DEF ShaperTraffic, IInv, TypeOK, LInv
<1>3. n \in Nat /\ bytes \in Int /\ bytes' \in Int /\ bytes' = bytes + n
  BY <1>2, BytesGrow DEF ShaperTraffic, Next, TypeOK
<1>4. bytes' # bytes => lease.id # NoLease
  <2>0. \A c \in Conns : conn[c].state = "open" => lease.id # NoLease
    BY DEF IInv, LeaseCoversConnections
  <2> QED
    BY <2>0 DEF ShaperTraffic, Traffic, OpenDownstream, OpenDownstreamActive, AddDownstreamBytes,
                AddSourceBytes, ObserveCommand, CloseDownstream, trafficVars
<1>5. lease.id # NoLease => /\ at \in 1..acquired
                            /\ bytes = base[at] + served[at]
                            /\ base[at] <= SumFunction(sourceBytes)
  BY <1>1 DEF Ledger
<1>6. /\ served' \in [1..MaxAcquired -> Nat]
      /\ \A e \in 1..MaxAcquired : served[e] <= served'[e] /\ (e # at => served'[e] = served[e])
      /\ lease.id # NoLease => served'[at] = served[at] + n
  <2>1. CASE bytes' = bytes
    <3>1. served' = served /\ n = 0
      BY <1>3, <2>1 DEF ShaperTraffic
    <3>2. lease.id # NoLease => served[at] \in Nat
      BY <1>2, <1>5
    <3> QED
      BY <1>2, <3>1, <3>2
  <2>2. CASE bytes' # bytes
    <3>1. served' = [served EXCEPT ![at] = @ + n]
      BY <2>2 DEF ShaperTraffic
    <3>2. at \in 1..MaxAcquired
      BY <1>2, <1>4, <1>5, <2>2
    <3> HIDE DEF n, at
    <3>3. served[at] + n \in Nat /\ served[at] \in Nat /\ served[at] <= served[at] + n
      <4>1. served[at] \in Nat
        BY <1>2, <3>2
      <4> QED
        BY <1>3, <4>1
    <3>4. \A e \in 1..MaxAcquired : served'[e] = IF e = at THEN served[at] + n ELSE served[e]
      BY <1>2, <3>1
    <3>5. served' \in [1..MaxAcquired -> Nat]
      BY <1>2, <3>1, <3>2, <3>3
    <3>6. \A e \in 1..MaxAcquired : served[e] \in Nat
      BY <1>2
    <3> QED
      BY <3>2, <3>3, <3>4, <3>5, <3>6
  <2> QED
    BY <2>1, <2>2
<1>7. lease.id # NoLease => bytes' = base[at] + served'[at] /\ base[at] <= SumFunction(sourceBytes')
  <2> SUFFICES ASSUME lease.id # NoLease
               PROVE  bytes' = base[at] + served'[at] /\ base[at] <= SumFunction(sourceBytes')
    OBVIOUS
  <2>1. base[at] \in Nat /\ served[at] \in Nat
    BY <1>2, <1>5
  <2>2. bytes' = base[at] + served'[at]
    <3>1. /\ bytes' = bytes + n /\ bytes = base[at] + served[at]
          /\ served'[at] = served[at] + n /\ n \in Nat
      BY <1>3, <1>5, <1>6
    <3> HIDE DEF n, at
    <3> QED
      BY <2>1, <3>1
  <2>3. SumFunction(sourceBytes) \in Nat
    BY <1>2, SumsTyped
  <2>4. SumFunction(sourceBytes') \in Nat
    <3>1. sourceBytes' \in [Sources -> Nat]
      BY DEF IInv, TypeOK, Counters
    <3> QED
      BY <3>1, SourcesAssumption, SumTyped
  <2>5. SumFunction(sourceBytes) <= SumFunction(sourceBytes')
    BY SumGrows DEF ShaperTraffic
  <2> QED
    BY <1>5, <2>1, <2>2, <2>3, <2>4, <2>5
<1> HIDE DEF n
<1>8. Ledger(base)'
  <2>1. \A e \in 1..acquired : served[e] <= served'[e] /\ base[e] = base[e]
    BY <1>2, <1>6
  <2>2. lease'.id # NoLease =>
           /\ lease'.acquiredAt \in 1..acquired'
           /\ bytes' = base[lease'.acquiredAt] + served'[lease'.acquiredAt]
           /\ base[lease'.acquiredAt] <= SumFunction(sourceBytes')
    BY <1>2, <1>5, <1>7
  <2>3. acquired' \in Nat /\ acquired <= acquired'
    BY <1>2
  <2> HIDE DEF at
  <2> QED
    BY <1>1, <1>2, <1>6, <2>1, <2>2, <2>3, LedgerCopies
<1>9. \A e \in 1..MaxAcquired : e > acquired' => served'[e] = 0
  <2> SUFFICES ASSUME NEW e \in 1..MaxAcquired, e > acquired PROVE served'[e] = 0
    BY <1>2
  <2>1. bytes' # bytes => e # at
    BY <1>2, <1>4, <1>5
  <2>2. bytes' = bytes => served' = served
    BY DEF ShaperTraffic
  <2>3. served'[e] = served[e]
    BY <1>6, <2>1, <2>2
  <2> QED
    BY <2>3 DEF LInv
<1> QED
  BY <1>2, <1>6, <1>8, <1>9 DEF LInv

\* An acquisition opens an account at the total it finds, all of it attributed.
LEMMA AcquireLedger ==
    ASSUME IInv, BytesConserved, RunTypes, LInv, NEW r \in Leases,
           AcquireExecutionLease(r), served' = served, Copies
    PROVE  LInv'
<1>1. PICK base \in [1..MaxAcquired -> Nat] : Ledger(base)
  BY DEF LInv
<1> DEFINE e == acquired + 1
<1>2. /\ TypeOK /\ lease'.id = r /\ lease'.acquiredAt = e /\ acquired' = e
      /\ acquired \in Nat /\ e <= MaxAcquired /\ MaxAcquired \in Nat /\ bytes \in Nat
      /\ served \in [1..MaxAcquired -> Nat] /\ r # NoLease
  BY AcquireMoves, BoundsAssumption, NoLeaseAssumption DEF IInv, TypeOK, LInv
<1>3. \A c \in Conns : conn[c].state = "free"
  BY QuietMeansFree DEF AcquireExecutionLease, CanAcquire, IInv
<1>4. SumFunction(sourceBytes) = bytes
  BY <1>3, QuietAttributed
<1>5. bytes' = bytes /\ sourceBytes' = sourceBytes
  BY DEF AcquireExecutionLease, trafficVars
<1>6. e \in 1..MaxAcquired /\ served[e] = 0
  <2>1. e \in 1..MaxAcquired /\ e > acquired
    BY <1>2
  <2> QED
    BY <2>1 DEF LInv
<1>7. PICK new \in [1..MaxAcquired -> Nat] :
          new[e] = bytes /\ \A x \in 1..acquired : new[x] = base[x]
  <2> DEFINE f == [base EXCEPT ![e] = bytes]
  <2>1. /\ f \in [1..MaxAcquired -> Nat] /\ f[e] = bytes
        /\ \A x \in 1..acquired : f[x] = base[x]
    BY <1>2, <1>6
  <2> HIDE DEF f
  <2> QED
    BY <2>1
<1>8. Ledger(new)'
  <2>1. /\ acquired <= MaxAcquired /\ acquired' \in Nat /\ acquired <= acquired'
        /\ served' \in [1..MaxAcquired -> Nat]
        /\ \A x \in 1..acquired : served[x] <= served'[x]
    BY <1>2
  <2>2. /\ lease'.acquiredAt \in 1..acquired'
        /\ bytes' = new[lease'.acquiredAt] + served'[lease'.acquiredAt]
        /\ new[lease'.acquiredAt] <= SumFunction(sourceBytes')
    <3>1. e \in 1..e /\ bytes = bytes + 0 /\ bytes <= bytes
      BY <1>2
    <3> HIDE DEF e
    <3> QED
      BY <1>2, <1>4, <1>5, <1>6, <1>7, <3>1
  <2> HIDE DEF e
  <2> QED
    BY <1>1, <1>2, <1>7, <2>1, <2>2, LedgerCopies
<1>9. \A x \in 1..MaxAcquired : x > acquired' => served'[x] = 0
  BY <1>2 DEF LInv
<1> HIDE DEF e
<1> QED
  BY <1>2, <1>7, <1>8, <1>9 DEF LInv

\* A step that moves no byte, keeps the acquisitions and keeps or frees the lease.
LEMMA QuietLedger ==
    ASSUME IInv, BytesConserved, RunTypes, LInv, Copies,
           UNCHANGED <<bytes, sourceBytes, acquired, served>>,
           LeaseStamp' \in {LeaseStamp, NoStamp}
    PROVE  LInv'
<1>1. PICK base \in [1..MaxAcquired -> Nat] : Ledger(base)
  BY DEF LInv
<1>0. /\ TypeOK /\ acquired \in Nat /\ acquired <= MaxAcquired /\ MaxAcquired \in Nat
      /\ served \in [1..MaxAcquired -> Nat]
  BY BoundsAssumption DEF IInv, TypeOK, LInv
<1>2. /\ acquired' \in Nat /\ acquired <= acquired' /\ served' \in [1..MaxAcquired -> Nat]
      /\ \A e \in 1..acquired : served[e] <= served'[e]
  <2>1. \A e \in 1..acquired : served[e] \in Nat
    BY <1>0
  <2> QED
    BY <1>0, <2>1
<1>3. lease'.id # NoLease => lease'.id = lease.id /\ lease'.acquiredAt = lease.acquiredAt
  BY DEF LeaseStamp, NoStamp
<1>4. lease'.id # NoLease =>
         /\ lease'.acquiredAt \in 1..acquired'
         /\ bytes' = base[lease'.acquiredAt] + served'[lease'.acquiredAt]
         /\ base[lease'.acquiredAt] <= SumFunction(sourceBytes')
  BY <1>1, <1>3 DEF Ledger
<1>5. Ledger(base)'
  BY <1>0, <1>1, <1>2, <1>4, LedgerCopies
<1> QED
  BY <1>0, <1>1, <1>2, <1>5 DEF LInv

\* Every step is of one of the three kinds.
LEMMA LInvStep ==
    ASSUME IInv, IInv', BytesConserved, RunTypes, LInv, RunNext
    PROVE  LInv'
<1>0. TypeOK /\ Copies
  BY RunNextCopies DEF IInv
<1>1. CASE ShaperTraffic
  BY <1>0, <1>1, TrafficLedger
<1>2. ASSUME NEW r \in Leases, AcquireExecutionLease(r), served' = served PROVE LInv'
  BY <1>0, <1>2, AcquireLedger
<1>3. ASSUME NEW r \in Leases, ReleaseExecutionLease(r), served' = served PROVE LInv'
  <2>1. UNCHANGED <<bytes, sourceBytes, acquired, served>>
    BY <1>3 DEF ReleaseExecutionLease, trafficVars
  <2>2. LeaseStamp' = NoStamp
    BY <1>3, ReleaseMoves DEF LeaseStamp, NoStamp
  <2> QED
    BY <1>0, <2>1, <2>2, QuietLedger
<1>4. ASSUME UNCHANGED shaperVars, served' = served PROVE LInv'
  <2>1. UNCHANGED <<bytes, sourceBytes, acquired, served>> /\ LeaseStamp' = LeaseStamp
    BY <1>4 DEF shaperVars, trafficVars, leaseVars, LeaseStamp
  <2> QED
    BY <1>0, <2>1, QuietLedger
<1>5. ASSUME NEW r \in Leases,
             \/ ShaperSnapshot(r) \/ LatePost(r) \/ LateDelete(r)
             \/ Acquiring(r) \/ Measuring(r) \/ Releasing(r)
      PROVE  LInv'
  <2>1. ASSUME ShaperSnapshot(r) PROVE UNCHANGED shaperVars /\ served' = served
    BY <2>1, ReaderUnchanged, ReadersAssumption DEF ShaperSnapshot, runVars
  <2>2. ASSUME LatePost(r) \/ LateDelete(r)
        PROVE  (AcquireExecutionLease(r) \/ ReleaseExecutionLease(r)) /\ served' = served
    BY <2>2 DEF LatePost, LateDelete
  <2>3. ASSUME Acquiring(r)
        PROVE  (AcquireExecutionLease(r) \/ UNCHANGED shaperVars) /\ served' = served
    BY <2>3 DEF Acquiring, StartRun, PostExecuted, PostFailed, PostTimedOut, GrantLost,
                GrantAnswered, Retry, GiveUpAcquiring
  <2>4. ASSUME Measuring(r) PROVE UNCHANGED shaperVars /\ served' = served
    BY <2>4 DEF Measuring, AdapterFails, AdapterReturns, FetchedQuiet, FetchedBusy, FetchFailed,
                runVars
  <2>5. ASSUME Releasing(r)
        PROVE  (ReleaseExecutionLease(r) \/ UNCHANGED shaperVars) /\ served' = served
    BY <2>5 DEF Releasing, DeleteAnswered, DeleteUnanswered, DeleteTimedOut, DeleteGivenUp,
                BackgroundRelease, BackgroundExpires, runVars
  <2> QED
    BY <1>2, <1>3, <1>4, <1>5, <2>1, <2>2, <2>3, <2>4, <2>5
<1> QED
  BY <1>1, <1>5 DEF RunNext

\* Nothing has been acquired, nothing is booked.
LEMMA LInvInit == RunInit => LInv
<1> SUFFICES ASSUME RunInit PROVE LInv
  OBVIOUS
<1>1. /\ acquired = 0 /\ MaxAcquired \in Nat /\ lease.id = NoLease
      /\ served = [e \in 1..MaxAcquired |-> 0]
  BY BoundsAssumption DEF RunInit, Init, NewAttestation, NoLeaseHeld
<1>2. \A r \in Leases : snapshot[r] = EmptySnapshot /\ run[r] = NewRun
  BY ReadersAssumption DEF RunInit, Init
<1> DEFINE base == [e \in 1..MaxAcquired |-> 0]
<1>3. base \in [1..MaxAcquired -> Nat] /\ served \in [1..MaxAcquired -> Nat]
  BY <1>1
<1>4. Ledger(base)
  BY <1>1, <1>2, Empty, NewRunTyped DEF Ledger, Booked, BookedBy
<1> QED
  BY <1>1, <1>3, <1>4 DEF LInv

\* Every copy taken and every credit given lies within what was served under
\* the acquisition it names.
THEOREM Booking == RunSpec => []LInv
<1>1. IInv /\ IInv' /\ BytesConserved /\ KInv /\ LInv /\ [RunNext]_allVars => LInv'
  <2> SUFFICES ASSUME LInv, UNCHANGED allVars PROVE LInv'
    BY LInvStep DEF KInv
  <2> QED
    BY DEF LInv, Ledger, Booked, BookedBy, allVars, vars, runVars, shaperVars, leaseVars, trafficVars
<1> QED
  BY <1>1, LInvInit, UsesTheShaper, Invariance, Conservation, Accounted, PTL DEF RunSpec

\* The delivery recorded for a run is made of bytes served under one acquisition of the
\* lease; that acquisition is the run's own and no other run is credited it, evictions apart.
THEOREM DeliverySound == RunSpec => []CreditSound
<1>1. LInv => CreditServed
  BY NoLeaseAssumption DEF LInv, Ledger, CreditServed, Credited
<1>2. CreditServed /\ CreditOwn /\ CreditExclusive => CreditSound
  BY DEF CreditSound
<1> QED
  BY <1>1, <1>2, Booking, CreditedItsOwn, NoByteForTwoRuns, PTL
=============================================================================
