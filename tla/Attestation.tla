---------------------------- MODULE Attestation ----------------------------
(***************************************************************************)
(* The accounting core of the NNTP shaper: internal/nntpshaper's           *)
(* Attestation.  Downstream connections are admitted under an exclusive    *)
(* execution lease, every delivered byte and every article request is      *)
(* counted, and Snapshot copies the counters for the benchmark harness.    *)
(*                                                                         *)
(* Atomicity follows the code: sourcesMu and commandsMu sections are one   *)
(* step each, except that OpenDownstream is split between its two atomic   *)
(* adds (a snapshot loads those without the lock) and AddDownstreamBytes   *)
(* between its atomic add and its locked one.  Snapshot is five steps: two *)
(* locked copies and three atomic loads.                                   *)
(***************************************************************************)
EXTENDS Integers, FiniteSets, Functions

CONSTANTS
    Leases,       \* execution lease IDs (64 hex digits in the code)
    Sources,      \* downstream source identities (client addresses)
    Conns,        \* connection slots of the proxy; a slot is reused once closed
    Articles,     \* message-ids after normalizeMessageID
    Readers,      \* control-plane requests that may be taking a snapshot
    NoLease,      \* executionLeaseID = ""
    NoSource,     \* executionLeaseSource = ""
    NoArticle,    \* an article number or no argument: no identity
    MaxAcquired,  \* bound: lease acquisitions
    MaxOpened,    \* bound: connections ever opened
    MaxBytes,     \* bound: bytes ever delivered
    MaxRequests   \* bound: article requests ever observed

ASSUME NoLeaseAssumption == NoLease \notin Leases
ASSUME NoSourceAssumption == NoSource \notin Sources
ASSUME NoArticleAssumption == NoArticle \notin Articles
ASSUME ConnsAssumption == IsFiniteSet(Conns)
ASSUME SourcesAssumption == IsFiniteSet(Sources)
ASSUME BoundsAssumption ==
    {MaxAcquired, MaxOpened, MaxBytes, MaxRequests} \subseteq Nat

VARIABLES
    lease,              \* executionLeaseID, ...AcquiredAt, ...Source
    connections,        \* downstreamConnections
    active,             \* activeDownstreamConnections
    bytes,              \* downstreamBytes
    sourceConnections,  \* downstreamSourceConnections
    sourceBytes,        \* downstreamSourceBytes
    census,             \* articleRequests, repeatedArticleRequests, leaseArticles
    conn,               \* the proxy goroutines, one per downstream connection
    snapshot,           \* the Snapshot each reader is assembling
    acquired,           \* history: leases acquired so far; also the clock
    baseline            \* history: the counters when the lease was acquired

leaseVars == <<lease, acquired, baseline>>
trafficVars == <<connections, active, bytes, sourceConnections, sourceBytes, conn>>
shaperVars == <<leaseVars, trafficVars, census>>
vars == <<shaperVars, snapshot>>

(***************************************************************************)
(* State.                                                                  *)
(***************************************************************************)
NoLeaseHeld == [id |-> NoLease, acquiredAt |-> 0, source |-> NoSource]

FreeSlot == [state |-> "free", source |-> NoSource, pending |-> 0]

ZeroCounters == [s \in Sources |-> 0]

EmptySnapshot ==
    [stage |-> "idle", requests |-> 0, repeated |-> 0, distinct |-> 0,
     sourceConnections |-> ZeroCounters, sourceBytes |-> ZeroCounters,
     leaseID |-> NoLease, acquiredAt |-> 0, status |-> "ok",
     connections |-> 0, active |-> 0, bytes |-> 0,
     truth |-> 0]  \* history: bytes at the sources copy

Baseline ==
    [sourceConnections |-> sourceConnections, sourceBytes |-> sourceBytes]

Open == {c \in Conns : conn[c].state = "open"}

\* sourcesMu is free: no OpenDownstream is between its two atomic adds.
SourcesUnlocked == \A c \in Conns : conn[c].state # "opening"

NewAttestation ==
    /\ lease = NoLeaseHeld
    /\ connections = 0 /\ active = 0 /\ bytes = 0
    /\ sourceConnections = ZeroCounters
    /\ sourceBytes = ZeroCounters
    /\ census = [requests |-> 0, repeated |-> 0, articles |-> {}]
    /\ conn = [c \in Conns |-> FreeSlot]
    /\ acquired = 0
    /\ baseline = [sourceConnections |-> ZeroCounters, sourceBytes |-> ZeroCounters]

Init ==
    /\ NewAttestation
    /\ snapshot = [r \in Readers |-> EmptySnapshot]

(***************************************************************************)
(* The execution lease.                                                    *)
(***************************************************************************)
\* Mutant: the lease in force is not looked at.
CanAcquireHeld == active = 0

CanAcquire == lease.id = NoLease /\ active = 0

\* The locked body, once leaseID has been accepted as a well-formed token.
AcquireExecutionLease(l) ==
    /\ SourcesUnlocked
    /\ acquired < MaxAcquired
    /\ CanAcquire
    /\ lease' = [id |-> l, acquiredAt |-> acquired + 1, source |-> NoSource]
    /\ census' = [census EXCEPT !.articles = {}]
    /\ acquired' = acquired + 1
    /\ baseline' = Baseline
    /\ UNCHANGED trafficVars

\* Mutant: live connections are not looked at.
CanReleaseBusy(l) == lease.id = l

CanRelease(l) == lease.id = l /\ active = 0

ReleaseExecutionLease(l) ==
    /\ SourcesUnlocked
    /\ CanRelease(l)
    /\ lease' = NoLeaseHeld
    /\ UNCHANGED <<trafficVars, census, acquired, baseline>>

(***************************************************************************)
(* A downstream connection.                                                *)
(***************************************************************************)
\* Mutant: any source is admitted.
AdmitsAnySource(s) == lease.id # NoLease

Admits(s) == lease.id # NoLease /\ lease.source \in {NoSource, s}

\* OpenDownstream up to its first atomic add; a source it does not admit is
\* rejected with no effect.  sourcesMu stays locked until OpenDownstreamActive.
OpenDownstream(c, s) ==
    /\ SourcesUnlocked
    /\ connections < MaxOpened
    /\ conn[c].state = "free"
    /\ Admits(s)
    /\ lease' = [lease EXCEPT !.source = s]
    /\ sourceConnections' = [sourceConnections EXCEPT ![s] = @ + 1]
    /\ connections' = connections + 1
    /\ conn' = [conn EXCEPT ![c] = [state |-> "opening", source |-> s, pending |-> 0]]
    /\ UNCHANGED <<active, bytes, sourceBytes, census, acquired, baseline>>

OpenDownstreamActive(c) ==
    /\ conn[c].state = "opening"
    /\ active' = active + 1
    /\ conn' = [conn EXCEPT ![c].state = "open"]
    /\ UNCHANGED <<leaseVars, connections, bytes, sourceConnections, sourceBytes, census>>

\* AddDownstreamBytes: the atomic total first ...
AddDownstreamBytes(c, n) ==
    /\ bytes + n <= MaxBytes
    /\ conn[c].state = "open" /\ conn[c].pending = 0
    /\ bytes' = bytes + n
    /\ conn' = [conn EXCEPT ![c].pending = n]
    /\ UNCHANGED <<leaseVars, connections, active, sourceConnections, sourceBytes, census>>

\* Mutant: a write is attributed as one byte.
AddSourceWrites(c) ==
    /\ SourcesUnlocked
    /\ conn[c].pending > 0
    /\ sourceBytes' = [sourceBytes EXCEPT ![conn[c].source] = @ + 1]
    /\ conn' = [conn EXCEPT ![c].pending = 0]
    /\ UNCHANGED <<leaseVars, connections, active, bytes, sourceConnections, census>>

\* ... then the source's share under sourcesMu.
AddSourceBytes(c) ==
    /\ SourcesUnlocked
    /\ conn[c].pending > 0
    /\ sourceBytes' = [sourceBytes EXCEPT ![conn[c].source] = @ + conn[c].pending]
    /\ conn' = [conn EXCEPT ![c].pending = 0]
    /\ UNCHANGED <<leaseVars, connections, active, bytes, sourceConnections, census>>

\* An ARTICLE, BODY, HEAD or STAT line on connection c.  Other verbs only move
\* the per-verb tally, which nothing reads back, so they are left out.
ObserveCommand(c, a) ==
    /\ census.requests < MaxRequests
    /\ conn[c].state = "open"
    /\ census' = [requests  |-> census.requests + 1,
                  repeated  |-> census.repeated + IF a \in census.articles THEN 1 ELSE 0,
                  articles  |-> census.articles \union ({a} \ {NoArticle})]
    /\ UNCHANGED <<leaseVars, trafficVars>>

\* Mutant: release is not called.
CloseDownstreamLeaks(c) ==
    /\ conn[c].state = "open" /\ conn[c].pending = 0
    /\ conn' = [conn EXCEPT ![c] = FreeSlot]
    /\ UNCHANGED <<leaseVars, connections, active, bytes, sourceConnections, sourceBytes, census>>

\* The release function OpenDownstream returned.  proxy defers it behind both
\* copy directions, so no AddDownstreamBytes of this connection is half done.
CloseDownstream(c) ==
    /\ conn[c].state = "open" /\ conn[c].pending = 0
    /\ active' = active - 1
    /\ conn' = [conn EXCEPT ![c] = FreeSlot]
    /\ UNCHANGED <<leaseVars, connections, bytes, sourceConnections, sourceBytes, census>>

(***************************************************************************)
(* Snapshot, step by step.                                                 *)
(***************************************************************************)
SnapshotCommands(r) ==
    /\ snapshot[r].stage = "idle"
    /\ snapshot' = [snapshot EXCEPT ![r] =
           [EmptySnapshot EXCEPT !.stage = "commands",
                                 !.requests = census.requests,
                                 !.repeated = census.repeated,
                                 !.distinct = Cardinality(census.articles)]]
    /\ UNCHANGED shaperVars

SnapshotSources(r) ==
    /\ snapshot[r].stage = "commands"
    /\ SourcesUnlocked
    /\ snapshot' = [snapshot EXCEPT ![r] =
           [@ EXCEPT !.stage = "sources",
                     !.sourceConnections = sourceConnections,
                     !.sourceBytes = sourceBytes,
                     !.leaseID = lease.id,
                     !.acquiredAt = lease.acquiredAt,
                     !.truth = bytes]]
    /\ UNCHANGED shaperVars

\* The live-delay probe may fail, which degrades the status; the connection
\* total is loaded right after it.
SnapshotConnections(r) ==
    /\ snapshot[r].stage = "sources"
    /\ \E status \in {"ok", "degraded"} :
           snapshot' = [snapshot EXCEPT ![r] =
               [@ EXCEPT !.stage = "connections",
                         !.status = status,
                         !.connections = connections]]
    /\ UNCHANGED shaperVars

SnapshotActive(r) ==
    /\ snapshot[r].stage = "connections"
    /\ snapshot' = [snapshot EXCEPT ![r] =
           [@ EXCEPT !.stage = "active", !.active = active]]
    /\ UNCHANGED shaperVars

SnapshotBytes(r) ==
    /\ snapshot[r].stage = "active"
    /\ snapshot' = [snapshot EXCEPT ![r] =
           [@ EXCEPT !.stage = "done", !.bytes = bytes]]
    /\ UNCHANGED shaperVars

\* The response has been encoded; the request is over.
SnapshotServed(r) ==
    /\ snapshot[r].stage = "done"
    /\ snapshot' = [snapshot EXCEPT ![r] = EmptySnapshot]
    /\ UNCHANGED shaperVars

(***************************************************************************)
(* The shaper on its own, with any control-plane callers.                  *)
(***************************************************************************)
Traffic ==
    \E c \in Conns :
        \/ \E s \in Sources : OpenDownstream(c, s)
        \/ OpenDownstreamActive(c)
        \/ \E n \in 1..MaxBytes : AddDownstreamBytes(c, n)
        \/ AddSourceBytes(c)
        \/ \E a \in Articles \union {NoArticle} : ObserveCommand(c, a)
        \/ CloseDownstream(c)

\* Mutant: the totals are loaded before the sources are copied.
SnapshotTotalsFirst(r) ==
    \/ /\ snapshot[r].stage = "commands"
       /\ snapshot' = [snapshot EXCEPT ![r] =
              [@ EXCEPT !.stage = "sources", !.connections = connections,
                        !.active = active, !.bytes = bytes]]
       /\ UNCHANGED shaperVars
    \/ /\ snapshot[r].stage = "sources"
       /\ SourcesUnlocked
       /\ snapshot' = [snapshot EXCEPT ![r] =
              [@ EXCEPT !.stage = "done", !.sourceConnections = sourceConnections,
                        !.sourceBytes = sourceBytes, !.truth = bytes]]
       /\ UNCHANGED shaperVars

SnapshotStep(r) ==
    \/ SnapshotSources(r)
    \/ SnapshotConnections(r)
    \/ SnapshotActive(r)
    \/ SnapshotBytes(r)

Next ==
    \/ Traffic /\ UNCHANGED snapshot
    \/ \E l \in Leases :
           (AcquireExecutionLease(l) \/ ReleaseExecutionLease(l)) /\ UNCHANGED snapshot
    \/ \E r \in Readers :
           SnapshotCommands(r) \/ SnapshotStep(r) \/ SnapshotServed(r)

Spec == Init /\ [][Next]_vars

(***************************************************************************)
(* Properties.                                                             *)
(***************************************************************************)
Counters == [Sources -> Nat]

\* Every variable has the type the Go declarations give it; in particular
\* activeDownstreamConnections, a signed counter, never goes negative.
TypeOK ==
    /\ lease \in [id : Leases \union {NoLease}, acquiredAt : Nat,
                  source : Sources \union {NoSource}]
    /\ connections \in Nat /\ active \in Nat /\ bytes \in Nat
    /\ sourceConnections \in Counters /\ sourceBytes \in Counters
    /\ census \in [requests : Nat, repeated : Nat, articles : SUBSET Articles]
    /\ conn \in [Conns -> [state : {"free", "opening", "open"},
                           source : Sources \union {NoSource}, pending : Nat]]
    /\ acquired \in Nat
    /\ baseline \in [sourceConnections : Counters, sourceBytes : Counters]

\* activeDownstreamConnections is exactly the number of connections whose
\* release has not run, so "active = 0" really means nobody is connected.
ActiveCountsOpen == active = Cardinality(Open)

\* A connection never outlives the lease it was admitted under, and is always
\* one of the lease's bound source: neither AcquireExecutionLease nor
\* ReleaseExecutionLease can slip between an admission and its release.
LeaseCoversConnections ==
    \A c \in Conns : conn[c].state # "free" =>
        /\ lease.id # NoLease
        /\ conn[c].source \in Sources
        /\ lease.source = conn[c].source

\* Since a lease was acquired only its bound source has opened connections or
\* been credited bytes: a second client on the link is never mixed into a run.
OneSourcePerLease ==
    lease.id # NoLease =>
        \A s \in Sources \ {lease.source} :
            /\ sourceConnections[s] = baseline.sourceConnections[s]
            /\ sourceBytes[s] = baseline.sourceBytes[s]

\* The lease never passes from one run to another directly, and never changes
\* hands under a live or half-admitted connection.
LeaseHandover ==
    [][lease'.id # lease.id =>
          /\ NoLease \in {lease.id, lease'.id}
          /\ \A c \in Conns : conn[c].state = "free"]_vars

\* Nothing is counted without a lease: not a byte, a connection or a request.
CountedUnderLease ==
    [][lease.id = NoLease =>
          UNCHANGED <<connections, bytes, sourceConnections, sourceBytes, census.requests>>]_vars

\* No byte is lost or invented between the global total and the per-source
\* attribution: they differ by exactly what AddDownstreamBytes calls in
\* progress still have to attribute.
BytesConserved ==
    bytes = SumFunction(sourceBytes) + SumFunction([c \in Conns |-> conn[c].pending])


\* A snapshot whose attribution adds up to its total (what the harness insists
\* on) is a consistent cut: it is the byte state at the instant the sources
\* were copied, although the total was loaded later.
BalancedSnapshotIsACut ==
    \A r \in Readers :
        /\ snapshot[r].stage = "done"
        /\ SumFunction(snapshot[r].sourceBytes) = snapshot[r].bytes
        => snapshot[r].bytes = snapshot[r].truth
=============================================================================
