---------------------------- MODULE MeasuredRun ----------------------------
(***************************************************************************)
(* Measured runs against one shaper: the harness side of the execution     *)
(* lease (internal/benchmark/shaper_attestation.go and the shaper parts of *)
(* executeRun and executeQueueSuite), composed with Attestation.           *)
(*                                                                         *)
(* A run acquires a lease over HTTP, retries until the shaper is quiet,    *)
(* measures, reads a second snapshot, validates the pair, and releases.    *)
(* HTTP is unreliable the way the client sees it: a request may be         *)
(* executed after its caller gave up (it joins late), an executed one may  *)
(* lose its answer.  Budgets may expire at any point.  Runs may overlap:   *)
(* within one process they do not, but two harness processes can share a   *)
(* shaper, and a run's background release outlives it.                     *)
(*                                                                         *)
(* A run's lease ID is 256 random bits, so runs are identified with their  *)
(* leases; each has at most one snapshot being assembled for it.           *)
(***************************************************************************)
EXTENDS Attestation

CONSTANT MaxLate  \* bound: requests in flight that their run has given up

ASSUME ReadersAssumption == Readers = Leases /\ MaxLate \in Nat

VARIABLES
    run,     \* per run: where executeRun is, and what it believes
    late,    \* requests given up by their run and not yet executed
    served,  \* history: bytes delivered under each acquisition
    lost     \* history: runs some grant of which was never answered

runVars == <<run, late, served, lost>>
allVars == <<vars, runVars>>

NoCredit == [holder |-> NoLease, epoch |-> 0, bytes |-> 0, requests |-> 0,
             distinct |-> 0, repeated |-> 0]

\* evicted is history: a late hand-back released the lease that the run is waiting to be
\* answered for (or was, when it got its answer).
NewRun == [pc |-> "idle", held |-> FALSE, background |-> FALSE, gaveUp |-> FALSE,
           evicted |-> FALSE, before |-> EmptySnapshot, credit |-> NoCredit]

RunInit ==
    /\ Init
    /\ run = [r \in Leases |-> NewRun]
    /\ late = {}
    /\ served = [e \in 1..MaxAcquired |-> 0]
    /\ lost = {}

At(r, pc) == run[r].pc = pc
Become(r, new) == run' = [run EXCEPT ![r] = new]
Goto(r, pc) == Become(r, [run[r] EXCEPT !.pc = pc])

GivenUp(r, method) ==
    /\ Cardinality(late) < MaxLate
    /\ late' = late \union {<<r, method>>}

\* The snapshot being assembled for r is dropped: answered, or nobody listens.
DropSnapshot(r) == snapshot' = [snapshot EXCEPT ![r] = EmptySnapshot]

(***************************************************************************)
(* The shaper's own steps.                                                 *)
(***************************************************************************)
ShaperTraffic ==
    /\ Traffic
    /\ served' = IF bytes' = bytes THEN served
                 ELSE [served EXCEPT ![lease.acquiredAt] = @ + (bytes' - bytes)]
    /\ UNCHANGED <<snapshot, run, late, lost>>

\* serveLease and serveSnapshot assemble a snapshot for the run that waits.
ShaperSnapshot(r) ==
    /\ run[r].pc \in {"granting", "fetching"}
    /\ SnapshotCommands(r) \/ SnapshotStep(r)
    /\ UNCHANGED runVars

\* A request its caller has given up is executed after all.  Its answer goes
\* nowhere; a grant obtained this way is unknown to its run.
LatePost(r) ==
    /\ <<r, "POST">> \in late
    /\ late' = late \ {<<r, "POST">>}
    /\ AcquireExecutionLease(r)
    /\ lost' = lost \union {r}
    /\ UNCHANGED <<snapshot, run, served>>

LateDelete(r) ==
    /\ <<r, "DELETE">> \in late
    /\ late' = late \ {<<r, "DELETE">>}
    /\ ReleaseExecutionLease(r)
    /\ Become(r, [run[r] EXCEPT !.evicted = @ \/ At(r, "granting")])
    /\ UNCHANGED <<snapshot, served, lost>>

(***************************************************************************)
(* AcquireShaperExecutionLeaseForRun.                                      *)
(***************************************************************************)
StartRun(r) ==
    /\ At(r, "idle")
    /\ Goto(r, "posting")
    /\ UNCHANGED <<shaperVars, snapshot, late, served, lost>>

PostExecuted(r) ==
    /\ At(r, "posting")
    /\ AcquireExecutionLease(r)
    /\ Become(r, [run[r] EXCEPT !.pc = "granting", !.evicted = FALSE])
    /\ UNCHANGED <<snapshot, late, served, lost>>

\* HTTP 409, or the request never reached the shaper.
PostFailed(r) ==
    /\ At(r, "posting")
    /\ Goto(r, "refused")
    /\ UNCHANGED <<shaperVars, snapshot, late, served, lost>>

PostTimedOut(r) ==
    /\ At(r, "posting")
    /\ GivenUp(r, "POST")
    /\ Goto(r, "refused")
    /\ UNCHANGED <<shaperVars, snapshot, served, lost>>

\* The grant was made, the answer is lost: an error like any other.  Assembling
\* the answer only reads, so giving up before it starts stands for giving up at
\* any point of it (the same in FetchFailed).
GrantLost(r) ==
    /\ At(r, "granting") /\ snapshot[r].stage = "idle"
    /\ lost' = lost \union {r}
    /\ Goto(r, "refused")
    /\ UNCHANGED <<shaperVars, snapshot, late, served>>

\* ShaperSnapshot.ValidateFor, as far as it depends on the run and not on the
\* build: a status that is ok, no active connection, a lease.
ValidateFor(s) == s.status = "ok" /\ s.active = 0 /\ s.leaseID # NoLease

\* The answer: measure, hand back a lease with strays on it, or hand back for
\* good when the shaper is not the one the plan wants.
GrantAnswered(r) ==
    /\ At(r, "granting") /\ snapshot[r].stage = "done"
    /\ LET s == snapshot[r] IN
       Become(r, [run[r] EXCEPT !.held = TRUE,
                                !.before = IF ValidateFor(s) THEN s ELSE @,
                                !.pc = IF s.active # 0 THEN "handing"
                                       ELSE IF ValidateFor(s) THEN "measuring" ELSE "returning"])
    /\ DropSnapshot(r)
    /\ UNCHANGED <<shaperVars, late, served, lost>>

\* Neither deadline nor ctx: the loop asks again after the quiet interval.
Retry(r) ==
    /\ At(r, "refused")
    /\ Goto(r, "posting")
    /\ UNCHANGED <<shaperVars, snapshot, late, served, lost>>

\* Mutant: a lease that could not be handed back is forgotten.
GiveUpHolding(r) ==
    /\ At(r, "refused")
    /\ Goto(r, "failed")
    /\ UNCHANGED <<shaperVars, snapshot, late, served, lost>>

\* failWithoutStrandingShaperExecutionLease, on the deadline or on ctx.
GiveUpAcquiring(r) ==
    /\ At(r, "refused")
    /\ Goto(r, IF run[r].held THEN "stranded" ELSE "failed")
    /\ UNCHANGED <<shaperVars, snapshot, late, served, lost>>

(***************************************************************************)
(* releaseShaperExecutionLeaseUntil, in its four foreground uses: handing  *)
(* back between attempts, returning after a fatal condition, releasing a   *)
(* stranded lease, and the deferred release after the run.                 *)
(***************************************************************************)
Deleting == {"handing", "returning", "stranded", "releasing"}

AfterRelease == [handing |-> "refused", returning |-> "failed",
                 stranded |-> "failed", releasing |-> "over"]
\* Mutant: handing back has no budget of its own.
AfterGivingUpNever == [handing |-> "handing", returning |-> "stranded",
                       stranded |-> "failed", releasing |-> "over"]

AfterGivingUp == [handing |-> "refused", returning |-> "stranded",
                  stranded |-> "failed", releasing |-> "over"]

DeleteAnswered(r) ==
    /\ run[r].pc \in Deleting
    /\ ReleaseExecutionLease(r)
    /\ Become(r, [run[r] EXCEPT !.pc = AfterRelease[@], !.held = FALSE])
    /\ UNCHANGED <<snapshot, late, served, lost>>

\* Executed, answer lost: every later attempt is refused, the lease is gone.
DeleteUnanswered(r) ==
    /\ run[r].pc \in Deleting
    /\ ReleaseExecutionLease(r)
    /\ UNCHANGED <<snapshot, runVars>>

DeleteTimedOut(r) ==
    /\ run[r].pc \in Deleting
    /\ GivenUp(r, "DELETE")
    /\ UNCHANGED <<shaperVars, snapshot, run, served, lost>>

\* The budget ends.  A stranded lease is left to a background goroutine; a
\* failed release after the run fails the run.
DeleteGivenUp(r) ==
    /\ run[r].pc \in Deleting
    /\ Become(r, [run[r] EXCEPT !.pc = AfterGivingUp[@],
                                !.background = At(r, "stranded"),
                                !.gaveUp = @ \/ At(r, "releasing")])
    /\ UNCHANGED <<shaperVars, snapshot, late, served, lost>>

BackgroundRelease(r) ==
    /\ run[r].background
    /\ ReleaseExecutionLease(r)
    /\ Become(r, [run[r] EXCEPT !.background = FALSE])
    /\ UNCHANGED <<snapshot, late, served, lost>>

BackgroundExpires(r) ==
    /\ run[r].background
    /\ Become(r, [run[r] EXCEPT !.background = FALSE, !.gaveUp = TRUE])
    /\ UNCHANGED <<shaperVars, snapshot, late, served, lost>>

(***************************************************************************)
(* The measured part of executeRun.                                        *)
(***************************************************************************)
\* executeRun returns; the deferred release comes next.  The snapshot the run
\* started from is not needed any more.
Finish(r, credit) ==
    Become(r, [run[r] EXCEPT !.pc = "releasing", !.credit = credit, !.before = EmptySnapshot])

AdapterFails(r) ==
    /\ At(r, "measuring")
    /\ Finish(r, NoCredit)
    /\ UNCHANGED <<shaperVars, snapshot, late, served, lost>>

AdapterReturns(r) ==
    /\ At(r, "measuring")
    /\ Goto(r, "fetching")
    /\ UNCHANGED <<shaperVars, snapshot, late, served, lost>>

\* ValidateShaperSnapshotPair.
SourceDelta(b, a) == [s \in Sources |-> a[s] - b[s]]
\* Mutant: the two snapshots may belong to different leases.
PairOfAnyLease(b, a) ==
    /\ a.connections >= b.connections /\ a.bytes >= b.bytes
    /\ a.active = 0
    /\ SumFunction(SourceDelta(b.sourceBytes, a.sourceBytes)) = a.bytes - b.bytes

PairValid(b, a) ==
    /\ b.leaseID = a.leaseID
    /\ b.acquiredAt = a.acquiredAt
    /\ a.connections >= b.connections /\ a.bytes >= b.bytes
    /\ a.active = 0
    /\ \A s \in Sources : /\ a.sourceConnections[s] >= b.sourceConnections[s]
                          /\ a.sourceBytes[s] >= b.sourceBytes[s]
    /\ SumFunction(SourceDelta(b.sourceConnections, a.sourceConnections))
           = a.connections - b.connections
    /\ SumFunction(SourceDelta(b.sourceBytes, a.sourceBytes)) = a.bytes - b.bytes
    /\ a.bytes > b.bytes =>
           Cardinality({s \in Sources : \/ a.sourceConnections[s] > b.sourceConnections[s]
                                        \/ a.sourceBytes[s] > b.sourceBytes[s]}) = 1

\* ShaperArticleCensusFor.
CensusValid(b, a) ==
    /\ b.distinct = 0
    /\ a.requests >= b.requests /\ a.repeated >= b.repeated
CensusConsistent(b, a) ==
    a.distinct + (a.repeated - b.repeated) <= a.requests - b.requests

\* A pair with a positive delivery is what the run's artifact records.
Accepts(b, a) ==
    /\ ValidateFor(a)
    /\ PairValid(b, a) /\ a.bytes > b.bytes
    /\ CensusValid(b, a) /\ CensusConsistent(b, a)

Credit(b, a) ==
    [holder |-> b.leaseID, epoch |-> a.acquiredAt, bytes |-> a.bytes - b.bytes,
     requests |-> a.requests - b.requests, distinct |-> a.distinct,
     repeated |-> a.repeated - b.repeated]

\* FetchShaperSnapshotAfterRun got a quiet snapshot.  The delivery is recorded
\* whether storage, verification and cleanup then pass the run or fail it.
FetchedQuiet(r) ==
    /\ At(r, "fetching") /\ snapshot[r].stage = "done" /\ snapshot[r].active = 0
    /\ LET b == run[r].before
           a == snapshot[r]
       IN  Finish(r, IF Accepts(b, a) THEN Credit(b, a) ELSE NoCredit)
    /\ DropSnapshot(r)
    /\ UNCHANGED <<shaperVars, late, served, lost>>

\* Not quiet yet: read again.
FetchedBusy(r) ==
    /\ At(r, "fetching") /\ snapshot[r].stage = "done" /\ snapshot[r].active # 0
    /\ DropSnapshot(r)
    /\ UNCHANGED <<shaperVars, runVars>>

\* The request failed, or the shaper stayed busy for the whole budget.
FetchFailed(r) ==
    /\ At(r, "fetching") /\ snapshot[r].stage = "idle"
    /\ Finish(r, NoCredit)
    /\ UNCHANGED <<shaperVars, snapshot, late, served, lost>>

(***************************************************************************)
(* Specification.                                                          *)
(***************************************************************************)
Acquiring(r) ==
    \/ StartRun(r) \/ PostExecuted(r) \/ PostFailed(r) \/ PostTimedOut(r)
    \/ GrantLost(r) \/ GrantAnswered(r) \/ Retry(r) \/ GiveUpAcquiring(r)
Releasing(r) ==
    \/ DeleteAnswered(r) \/ DeleteUnanswered(r) \/ DeleteTimedOut(r) \/ DeleteGivenUp(r)
    \/ BackgroundRelease(r) \/ BackgroundExpires(r)
Measuring(r) ==
    \/ AdapterFails(r) \/ AdapterReturns(r)
    \/ FetchedQuiet(r) \/ FetchedBusy(r) \/ FetchFailed(r)

RunNext ==
    \/ ShaperTraffic
    \/ \E r \in Leases :
          \/ ShaperSnapshot(r) \/ LatePost(r) \/ LateDelete(r)
          \/ Acquiring(r) \/ Measuring(r) \/ Releasing(r)

RunSpec == RunInit /\ [][RunNext]_allVars

\* Goroutines run, clients that are told to stop close their connections, and
\* every budget ends: the acquire and fetch loops look at their deadline on each
\* round, so a loop that goes on for ever passes it (strong fairness).
Draining ==
    /\ \E c \in Conns : OpenDownstreamActive(c) \/ AddSourceBytes(c) \/ CloseDownstream(c)
    /\ UNCHANGED <<snapshot, runVars>>

RunFairness ==
    /\ WF_allVars(Draining)
    /\ \A r \in Leases :
          /\ WF_allVars(ShaperSnapshot(r))
          /\ WF_allVars(PostExecuted(r) \/ PostFailed(r) \/ GrantAnswered(r) \/ Retry(r))
          /\ SF_allVars(GiveUpAcquiring(r))
          /\ WF_allVars(AdapterReturns(r) \/ FetchedQuiet(r) \/ FetchedBusy(r))
          /\ SF_allVars(FetchFailed(r))
          /\ WF_allVars(DeleteGivenUp(r))
          /\ WF_allVars(BackgroundRelease(r))

RunFairSpec == RunSpec /\ RunFairness

(***************************************************************************)
(* Properties.                                                             *)
(***************************************************************************)
Credited(r) == run[r].credit.holder # NoLease

CreditServed == \A r \in Leases : Credited(r) => run[r].credit.bytes <= served[run[r].credit.epoch]

\* A run is credited an acquisition of its own, except after an eviction: nothing compares
\* the lease in its snapshots with the lease it asked for (mutateShaperExecutionLease,
\* ValidateFor), so the answer to a grant that a late hand-back has taken back in the
\* meantime may describe the next run's acquisition.
CreditOwn == \A r \in Leases : Credited(r) => run[r].credit.holder = r \/ run[r].evicted

CreditExclusive == \A r \in Leases, q \in Leases :
    /\ Credited(r) /\ Credited(q)
    /\ run[r].credit.epoch = run[q].credit.epoch
    => r = q \/ run[r].evicted \/ run[q].evicted

\* The delivery recorded for a run is made of bytes served under one acquisition of the
\* lease, and however calls are delayed, lost or interleaved, that acquisition is the run's
\* and no other run is credited it.  The one way around it is an eviction: a hand-back of an
\* earlier attempt, executed between the run's grant and its answer.
CreditSound == CreditServed /\ CreditOwn /\ CreditExclusive

Over(r) == run[r].pc \in {"failed", "over"}

\* A lease outlives its run only if an answer to a grant was lost or a release
\* budget ran out: every other path gives the lease back or keeps a background
\* goroutine asking.
LeaseStrandedOnlyByLoss ==
    \A r \in Leases :
        Over(r) /\ lease.id = r => run[r].background \/ run[r].gaveUp \/ r \in lost

\* No run waits for ever, whatever the shaper, the network and the clients do.
RunsEnd == \A r \in Leases : At(r, "posting") ~> Over(r)

\* A lease left to the background is freed once its last connection is gone,
\* unless the background budget runs out first.
BackgroundFrees ==
    \A r \in Leases : run[r].background /\ lease.id = r ~> lease.id # r \/ ~run[r].background
=============================================================================
