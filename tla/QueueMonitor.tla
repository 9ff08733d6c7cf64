---------------------------- MODULE QueueMonitor ----------------------------
(***************************************************************************)
(* The container adapter's queue (internal/clientadapter/queue.go): one    *)
(* goroutine submits the planned NZBs to the client's public API, another  *)
(* polls the client until every accepted job is terminal or has timed out, *)
(* and the result goes to the controller, which validates it               *)
(* (internal/benchmark/queue.go).                                          *)
(*                                                                         *)
(* A status answer is a snapshot taken by the client at some moment        *)
(* between the request and the reading of the answer; the client goes on   *)
(* meanwhile, and a poll of SABnzbd is up to three such requests.  The     *)
(* adapter's claim is an interval that contains the moment the client      *)
(* finished, so this module keeps the true moments beside the recorded.    *)
(***************************************************************************)
EXTENDS Integers, Sequences, FiniteSetsExt

CONSTANTS
    Inputs,      \* the inputs tried: cfg.Client, the submission mode, len(input.Jobs)
    JobTimeout,  \* cfg.JobTimeout
    Slack,       \* ticks the submissions may take
    Floor        \* ObservationUncertaintyFloorNanos, in ticks

ASSUME MonitorAssumption ==
    /\ Inputs \subseteq {"sab", "nzbfast", "nzbget", "weaver"} \X {"queued", "sequential"} \X (Nat \ {0})
    /\ JobTimeout \in Nat /\ Slack \in Nat /\ Floor \in Nat

Zero == 0     \* time.Time{}; the clock starts at 1

VARIABLES
    input,         \* one of Inputs
    now,           \* the monotonic clock
    cancelled,     \* monitorCtx, by cancelMonitor
    sub,           \* the submitting goroutine
    chan,          \* registrations
    mon,           \* the monitoring goroutine
    phase,         \* what the client is doing with each run's job
    ended,         \* when that became terminal, Zero before
    ret            \* what runQueue wrote for the controller

vars == <<input, now, cancelled, sub, chan, mon, phase, ended, ret>>
clientVars == <<phase, ended>>

client == input[1]
mode == input[2]
N == input[3]
Runs == 1..N

NewChannel == [queue |-> <<>>, closed |-> FALSE]
NewMonitor == [pc |-> "select", open |-> TRUE, jobs |-> <<>>,
               requestAt |-> Zero, queueAt |-> Zero, againAt |-> Zero,
               seen |-> <<>>, past |-> {}]

Init ==
    /\ input \in Inputs
    /\ now = 1
    /\ cancelled = FALSE
    /\ sub = [pc |-> "next", run |-> 1, startedAt |-> Zero, job |-> Zero,
              ids |-> {}, jobs |-> <<>>]
    /\ chan = NewChannel
    /\ mon = NewMonitor
    /\ phase = [r \in Runs |-> "absent"]
    /\ ended = [r \in Runs |-> Zero]
    /\ ret = [status |-> "running", jobs |-> <<>>, startedAt |-> Zero, completedAt |-> Zero]

(***************************************************************************)
(* The clock.  It is bounded so that every submission is left JobTimeout   *)
(* ticks to run into its timeout.                                          *)
(***************************************************************************)
Waits == IF mode = "queued" THEN IF sub.pc = "waiting" THEN 1 ELSE 0
         ELSE IF sub.pc = "waiting" THEN sub.run ELSE sub.run - 1
Horizon == 1 + Slack + Waits * JobTimeout

Tick ==
    /\ ret.status = "running" /\ now < Horizon
    /\ now' = now + 1
    /\ UNCHANGED <<input, cancelled, sub, chan, mon, clientVars, ret>>

(***************************************************************************)
(* The client (external).  A job is queued, downloads, and ends; SABnzbd   *)
(* shows post-processing either in the queue ("past") or in history        *)
(* ("post"), or never.  nzbfast answers the same API.  The container is     *)
(* removed when the adapter returns.                                       *)
(***************************************************************************)
Terminal == {"complete", "failed"}

Moves(p) ==
    CASE p = "queued" -> {"active"}
      [] p = "active" -> Terminal \union (IF client = "sab" THEN {"past", "post"} ELSE {})
      [] p = "past"   -> Terminal \union {"post"}
      [] p = "post"   -> Terminal
      [] OTHER        -> {}

ClientMoves(r) ==
    /\ ret.status = "running"
    /\ \E p \in Moves(phase[r]) :
        /\ phase' = [phase EXCEPT ![r] = p]
        /\ ended' = IF p \in Terminal THEN [ended EXCEPT ![r] = now] ELSE ended
        /\ UNCHANGED <<input, now, cancelled, sub, chan, mon, ret>>

\* The submission reaches the client some time before its answer is read.
ClientTakes ==
    /\ sub.pc = "calling" /\ phase[sub.run] = "absent"
    /\ phase' = [phase EXCEPT ![sub.run] = "queued"]
    /\ UNCHANGED <<input, now, cancelled, sub, chan, mon, ended, ret>>

(***************************************************************************)
(* The submitting goroutine.                                               *)
(***************************************************************************)
\* The part of a QueueJobResult that is known when a job is registered.
queuedJob(r, id, startedAt, at) ==
    [run |-> r, id |-> id, submitted |-> startedAt, queuedAt |-> at,
     last |-> Zero, processing |-> Zero, status |-> "pending",
     lower |-> Zero, at |-> Zero, refused |-> FALSE]

refusedSubmissionJob(r, startedAt) ==
    [queuedJob(r, r, startedAt, now) EXCEPT
        !.status = "failed", !.lower = now, !.at = now, !.refused = TRUE]

Fails ==
    /\ ret' = [ret EXCEPT !.status = "error"]
    /\ sub' = [sub EXCEPT !.pc = "returned", !.startedAt = Zero, !.jobs = <<>>]

\* Mutant: the suite's window is opened by the first result and closed by the last.
ReturnsInOrder(jobs) ==
    /\ ret' = [status |-> "ok", jobs |-> jobs,
               startedAt |-> jobs[1].submitted, completedAt |-> jobs[Len(jobs)].at]
    /\ sub' = [sub EXCEPT !.pc = "returned", !.startedAt = Zero, !.jobs = <<>>]

\* runQueue: the suite's window contains every job's, whatever their order.
Returns(jobs) ==
    /\ ret' = [status |-> "ok", jobs |-> jobs,
               startedAt |-> Min({jobs[i].submitted : i \in DOMAIN jobs}),
               completedAt |-> Max({jobs[i].at : i \in DOMAIN jobs})]
    /\ sub' = [sub EXCEPT !.pc = "returned", !.startedAt = Zero, !.jobs = <<>>]

\* A sequential run has a monitor, a channel and a monitor context of its own.
\* One abandoned after a refusal has no job to poll and only returns.
Submit ==
    /\ sub.pc = "next" /\ sub.run <= N
    /\ sub' = [sub EXCEPT !.pc = "calling", !.startedAt = now]
    /\ IF mode = "sequential"
       THEN /\ mon' = NewMonitor /\ chan' = NewChannel
            /\ cancelled' = FALSE
       ELSE UNCHANGED <<mon, chan, cancelled>>
    /\ UNCHANGED <<input, now, clientVars, ret>>

\* The id may be one the client has given before.
Accepted(id) ==
    /\ sub.pc = "calling" /\ phase[sub.run] # "absent"
    /\ sub' = [sub EXCEPT !.pc = "registering", !.ids = @ \union {id}, !.startedAt = Zero,
                          !.job = queuedJob(sub.run, id, sub.startedAt, now)]
    /\ UNCHANGED <<input, now, cancelled, chan, mon, clientVars, ret>>

\* nzbfast answers that it parked the job.
Refused ==
    /\ client = "nzbfast" /\ sub.pc = "calling" /\ phase[sub.run] = "absent"
    /\ sub' = [sub EXCEPT !.pc = "next", !.run = @ + 1,
                          !.jobs = Append(@, refusedSubmissionJob(sub.run, sub.startedAt))]
    /\ cancelled' = (mode = "sequential")
    /\ UNCHANGED <<input, now, chan, mon, clientVars, ret>>

\* The answer is an error or never came; the client may have taken the job.
QueueFails ==
    /\ sub.pc = "calling"
    /\ cancelled' = TRUE
    /\ Fails
    /\ UNCHANGED <<input, now, chan, mon, clientVars>>

\* Mutant: the channel is left unbuffered, so that a send waits for the monitor
\* to be at its select.
CapacityUnbuffered == IF mon.pc = "select" THEN 1 ELSE 0

Capacity == IF mode = "sequential" THEN 1 ELSE N

Register ==
    /\ sub.pc = "registering" /\ Len(chan.queue) < Capacity
    /\ chan' = [queue |-> Append(chan.queue, sub.job), closed |-> mode = "sequential"]
    /\ sub' = [sub EXCEPT !.job = Zero,
                          !.pc = IF mode = "sequential" THEN "waiting" ELSE "next",
                          !.run = IF mode = "sequential" THEN @ ELSE @ + 1]
    /\ UNCHANGED <<input, now, cancelled, mon, clientVars, ret>>

\* close(registrations) after the last run; with nothing accepted the monitor
\* is told to stop and its answer is dropped.
CloseRegistrations ==
    /\ mode = "queued" /\ sub.pc = "next" /\ sub.run > N
    /\ chan' = [chan EXCEPT !.closed = TRUE]
    /\ sub' = [sub EXCEPT !.pc = "waiting"]
    /\ cancelled' = (sub.ids = {})
    /\ UNCHANGED <<input, now, mon, clientVars, ret>>

QueuedReturns ==
    /\ mode = "queued" /\ sub.pc = "waiting" /\ mon.pc \in {"ok", "error"}
    /\ IF sub.ids = {} THEN Returns(sub.jobs)
       ELSE IF mon.pc = "error" THEN Fails
       ELSE Returns(mon.jobs \o sub.jobs)
    /\ UNCHANGED <<input, now, cancelled, chan, mon, clientVars>>

\* The next fixture, or the error of this one's monitor.
FixtureReturns ==
    /\ mode = "sequential" /\ sub.pc = "waiting" /\ mon.pc \in {"ok", "error"}
    /\ IF mon.pc = "error" \/ Len(mon.jobs) # 1
       THEN Fails
       ELSE /\ sub' = [sub EXCEPT !.pc = "next", !.run = @ + 1, !.jobs = @ \o mon.jobs]
            /\ UNCHANGED ret
    /\ mon' = [NewMonitor EXCEPT !.pc = mon.pc]
    /\ UNCHANGED <<input, now, cancelled, chan, clientVars>>

SequentialReturns ==
    /\ mode = "sequential" /\ sub.pc = "next" /\ sub.run > N
    /\ Returns(sub.jobs)
    /\ UNCHANGED <<input, now, cancelled, chan, mon, clientVars>>

(***************************************************************************)
(* The monitoring goroutine: registrations.                                *)
(***************************************************************************)
Complete(job) == job.status # "pending"

\* The loop condition of monitorQueue.
Loop(m) == IF m.open \/ \E i \in DOMAIN m.jobs : ~Complete(m.jobs[i]) THEN "select" ELSE "ok"
Continue(m) == mon' = [m EXCEPT !.pc = Loop(m)]
MonitorFails == mon' = [NewMonitor EXCEPT !.pc = "error"]

\* By cancelMonitor, or because the adapter's own context ended, which may be
\* at any time and makes calls fail as well.
MonitorCancelled ==
    /\ mon.pc = "select"
    /\ MonitorFails
    /\ UNCHANGED <<input, now, cancelled, sub, chan, clientVars, ret>>

\* Mutant: before the first poll a job is taken to be pending at its acceptance.
TrackFromAcceptance(job) == [job EXCEPT !.last = job.queuedAt]

\* trackedQueueJob: the client may finish before its acceptance is read.
Track(job) == [job EXCEPT !.last = job.submitted]

Registered ==
    /\ mon.pc = "select" /\ chan.queue # <<>>
    /\ LET job == Head(chan.queue) IN
       IF \E i \in DOMAIN mon.jobs : mon.jobs[i].id = job.id
       THEN MonitorFails
       ELSE mon' = [mon EXCEPT !.jobs = Append(@, Track(job))]
    /\ chan' = [chan EXCEPT !.queue = Tail(@)]
    /\ UNCHANGED <<input, now, cancelled, sub, clientVars, ret>>

RegistrationsClosed ==
    /\ mon.pc = "select" /\ mon.open /\ chan.closed /\ chan.queue = <<>>
    /\ IF mon.jobs = <<>> THEN MonitorFails ELSE Continue([mon EXCEPT !.open = FALSE])
    /\ UNCHANGED <<input, now, cancelled, sub, chan, clientVars, ret>>

(***************************************************************************)
(* The monitoring goroutine: one observation.                              *)
(***************************************************************************)
Wanted == {mon.jobs[i].id : i \in {i \in DOMAIN mon.jobs : ~Complete(mon.jobs[i])}}

\* jobObservation.
Seen(state, pendingAt) == [state |-> state, pendingAt |-> pendingAt]

\* classifyLiveStatus; an empty status is like no answer.
Live(p) == IF p = "queued" THEN "queued" ELSE "active"

Poll ==
    /\ mon.pc = "select" /\ Wanted # {}
    /\ mon' = [mon EXCEPT !.requestAt = now,
                          !.pc = CASE client \in {"sab", "nzbfast"} -> "history"
                                   [] client = "nzbget"            -> "listgroups"
                                   [] client = "weaver"            -> "jobs"]
    /\ UNCHANGED <<input, now, cancelled, sub, chan, clientVars, ret>>

\* An answer is read only while the request's context lives.
Answered(pc) == mon.pc = pc /\ ~cancelled

\* HTTP timeout, status, decoding, or the context; the whole poll is lost.
ObserveFails ==
    /\ mon.pc \in {"history", "queue", "again", "listgroups", "nzbgetHistory", "jobs"}
    /\ MonitorFails
    /\ UNCHANGED <<input, now, cancelled, sub, chan, clientVars, ret>>

\* observeHistory for the jobs in ids, asked at requestedAt and answered now.
observeHistory(ids, requestedAt) ==
    [id \in {i \in ids : phase[i] \in Terminal \union {"post"}} |->
        IF phase[id] \in Terminal THEN Seen(phase[id], Zero) ELSE Seen("active", requestedAt)]

\* The answers of one request take precedence over those seen before.
Over(new, old) == [id \in DOMAIN new \union DOMAIN old |->
                      IF id \in DOMAIN new THEN new[id] ELSE old[id]]

SabHistory ==
    /\ Answered("history")
    /\ LET seen == observeHistory(Wanted, mon.requestAt) IN
       mon' = [mon EXCEPT !.seen = seen,
                          !.pc = IF DOMAIN seen = Wanted THEN "apply" ELSE "askQueue"]
    /\ UNCHANGED <<input, now, cancelled, sub, chan, clientVars, ret>>

SabAskQueue ==
    /\ mon.pc = "askQueue"
    /\ mon' = [mon EXCEPT !.pc = "queue", !.queueAt = now]
    /\ UNCHANGED <<input, now, cancelled, sub, chan, clientVars, ret>>

\* A job shown past its download is looked for in history again.
SabQueue ==
    /\ Answered("queue")
    /\ LET listed == {id \in Wanted \ DOMAIN mon.seen : phase[id] \in {"queued", "active", "past"}}
           past   == {id \in listed : phase[id] = "past"}
       IN mon' = [mon EXCEPT !.seen = Over([id \in listed |-> Seen(Live(phase[id]), mon.queueAt)], @),
                             !.past = past,
                             !.pc = IF past = {} THEN "apply" ELSE "askAgain"]
    /\ UNCHANGED <<input, now, cancelled, sub, chan, clientVars, ret>>

SabAskAgain ==
    /\ mon.pc = "askAgain"
    /\ mon' = [mon EXCEPT !.pc = "again", !.againAt = now]
    /\ UNCHANGED <<input, now, cancelled, sub, chan, clientVars, ret>>

\* A job found finished on asking again was in the queue when the queue answered.
SabAgain ==
    /\ Answered("again")
    /\ LET found == observeHistory(mon.past, mon.againAt) IN
       mon' = [mon EXCEPT !.pc = "apply",
                          !.seen = Over([id \in DOMAIN found |->
                                            IF found[id].state \in Terminal
                                            THEN Seen(found[id].state, mon.queueAt)
                                            ELSE found[id]], @)]
    /\ UNCHANGED <<input, now, cancelled, sub, chan, clientVars, ret>>

NzbgetGroups ==
    /\ Answered("listgroups")
    /\ LET listed == {id \in Wanted : phase[id] \notin Terminal} IN
       mon' = [mon EXCEPT !.pc = "nzbgetHistory",
                          !.seen = [id \in listed |-> Seen(Live(phase[id]), Zero)]]
    /\ UNCHANGED <<input, now, cancelled, sub, chan, clientVars, ret>>

NzbgetHistory ==
    /\ Answered("nzbgetHistory")
    /\ LET listed == {id \in Wanted : phase[id] \in Terminal} IN
       mon' = [mon EXCEPT !.pc = "apply",
                          !.seen = Over([id \in listed |-> Seen(phase[id], Zero)], @)]
    /\ UNCHANGED <<input, now, cancelled, sub, chan, clientVars, ret>>

WeaverJobs ==
    /\ Answered("jobs")
    /\ mon' = [mon EXCEPT !.pc = "apply",
                          !.seen = [id \in Wanted |->
                                       IF phase[id] \in Terminal THEN Seen(phase[id], Zero)
                                       ELSE Seen(Live(phase[id]), Zero)]]
    /\ UNCHANGED <<input, now, cancelled, sub, chan, clientVars, ret>>

(***************************************************************************)
(* The monitoring goroutine: what an observation means.                    *)
(***************************************************************************)
\* jobObservation.pendingSince and terminalLowerBound.
Later(s, t) == IF s > t THEN s ELSE t

Ended(job, status, lower) ==
    [job EXCEPT !.status = status, !.last = lower, !.lower = lower, !.at = now]

\* The job after its observation, if it has one.
Observed(job) ==
    IF Complete(job) \/ job.id \notin DOMAIN mon.seen THEN job
    ELSE LET o == mon.seen[job.id] IN
         CASE o.state = "complete" -> Ended(job, "succeeded", Later(o.pendingAt, job.last))
           [] o.state = "failed"   -> Ended(job, "failed", Later(o.pendingAt, job.last))
           [] o.state = "queued"   -> [job EXCEPT !.last = Later(o.pendingAt, mon.requestAt)]
           [] o.state = "active"   ->
                [job EXCEPT !.last = Later(o.pendingAt, mon.requestAt),
                            !.processing = IF @ = Zero THEN now ELSE @]

TimedOut(job) ==
    IF Complete(job) \/ now < job.queuedAt + JobTimeout THEN job
    ELSE Ended(job, "timed_out", job.last)

\* Mutant: the timeout is looked at before the answer.
AppliedTimeoutFirst(job) == Observed(TimedOut(job))

Applied(job) == TimedOut(Observed(job))

Apply ==
    /\ mon.pc = "apply"
    /\ Continue([mon EXCEPT !.jobs = [i \in DOMAIN @ |-> Applied(@[i])],
                            !.requestAt = Zero, !.queueAt = Zero, !.againAt = Zero,
                            !.seen = <<>>, !.past = {}])
    /\ UNCHANGED <<input, now, cancelled, sub, chan, clientVars, ret>>

Submitting == \/ Submit \/ (\E id \in {sub.run} \union sub.ids : Accepted(id)) \/ Refused \/ QueueFails
              \/ Register \/ CloseRegistrations
              \/ QueuedReturns \/ FixtureReturns \/ SequentialReturns
Monitoring == \/ MonitorCancelled \/ Registered \/ RegistrationsClosed
              \/ Poll \/ ObserveFails \/ SabHistory \/ SabAskQueue \/ SabQueue \/ SabAskAgain \/ SabAgain
              \/ NzbgetGroups \/ NzbgetHistory \/ WeaverJobs \/ Apply

Next == Submitting \/ Monitoring \/ Tick \/ ClientTakes \/ (\E r \in Runs : ClientMoves(r))

\* Goroutines run, calls return (the HTTP client times out) and time passes;
\* nothing is assumed of the client's progress.
Spec == Init /\ [][Next]_vars
             /\ WF_vars(Submitting) /\ WF_vars(Monitoring) /\ WF_vars(Tick)

(***************************************************************************)
(* The controller's validation.                                            *)
(***************************************************************************)
SubmissionToTerminal(job) ==
    IF job.refused THEN Later(job.at - job.submitted, 1) ELSE job.at - job.submitted
Uncertainty(job) == job.at - job.lower

ObservationUncertaintyAcceptable(u, d) == u >= 0 /\ d > 0 /\ u <= Later(d \div 100, Floor)

\* The sequential rule on the width of the observation.
Precise(job) ==
    /\ SubmissionToTerminal(job) > 0
    /\ job.status = "succeeded" =>
          ObservationUncertaintyAcceptable(Uncertainty(job), SubmissionToTerminal(job))

\* QueueAdapterResult.ValidateFor without the metadata.
JobValid(job, result) ==
    /\ job.queuedAt # Zero /\ job.at # Zero /\ job.submitted # Zero /\ job.lower # Zero
    /\ result.startedAt <= job.queuedAt /\ job.queuedAt <= job.at /\ job.at <= result.completedAt
    /\ job.submitted <= job.queuedAt /\ job.submitted <= job.lower /\ job.lower <= job.at
    /\ Uncertainty(job) <= SubmissionToTerminal(job)
    /\ job.at - job.queuedAt <= SubmissionToTerminal(job)
    /\ job.status \in {"succeeded", "failed", "timed_out"}
    /\ job.processing # Zero => job.queuedAt <= job.processing /\ job.processing <= job.at

ValidateFor(result) ==
    /\ result.startedAt <= result.completedAt
    /\ Len(result.jobs) = N
    /\ {result.jobs[i].run : i \in DOMAIN result.jobs} = Runs
    /\ \A i \in DOMAIN result.jobs :
          /\ JobValid(result.jobs[i], result)
          /\ mode = "sequential" => Precise(result.jobs[i])

(***************************************************************************)
(* Properties.                                                             *)
(***************************************************************************)
Tracked == {mon.jobs[i] : i \in DOMAIN mon.jobs}

\* The interval recorded for a job (terminal_observation_lower_bound to
\* terminal_observed_at) contains the moment the client finished it, and the
\* recorded outcome is the client's, for a job with an id of its own.  What a
\* pending job is credited with never runs ahead of the client.
TerminalBracketed ==
    \A job \in {j \in Tracked : j.id = j.run} :
        /\ ended[job.run] # Zero => job.last <= ended[job.run]
        /\ job.status \in {"succeeded", "failed"} =>
              /\ ended[job.run] \in job.lower..job.at
              /\ phase[job.run] = IF job.status = "failed" THEN "failed" ELSE "complete"

GivenUpHonestly ==
    \A i \in DOMAIN mon.jobs :
        mon.jobs[i].status = "pending" /\ i \in DOMAIN mon'.jobs /\ mon'.jobs[i].status = "timed_out"
        => /\ now - mon.jobs[i].queuedAt >= JobTimeout
           /\ ended[mon.jobs[i].id] # Zero => ended[mon.jobs[i].id] >= mon.requestAt

\* A job is given up on only after JobTimeout since its acceptance, and never
\* when the client had finished it before the observation began.
TimeoutHonest == [][GivenUpHonestly]_vars

\* A result the adapter writes is refused by the controller only for the width
\* of an observation: every run is in it once, whichever were refused, timed
\* out or failed, and the suite's window holds every job's.
ResultAccepted ==
    ret.status = "ok" =>
        \/ ValidateFor(ret)
        \/ mode = "sequential" /\ \E i \in DOMAIN ret.jobs : ~ret.jobs[i].refused /\ ~Precise(ret.jobs[i])

\* The adapter returns and leaves no monitor behind, whatever the client does.
Ends == <>(ret.status # "running" /\ mon.pc \in {"ok", "error"})
=============================================================================
