--------------------------- MODULE ClientLifetime ---------------------------
(***************************************************************************)
(* One adapter process per run, the client it launches, and what is left   *)
(* of both when the run is over.                                           *)
(*                                                                         *)
(* The native lanes (internal/nativeadapter) launch the client as a        *)
(* process group on a fixed API port; the container lanes                  *)
(* (internal/clientadapter) launch a container with a published port and,  *)
(* on Linux, a perf process counting its instructions.  The harness        *)
(* (invokeAdapterWithExtraEnvironment) runs the adapters one after the     *)
(* other and kills one that exceeds the run's timeout, deferred calls and  *)
(* all.  Which of a job's polls sees what is QueueMonitor's subject; here  *)
(* a lane has one job.                                                     *)
(***************************************************************************)
EXTENDS Integers, FiniteSets

CONSTANTS
    MaxRuns,  \* bound: runs the harness executes on this host
    Lanes     \* the lanes a plan may use

NativeLanes == {"native", "native_queue"}
ContainerLanes == {"single", "cli", "queued", "sequential"}

ASSUME LifetimeAssumption ==
    /\ MaxRuns \in Nat \ {0}
    /\ Lanes \subseteq NativeLanes \union ContainerLanes

Runs == 1..MaxRuns
None == 0

VARIABLES
    lane,     \* the lane of every run of the plan
    r,        \* the run the harness is executing
    adapter,  \* its adapter process
    client,   \* per run: the client's processes, its job and its report
    result    \* per run: what the adapter's result file says

vars == <<lane, r, adapter, client, result>>

Native == lane \in NativeLanes
\* The lanes whose adapter bounds the job by JobTimeout.
Bounded == lane \in NativeLanes \union {"queued", "sequential"}

\* leader: the launched process, "away" once it runs on another port than it was
\* given, "dying" once it was sent SIGKILL, "gone" once its container is removed.
Leaders == {"none", "starting", "up", "away", "dying", "dead", "gone"}
Alive == {"starting", "up", "away", "dying"}

\* perf: "asked" once it was interrupted, "killed" once it was sent SIGKILL.  report: what a
\* reader of the file finds.  excuse: why the client may outlive its adapter (the adapter was
\* killed, its docker command failed, or the group could not be killed), and whether the
\* client was still starting then; no action reads it.

NewClient == [leader |-> "none", helper |-> FALSE, job |-> "none",
              report |-> "none", acked |-> FALSE, perf |-> "off", excuse |-> "none"]
NewAdapter == [pc |-> "prepare", err |-> FALSE, status |-> "none", talks |-> None,
               collected |-> FALSE, logs |-> FALSE]

Init ==
    /\ lane \in Lanes
    /\ r = 1
    /\ adapter = NewAdapter
    /\ client = [q \in Runs |-> NewClient]
    /\ result = [q \in Runs |-> "none"]

At(pc) == adapter.pc = pc
Goto(pc) == adapter' = [adapter EXCEPT !.pc = pc]
Own == client[r]
Peer == client[adapter.talks]
Becomes(q, c) == client' = [client EXCEPT ![q] = c]
OwnBecomes(c) == Becomes(r, c)

\* The clients listening on the API port the run would use: every native run has
\* the same one, a container's is its own.
Listening == {q \in Runs : client[q].leader = "up" /\ (Native \/ q = r)}

\* return err, once there is something to undo.
Unwound(a) == [a EXCEPT !.err = TRUE,
                        !.pc = IF Native THEN IF a.pc = "measure" THEN "ensure" ELSE "stop"
                               ELSE "unmetered"]
Fails == adapter' = Unwound(adapter)
Returns(a) == adapter' = [a EXCEPT !.pc = "returned"]

(***************************************************************************)
(* Launching the client.                                                   *)
(***************************************************************************)
\* Validation, rendering, writeProductFiles and the software identities.
Prepare(ok) ==
    /\ At("prepare")
    /\ IF ok THEN Goto(IF Native THEN "port" ELSE "launch")
       ELSE Returns([adapter EXCEPT !.err = TRUE])
    /\ UNCHANGED <<lane, r, client, result>>

\* Mutant: whatever listens on the port is taken for a leftover of no account.
PortFreeAssumed == TRUE

PortFree == Listening = {}

checkAPIPortFree ==
    /\ At("port")
    /\ IF PortFree THEN Goto("launch") ELSE Returns([adapter EXCEPT !.err = TRUE])
    /\ UNCHANGED <<lane, r, client, result>>

\* command.Start may fail; on Windows so may resuming the suspended process,
\* which is then killed and waited for.
startProcess(ok) ==
    /\ At("launch") /\ Native
    /\ IF ok THEN /\ OwnBecomes([Own EXCEPT !.leader = "starting"])
                  /\ Goto("ready")
       ELSE /\ \E left \in {"none", "dead"} : OwnBecomes([Own EXCEPT !.leader = left])
            /\ Returns([adapter EXCEPT !.err = TRUE])
    /\ UNCHANGED <<lane, r, result>>

\* docker run may fail after the daemon created the container; its removal is
\* deferred only on success.
startContainer(ok) ==
    /\ At("launch") /\ ~Native
    /\ IF ok THEN /\ OwnBecomes([Own EXCEPT !.leader = "starting"])
                  /\ Goto("counters")
       ELSE /\ \E left \in {"none", "starting"} :
                   OwnBecomes([Own EXCEPT !.leader = left, !.excuse = "docker run failed"])
            /\ Returns([adapter EXCEPT !.err = TRUE])
    /\ UNCHANGED <<lane, r, result>>

\* The samplers read files; perf is a process on the host, where there is one.
StartPerf == \E perf \in {"off", "on"} : OwnBecomes([Own EXCEPT !.perf = perf])

startCounters ==
    /\ At("counters")
    /\ Goto(IF lane = "cli" THEN "await" ELSE "endpoint")
    /\ IF lane = "sequential" THEN UNCHANGED client ELSE StartPerf
    /\ UNCHANGED <<lane, r, result>>

resolveEndpoint(ok) ==
    /\ At("endpoint")
    /\ IF ok THEN Goto("ready") ELSE Fails
    /\ UNCHANGED <<lane, r, client, result>>

(***************************************************************************)
(* Talking to the client.                                                  *)
(***************************************************************************)
\* waitUntilReady, waitUntilContainerReady: whoever answers on the port.
waitUntilReady ==
    /\ At("ready")
    /\ \E q \in Listening :
          adapter' = [adapter EXCEPT !.talks = q,
                                     !.pc = IF lane = "sequential" THEN "job_counters" ELSE "submit"]
    /\ UNCHANGED <<lane, r, client, result>>

\* The startup timeout, the client's exit, or another version than declared.
NotReady ==
    /\ At("ready")
    /\ Fails
    /\ UNCHANGED <<lane, r, client, result>>

startJobCounters ==
    /\ At("job_counters")
    /\ StartPerf
    /\ Goto("submit")
    /\ UNCHANGED <<lane, r, result>>

queue ==
    /\ At("submit") /\ Peer.leader = "up"
    /\ Becomes(adapter.talks, [Peer EXCEPT !.job = "running"])
    /\ Goto("await")
    /\ UNCHANGED <<lane, r, result>>

\* A refusal is an outcome of the queue lanes and an error of the others; a
\* request that fails may have been carried out.
queueFails(refused) ==
    /\ At("submit")
    /\ IF refused
       THEN /\ Peer.leader = "up"
            /\ UNCHANGED client
       ELSE \E job \in {Peer.job} \union (IF Peer.leader = "up" THEN {"running"} ELSE {}) :
                Becomes(adapter.talks, [Peer EXCEPT !.job = job])
    /\ IF refused /\ lane \in {"queued", "sequential"}
       THEN adapter' = [adapter EXCEPT !.status = "refused", !.pc = "finish"]
       ELSE Fails
    /\ UNCHANGED <<lane, r, result>>

Observed(status) == adapter' = [adapter EXCEPT !.status = status,
                                               !.pc = IF Native THEN "stop" ELSE "finish"]

\* WaitCompleteWithObservation, waitComplete, monitorQueue: a poll answers that
\* the job is over.  The single container lane has no failed outcome.
awaitTerminal ==
    /\ At("await") /\ lane # "cli"
    /\ Peer.leader = "up" /\ Peer.job \in {"succeeded", "failed"}
    /\ IF lane = "single" /\ Peer.job = "failed" THEN Fails ELSE Observed(Peer.job)
    /\ UNCHANGED <<lane, r, client, result>>

awaitTimeout ==
    /\ At("await") /\ Bounded
    /\ Observed("timed_out")
    /\ UNCHANGED <<lane, r, client, result>>

\* One request of the wait fails.
awaitFails ==
    /\ At("await")
    /\ Fails
    /\ UNCHANGED <<lane, r, client, result>>

\* Mutant: a report that decodes is a report of success.
validAnyStatus == Own.report \in {"complete", "not complete"}

\* json.Unmarshal and validateWeaverCLIReport.
validReport == Own.report = "complete"

\* waitForWeaverCLIReport reads the report; a torn or invalid one is read again
\* as long as the container runs.
readReport ==
    /\ At("await") /\ lane = "cli" /\ validReport
    /\ Observed("succeeded")
    /\ UNCHANGED <<lane, r, client, result>>

\* The report was not valid when it was read; the container has exited since.
reportMissing ==
    /\ At("await") /\ lane = "cli"
    /\ ~validReport /\ Own.leader = "dead"
    /\ Fails
    /\ UNCHANGED <<lane, r, client, result>>

(***************************************************************************)
(* The container lanes: counters, acknowledgement, result.                 *)
(***************************************************************************)
\* instructionRecorder.finish begins: disable, close the pipes, interrupt.  The
\* wait for perf ends in PerfStopped or, after five seconds, in perfKilled.
finishMetrics ==
    /\ At("finish") \/ (At("unmetered") /\ ~adapter.collected)
    /\ adapter' = [adapter EXCEPT !.pc = IF At("finish") THEN "perf" ELSE "perf_deferred"]
    /\ OwnBecomes([Own EXCEPT !.perf = IF @ = "on" THEN "asked" ELSE @])
    /\ UNCHANGED <<lane, r, result>>

\* The deferred function finds the metrics collected.
metricsCollected ==
    /\ At("unmetered") /\ adapter.collected
    /\ Goto("logs")
    /\ UNCHANGED <<lane, r, client, result>>

\* Mutant: finish waits for perf as long as it takes.
perfNotKilled == FALSE /\ UNCHANGED vars

perfKilled ==
    /\ adapter.pc \in {"perf", "perf_deferred"} /\ Own.perf = "asked"
    /\ OwnBecomes([Own EXCEPT !.perf = "killed"])
    /\ UNCHANGED <<lane, r, adapter, result>>

perfStopped ==
    /\ adapter.pc \in {"perf", "perf_deferred"} /\ Own.perf = "off"
    /\ Goto(IF At("perf") THEN "artifact" ELSE "logs")
    /\ UNCHANGED <<lane, r, client, result>>

\* perf-instructions.txt, then weaver-cli-report.ack.
writeArtifacts(perfOk, ackOk) ==
    /\ At("artifact")
    /\ LET a == [adapter EXCEPT !.collected = perfOk]
       IN  IF perfOk /\ ackOk
           THEN /\ OwnBecomes([Own EXCEPT !.acked = lane = "cli"])
                /\ adapter' = [a EXCEPT !.pc = "record"]
           ELSE /\ adapter' = Unwound(a)
                /\ UNCHANGED client
    /\ UNCHANGED <<lane, r, result>>

\* cleanup: docker logs, then docker rm --force, on one fifteen-second budget.
cleanupLogs(inTime) ==
    /\ At("logs")
    /\ adapter' = [adapter EXCEPT !.pc = "remove", !.logs = inTime]
    /\ UNCHANGED <<lane, r, client, result>>

cleanupRemove(ok) ==
    /\ At("remove")
    /\ ok => adapter.logs
    /\ IF ok THEN OwnBecomes([Own EXCEPT !.leader = "gone", !.helper = FALSE])
       ELSE \E left \in {Own.leader, "gone"} :
                OwnBecomes([Own EXCEPT !.leader = left, !.helper = @ /\ left # "gone",
                                       !.excuse = "docker rm failed"])
    /\ Returns(adapter)
    /\ UNCHANGED <<lane, r, result>>

(***************************************************************************)
(* The native lanes: stop, measure, result.                                *)
(***************************************************************************)
Exited == Own.leader \in {"none", "dead"}

\* SIGKILL to the group, or taskkill, reaches the leader and the helpers it has.
KilledGroup(c) == [c EXCEPT !.leader = "dying", !.helper = FALSE]

\* stop: an exited leader ends it; otherwise SIGINT, which leader and helpers may
\* each heed or not, and up to 15 s.
stop ==
    /\ At("stop")
    /\ Goto(IF ~Exited THEN "stopping" ELSE IF adapter.err THEN "ensure" ELSE "measure")
    /\ UNCHANGED <<lane, r, client, result>>

\* The signal cannot be sent and the leader is still there.
stopFails ==
    /\ At("stop") \/ At("stopping")
    /\ ~Exited
    /\ adapter' = [adapter EXCEPT !.err = TRUE, !.pc = "ensure"]
    /\ UNCHANGED <<lane, r, client, result>>

stopExited ==
    /\ At("stopping") /\ Exited
    /\ Goto(IF adapter.err THEN "ensure" ELSE "measure")
    /\ UNCHANGED <<lane, r, client, result>>

\* The fifteen seconds are over: the group is killed, and the wait that follows
\* has no time left.
stopKills ==
    /\ At("stopping") /\ ~Exited
    /\ OwnBecomes(KilledGroup(Own))
    /\ Goto(IF adapter.err THEN "ensure" ELSE "measure")
    /\ UNCHANGED <<lane, r, result>>

\* clientReportedTerminal narrows the observation or leaves it; the counters are
\* read; ValidateFor may refuse the result.
measure(ok) ==
    /\ At("measure")
    /\ IF ok THEN Goto("ensure") ELSE Fails
    /\ UNCHANGED <<lane, r, client, result>>

\* Mutant: runSingle leaves the process to stop() alone.
ensureNothing(killed) ==
    /\ At("ensure")
    /\ Goto(IF adapter.err THEN "returned" ELSE "record")
    /\ UNCHANGED <<lane, r, client, result>>

\* ensureStopped: deferred by runSingle.  It ignores that the group could not be killed,
\* say because taskkill fails or hangs as it did when stop asked.
ensureStopped(killed) ==
    /\ At("ensure")
    /\ IF Exited THEN UNCHANGED client
       ELSE OwnBecomes(IF killed THEN KilledGroup(Own)
                       ELSE [Own EXCEPT !.excuse = IF Own.leader = "starting"
                                                   THEN "survived while starting" ELSE "survived"])
    /\ Goto(IF adapter.err THEN "returned" ELSE "record")
    /\ UNCHANGED <<lane, r, result>>

\* The result file, when the lane gets as far as writing it and the write succeeds.
writeResult(recorded) ==
    /\ At("record")
    /\ LET a == [adapter EXCEPT !.err = ~recorded]
       IN  adapter' = [a EXCEPT !.pc = IF Native THEN "returned" ELSE "unmetered"]
    /\ result' = IF recorded THEN [result EXCEPT ![r] = adapter.status] ELSE result
    /\ UNCHANGED <<lane, r, client>>

\* AdapterResult has no terminal status: Run and runContainer record a success or
\* nothing (the wait of a container has returned no other), the queues any outcome.
Run(ok) == lane = "native" /\ writeResult(ok /\ adapter.status = "succeeded")
runSequentialQueue(ok) == lane = "native_queue" /\ writeResult(ok)
runContainer(ok) == lane \in {"single", "cli"} /\ writeResult(ok)
runQueue(ok) == lane \in {"queued", "sequential"} /\ writeResult(ok)

Record(ok) == Run(ok) \/ runSequentialQueue(ok) \/ runContainer(ok) \/ runQueue(ok)

(***************************************************************************)
(* The harness.                                                            *)
(***************************************************************************)
\* The run's timeout or the operator: SIGKILL, no deferred call runs.
Kill ==
    /\ adapter.pc \notin {"returned", "killed"}
    /\ Goto("killed")
    /\ OwnBecomes([Own EXCEPT !.excuse = IF Own.leader = "starting" THEN "killed while starting"
                                         ELSE "killed"])
    /\ UNCHANGED <<lane, r, result>>

NextRun ==
    /\ adapter.pc \in {"returned", "killed"} /\ r < MaxRuns
    /\ r' = r + 1
    /\ adapter' = NewAdapter
    /\ UNCHANGED <<lane, client, result>>

Adapter ==
    \/ \E ok \in BOOLEAN :
          \/ Prepare(ok) \/ startProcess(ok) \/ startContainer(ok) \/ resolveEndpoint(ok)
          \/ queueFails(ok) \/ cleanupLogs(ok) \/ cleanupRemove(ok) \/ measure(ok)
          \/ ensureStopped(ok) \/ Record(ok)
          \/ \E ackOk \in BOOLEAN : writeArtifacts(ok, ackOk)
    \/ checkAPIPortFree \/ startCounters \/ waitUntilReady \/ NotReady \/ startJobCounters
    \/ queue \/ awaitTerminal \/ awaitTimeout \/ readReport \/ reportMissing
    \/ finishMetrics \/ metricsCollected \/ perfKilled \/ perfStopped
    \/ stop \/ stopFails \/ stopExited \/ stopKills

(***************************************************************************)
(* The clients and perf, outside the repository.                           *)
(***************************************************************************)
\* A client finds the port taken and moves on, or takes it.
Listen(q) ==
    /\ client[q].leader = "starting"
    /\ LET taken == Native /\ \E p \in Runs : client[p].leader = "up"
       IN  Becomes(q, [client[q] EXCEPT !.leader = IF taken THEN "away" ELSE "up"])
    /\ UNCHANGED <<lane, r, adapter, result>>

\* A crash, an exit on SIGINT, the end of SIGKILL; a native helper survives it
\* unless it ends by itself.
Exit(q) ==
    /\ client[q].leader \in Alive
    /\ Becomes(q, [client[q] EXCEPT !.leader = "dead", !.helper = @ /\ Native])
    /\ UNCHANGED <<lane, r, adapter, result>>

\* The unpacker of a job starts, ends by itself, or is interrupted.
Helper(q) ==
    /\ IF client[q].helper THEN TRUE
       ELSE client[q].leader \in {"up", "away"} /\ client[q].job = "running"
    /\ Becomes(q, [client[q] EXCEPT !.helper = ~@])
    /\ UNCHANGED <<lane, r, adapter, result>>

JobEnds(q) ==
    /\ client[q].leader \in {"up", "away"} /\ client[q].job = "running"
    /\ \E outcome \in {"succeeded", "failed"} : Becomes(q, [client[q] EXCEPT !.job = outcome])
    /\ UNCHANGED <<lane, r, adapter, result>>

\* weaver download: the job, then the report byte by byte, then the wait for the
\* acknowledgement.
Cli(q) ==
    /\ lane = "cli" /\ client[q].leader = "up"
    /\ LET c == client[q]
       IN  \/ c.job = "none" /\ Becomes(q, [c EXCEPT !.job = "running"])
           \/ /\ c.job \in {"succeeded", "failed"} /\ c.report = "none"
              /\ Becomes(q, [c EXCEPT !.report = "torn"])
           \/ /\ c.report = "torn"
              /\ Becomes(q, [c EXCEPT !.report = IF c.job = "succeeded" THEN "complete"
                                                 ELSE "not complete"])
           \/ c.acked /\ Becomes(q, [c EXCEPT !.leader = "dead"])
    /\ UNCHANGED <<lane, r, adapter, result>>

\* perf exits when interrupted or killed, or by itself.
PerfExits(q) ==
    /\ client[q].perf # "off"
    /\ Becomes(q, [client[q] EXCEPT !.perf = "off"])
    /\ UNCHANGED <<lane, r, adapter, result>>

Client(q) == Listen(q) \/ Exit(q) \/ Helper(q) \/ JobEnds(q) \/ Cli(q) \/ PerfExits(q)

Done == adapter.pc \in {"returned", "killed"} /\ r = MaxRuns /\ UNCHANGED vars

Next == Adapter \/ awaitFails \/ Kill \/ NextRun \/ Done \/ \E q \in Runs : Client(q)

\* The adapter's steps happen: its timers fire and the commands it runs return.
\* A killed perf dies.  Nothing is assumed of the clients, of the harness, or of
\* a request of the wait ever failing.
Fairness ==
    /\ WF_vars(Adapter)
    /\ \A q \in Runs : WF_vars(client[q].perf = "killed" /\ PerfExits(q))

Spec == Init /\ [][Next]_vars /\ Fairness

-----------------------------------------------------------------------------
\* An adapter that returned left nothing of its run running: no perf, no container except
\* where a docker command failed, no native client except one that SIGKILL has not finished
\* yet or that could not be killed (ensureStopped ignores the error, nativeadapter/run.go:484),
\* and no helper except beside such a client or behind a leader that exited on its own (stop
\* and ensureStopped then return early, run.go:454-488).
NothingLeftBehind ==
    \A q \in Runs : (q < r \/ At("returned")) /\ client[q].excuse \notin {"killed", "killed while starting"} =>
        /\ client[q].perf = "off"
        /\ client[q].leader \in Alive \ {"dying"} => client[q].excuse # "none"
        /\ client[q].helper => client[q].leader = "dead" \/ client[q].excuse # "none"

\* A client that outlived its adapter before it had taken its port.
LateStarter(q) == client[q].excuse \in {"killed while starting", "survived while starting"}

\* A run talks to the client it started.  The port check lets a stranger through only if
\* an earlier client was left starting, by a killed adapter or one that could not kill it,
\* and took the port later.
OwnClient == adapter.talks \notin {None, r} => LateStarter(adapter.talks)

\* A recorded outcome is the client's: a success only if the job succeeded (and, for
\* the command line client, only if its report was complete), a failure only if it
\* failed; and an adapter that ends without an error wrote a result.
RecordedOutcome ==
    At("returned") =>
        /\ result[r] \in {"succeeded", "failed"} =>
              IF lane = "cli" THEN Own.job = result[r] /\ Own.report = "complete"
              ELSE Peer.job = result[r]
        /\ adapter.err <=> result[r] = "none"

\* A lane that bounds its job returns without the harness's help, whatever the
\* client does; the others wait for the client as long as it takes.
RunEnds == Bounded /\ At("prepare") ~> adapter.pc \in {"returned", "killed"}
=============================================================================
