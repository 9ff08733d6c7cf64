------------------------------- MODULE Chain -------------------------------
(***************************************************************************)
(* nntpbench chain: a session that locks the host, checks it, puts the     *)
(* server side on each phase's link, measures the phases out of process,   *)
(* keeps a record, restores the link, summarises and cleans up             *)
(* (cmd/nntpbench/chain.go and internal/rawstack/stack.go).                *)
(*                                                                         *)
(* Every external command may fail, some after taking effect; a phase may  *)
(* be killed and leave its lease and its client behind; the session itself *)
(* may be killed anywhere.  Link conditions are abstract values.           *)
(***************************************************************************)
EXTENDS Integers, Sequences, SequencesExt, FiniteSets

CONSTANTS
    Sessions,  \* chain invocations on this host
    Dirs,      \* log directories
    LogDir,    \* config.LogDir of each session
    Stacks,    \* kinds of stack: "docker", "raw", "external"
    Phases,    \* the shaperKey of each phase of each session, in order
    Restore,   \* the key of restore_server_link
    NoLink,    \* no key: nothing applied, no shaper running
    Nobody     \* no session

Links == (UNION {ToSet(Phases[s]) : s \in Sessions}) \union {Restore}

ASSUME ChainAssumption ==
    /\ LogDir \in [Sessions -> Dirs]
    /\ Stacks \subseteq {"docker", "raw", "external"}
    /\ Phases \in [Sessions -> Seq(Links) \ {<<>>}]
    /\ \A s \in Sessions : NoLink \notin ToSet(Phases[s])  \* Restore may be NoLink: not declared
    /\ Nobody \notin Sessions

VARIABLES
    stack,    \* config.Stack, the same for every session of the host
    host,     \* what the sessions share: shaper link, raw server, lease, client
    lock,     \* who created the lock file of each log directory
    session,  \* the chain processes
    record    \* the result file of each session

vars == <<stack, host, lock, session, record>>

Down == [link |-> NoLink, server |-> FALSE, lease |-> Nobody, connected |-> FALSE]

NewSession(s, dryRun, skip) ==
    [pc |-> "start", phases |-> Phases[s], next |-> 1, applied |-> NoLink, started |-> FALSE, verdicts |-> <<>>,
     at |-> "phase", outcome |-> "pending", dryRun |-> dryRun, skipSummaries |-> skip,
     warned |-> {},
     launched |-> FALSE,  \* history: it launched a raw server
     forgot |-> {}]       \* history: what it started, could not stop, and says nothing of

NoRecord == [verdicts |-> <<>>, completed |-> FALSE, torn |-> FALSE]

Init ==
    /\ stack \in Stacks
    \* A raw stack is not running yet; a Compose one is, on a link we do not know.
    /\ IF stack = "docker"
       THEN host \in {[Down EXCEPT !.link = k] : k \in Links \ {NoLink}}
       ELSE host = Down
    /\ lock = [d \in Dirs |-> Nobody]
    /\ \E dryRun, skip \in BOOLEAN : session = [s \in Sessions |-> NewSession(s, dryRun, skip)]
    /\ record = [s \in Sessions |-> NoRecord]

At(s, pc) == session[s].pc = pc
Become(s, c) == session' = [session EXCEPT ![s] = c]
Goto(s, pc) == Become(s, [session[s] EXCEPT !.pc = pc])

\* return err: the deferred stop and unlock are what is left to do.
Return(s, outcome) ==
    Become(s, [session[s] EXCEPT !.pc = "stopping", !.outcome = outcome])

(***************************************************************************)
(* Before measuring.                                                       *)
(***************************************************************************)
acquireChainLock(s) ==
    /\ At(s, "start")
    /\ lock[LogDir[s]] = Nobody
    /\ lock' = [lock EXCEPT ![LogDir[s]] = s]
    /\ Goto(s, "checking")
    /\ UNCHANGED <<stack, host, record>>

LockRefused(s) ==
    /\ At(s, "start")
    /\ lock[LogDir[s]] # Nobody
    /\ Become(s, [session[s] EXCEPT !.pc = "exited", !.outcome = "error"])
    /\ UNCHANGED <<stack, host, lock, record>>

\* checkChainRequirements, newChainStack, preflight, buildChainPlans,
\* checkChainPhaseFixtures or checkChainArtifactRoots refuses.
ChecksFail(s) ==
    /\ At(s, "checking")
    /\ Return(s, "error")
    /\ UNCHANGED <<stack, host, lock, record>>

\* A raw stack's preflight wants its ports free, the server's and the shaper's.
ChecksPass(s) ==
    /\ At(s, "checking")
    /\ stack = "raw" => ~host.server /\ host.link = NoLink
    /\ IF session[s].dryRun THEN Return(s, "ok") ELSE Goto(s, "applying")
    /\ UNCHANGED <<stack, host, lock, record>>

(***************************************************************************)
(* stack.apply.  A shaper on a new link is a new process: lease and        *)
(* connections are gone.                                                   *)
(***************************************************************************)
OnLink(key) == [host EXCEPT !.link = key, !.lease = Nobody, !.connected = FALSE]

\* compose up recreates the container only for a changed environment; the link file,
\* compose or the CA copy may fail: before the old container is gone, between the two, or
\* after the link changed.
applyChainShaper(key) ==
    LET reshaped == IF host.link = key THEN host ELSE OnLink(key)
        removed == IF host.link = key THEN host ELSE OnLink(NoLink)
    IN  {[ok |-> TRUE, host |-> reshaped, forgot |-> {}]} \union
        {[ok |-> FALSE, host |-> h, forgot |-> {}] : h \in {host, removed, reshaped}}

\* The running shaper is stopped, then a new one is started.  One that does not become
\* healthy is stopped again, and a failure of that is discarded: then it keeps its ports,
\* so nothing can be started after it.  A kill half way leaves what the failures leave.
Reshape(s, key) ==
    {[ok |-> FALSE, host |-> host, forgot |-> {}]} \union
    IF "shaper" \in session[s].forgot THEN {}
    ELSE {[ok |-> TRUE, host |-> OnLink(key), forgot |-> {}],
          [ok |-> FALSE, host |-> OnLink(NoLink), forgot |-> {}],
          [ok |-> FALSE, host |-> OnLink(key), forgot |-> {"shaper"}]}

\* Of a raw stack, once it is started.
apply(s, key) ==
    CASE stack = "docker"   -> applyChainShaper(key)
      [] stack = "raw"      -> Reshape(s, key)
      [] stack = "external" -> {[ok |-> TRUE, host |-> host, forgot |-> {}]}

(***************************************************************************)
(* runChainPhases.                                                         *)
(***************************************************************************)
Key(s) == session[s].phases[session[s].next]

\* Mutant: once a link is applied it is taken to suit every later phase.
NeedsLinkOnce(s) == session[s].applied = NoLink

NeedsLink(s) == Key(s) # session[s].applied

KeepLink(s) ==
    /\ At(s, "applying") /\ ~NeedsLink(s)
    /\ Goto(s, "cleaning")
    /\ UNCHANGED <<stack, host, lock, record>>

\* Mutant: a failed transition returns without the deferred restore.
LeavesUnrestored(c) ==
    IF c.outcome = "error" THEN "stopping"
    ELSE IF c.applied # NoLink /\ Restore # NoLink THEN "restoring" ELSE "summarizing"

\* Where runChainPhases goes when its loop is left.
Leaves(c) ==
    IF c.applied # NoLink /\ Restore # NoLink THEN "restoring"
    ELSE IF c.outcome = "error" THEN "stopping" ELSE "summarizing"

\* stack.apply returned: the phase can be measured, or the loop is left.
Applied(s) ==
    Become(s, [session[s] EXCEPT !.applied = Key(s), !.started = stack = "raw", !.pc = "cleaning"])

NotApplied(s, left) ==
    LET c == [session[s] EXCEPT !.outcome = "error", !.forgot = @ \union left]
    IN  Become(s, [c EXCEPT !.pc = Leaves(c)])

NeedsStart(s) == stack = "raw" /\ ~session[s].started

ApplyPhase(s) ==
    /\ At(s, "applying") /\ NeedsLink(s) /\ ~NeedsStart(s)
    /\ \E r \in apply(s, Key(s)) :
          /\ host' = r.host
          /\ IF r.ok THEN Applied(s) ELSE NotApplied(s, r.forgot)
    /\ UNCHANGED <<stack, lock, record>>

\* Stack.Start: the server is launched, unless that fails or another one has its ports ...
StartServer(s) ==
    /\ At(s, "applying") /\ NeedsLink(s) /\ NeedsStart(s)
    /\ \/ ~host.server /\ host' = [host EXCEPT !.server = TRUE]
          /\ Become(s, [session[s] EXCEPT !.pc = "launching", !.launched = TRUE])
       \/ UNCHANGED host /\ NotApplied(s, {})
    /\ UNCHANGED <<stack, lock, record>>

\* ... and becomes healthy, and the shaper after it ...
StartShaper(s) ==
    /\ At(s, "launching") /\ host.link = NoLink
    /\ host' = OnLink(Key(s))
    /\ Applied(s)
    /\ UNCHANGED <<stack, lock, record>>

\* Mutant: the server started for a shaper that failed keeps running.
StartFailsAlone(s) ==
    /\ At(s, "launching")
    /\ NotApplied(s, {})
    /\ UNCHANGED <<stack, host, lock, record>>

\* ... or one of them does not, and what is up is stopped.  Failures to stop are
\* discarded, the stack forgets the processes, and stop returns early for a stack that
\* was not started.
StartFails(s) ==
    /\ At(s, "launching")
    /\ \E left \in SUBSET {"server", "shaper"} :
          /\ host' = [(IF "shaper" \in left /\ host.link = NoLink THEN OnLink(Key(s)) ELSE host)
                          EXCEPT !.server = "server" \in left]
          /\ NotApplied(s, left)
    /\ UNCHANGED <<stack, lock, record>>

\* removeStrayRunContainers and releaseShaperLease: one attempt, refused while
\* the stray client is still connected, every failure ignored.
CleanUp(s) ==
    /\ At(s, "cleaning")
    /\ \/ ~host.connected /\ host' = [host EXCEPT !.lease = Nobody]
       \/ UNCHANGED host
    /\ Goto(s, "starting")
    /\ UNCHANGED <<stack, lock, record>>

Verdict(s, v) ==
    Become(s, [session[s] EXCEPT !.pc = "recording", !.at = "phase",
                                 !.verdicts = Append(@, v)])

\* The phase process gets its lease ...
PhaseStarts(s) ==
    /\ At(s, "starting")
    /\ IF stack = "external" THEN UNCHANGED host
       ELSE host.lease = Nobody /\ ~host.connected /\ host' = [host EXCEPT !.lease = s]
    /\ Goto(s, "measuring")
    /\ UNCHANGED <<stack, lock, record>>

\* ... or not, or fails before that.
PhaseRefused(s) ==
    /\ At(s, "starting")
    /\ Verdict(s, "harness-failure")
    /\ UNCHANGED <<stack, host, lock, record>>

\* The process ends in order, its lease released.  "measured" stands for the clean
\* and the client-did-not-finish verdict: only a harness failure is told apart.
PhaseEnds(s) ==
    /\ At(s, "measuring")
    /\ ~host.connected
    /\ host' = [host EXCEPT !.lease = IF @ = s THEN Nobody ELSE @]
    /\ \E v \in {"measured", "harness-failure"} : Verdict(s, v)
    /\ UNCHANGED <<stack, lock, record>>

\* The process is killed, or ends without getting rid of its lease.
PhaseDies(s) ==
    /\ At(s, "measuring")
    /\ Verdict(s, "harness-failure")
    /\ UNCHANGED <<stack, host, lock, record>>

\* The measured client, or a stray one.
ClientConnects(s) ==
    /\ session[s].pc \in {"measuring", "orphaned"} /\ host.lease = s
    /\ host' = [host EXCEPT !.connected = TRUE]
    /\ UNCHANGED <<stack, lock, session, record>>

ClientDisconnects ==
    /\ host.connected
    /\ host' = [host EXCEPT !.connected = FALSE]
    /\ UNCHANGED <<stack, lock, session, record>>

(***************************************************************************)
(* writeChainResult: os.WriteFile truncates, then writes.                  *)
(***************************************************************************)
\* Mutant: the last write may fail like the others.
AfterFailedWriteIgnored(c) ==
    CASE c.at = "phase" /\ c.next < Len(c.phases) -> [c EXCEPT !.pc = "applying", !.next = @ + 1]
      [] c.at = "phase" /\ c.next = Len(c.phases) -> [c EXCEPT !.pc = Leaves(c)]
      [] c.at = "summaries" -> [c EXCEPT !.pc = "recording", !.at = "final"]
      [] c.at = "final" -> [c EXCEPT !.pc = "stopping", !.outcome = "ok"]

\* chainHarnessFailure.
HarnessFailed(c) == "harness-failure" \in ToSet(c.verdicts)

AfterWrite(c) ==
    CASE c.at = "phase" /\ c.next < Len(c.phases) -> [c EXCEPT !.pc = "applying", !.next = @ + 1]
      [] c.at = "phase" /\ c.next = Len(c.phases) -> [c EXCEPT !.pc = Leaves(c)]
      [] c.at = "summaries" -> [c EXCEPT !.pc = "recording", !.at = "final"]
      [] c.at = "final" -> [c EXCEPT !.pc = "stopping",
                                     !.outcome = IF HarnessFailed(c) THEN "error" ELSE "ok"]

\* A failure is a warning, except for the last write.
AfterFailedWrite(c) ==
    IF c.at = "final" THEN [c EXCEPT !.pc = "stopping", !.outcome = "error"]
    ELSE AfterWrite(c)

TruncateRecord(s) ==
    /\ At(s, "recording")
    /\ record' = [record EXCEPT ![s].torn = TRUE]
    /\ Goto(s, "writing")
    /\ UNCHANGED <<stack, host, lock>>

WriteRecord(s) ==
    /\ At(s, "writing")
    /\ record' = [record EXCEPT ![s] = [verdicts |-> session[s].verdicts, torn |-> FALSE,
                                        completed |-> session[s].at = "final"]]
    /\ Become(s, AfterWrite(session[s]))
    /\ UNCHANGED <<stack, host, lock>>

WriteRecordFails(s) ==
    /\ session[s].pc \in {"recording", "writing"}
    /\ Become(s, AfterFailedWrite(session[s]))
    /\ UNCHANGED <<stack, host, lock, record>>

(***************************************************************************)
(* After measuring.                                                        *)
(***************************************************************************)
RestoreLink(s) ==
    /\ At(s, "restoring")
    /\ \E r \in apply(s, Restore) :
          /\ host' = r.host
          /\ Become(s, [session[s] EXCEPT
                 !.warned = IF r.ok THEN @ ELSE @ \union {"restore"},
                 !.forgot = @ \union r.forgot,
                 !.pc = IF session[s].outcome = "error" THEN "stopping" ELSE "summarizing"])
    /\ UNCHANGED <<stack, lock, record>>

\* A summary that fails is logged and survived.
Summarize(s) ==
    /\ At(s, "summarizing")
    /\ Become(s, [session[s] EXCEPT
           !.pc = "recording",
           !.at = IF session[s].skipSummaries THEN "final" ELSE "summaries"])
    /\ UNCHANGED <<stack, host, lock, record>>

\* Shaper first, then the server; a process that will not die is a warning, and neither
\* it nor a shaper forgotten before goes away.
Stop(s) ==
    /\ At(s, "stopping")
    /\ \/ /\ ~session[s].started
          /\ Goto(s, "unlocking")
          /\ UNCHANGED host
       \/ /\ session[s].started
          /\ \E left \in SUBSET {"server", "shaper"} :
                /\ host' = [(IF "shaper" \in left \union session[s].forgot THEN host ELSE Down)
                                EXCEPT !.server = "server" \in left]
                /\ Become(s, [session[s] EXCEPT
                       !.pc = "unlocking",
                       !.warned = IF left = {} THEN @ ELSE @ \union {"stop"}])
    /\ UNCHANGED <<stack, lock, record>>

Unlock(s) ==
    /\ At(s, "unlocking")
    /\ lock' = [lock EXCEPT ![LogDir[s]] = Nobody]
    /\ Goto(s, "exited")
    /\ UNCHANGED <<stack, host, record>>

(***************************************************************************)
(* Kills and the operator.                                                 *)
(***************************************************************************)
Dead == {"killed", "orphaned"}
Locked(s) == session[s].pc \notin {"start", "exited"} \union Dead

\* Deferred calls do not run; the lock file, the stack and a phase in progress
\* stay behind.
Kill(s) ==
    /\ Locked(s)
    /\ Goto(s, IF At(s, "measuring") THEN "orphaned" ELSE "killed")
    /\ UNCHANGED <<stack, host, lock, record>>

\* The phase a killed session left behind comes to its end, in order or not.
OrphanEnds(s) ==
    /\ At(s, "orphaned")
    /\ \/ ~host.connected /\ host' = [host EXCEPT !.lease = IF @ = s THEN Nobody ELSE @]
       \/ UNCHANGED host
    /\ Goto(s, "killed")
    /\ UNCHANGED <<stack, lock, record>>

\* "remove the lock if it is stale".
RemoveStaleLock(d) ==
    /\ lock[d] # Nobody
    /\ session[lock[d]].pc \in Dead
    /\ lock' = [lock EXCEPT ![d] = Nobody]
    /\ UNCHANGED <<stack, host, session, record>>

Preparing(s) == acquireChainLock(s) \/ LockRefused(s) \/ ChecksFail(s) \/ ChecksPass(s)
Measuring(s) ==
    \/ KeepLink(s) \/ ApplyPhase(s) \/ StartServer(s) \/ StartShaper(s) \/ StartFails(s) \/ CleanUp(s)
    \/ PhaseStarts(s) \/ PhaseRefused(s) \/ PhaseEnds(s) \/ PhaseDies(s)
Recording(s) == TruncateRecord(s) \/ WriteRecord(s) \/ WriteRecordFails(s)
Leaving(s) == RestoreLink(s) \/ Summarize(s) \/ Stop(s) \/ Unlock(s)

SessionStep(s) == Preparing(s) \/ Measuring(s) \/ Recording(s) \/ Leaving(s)

Next ==
    \/ \E s \in Sessions : SessionStep(s) \/ ClientConnects(s) \/ Kill(s) \/ OrphanEnds(s)
    \/ ClientDisconnects
    \/ \E d \in Dirs : RemoveStaleLock(d)

Spec == Init /\ [][Next]_vars

(***************************************************************************)
(* Properties.                                                             *)
(***************************************************************************)
\* The shared fields are well typed and a session's cursor stays on a phase.
TypeOK ==
    /\ stack \in Stacks
    /\ host \in [link : Links \union {NoLink}, server : BOOLEAN,
                 lease : Sessions \union {Nobody}, connected : BOOLEAN]
    /\ lock \in [Dirs -> Sessions \union {Nobody}]
    /\ \A s \in Sessions : session[s].next \in 1..Len(session[s].phases)

\* A phase is measured on its own link, although the link is only touched when
\* the key differs from the last one applied: neither failed transitions nor
\* sessions killed half way make that memory wrong.
LinkInEffect ==
    \A s \in Sessions :
        session[s].pc \in {"starting", "measuring"} /\ stack # "external" =>
            host.link = Key(s)

\* Once runChainPhases is left after a link was applied the resting link is in
\* force, whether the phases were all measured or a transition failed.
RestoredOnExit ==
    \A s \in Sessions :
        /\ session[s].pc \in {"summarizing", "stopping"}
        /\ stack # "external" /\ session[s].applied # NoLink /\ Restore # NoLink
        /\ "restore" \notin session[s].warned
        => host.link = Restore

\* The processes of a raw stack.
Running(p) == stack = "raw" /\ IF p = "server" THEN host.server ELSE host.link # NoLink

\* Session c launched the stack and has not stopped it, or said that it could not; or it
\* forgot p, which would not stop after a failed start.
Answers(c, p) ==
    /\ c.launched
    /\ c.pc \notin {"start", "unlocking", "exited"} \/ "stop" \in c.warned \/ p \in c.forgot

\* A raw server or shaper runs only for a session that has it, was killed with it, or
\* warned that it would not stop: a start or a transition that fails half way leaves
\* nothing behind.  The exception is a process that survives its kill then: start and Start
\* discard the error (stack.go:180, :385), so nobody stops it again or reports it.
NothingLeftRunning ==
    \A p \in {"server", "shaper"} : Running(p) => \E s \in Sessions : Answers(session[s], p)

\* A session that exits with success has measured every phase, no phase measured
\* nothing, and the file on disk says all of that.
ExitTruthful ==
    \A s \in Sessions :
        At(s, "exited") /\ session[s].outcome = "ok" /\ ~session[s].dryRun =>
            /\ Len(session[s].verdicts) = Len(session[s].phases)
            /\ ~HarnessFailed(session[s])
            /\ record[s] = [verdicts |-> session[s].verdicts, completed |-> TRUE, torn |-> FALSE]

=============================================================================
