------------------------------ MODULE SuiteRun ------------------------------
(***************************************************************************)
(* Controllers executing a plan suite by suite (executeQueuePlan and       *)
(* executeQueueSuite in internal/benchmark/queue.go) with an NFS storage   *)
(* session (storage_session.go, docker/nfs-server/control.sh) that two     *)
(* controllers may compete for.                                            *)
(*                                                                         *)
(* Everything a suite acquires is given back by deferred calls in reverse  *)
(* order, each of which may fail the suite; the artifact is written last.  *)
(* A command that fails may have taken effect.  A controller may be killed *)
(* anywhere.  The shaper's lease protocol is MeasuredRun's; here acquiring *)
(* and releasing it just succeed or fail, and a shaper is configured       *)
(* (ShaperControlURL # "").                                                *)
(***************************************************************************)
EXTENDS Integers, Sequences, FiniteSets

CONSTANTS
    Controllers,  \* nntpbench processes sharing the NFS container
    Plans,        \* the plans the controllers may have
    None          \* no suite

\* How many suites, and where they store: "local", "nfs", or "nfs-both" with the
\* intermediate files on NFS too (IntermediateOnNFS).
Plan == [suites : Nat \ {0}, profile : {"local", "nfs", "nfs-both"}]

ASSUME SuiteAssumption ==
    /\ Plans \subseteq [Controllers -> Plan]
    /\ None \notin Controllers \X Nat

VARIABLES
    plan,      \* config.Plan of each controller
    run,       \* the controller processes
    lease,     \* LEASE_FILE of the NFS container
    leftover,  \* <<suite, thing>> that exist outside the controllers
    disk       \* queue.json of each suite

vars == <<plan, run, lease, leftover, disk>>

Suites == UNION {{c} \X (1..plan[c].suites) : c \in Controllers}

\* A queueSuite not yet executed; names is what the StorageSession has named
\* and Close will remove.
NewSuite == [pc |-> "mkdir", names |-> {}, open |-> FALSE, shaperHeld |-> FALSE,
             status |-> "failed"]

Init ==
    /\ plan \in Plans
    /\ run = [c \in Controllers |->
                 [suite |-> NewSuite, index |-> 1, statuses |-> <<>>, exit |-> -1]]
    /\ lease = None
    /\ leftover = {}
    /\ disk = [s \in Suites |-> "absent"]

S(c) == <<c, run[c].index>>
At(c, pc) == run[c].suite.pc = pc
Become(c, suite) == run' = [run EXCEPT ![c].suite = suite]
Goto(c, pc) == run' = [run EXCEPT ![c].suite.pc = pc]

\* return artifact: the deferred calls registered so far, last one first.
Unwind(suite) ==
    [suite EXCEPT !.pc = IF suite.shaperHeld THEN "releasing"
                         ELSE IF suite.open THEN "closing" ELSE "scrubbing"]

Fails(c) == Become(c, Unwind(run[c].suite))

\* The world after a command that creates or removes x: exactly the effect when
\* it succeeds, either when it fails.
Creates(ok, x) == IF ok THEN leftover' = leftover \union {x}
                  ELSE leftover' \in {leftover, leftover \union {x}}
Removes(ok, x) == IF ok THEN leftover' = leftover \ {x} ELSE leftover' \in {leftover, leftover \ {x}}

(***************************************************************************)
(* The suite's directory.                                                  *)
(***************************************************************************)
Mkdir(c) ==
    /\ At(c, "mkdir")
    /\ Goto(c, IF plan[c].profile = "local" THEN "preparing" ELSE "leasing")
    /\ UNCHANGED <<plan, lease, leftover, disk>>

\* Nothing is deferred yet: no artifact is written.
MkdirFails(c) ==
    /\ At(c, "mkdir")
    /\ Goto(c, "over")
    /\ UNCHANGED <<plan, lease, leftover, disk>>

(***************************************************************************)
(* OpenStorageSession.                                                     *)
(***************************************************************************)
\* Mutant: lease-acquire does not insist on creating the directory.
LeaseFreeAlways == TRUE

\* mkdir "$LEASE_DIR".
LeaseFree == lease = None

LeaseAcquired(c) ==
    /\ At(c, "leasing") /\ LeaseFree
    /\ lease' = S(c)
    /\ Become(c, [run[c].suite EXCEPT !.pc = "exporting", !.names = {"lease", "export"}])
    /\ UNCHANGED <<plan, leftover, disk>>

\* Held by another run, no container, or cancelled; the last may come too late.
LeaseRefused(c) ==
    /\ At(c, "leasing")
    /\ lease' \in {lease} \union (IF LeaseFree THEN {S(c)} ELSE {})
    /\ Fails(c)
    /\ UNCHANGED <<plan, leftover, disk>>

Abandon(c, suite) == Become(c, [suite EXCEPT !.pc = "abandoning"])

\* The shaper report is read and validated, then export-create.
ExportCreate(c, ok) ==
    /\ At(c, "exporting")
    /\ Creates(ok, <<S(c), "export">>)
    /\ IF ok THEN Goto(c, "volume") ELSE Abandon(c, run[c].suite)
    /\ UNCHANGED <<plan, lease, disk>>

\* createVolume: named before it is created.
VolumeCreate(c, ok) ==
    /\ At(c, "volume")
    /\ Creates(ok, <<S(c), "complete">>)
    /\ LET named == [run[c].suite EXCEPT !.names = @ \union {"complete"}]
       IN  IF ok THEN Become(c, [named EXCEPT
                          !.pc = IF plan[c].profile = "nfs-both" THEN "volume2" ELSE "attesting"])
           ELSE Abandon(c, named)
    /\ UNCHANGED <<plan, lease, disk>>

IncompleteVolumeCreate(c, ok) ==
    /\ At(c, "volume2")
    /\ Creates(ok, <<S(c), "incomplete">>)
    /\ LET named == [run[c].suite EXCEPT !.names = @ \union {"incomplete"}]
       IN  IF ok THEN Become(c, [named EXCEPT !.pc = "attesting"]) ELSE Abandon(c, named)
    /\ UNCHANGED <<plan, lease, disk>>

\* The mount line and the opening counters.
Attest(c, ok) ==
    /\ At(c, "attesting")
    /\ IF ok THEN Become(c, [run[c].suite EXCEPT !.pc = "preparing", !.open = TRUE])
       ELSE Abandon(c, run[c].suite)
    /\ UNCHANGED <<plan, lease, leftover, disk>>

\* Close: every name is removed whatever happened to the others, bad are the
\* removals that fail, some of them after taking effect; then the names are
\* forgotten.  lease-release compares the holder.
Close(c, suite, bad) ==
    /\ \E kept \in SUBSET bad :
          LET gone == run[c].suite.names \ kept
          IN  /\ leftover' = {x \in leftover : x[1] # S(c) \/ x[2] \notin gone}
              /\ lease' = IF "lease" \in gone /\ lease = S(c) THEN None ELSE lease
    /\ Become(c, [suite EXCEPT !.pc = "scrubbing", !.names = {}, !.open = FALSE])

\* The deferred Close of an open that failed; its errors are dropped.
AbandonStorage(c) ==
    /\ At(c, "abandoning")
    /\ \E bad \in SUBSET run[c].suite.names : Close(c, run[c].suite, bad)
    /\ UNCHANGED <<plan, disk>>

(***************************************************************************)
(* The measured part.                                                      *)
(***************************************************************************)
\* Manifests, NZBs, passwords, the queue input file.
Prepare(c, ok) ==
    /\ At(c, "preparing")
    /\ IF ok THEN Goto(c, "acquiring") ELSE Fails(c)
    /\ UNCHANGED <<plan, lease, leftover, disk>>

AcquireLease(c, ok) ==
    /\ At(c, "acquiring")
    /\ IF ok
       THEN /\ Become(c, [run[c].suite EXCEPT !.pc = "measuring", !.shaperHeld = TRUE])
            /\ leftover' = leftover \union {<<S(c), "shaper lease">>}
       ELSE Fails(c) /\ UNCHANGED leftover
    /\ UNCHANGED <<plan, lease, disk>>

\* invokeQueueAdapter, the result and its validation, the closing snapshot.
\* The client leaves its output either way.
Measure(c, ok) ==
    /\ At(c, "measuring")
    /\ Creates(ok, <<S(c), "output">>)
    /\ IF ok THEN Goto(c, IF plan[c].profile = "local" THEN "verifying" ELSE "finishing") ELSE Fails(c)
    /\ UNCHANGED <<plan, lease, disk>>

\* Finish insists on still being the holder.
FinishStorage(c, ok) ==
    /\ At(c, "finishing")
    /\ ok => lease = S(c)
    /\ IF ok THEN Goto(c, "verifying") ELSE Fails(c)
    /\ UNCHANGED <<plan, lease, leftover, disk>>

\* Each job verified or not finished, then the output is deleted; only a suite
\* whose output is gone gets a status other than failed.
VerifyAndDelete(c, ok) ==
    /\ At(c, "verifying")
    /\ Removes(ok, <<S(c), "output">>)
    /\ IF ok THEN \E status \in {"passed", "completed_with_dnf"} :
                      Become(c, Unwind([run[c].suite EXCEPT !.status = status]))
       ELSE Fails(c)
    /\ UNCHANGED <<plan, lease, disk>>

(***************************************************************************)
(* The deferred calls.                                                     *)
(***************************************************************************)
ReleaseLease(c, ok) ==
    /\ At(c, "releasing")
    /\ Removes(ok, <<S(c), "shaper lease">>)
    /\ Become(c, Unwind([run[c].suite EXCEPT !.shaperHeld = FALSE,
                                             !.status = IF ok THEN @ ELSE "failed"]))
    /\ UNCHANGED <<plan, lease, disk>>

\* Mutant: a failed Close is logged and forgotten.
CloseStorageQuietly(c) ==
    /\ At(c, "closing")
    /\ \E bad \in SUBSET run[c].suite.names : Close(c, run[c].suite, bad)
    /\ UNCHANGED <<plan, disk>>

\* The deferred Close of the session: a failure spoils the artifact.
CloseStorage(c) ==
    /\ At(c, "closing")
    /\ \E bad \in SUBSET run[c].suite.names :
          Close(c, [run[c].suite EXCEPT !.status = IF bad = {} THEN @ ELSE "failed"], bad)
    /\ UNCHANGED <<plan, disk>>

\* A failed scrub spoils the artifact.
Scrub(c, ok) ==
    /\ At(c, "scrubbing")
    /\ Become(c, [run[c].suite EXCEPT !.pc = "persisting",
                                      !.status = IF ok THEN @ ELSE "failed"])
    /\ UNCHANGED <<plan, lease, leftover, disk>>

\* os.WriteFile truncates ...
PersistTruncate(c) ==
    /\ At(c, "persisting")
    /\ disk' = [disk EXCEPT ![S(c)] = "torn"]
    /\ Goto(c, "writing")
    /\ UNCHANGED <<plan, lease, leftover>>

\* ... and writes.
Persist(c) ==
    /\ At(c, "writing")
    /\ disk' = [disk EXCEPT ![S(c)] = run[c].suite.status]
    /\ Goto(c, "over")
    /\ UNCHANGED <<plan, lease, leftover>>

\* Mutant: the write error does not change the status.
PersistFailsQuietly(c) ==
    /\ run[c].suite.pc \in {"persisting", "writing"}
    /\ Goto(c, "over")
    /\ UNCHANGED <<plan, lease, leftover, disk>>

\* The open, or the write or close after everything reached the file.
PersistFails(c) ==
    /\ run[c].suite.pc \in {"persisting", "writing"}
    /\ disk' \in {disk} \union (IF At(c, "writing")
                                THEN {[disk EXCEPT ![S(c)] = run[c].suite.status]} ELSE {})
    /\ Become(c, [run[c].suite EXCEPT !.pc = "over", !.status = "failed"])
    /\ UNCHANGED <<plan, lease, leftover>>

(***************************************************************************)
(* The plan.                                                               *)
(***************************************************************************)
\* 1 for a harness failure, ExitStatusClientDidNotFinish, or 0.
ExitStatus(statuses) ==
    IF \E i \in DOMAIN statuses : statuses[i] \notin {"passed", "completed_with_dnf"} THEN 1
    ELSE IF \E i \in DOMAIN statuses : statuses[i] # "passed" THEN 2 ELSE 0

NextSuite(c) ==
    /\ At(c, "over")
    /\ LET statuses == Append(run[c].statuses, run[c].suite.status)
       IN  run' = [run EXCEPT ![c] =
               IF run[c].index < plan[c].suites
               THEN [@ EXCEPT !.suite = NewSuite, !.index = run[c].index + 1, !.statuses = statuses]
               ELSE [@ EXCEPT !.suite.pc = "exited", !.statuses = statuses,
                              !.exit = ExitStatus(statuses)]]
    /\ UNCHANGED <<plan, lease, leftover, disk>>

Kill(c) ==
    /\ run[c].suite.pc \notin {"exited", "killed"}
    /\ Goto(c, "killed")
    /\ UNCHANGED <<plan, lease, leftover, disk>>

Opening(c) ==
    \/ LeaseAcquired(c) \/ LeaseRefused(c) \/ AbandonStorage(c)
    \/ \E ok \in BOOLEAN :
          \/ ExportCreate(c, ok) \/ VolumeCreate(c, ok)
          \/ IncompleteVolumeCreate(c, ok) \/ Attest(c, ok)
Executing(c) ==
    \/ Mkdir(c) \/ MkdirFails(c)
    \/ \E ok \in BOOLEAN :
          \/ Prepare(c, ok) \/ AcquireLease(c, ok) \/ Measure(c, ok)
          \/ FinishStorage(c, ok) \/ VerifyAndDelete(c, ok)
Deferred(c) ==
    \/ CloseStorage(c) \/ PersistTruncate(c) \/ Persist(c) \/ PersistFails(c)
    \/ \E ok \in BOOLEAN : ReleaseLease(c, ok) \/ Scrub(c, ok)

Next == \E c \in Controllers :
    Opening(c) \/ Executing(c) \/ Deferred(c) \/ NextSuite(c) \/ Kill(c)

Spec == Init /\ [][Next]_vars

(***************************************************************************)
(* Properties.                                                             *)
(***************************************************************************)
Good == {"passed", "completed_with_dnf"}

\* Types; what a suite leaves behind is one of the things it creates.
TypeOK ==
    /\ lease \in Suites \union {None}
    /\ leftover \subseteq Suites \X {"export", "complete", "incomplete", "shaper lease", "output"}
    /\ disk \in [Suites -> Good \union {"absent", "torn", "failed"}]
    /\ \A c \in Controllers : run[c].exit \in {-1, 0, 1, 2} /\ S(c) \in Suites

\* "A leaked volume can never be mistaken for a clean run": an artifact on disk
\* that is not a failure belongs to a suite that has left nothing anywhere,
\* whichever of its cleanups failed and wherever the controller was killed.
LeakIsFailure ==
    \A s \in Suites : disk[s] \in Good =>
        /\ lease # s
        /\ \A x \in leftover : x[1] # s

\* While a suite has its storage session no other controller's suite has one:
\* the counters between the two attestations are this suite's traffic.
StorageExclusive ==
    \A c \in Controllers : run[c].suite.open /\ ~At(c, "killed") => lease = S(c)

\* A controller's exit status is what the artifacts it left on disk say.
ExitTruthful ==
    \A c \in Controllers :
        LET written == {disk[<<c, i>>] : i \in 1..plan[c].suites}
        IN  /\ run[c].exit = 0 => written = {"passed"}
            /\ run[c].exit = 2 => written \subseteq Good /\ written # {"passed"}

=============================================================================
