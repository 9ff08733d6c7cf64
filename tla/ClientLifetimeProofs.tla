------------------------ MODULE ClientLifetimeProofs ------------------------
(***************************************************************************)
(* Proofs about ClientLifetime for any number of runs and any lane.        *)
(*                                                                         *)
(* The three properties lean on one another, so IInv is one invariant.     *)
(* What a finished run may leave (Left) is needed by the next run's port   *)
(* check: a client that can still take the port later is one that was      *)
(* starting when its adapter was killed, or could not kill it (PortKept).  *)
(* What the adapter has seen (Seen) stays true of the client, because a    *)
(* job that ended is not submitted again, and at each point of the adapter *)
(* Now says which of error, result, counters and processes it still        *)
(* answers for.                                                            *)
(***************************************************************************)
EXTENDS ClientLifetime, TLAPS

Killed == {"killed", "killed while starting"}
Survived == {"survived", "survived while starting"}
Late == {"killed while starting", "survived while starting"}
Ended == {"succeeded", "failed"}

ClientRec ==
    [leader : Leaders, helper : BOOLEAN, job : {"none", "running"} \union Ended,
     report : {"none", "torn", "complete", "not complete"}, acked : BOOLEAN,
     perf : {"off", "on", "asked", "killed"},
     excuse : {"none", "docker run failed", "docker rm failed"} \union Killed \union Survived]

Results == {"none", "refused", "timed_out"} \union Ended

FreshPcs == {"prepare", "port", "launch"}
EarlyPcs == FreshPcs \union {"counters", "endpoint", "ready", "job_counters", "submit", "await"}
StopPcs == {"stop", "stopping", "measure", "ensure"}
MeterPcs == {"finish", "perf", "artifact"}
CleanupPcs == {"unmetered", "perf_deferred", "logs", "remove"}
Pcs == EarlyPcs \union StopPcs \union MeterPcs \union CleanupPcs
       \union {"record", "returned", "killed"}
\* Where the counters may still be running.
CountingPcs == {"endpoint", "ready", "submit", "await", "finish", "perf",
                "unmetered", "perf_deferred", "killed"}

AdapterRec ==
    [pc : Pcs, err : BOOLEAN, status : Results,
     talks : {None} \union Runs, collected : BOOLEAN, logs : BOOLEAN]

Typed ==
    /\ lane \in NativeLanes \union ContainerLanes
    /\ r \in Runs
    /\ adapter \in AdapterRec
    /\ client \in [Runs -> ClientRec]
    /\ result \in [Runs -> Results]

\* What holds of every client, whatever its run's fate.
Sound(c) ==
    /\ c.helper => c.leader \in {"up", "away", "dead"}
    /\ c.excuse \in {"killed", "survived"} => c.leader # "starting"
    /\ Native => c.perf = "off" /\ c.excuse \in {"none"} \union Killed \union Survived
    /\ c.report # "none" => lane = "cli" /\ c.job \in Ended
    /\ c.report = "complete" => c.job = "succeeded"

\* What a run may leave when its adapter is gone.
Left(c) == c.excuse \notin Killed =>
    /\ c.perf = "off"
    /\ c.leader \in {"starting", "up", "away"} => c.excuse # "none"
    /\ c.helper => c.leader = "dead" \/ c.excuse # "none"

\* The adapter a, its own client c and what its result file says, x.
Now(a, c, x) ==
    /\ Native => a.pc \notin {"counters", "endpoint", "job_counters"} \union MeterPcs \union CleanupPcs
    /\ ~Native => a.pc \notin {"port"} \union StopPcs
    /\ lane = "cli" => a.pc \notin {"endpoint", "ready", "job_counters", "submit"}
    /\ a.pc \in FreshPcs => c = NewClient
    /\ a.pc \notin {"returned", "killed"} =>
          c.excuse = "none" \/ (Native /\ a.pc = "record" /\ c.excuse \in Survived)
    /\ a.pc = "returned" => Left(c)
    /\ a.pc = "killed" => c.excuse \in Killed
    /\ a.pc = "record" /\ Native => c.leader \in {"none", "dead", "dying"} \/ c.excuse \in Survived
    /\ c.perf # "off" => a.pc \in CountingPcs /\ ~a.collected
    /\ lane = "sequential" /\ a.pc \in {"endpoint", "ready"} => c.perf = "off"
    /\ a.pc \in EarlyPcs => a.status = "none" /\ ~a.err /\ ~a.collected
    /\ a.pc \in MeterPcs \union {"record"} \/ (a.pc \in StopPcs /\ ~a.err) => a.status # "none"
    /\ a.pc \in EarlyPcs \union StopPcs \union MeterPcs \union {"record"} => x = "none"
    /\ a.pc \in CleanupPcs \union {"returned"} => (a.err <=> x = "none") /\ x \in {"none", a.status}

\* The outcome the adapter holds is the one its client reported.
Seen(a, cl) == a.status \in Ended =>
    IF lane = "cli" THEN cl[r].job = a.status /\ cl[r].report = "complete"
    ELSE a.talks \in Runs /\ cl[a.talks].job = a.status

\* Whom the adapter talks to.
Talking(a, cl) ==
    /\ a.pc \in {"job_counters", "submit"} \/ (a.pc = "await" /\ lane # "cli") => a.talks \in Runs
    /\ a.talks \notin {None, r} => cl[a.talks].excuse \in Late

\* From the port check to the first answer a stranger can only be a late starter.
PortKept(a, cl) == Native /\ a.pc \in {"launch", "ready"} =>
    \A q \in Runs \ {r} : cl[q].leader = "up" => cl[q].excuse \in Late

\* The runs before this one are over, those after it have not begun.
Others == \A q \in Runs :
    /\ q < r => Left(client[q])
    /\ q > r => client[q] = NewClient /\ result[q] = "none"

\* The inductive invariant.
IInv ==
    /\ Typed
    /\ \A q \in Runs : Sound(client[q])
    /\ Now(adapter, client[r], result[r])
    /\ Seen(adapter, client)
    /\ Talking(adapter, client)
    /\ PortKept(adapter, client)
    /\ Others

(***************************************************************************)
(* The shapes of step.                                                     *)
(***************************************************************************)
\* One client, the adapter and the run's own result change.
LEMMA AnyStep ==
    ASSUME IInv, NEW q \in Runs, NEW c \in ClientRec, NEW a \in AdapterRec, NEW x \in Results,
           client' = [client EXCEPT ![q] = c], adapter' = a,
           result' = [result EXCEPT ![r] = x], UNCHANGED <<lane, r>>,
           Sound(c), q < r => Left(c), q > r => c = NewClient,
           Now(a, client'[r], x), Seen(a, client'), Talking(a, client'), PortKept(a, client')
    PROVE  IInv'
<1>1. r \in Runs /\ client \in [Runs -> ClientRec] /\ result \in [Runs -> Results]
  BY DEF IInv, Typed
<1>2. result'[r] = x /\ \A p \in Runs \ {r} : result'[p] = result[p]
  BY <1>1
<1>3. client'[q] = c /\ \A p \in Runs \ {q} : client'[p] = client[p]
  BY <1>1
<1>4. Typed'
  BY <1>1 DEF IInv, Typed
<1>5. \A p \in Runs : Sound(client'[p])
  BY <1>3 DEF IInv
<1>6. (\A p \in Runs : Sound(client[p]))'
  BY <1>5 DEF Sound, Native
<1>7. Now(adapter, client[r], result[r])'
  BY <1>2 DEF Now, Native, Left
<1>8. Seen(adapter, client)' /\ Talking(adapter, client)' /\ PortKept(adapter, client)'
  BY DEF Seen, Talking, PortKept, Native
<1>9. Others'
  <2> SUFFICES ASSUME NEW p \in Runs
               PROVE  (p < r => Left(client'[p]))
                      /\ (p > r => client'[p] = NewClient /\ result'[p] = "none")
    BY DEF Others, Left
  <2>1. p > r => p # r
    BY <1>1 DEF Runs
  <2> QED
    BY <1>2, <1>3, <2>1 DEF IInv, Others
<1> QED
  BY <1>4, <1>6, <1>7, <1>8, <1>9 DEF IInv

\* The adapter steps, and its own client changes in nothing it has seen.
LEMMA OwnStep ==
    ASSUME IInv, NEW c \in ClientRec, NEW a \in AdapterRec, NEW x \in Results,
           client' = [client EXCEPT ![r] = c], adapter' = a,
           result' = [result EXCEPT ![r] = x], UNCHANGED <<lane, r>>,
           Sound(c), Now(a, c, x),
           c.job = client[r].job, c.report = client[r].report,
           a.talks = adapter.talks,
           a.status = adapter.status \/ a.status \notin Ended,
           a.pc \in {"job_counters", "submit", "await"} =>
              adapter.pc \in {"job_counters", "submit"} \/ lane = "cli",
           lane = "cli" => a.pc \notin {"job_counters", "submit"},
           a.pc \in {"launch", "ready"} => ~Native \/ adapter.pc = "launch"
    PROVE  IInv'
<1>1. r \in Runs /\ client \in [Runs -> ClientRec] /\ adapter.talks \in {None} \union Runs
  BY DEF IInv, Typed, AdapterRec
<1>2. client'[r] = c /\ \A p \in Runs \ {r} : client'[p] = client[p]
  BY <1>1
<1>3. Seen(a, client')
  BY <1>1, <1>2 DEF IInv, Seen
<1>4. Talking(a, client')
  BY <1>1, <1>2 DEF IInv, Talking
<1>5. PortKept(a, client')
  BY <1>2 DEF IInv, PortKept
<1>6. ~(r < r) /\ ~(r > r)
  BY <1>1 DEF Runs
<1> QED
  BY <1>1, <1>2, <1>3, <1>4, <1>5, <1>6, AnyStep

\* The same, with the client and the result left alone.
LEMMA AloneStep ==
    ASSUME IInv, NEW a \in AdapterRec, adapter' = a, UNCHANGED <<lane, r, client, result>>,
           Now(a, client[r], result[r]),
           a.talks = adapter.talks,
           a.status = adapter.status \/ a.status \notin Ended,
           a.pc \in {"job_counters", "submit", "await"} =>
              adapter.pc \in {"job_counters", "submit"} \/ lane = "cli",
           lane = "cli" => a.pc \notin {"job_counters", "submit"},
           a.pc \in {"launch", "ready"} => ~Native \/ adapter.pc = "launch"
    PROVE  IInv'
<1>1. r \in Runs /\ client \in [Runs -> ClientRec] /\ result \in [Runs -> Results]
  BY DEF IInv, Typed
<1>2. client' = [client EXCEPT ![r] = client[r]] /\ result' = [result EXCEPT ![r] = result[r]]
  BY <1>1
<1>3. Sound(client[r]) /\ client[r] \in ClientRec /\ result[r] \in Results
  BY <1>1 DEF IInv
<1> QED
  BY <1>2, <1>3, OwnStep

(***************************************************************************)
(* The adapter's steps.                                                    *)
(***************************************************************************)
USE DEF Pcs, EarlyPcs, FreshPcs, StopPcs, MeterPcs, CleanupPcs, CountingPcs

\* return err with something to undo: where the adapter goes from there.
LEMMA UnwoundNow ==
    ASSUME NEW a \in AdapterRec, NEW c, NEW x, Now(a, c, x),
           Sound(c), a.pc \in {"endpoint", "ready", "submit", "await", "measure", "artifact"}
    PROVE  /\ Unwound(a) \in AdapterRec
           /\ Now(Unwound(a), c, x)
           /\ Unwound(a).status = a.status /\ Unwound(a).talks = a.talks
           /\ Unwound(a).pc \in {"stop", "ensure", "unmetered"}
<1>1. /\ Unwound(a) \in AdapterRec /\ Unwound(a).err = TRUE
      /\ Unwound(a).status = a.status /\ Unwound(a).talks = a.talks
      /\ Unwound(a).collected = a.collected
      /\ Unwound(a).pc = IF Native THEN IF a.pc = "measure" THEN "ensure" ELSE "stop" ELSE "unmetered"
  BY DEF Unwound, AdapterRec
<1> DEFINE b == Unwound(a)
<1> HIDE DEF b
<1>2. Now(b, c, x)
  <2>1. CASE Native
    BY <2>1, <1>1 DEF b, Now, Sound
  <2>2. CASE ~Native
    BY <2>2, <1>1 DEF b, Now
  <2> QED
    BY <2>1, <2>2
<1> QED
  BY <1>1, <1>2 DEF b

\* The adapter's typed state, spelled out once.
LEMMA Here ==
    ASSUME IInv
    PROVE  /\ r \in Runs /\ adapter \in AdapterRec /\ client[r] \in ClientRec
           /\ result[r] \in Results /\ Now(adapter, client[r], result[r])
           /\ Sound(client[r]) /\ client \in [Runs -> ClientRec] /\ result \in [Runs -> Results]
BY DEF IInv, Typed

\* A failure that changes nothing but the adapter.
LEMMA FailStep ==
    ASSUME IInv, Fails, UNCHANGED <<lane, r, client, result>>,
           adapter.pc \in {"endpoint", "ready", "submit", "await", "measure"}
    PROVE  IInv'
<1>1. /\ Unwound(adapter) \in AdapterRec
      /\ Now(Unwound(adapter), client[r], result[r])
      /\ Unwound(adapter).status = adapter.status /\ Unwound(adapter).talks = adapter.talks
      /\ Unwound(adapter).pc \in {"stop", "ensure", "unmetered"}
  BY Here, UnwoundNow
<1> DEFINE b == Unwound(adapter)
<1> HIDE DEF b
<1>2. adapter' = b /\ b \in AdapterRec /\ Now(b, client[r], result[r])
      /\ b.status = adapter.status /\ b.talks = adapter.talks /\ b.pc \in {"stop", "ensure", "unmetered"}
  BY <1>1 DEF Fails, b
<1> QED
  BY <1>2, AloneStep

\* The fields of an adapter that only moves.
LEMMA GotoKeeps ==
    ASSUME NEW a \in AdapterRec, NEW pc \in Pcs
    PROVE  LET b == [a EXCEPT !.pc = pc]
           IN  b \in AdapterRec /\ b.pc = pc /\ b.err = a.err /\ b.status = a.status
               /\ b.talks = a.talks /\ b.collected = a.collected /\ b.logs = a.logs
BY DEF AdapterRec

\* Moves of the adapter with no other effect.
LEMMA MoveStep ==
    ASSUME IInv, NEW pc \in Pcs, Goto(pc), UNCHANGED <<lane, r, client, result>>,
           \/ adapter.pc = "prepare" /\ pc = IF Native THEN "port" ELSE "launch"
           \/ adapter.pc = "endpoint" /\ pc = "ready"
           \/ adapter.pc = "unmetered" /\ pc = "logs" /\ adapter.collected
           \/ /\ adapter.pc \in {"perf", "perf_deferred"} /\ client[r].perf = "off"
              /\ pc = IF adapter.pc = "perf" THEN "artifact" ELSE "logs"
           \/ /\ adapter.pc \in {"stop", "stopping"}
              /\ pc = "stopping" \/ pc = (IF adapter.err THEN "ensure" ELSE "measure")
           \/ adapter.pc = "measure" /\ pc = "ensure"
    PROVE  IInv'
<1> DEFINE b == [adapter EXCEPT !.pc = pc]
<1>1. b \in AdapterRec /\ b.pc = pc /\ b.err = adapter.err /\ b.status = adapter.status
      /\ b.talks = adapter.talks /\ b.collected = adapter.collected
  BY Here, GotoKeeps
<1>2. adapter' = b
  BY DEF Goto
<1> HIDE DEF b
<1>3. Now(b, client[r], result[r])
  BY <1>1, Here DEF Now
<1>4. lane = "cli" => ~Native
  BY DEF Native, NativeLanes
<1>5. lane = "cli" => adapter.pc # "endpoint"
  BY Here DEF Now
<1>6. b.pc \in {"launch", "ready"} => ~Native
  BY <1>1, Here DEF Now
<1> QED
  BY <1>1, <1>2, <1>3, <1>5, <1>6, AloneStep

\* The adapter returns with an error before there is anything to undo.
LEMMA EarlyReturn ==
    ASSUME IInv, Returns([adapter EXCEPT !.err = TRUE]), UNCHANGED <<lane, r, client, result>>,
           adapter.pc \in FreshPcs
    PROVE  IInv'
<1> DEFINE b == [[adapter EXCEPT !.err = TRUE] EXCEPT !.pc = "returned"]
<1>1. b \in AdapterRec /\ b.pc = "returned" /\ b.err = TRUE /\ b.status = adapter.status
      /\ b.talks = adapter.talks /\ b.collected = adapter.collected
  BY Here DEF AdapterRec
<1>2. adapter' = b
  BY DEF Returns
<1> HIDE DEF b
<1>3. client[r] = NewClient /\ result[r] = "none"
  BY Here DEF Now
<1>4. Left(NewClient) /\ NewClient.excuse = "none" /\ NewClient.perf = "off"
  BY DEF Left, NewClient
<1>5. Now(b, client[r], result[r])
  BY <1>1, <1>3, <1>4 DEF Now
<1> QED
  BY <1>1, <1>2, <1>5, AloneStep

\* Validation and the port check.
LEMMA PrepareSteps ==
    ASSUME IInv, (\E ok \in BOOLEAN : Prepare(ok)) \/ checkAPIPortFree
    PROVE  IInv'
<1>1. ASSUME NEW ok \in BOOLEAN, Prepare(ok) PROVE IInv'
  <2>1. CASE ok
    <3>1. Goto(IF Native THEN "port" ELSE "launch") /\ adapter.pc = "prepare"
          /\ UNCHANGED <<lane, r, client, result>>
      BY <1>1, <2>1 DEF Prepare, At
    <3>2. (IF Native THEN "port" ELSE "launch") \in Pcs
      OBVIOUS
    <3> QED
      BY <3>1, <3>2, MoveStep
  <2>2. CASE ~ok
    BY <1>1, <2>2, EarlyReturn DEF Prepare, At
  <2> QED
    BY <2>1, <2>2
<1>2. ASSUME checkAPIPortFree, ~PortFree PROVE IInv'
  BY <1>2, EarlyReturn DEF checkAPIPortFree, At
<1>3. ASSUME checkAPIPortFree, PortFree PROVE IInv'
  <2> DEFINE b == [adapter EXCEPT !.pc = "launch"]
  <2>1. b \in AdapterRec /\ b.pc = "launch" /\ b.err = adapter.err /\ b.status = adapter.status
        /\ b.talks = adapter.talks /\ b.collected = adapter.collected
    BY Here, GotoKeeps
  <2>2. adapter' = b /\ adapter.pc = "port" /\ UNCHANGED <<lane, r, client, result>>
    BY <1>3 DEF checkAPIPortFree, Goto, At
  <2> HIDE DEF b
  <2>3. Now(b, client[r], result[r]) /\ Native
    BY <2>1, <2>2, Here DEF Now
  <2>4. \A q \in Runs : client[q].leader # "up"
    BY <1>3, <2>3 DEF PortFree, Listening
  <2>5. PortKept(b, client) /\ Seen(b, client) /\ Talking(b, client)
    BY <2>1, <2>2, <2>3, <2>4 DEF PortKept, IInv, Seen, Talking
  <2>6. client' = [client EXCEPT ![r] = client[r]] /\ result' = [result EXCEPT ![r] = result[r]]
    BY <2>2, Here
  <2>7. ~(r < r) /\ ~(r > r)
    BY Here DEF Runs
  <2> QED
    BY <2>1, <2>2, <2>3, <2>5, <2>6, <2>7, Here, AnyStep
<1> QED
  BY <1>1, <1>2, <1>3

\* The launch, of a process or of a container.
LEMMA LaunchSteps ==
    ASSUME IInv, NEW ok \in BOOLEAN, startProcess(ok) \/ startContainer(ok)
    PROVE  IInv'
<1>1. /\ adapter.pc = "launch" /\ UNCHANGED <<lane, r, result>>
      /\ client[r] = NewClient /\ result[r] = "none"
  BY Here DEF startProcess, startContainer, At, Now
<1>2. result' = [result EXCEPT ![r] = result[r]]
  BY <1>1, Here
<1>3. CASE ok
  <2> DEFINE pc == IF Native THEN "ready" ELSE "counters"
             b == [adapter EXCEPT !.pc = pc]
             c == [client[r] EXCEPT !.leader = "starting"]
  <2>1. adapter' = b /\ client' = [client EXCEPT ![r] = c]
    BY <1>3 DEF startProcess, startContainer, OwnBecomes, Becomes, Own, Goto
  <2>2. b \in AdapterRec /\ b.pc = pc /\ b.err = adapter.err /\ b.status = adapter.status
        /\ b.talks = adapter.talks /\ b.collected = adapter.collected
    <3>1. pc \in Pcs
      OBVIOUS
    <3> HIDE DEF pc
    <3> QED
      BY <3>1, Here, GotoKeeps
  <2>3. /\ c \in ClientRec /\ c.leader = "starting" /\ c.helper = client[r].helper
        /\ c.job = client[r].job /\ c.report = client[r].report
        /\ c.excuse = client[r].excuse /\ c.perf = client[r].perf
    BY Here DEF ClientRec, Leaders
  <2> HIDE DEF c
  <2>4. c.excuse = "none" /\ c.perf = "off" /\ Sound(c)
    BY <1>1, <2>3 DEF Sound, NewClient
  <2> HIDE DEF b
  <2>5. adapter.status = "none" /\ ~adapter.err /\ ~adapter.collected
    BY <1>1, Here DEF Now
  <2>6. lane = "cli" => ~Native
    BY DEF Native, NativeLanes
  <2>7. Now(b, c, result[r])
    <3>1. CASE Native
      BY <3>1, <1>1, <2>2, <2>4, <2>5, <2>6 DEF Now
    <3>2. CASE ~Native
      BY <3>2, <1>1, <2>2, <2>4, <2>5 DEF Now
    <3> QED
      BY <3>1, <3>2
  <2> QED
    BY <1>1, <1>2, <2>1, <2>2, <2>3, <2>4, <2>7, Here, OwnStep
<1>4. CASE ~ok
  <2>1. PICK left \in {"none", "dead", "starting"} :
          LET c == IF Native THEN [client[r] EXCEPT !.leader = left]
                   ELSE [client[r] EXCEPT !.leader = left, !.excuse = "docker run failed"]
          IN  client' = [client EXCEPT ![r] = c] /\ (Native => left # "starting")
    BY <1>4 DEF startProcess, startContainer, OwnBecomes, Becomes, Own
  <2> DEFINE b == [[adapter EXCEPT !.err = TRUE] EXCEPT !.pc = "returned"]
             c == IF Native THEN [client[r] EXCEPT !.leader = left]
                  ELSE [client[r] EXCEPT !.leader = left, !.excuse = "docker run failed"]
  <2>2. b \in AdapterRec /\ b.pc = "returned" /\ b.err = TRUE /\ b.status = adapter.status
        /\ b.talks = adapter.talks /\ b.collected = adapter.collected
    BY Here DEF AdapterRec
  <2>3. adapter' = b /\ client' = [client EXCEPT ![r] = c]
    BY <1>4, <2>1 DEF startProcess, startContainer, Returns
  <2>4. c \in ClientRec /\ Sound(c) /\ c.job = client[r].job /\ c.report = client[r].report
        /\ c.perf = "off" /\ Left(c)
    <3>1. /\ c \in ClientRec /\ c.leader = left /\ c.helper = client[r].helper
          /\ c.job = client[r].job /\ c.report = client[r].report /\ c.perf = client[r].perf
          /\ c.excuse = IF Native THEN client[r].excuse ELSE "docker run failed"
      BY Here DEF ClientRec, Leaders
    <3> HIDE DEF c
    <3>2. ~c.helper /\ c.report = "none" /\ c.perf = "off"
          /\ c.excuse = (IF Native THEN "none" ELSE "docker run failed")
      <4>1. /\ ~NewClient.helper /\ NewClient.report = "none" /\ NewClient.perf = "off"
            /\ NewClient.excuse = "none"
        BY DEF NewClient
      <4> QED
        BY <1>1, <3>1, <4>1
    <3> QED
      BY <3>1, <3>2, <2>1 DEF Sound, Left
  <2> HIDE DEF b, c
  <2>5. Now(b, c, result[r])
    BY <1>1, <2>2, <2>4, Here DEF Now
  <2> QED
    BY <1>1, <1>2, <2>2, <2>3, <2>4, <2>5, Here, OwnStep
<1> QED
  BY <1>3, <1>4

\* perf is started, where there is one, or the step leaves the client alone.
LEMMA CounterSteps ==
    ASSUME IInv, startCounters \/ startJobCounters
    PROVE  IInv'
<1>1. /\ UNCHANGED <<lane, r, result>>
      /\ adapter.pc \in {"counters", "job_counters"} /\ ~Native
  BY Here DEF startCounters, startJobCounters, At, Now
<1>2. PICK perf \in {"off", "on"} :
         /\ client' = [client EXCEPT ![r] = [client[r] EXCEPT !.perf = perf]]
         /\ adapter.pc = "counters" /\ lane = "sequential" => perf = "off"
  <2>1. client = [client EXCEPT ![r] = client[r]] /\ client[r] = [client[r] EXCEPT !.perf = client[r].perf]
    BY Here DEF ClientRec
  <2>2. client[r].perf = "off"
    BY <1>1, Here DEF Now
  <2> QED
    BY <2>1, <2>2 DEF startCounters, startJobCounters, StartPerf, OwnBecomes, Becomes, Own, At
<1>3. PICK pc \in {"await", "endpoint", "submit"} : adapter' = [adapter EXCEPT !.pc = pc]
         /\ (adapter.pc = "counters" => pc = IF lane = "cli" THEN "await" ELSE "endpoint")
         /\ (adapter.pc = "job_counters" => pc = "submit")
  BY DEF startCounters, startJobCounters, Goto, At
<1> DEFINE b == [adapter EXCEPT !.pc = pc]
           c == [client[r] EXCEPT !.perf = perf]
<1>4. b \in AdapterRec /\ b.pc = pc /\ b.err = adapter.err /\ b.status = adapter.status
      /\ b.talks = adapter.talks /\ b.collected = adapter.collected
  BY Here, GotoKeeps
<1>5. /\ c \in ClientRec /\ c.leader = client[r].leader /\ c.helper = client[r].helper
      /\ c.job = client[r].job /\ c.report = client[r].report
      /\ c.excuse = client[r].excuse /\ c.perf = perf
  BY Here DEF ClientRec
<1>6. adapter' = b /\ client' = [client EXCEPT ![r] = c] /\ result' = [result EXCEPT ![r] = result[r]]
  BY <1>1, <1>2, <1>3, Here
<1> HIDE DEF b, c
<1>7. Sound(c)
  BY <1>1, <1>5, Here DEF Sound
<1>8. Now(b, c, result[r]) /\ (lane = "cli" => pc # "submit")
  BY <1>1, <1>2, <1>3, <1>4, <1>5, Here DEF Now
<1> QED
  BY <1>1, <1>3, <1>4, <1>5, <1>6, <1>7, <1>8, Here, OwnStep

\* waitUntilReady: whoever answers is the run's own client or a late starter.
LEMMA ReadyStep ==
    ASSUME IInv, waitUntilReady
    PROVE  IInv'
<1>1. PICK q \in Listening :
          adapter' = [adapter EXCEPT !.talks = q,
                                     !.pc = IF lane = "sequential" THEN "job_counters" ELSE "submit"]
  BY DEF waitUntilReady
<1>2. adapter.pc = "ready" /\ UNCHANGED <<lane, r, client, result>>
  BY DEF waitUntilReady, At
<1>3. q \in Runs /\ client[q].leader = "up" /\ (q # r => Native)
  BY DEF Listening
<1> DEFINE pc == IF lane = "sequential" THEN "job_counters" ELSE "submit"
           b == [adapter EXCEPT !.talks = q, !.pc = pc]
<1>4. b \in AdapterRec /\ b.pc = pc /\ b.err = adapter.err /\ b.status = adapter.status
      /\ b.talks = q /\ b.collected = adapter.collected
  BY <1>3, Here DEF AdapterRec
<1>5. adapter' = b
  BY <1>1
<1> HIDE DEF b
<1>6. pc = (IF lane = "sequential" THEN "job_counters" ELSE "submit") /\ lane # "cli"
      /\ (lane = "sequential" => ~Native)
  BY <1>2, Here DEF Now, Native, NativeLanes
<1> HIDE DEF pc
<1>8. Now(b, client[r], result[r])
  BY <1>2, <1>4, <1>6, Here DEF Now
<1>9. q # r => client[q].excuse \in Late
  BY <1>2, <1>3 DEF IInv, PortKept
<1>10. Seen(b, client) /\ Talking(b, client) /\ PortKept(b, client)
  <2>1. b.status = "none"
    BY <1>2, <1>4, Here DEF Now
  <2> QED
    BY <1>3, <1>4, <1>6, <1>9, <2>1 DEF Seen, Talking, PortKept, Ended
<1>11. client' = [client EXCEPT ![r] = client[r]] /\ result' = [result EXCEPT ![r] = result[r]]
  BY <1>2, Here
<1>12. ~(r < r) /\ ~(r > r)
  BY Here DEF Runs
<1> QED
  BY <1>2, <1>4, <1>5, <1>8, <1>10, <1>11, <1>12, Here, AnyStep

\* An outcome is taken down: what was seen must be what the client reports.
LEMMA ObservedStep ==
    ASSUME IInv, NEW status \in Results \ {"none"}, Observed(status), adapter.pc = "await",
           UNCHANGED <<lane, r, client, result>>,
           status \in Ended =>
              IF lane = "cli" THEN client[r].job = status /\ client[r].report = "complete"
              ELSE adapter.talks \in Runs /\ client[adapter.talks].job = status
    PROVE  IInv'
<1> DEFINE pc == IF Native THEN "stop" ELSE "finish"
           b == [adapter EXCEPT !.status = status, !.pc = pc]
<1>1. b \in AdapterRec /\ b.pc = pc /\ b.err = adapter.err /\ b.status = status
      /\ b.talks = adapter.talks /\ b.collected = adapter.collected
  BY Here DEF AdapterRec
<1>2. adapter' = b
  BY DEF Observed
<1> HIDE DEF b
<1>3. Native => client[r].perf = "off"
  BY Here DEF Sound
<1>4. Now(b, client[r], result[r])
  BY <1>1, <1>3, Here DEF Now
<1>5. Seen(b, client) /\ Talking(b, client) /\ PortKept(b, client)
  BY <1>1 DEF Seen, Talking, PortKept, IInv
<1>6. client' = [client EXCEPT ![r] = client[r]] /\ result' = [result EXCEPT ![r] = result[r]]
  BY Here
<1>7. ~(r < r) /\ ~(r > r)
  BY Here DEF Runs
<1> QED
  BY <1>1, <1>2, <1>4, <1>5, <1>6, <1>7, Here, AnyStep

\* The wait for the job, by polling or by report.
LEMMA AwaitSteps ==
    ASSUME IInv, awaitTerminal \/ awaitTimeout \/ awaitFails \/ readReport \/ reportMissing
    PROVE  IInv'
<1>1. adapter.pc = "await" /\ UNCHANGED <<lane, r, client, result>>
  BY DEF awaitTerminal, awaitTimeout, awaitFails, readReport, reportMissing, At
<1>2. CASE Fails
  BY <1>1, <1>2, FailStep
<1>3. CASE awaitTerminal /\ ~Fails
  <2>1. Observed(Peer.job) /\ Peer.job \in Ended /\ lane # "cli"
    BY <1>3 DEF awaitTerminal, Ended
  <2>2. adapter.talks \in Runs
    BY <1>1, <2>1 DEF IInv, Talking
  <2>3. Peer.job \in Results \ {"none"} /\ Peer.job = client[adapter.talks].job
    BY <2>1 DEF Results, Ended, Peer
  <2> QED
    BY <1>1, <2>1, <2>2, <2>3, ObservedStep
<1>4. CASE awaitTimeout
  <2>1. Observed("timed_out") /\ "timed_out" \in Results \ {"none"} /\ "timed_out" \notin Ended
    BY <1>4 DEF awaitTimeout, Results, Ended
  <2> QED
    BY <1>1, <2>1, ObservedStep
<1>5. CASE readReport
  <2>1. Observed("succeeded") /\ lane = "cli" /\ client[r].report = "complete"
    BY <1>5 DEF readReport, validReport, Own
  <2>2. client[r].job = "succeeded"
    BY <2>1, Here DEF Sound
  <2>3. "succeeded" \in Results \ {"none"}
    BY DEF Results, Ended
  <2> QED
    BY <1>1, <2>1, <2>2, <2>3, ObservedStep
<1> QED
  BY <1>2, <1>3, <1>4, <1>5 DEF awaitFails, reportMissing

\* A submission: the client talked to may have the job, and the adapter waits,
\* records the refusal or unwinds.
LEMMA SubmitStep ==
    ASSUME IInv, NEW b \in AdapterRec, NEW job \in {"none", "running"} \union Ended,
           adapter.pc = "submit", adapter' = b, UNCHANGED <<lane, r, result>>,
           client' = [client EXCEPT ![adapter.talks] = [client[adapter.talks] EXCEPT !.job = job]],
           job \in {client[adapter.talks].job, "running"},
           b.talks = adapter.talks, b.status \notin Ended, b.pc \notin {"launch", "ready"},
           \A c \in ClientRec : Sound(c) /\ Now(adapter, c, result[r]) => Now(b, c, result[r])
    PROVE  IInv'
<1> DEFINE t == adapter.talks
           c == [client[t] EXCEPT !.job = job]
<1>1. t \in Runs
  BY DEF IInv, Talking
<1>2. lane # "cli"
  BY Here DEF Now
<1>3. client[t] \in ClientRec /\ Sound(client[t])
  BY <1>1, Here DEF IInv
<1>4. /\ c \in ClientRec /\ c.leader = client[t].leader /\ c.helper = client[t].helper
      /\ c.job = job /\ c.report = client[t].report /\ c.perf = client[t].perf
      /\ c.excuse = client[t].excuse
  BY <1>3 DEF ClientRec
<1>5. client' = [client EXCEPT ![t] = c]
  OBVIOUS
<1> HIDE DEF c, t
<1>6. Sound(c)
  BY <1>2, <1>3, <1>4 DEF Sound
<1>7. t < r => Left(c)
  BY <1>1, <1>3, <1>4 DEF IInv, Others, Left
<1>8. ~(t > r)
  <2>1. t # r => client[t].excuse \in Late
    <3>1. t # None
      BY <1>1, LifetimeAssumption DEF None, Runs
    <3> QED
      BY <3>1 DEF IInv, Talking, t
  <2>2. NewClient.excuse \notin Late
    BY DEF NewClient, Late
  <2>3. t > r => t # r
    BY <1>1, Here DEF Runs
  <2> QED
    BY <1>1, <2>1, <2>2, <2>3 DEF IInv, Others
<1>9. Now(b, client'[r], result[r])
  <2>1. client'[r] \in ClientRec /\ client'[r].perf = client[r].perf
        /\ client'[r].excuse = client[r].excuse /\ client'[r].leader = client[r].leader
    BY <1>1, <1>4, <1>5, Here
  <2>2. Now(adapter, client'[r], result[r])
    BY <2>1, Here DEF Now
  <2>3. Sound(client'[r])
    BY <1>1, <1>5, <1>6, Here
  <2> QED
    BY <2>1, <2>2, <2>3
<1>10. Seen(b, client') /\ PortKept(b, client')
  BY DEF Seen, PortKept
<1>11. Talking(b, client')
  <2>1. client'[t].excuse = client[t].excuse
    BY <1>1, <1>4, <1>5, Here
  <2> QED
    BY <1>1, <2>1 DEF IInv, Talking, t
<1>12. result' = [result EXCEPT ![r] = result[r]]
  BY Here
<1> QED
  BY <1>1, <1>4, <1>5, <1>6, <1>7, <1>8, <1>9, <1>10, <1>11, <1>12, Here, AnyStep

\* queue and its failures.
LEMMA QueueSteps ==
    ASSUME IInv, queue \/ \E refused \in BOOLEAN : queueFails(refused)
    PROVE  IInv'
<1>1. adapter.pc = "submit" /\ UNCHANGED <<lane, r, result>> /\ adapter.talks \in Runs
      /\ adapter.status = "none"
  <2>1. adapter.pc = "submit" /\ UNCHANGED <<lane, r, result>>
    BY DEF queue, queueFails, At
  <2> QED
    BY <2>1, Here DEF IInv, Talking, Now
<1>2. client[adapter.talks] \in ClientRec
  BY <1>1, Here
<1>3. ASSUME queue PROVE IInv'
  <2> DEFINE b == [adapter EXCEPT !.pc = "await"]
  <2>1. b \in AdapterRec /\ b.pc = "await" /\ b.err = adapter.err /\ b.status = adapter.status
        /\ b.talks = adapter.talks /\ b.collected = adapter.collected
    BY Here, GotoKeeps
  <2>2. adapter' = b
        /\ client' = [client EXCEPT ![adapter.talks] = [client[adapter.talks] EXCEPT !.job = "running"]]
    BY <1>3 DEF queue, Goto, Becomes, Peer
  <2> HIDE DEF b
  <2>3. \A c \in ClientRec : Sound(c) /\ Now(adapter, c, result[r]) => Now(b, c, result[r])
    BY <1>1, <2>1 DEF Now
  <2> QED
    BY <1>1, <2>1, <2>2, <2>3, SubmitStep DEF Ended
<1>4. ASSUME NEW refused \in BOOLEAN, queueFails(refused) PROVE IInv'
  <2>1. PICK job \in {client[adapter.talks].job, "running"} :
           client' = [client EXCEPT ![adapter.talks] = [client[adapter.talks] EXCEPT !.job = job]]
    <3>1. CASE refused
      <4>1. client = [client EXCEPT ![adapter.talks] = client[adapter.talks]]
            /\ client[adapter.talks] = [client[adapter.talks] EXCEPT !.job = client[adapter.talks].job]
        BY <1>1, <1>2, Here DEF ClientRec
      <4> QED
        BY <1>4, <3>1, <4>1 DEF queueFails
    <3>2. CASE ~refused
      BY <1>4, <3>2 DEF queueFails, Becomes, Peer
    <3> QED
      BY <3>1, <3>2
  <2>2. job \in {"none", "running"} \union Ended
    BY <1>2 DEF ClientRec
  <2>3. CASE Fails
    <3> DEFINE b == Unwound(adapter)
    <3>1. /\ \A c \in ClientRec : Sound(c) /\ Now(adapter, c, result[r]) => Now(b, c, result[r])
          /\ b \in AdapterRec /\ b.status = adapter.status /\ b.talks = adapter.talks
          /\ b.pc \in {"stop", "ensure", "unmetered"}
      BY <1>1, Here, UnwoundNow
    <3>2. adapter' = b
      BY <2>3 DEF Fails
    <3> HIDE DEF b
    <3> QED
      BY <1>1, <2>1, <2>2, <3>1, <3>2, SubmitStep DEF Ended
  <2>4. CASE ~Fails
    <3> DEFINE b == [adapter EXCEPT !.status = "refused", !.pc = "finish"]
    <3>1. b \in AdapterRec /\ b.status = "refused" /\ b.talks = adapter.talks /\ b.pc = "finish"
          /\ b.err = adapter.err /\ b.collected = adapter.collected
      BY Here DEF AdapterRec, Results
    <3>2. adapter' = b /\ lane \in {"queued", "sequential"}
      BY <1>4, <2>4 DEF queueFails
    <3> HIDE DEF b
    <3>3. ~Native
      BY <3>2 DEF Native, NativeLanes
    <3>4. \A c \in ClientRec : Sound(c) /\ Now(adapter, c, result[r]) => Now(b, c, result[r])
      BY <1>1, <3>1, <3>2, <3>3 DEF Now
    <3> QED
      BY <1>1, <2>1, <2>2, <3>1, <3>2, <3>4, SubmitStep DEF Ended
  <2> QED
    BY <2>3, <2>4
<1> QED
  BY <1>3, <1>4

\* finish begins, or perf is killed: the counters are wound down.
LEMMA MeterSteps ==
    ASSUME IInv, finishMetrics \/ perfKilled
    PROVE  IInv'
<1>1. /\ UNCHANGED <<lane, r, result>>
      /\ adapter.pc \in {"finish", "unmetered", "perf", "perf_deferred"} /\ ~Native
  BY Here DEF finishMetrics, perfKilled, At, Now
<1>2. PICK perf \in {"off", "asked", "killed"} :
         /\ client' = [client EXCEPT ![r] = [client[r] EXCEPT !.perf = perf]]
         /\ perf # "off" => client[r].perf # "off"
  <2>1. client[r].perf \in {"off", "on", "asked", "killed"}
    BY Here DEF ClientRec
  <2> QED
    BY <2>1 DEF finishMetrics, perfKilled, OwnBecomes, Becomes, Own
<1>3. PICK pc \in {"perf", "perf_deferred"} : adapter' = [adapter EXCEPT !.pc = pc]
         /\ (pc = "perf" => adapter.pc \in {"finish", "perf"})
         /\ (pc = "perf_deferred" => adapter.pc \in {"unmetered", "perf_deferred"})
  <2>1. CASE finishMetrics
    BY <2>1 DEF finishMetrics, At
  <2>2. CASE perfKilled
    <3>1. adapter = [adapter EXCEPT !.pc = adapter.pc]
      BY Here DEF AdapterRec
    <3> QED
      BY <2>2, <3>1 DEF perfKilled
  <2> QED
    BY <2>1, <2>2
<1> DEFINE b == [adapter EXCEPT !.pc = pc]
           c == [client[r] EXCEPT !.perf = perf]
<1>4. b \in AdapterRec /\ b.pc = pc /\ b.err = adapter.err /\ b.status = adapter.status
      /\ b.talks = adapter.talks /\ b.collected = adapter.collected
  BY Here, GotoKeeps
<1>5. /\ c \in ClientRec /\ c.leader = client[r].leader /\ c.helper = client[r].helper
      /\ c.job = client[r].job /\ c.report = client[r].report
      /\ c.excuse = client[r].excuse /\ c.perf = perf
  BY Here DEF ClientRec
<1>6. adapter' = b /\ client' = [client EXCEPT ![r] = c] /\ result' = [result EXCEPT ![r] = result[r]]
  BY <1>1, <1>2, <1>3, Here
<1> HIDE DEF b, c
<1>7. Sound(c)
  BY <1>1, <1>5, Here DEF Sound
<1>8. Now(b, c, result[r])
  BY <1>1, <1>2, <1>3, <1>4, <1>5, Here DEF Now
<1> QED
  BY <1>1, <1>3, <1>4, <1>5, <1>6, <1>7, <1>8, Here, OwnStep

\* The artifacts and the acknowledgement.
LEMMA ArtifactStep ==
    ASSUME IInv, NEW perfOk \in BOOLEAN, NEW ackOk \in BOOLEAN, writeArtifacts(perfOk, ackOk)
    PROVE  IInv'
<1>1. adapter.pc = "artifact" /\ UNCHANGED <<lane, r, result>>
  BY DEF writeArtifacts, At
<1> DEFINE a == [adapter EXCEPT !.collected = perfOk]
<1>2. /\ a \in AdapterRec /\ a.pc = "artifact" /\ a.err = adapter.err /\ a.status = adapter.status
      /\ a.talks = adapter.talks
  BY <1>1, Here DEF AdapterRec
<1>3. Now(a, client[r], result[r]) /\ client[r].perf = "off" /\ ~Native
  <2> HIDE DEF a
  <2> QED
    BY <1>1, <1>2, Here DEF Now
<1>4. result' = [result EXCEPT ![r] = result[r]]
  BY <1>1, Here
<1>5. CASE perfOk /\ ackOk
  <2> DEFINE b == [a EXCEPT !.pc = "record"]
             acked == lane = "cli"
             c == [client[r] EXCEPT !.acked = acked]
  <2>1. adapter' = b /\ client' = [client EXCEPT ![r] = c]
    BY <1>5 DEF writeArtifacts, OwnBecomes, Becomes, Own
  <2>2. b \in AdapterRec /\ b.pc = "record" /\ b.err = a.err /\ b.status = a.status
        /\ b.talks = a.talks /\ b.collected = a.collected
    BY <1>2 DEF AdapterRec
  <2>3. acked \in BOOLEAN
    OBVIOUS
  <2> HIDE DEF acked
  <2>4. /\ c \in ClientRec /\ c.leader = client[r].leader /\ c.helper = client[r].helper
        /\ c.job = client[r].job /\ c.report = client[r].report
        /\ c.excuse = client[r].excuse /\ c.perf = client[r].perf
    BY <2>3, Here DEF ClientRec
  <2> HIDE DEF b, c, a
  <2>5. Sound(c)
    BY <2>4, Here DEF Sound
  <2>6. Now(b, c, result[r])
    BY <1>1, <1>2, <1>3, <2>2, <2>4, Here DEF Now
  <2> QED
    BY <1>1, <1>2, <1>4, <2>1, <2>2, <2>4, <2>5, <2>6, Here, OwnStep
<1>6. CASE ~(perfOk /\ ackOk)
  <2> DEFINE b == Unwound(a)
  <2>1. adapter' = b /\ UNCHANGED client
    BY <1>6 DEF writeArtifacts
  <2> HIDE DEF a
  <2>2. /\ b \in AdapterRec /\ Now(b, client[r], result[r])
        /\ b.status = a.status /\ b.talks = a.talks /\ b.pc \in {"stop", "ensure", "unmetered"}
    BY <1>2, <1>3, Here, UnwoundNow
  <2> HIDE DEF b
  <2> QED
    BY <1>1, <1>2, <2>1, <2>2, AloneStep
<1> QED
  BY <1>5, <1>6

\* cleanup: the logs, then the container.
LEMMA CleanupSteps ==
    ASSUME IInv, NEW ok \in BOOLEAN, cleanupLogs(ok) \/ cleanupRemove(ok)
    PROVE  IInv'
<1>1. UNCHANGED <<lane, r, result>> /\ result' = [result EXCEPT ![r] = result[r]]
  BY Here DEF cleanupLogs, cleanupRemove
<1>2. CASE cleanupLogs(ok)
  <2> DEFINE b == [adapter EXCEPT !.pc = "remove", !.logs = ok]
  <2>1. b \in AdapterRec /\ b.pc = "remove" /\ b.err = adapter.err /\ b.status = adapter.status
        /\ b.talks = adapter.talks /\ b.collected = adapter.collected
    BY Here DEF AdapterRec
  <2>2. adapter' = b /\ adapter.pc = "logs" /\ UNCHANGED client
    BY <1>2 DEF cleanupLogs, At
  <2> HIDE DEF b
  <2>3. Now(b, client[r], result[r])
    BY <2>1, <2>2, Here DEF Now
  <2> QED
    BY <1>1, <2>1, <2>2, <2>3, AloneStep
<1>3. CASE cleanupRemove(ok)
  <2> DEFINE b == [adapter EXCEPT !.pc = "returned"]
  <2>1. b \in AdapterRec /\ b.pc = "returned" /\ b.err = adapter.err /\ b.status = adapter.status
        /\ b.talks = adapter.talks /\ b.collected = adapter.collected
    BY Here, GotoKeeps
  <2>2. adapter' = b /\ adapter.pc = "remove"
    BY <1>3 DEF cleanupRemove, Returns, At
  <2> HIDE DEF b
  <2>3. client[r].perf = "off" /\ client[r].excuse = "none" /\ ~Native
    BY <2>2, Here DEF Now
  <2>4. PICK left \in Leaders, helper \in BOOLEAN, excuse \in {"none", "docker rm failed"} :
          /\ client' = [client EXCEPT ![r] = [client[r] EXCEPT !.leader = left, !.helper = helper,
                                                              !.excuse = excuse]]
          /\ excuse = "none" => left = "gone"
          /\ left = "gone" => ~helper
          /\ left # "gone" => left = client[r].leader /\ helper = client[r].helper
    <3>1. CASE ok
      <4>1. [client[r] EXCEPT !.leader = "gone", !.helper = FALSE]
            = [client[r] EXCEPT !.leader = "gone", !.helper = FALSE, !.excuse = "none"]
        BY <2>3, Here DEF ClientRec
      <4>2. client' = [client EXCEPT ![r] = [client[r] EXCEPT !.leader = "gone", !.helper = FALSE]]
        BY <1>3, <3>1 DEF cleanupRemove, OwnBecomes, Becomes, Own
      <4>3. "gone" \in Leaders /\ FALSE \in BOOLEAN
        BY DEF Leaders
      <4> QED
        BY <4>1, <4>2, <4>3
    <3>2. CASE ~ok
      <4>1. PICK left \in {client[r].leader, "gone"} :
              client' = [client EXCEPT ![r] = [client[r] EXCEPT !.leader = left,
                          !.helper = client[r].helper /\ left # "gone", !.excuse = "docker rm failed"]]
        BY <1>3, <3>2 DEF cleanupRemove, OwnBecomes, Becomes, Own
      <4> DEFINE helper == client[r].helper /\ left # "gone"
      <4>2. left \in Leaders /\ client[r].helper \in BOOLEAN
        BY Here DEF ClientRec, Leaders
      <4>3. helper \in BOOLEAN /\ (left = "gone" => ~helper) /\ (left # "gone" => helper = client[r].helper)
        BY <4>2, Zenon
      <4>4. client' = [client EXCEPT ![r] = [client[r] EXCEPT !.leader = left,
                          !.helper = helper, !.excuse = "docker rm failed"]]
        BY <4>1
      <4> HIDE DEF helper
      <4> QED
        BY <4>1, <4>2, <4>3, <4>4
    <3> QED
      BY <3>1, <3>2
  <2> DEFINE c == [client[r] EXCEPT !.leader = left, !.helper = helper, !.excuse = excuse]
  <2>5. /\ c \in ClientRec /\ c.leader = left /\ c.helper = helper
        /\ c.job = client[r].job /\ c.report = client[r].report
        /\ c.excuse = excuse /\ c.perf = client[r].perf
    BY Here DEF ClientRec
  <2>6. client' = [client EXCEPT ![r] = c]
    BY <2>4
  <2> HIDE DEF c
  <2>7. Sound(c)
    BY <2>3, <2>4, <2>5, Here DEF Sound
  <2>8. Left(c)
    BY <2>3, <2>4, <2>5 DEF Left
  <2>9. Now(b, c, result[r])
    BY <2>1, <2>2, <2>3, <2>5, <2>8, Here DEF Now
  <2> QED
    BY <1>1, <2>1, <2>2, <2>5, <2>6, <2>7, <2>9, Here, OwnStep
<1> QED
  BY <1>2, <1>3

\* Steps that only move the adapter, or unwind it.
LEMMA MoveSteps ==
    ASSUME IInv,
           \/ \E ok \in BOOLEAN : resolveEndpoint(ok) \/ measure(ok)
           \/ NotReady \/ metricsCollected \/ perfStopped \/ stop \/ stopExited
    PROVE  IInv'
<1>1. UNCHANGED <<lane, r, client, result>>
  BY DEF resolveEndpoint, measure, NotReady, metricsCollected, perfStopped, stop, stopExited
<1>2. CASE Fails /\ adapter.pc \in {"endpoint", "ready", "measure"}
  BY <1>1, <1>2, FailStep
<1>3. CASE Goto("ready") /\ adapter.pc = "endpoint"
  BY <1>1, <1>3, MoveStep
<1>4. CASE Goto("ensure") /\ adapter.pc = "measure"
  BY <1>1, <1>4, MoveStep
<1>5. CASE metricsCollected
  BY <1>1, <1>5, MoveStep DEF metricsCollected, At
<1>6. CASE perfStopped
  <2> DEFINE pc == IF adapter.pc = "perf" THEN "artifact" ELSE "logs"
  <2>1. Goto(pc) /\ adapter.pc \in {"perf", "perf_deferred"} /\ client[r].perf = "off" /\ pc \in Pcs
    BY <1>6 DEF perfStopped, At, Own
  <2> QED
    BY <1>1, <2>1, MoveStep
<1>7. CASE stop \/ stopExited
  <2>1. PICK pc \in {"stopping", "ensure", "measure"} :
          Goto(pc) /\ (pc = "stopping" \/ pc = IF adapter.err THEN "ensure" ELSE "measure")
    BY <1>7 DEF stop, stopExited
  <2>2. adapter.pc \in {"stop", "stopping"}
    BY <1>7 DEF stop, stopExited, At
  <2> QED
    BY <1>1, <2>1, <2>2, MoveStep
<1>8. ASSUME NEW ok \in BOOLEAN, resolveEndpoint(ok)
      PROVE  (Fails \/ Goto("ready")) /\ adapter.pc = "endpoint"
  BY <1>8 DEF resolveEndpoint, At
<1>9. ASSUME NEW ok \in BOOLEAN, measure(ok)
      PROVE  (Fails \/ Goto("ensure")) /\ adapter.pc = "measure"
  BY <1>9 DEF measure, At
<1>10. NotReady => Fails /\ adapter.pc = "ready"
  BY DEF NotReady, At
<1> QED
  BY <1>2, <1>3, <1>4, <1>5, <1>6, <1>7, <1>8, <1>9, <1>10

\* SIGKILL to the group.
LEMMA KilledGroupSound ==
    ASSUME NEW c \in ClientRec, Sound(c)
    PROVE  LET d == KilledGroup(c)
           IN  /\ d \in ClientRec /\ Sound(d) /\ d.leader = "dying" /\ ~d.helper
               /\ d.job = c.job /\ d.report = c.report /\ d.perf = c.perf /\ d.excuse = c.excuse
<1> DEFINE d == KilledGroup(c)
<1>1. /\ d \in ClientRec /\ d.leader = "dying" /\ d.helper = FALSE
      /\ d.job = c.job /\ d.report = c.report /\ d.perf = c.perf /\ d.excuse = c.excuse
  BY DEF KilledGroup, ClientRec, Leaders
<1> HIDE DEF d
<1>2. Sound(d)
  BY <1>1 DEF Sound
<1> QED
  BY <1>1, <1>2 DEF d

\* The native lanes' last resort, and the client it may leave.
LEMMA StopSteps ==
    ASSUME IInv, stopFails \/ stopKills \/ \E killed \in BOOLEAN : ensureStopped(killed)
    PROVE  IInv'
<1>1. /\ UNCHANGED <<lane, r, result>> /\ result' = [result EXCEPT ![r] = result[r]]
      /\ adapter.pc \in {"stop", "stopping", "ensure"} /\ Native
  BY Here DEF stopFails, stopKills, ensureStopped, At, Now
<1>2. lane # "cli"
  BY <1>1 DEF Native, NativeLanes
<1>3. CASE stopFails
  <2> DEFINE b == [adapter EXCEPT !.err = TRUE, !.pc = "ensure"]
  <2>1. b \in AdapterRec /\ b.pc = "ensure" /\ b.err = TRUE /\ b.status = adapter.status
        /\ b.talks = adapter.talks /\ b.collected = adapter.collected
    BY Here DEF AdapterRec
  <2>2. adapter' = b /\ UNCHANGED client
    BY <1>3 DEF stopFails
  <2> HIDE DEF b
  <2>3. Now(b, client[r], result[r])
    BY <1>1, <2>1, <2>2, Here DEF Now
  <2> QED
    BY <1>1, <2>1, <2>2, <2>3, AloneStep
<1>4. CASE stopKills
  <2> DEFINE pc == IF adapter.err THEN "ensure" ELSE "measure"
             b == [adapter EXCEPT !.pc = pc]
             c == KilledGroup(client[r])
  <2>1. pc \in Pcs /\ (adapter.err => pc = "ensure") /\ (~adapter.err => pc = "measure")
    OBVIOUS
  <2> HIDE DEF pc
  <2>2. b \in AdapterRec /\ b.pc = pc /\ b.err = adapter.err /\ b.status = adapter.status
        /\ b.talks = adapter.talks /\ b.collected = adapter.collected
    BY <2>1, Here, GotoKeeps
  <2>3. adapter' = b /\ client' = [client EXCEPT ![r] = c]
    BY <1>4 DEF stopKills, Goto, OwnBecomes, Becomes, Own, pc
  <2>4. /\ c \in ClientRec /\ Sound(c) /\ c.leader = "dying" /\ c.job = client[r].job
        /\ c.report = client[r].report /\ c.perf = client[r].perf /\ c.excuse = client[r].excuse
    BY Here, KilledGroupSound
  <2> HIDE DEF b, c
  <2>5. Now(b, c, result[r])
    BY <1>1, <2>1, <2>2, <2>4, Here DEF Now
  <2> QED
    BY <1>1, <2>1, <2>2, <2>3, <2>4, <2>5, Here, OwnStep
<1>5. ASSUME NEW killed \in BOOLEAN, ensureStopped(killed)
      PROVE  IInv'
  <2> DEFINE pc == IF adapter.err THEN "returned" ELSE "record"
             b == [adapter EXCEPT !.pc = pc]
             excuse == IF client[r].leader = "starting" THEN "survived while starting" ELSE "survived"
             c == IF Exited THEN client[r]
                  ELSE IF killed THEN KilledGroup(client[r]) ELSE [client[r] EXCEPT !.excuse = excuse]
  <2>1. pc \in Pcs /\ (adapter.err => pc = "returned") /\ (~adapter.err => pc = "record")
    OBVIOUS
  <2> HIDE DEF pc
  <2>2. b \in AdapterRec /\ b.pc = pc /\ b.err = adapter.err /\ b.status = adapter.status
        /\ b.talks = adapter.talks /\ b.collected = adapter.collected
    BY <2>1, Here, GotoKeeps
  <2>3. adapter' = b /\ client' = [client EXCEPT ![r] = c] /\ adapter.pc = "ensure"
    <3>1. client = [client EXCEPT ![r] = client[r]]
      BY Here
    <3>2. CASE Exited
      BY <1>5, <3>1, <3>2 DEF ensureStopped, Goto, pc, At
    <3>3. CASE ~Exited
      BY <1>5, <3>3 DEF ensureStopped, Goto, OwnBecomes, Becomes, Own, pc, At
    <3> QED
      BY <3>2, <3>3
  <2>4. client[r].excuse = "none"
    BY <2>3, Here DEF Now
  <2>5. /\ c \in ClientRec /\ Sound(c)
        /\ c.leader \in {"none", "dead", "dying"} \/ c.excuse \in Survived
        /\ c.job = client[r].job /\ c.report = client[r].report /\ c.perf = client[r].perf
        /\ c.excuse \in {"none"} \union Survived
    <3>1. CASE Exited
      BY <2>4, <3>1, Here DEF Exited, Own
    <3>2. CASE ~Exited /\ killed
      BY <2>4, <3>2, Here, KilledGroupSound
    <3>3. CASE ~Exited /\ ~killed
      <4>1. excuse \in Survived /\ (excuse = "survived" => client[r].leader # "starting")
        BY DEF Survived
      <4> HIDE DEF excuse
      <4>2. /\ c \in ClientRec /\ c.excuse = excuse /\ c.leader = client[r].leader
            /\ c.helper = client[r].helper /\ c.job = client[r].job
            /\ c.report = client[r].report /\ c.perf = client[r].perf
        BY <3>3, <4>1, Here DEF ClientRec
      <4> HIDE DEF c
      <4>3. Sound(c)
        BY <1>1, <4>1, <4>2, Here DEF Sound, Survived
      <4> QED
        BY <4>1, <4>2, <4>3
    <3> QED
      BY <3>1, <3>2, <3>3
  <2> HIDE DEF b, c
  <2>6. Left(c)
    BY <1>1, <2>5 DEF Left, Sound, Survived
  <2>7. Now(b, c, result[r])
    <3>1. adapter.err => result[r] = "none"
      BY <2>3, Here DEF Now
    <3> QED
      BY <1>1, <2>1, <2>2, <2>3, <2>5, <2>6, <3>1, Here DEF Now
  <2> QED
    BY <1>1, <2>1, <2>2, <2>3, <2>4, <2>5, <2>7, Here, OwnStep
<1> QED
  BY <1>3, <1>4, <1>5

\* The result file.
LEMMA ResultStep ==
    ASSUME IInv, NEW ok \in BOOLEAN, Record(ok)
    PROVE  IInv'
<1>a. PICK recorded \in BOOLEAN : writeResult(recorded)
  BY DEF Record, Run, runSequentialQueue, runContainer, runQueue
<1> DEFINE x == IF recorded THEN adapter.status ELSE "none"
           pc == IF Native THEN "returned" ELSE "unmetered"
           a == [adapter EXCEPT !.err = ~recorded]
           b == [a EXCEPT !.pc = pc]
<1>1. adapter.pc = "record" /\ UNCHANGED <<lane, r, client>> /\ adapter' = b
  BY <1>a DEF writeResult, At
<1>2. result[r] = "none" /\ adapter.status # "none"
  BY <1>1, Here DEF Now
<1>3. result' = [result EXCEPT ![r] = x]
  <2>1. result = [result EXCEPT ![r] = result[r]]
    BY Here
  <2> QED
    BY <1>a, <1>2, <2>1 DEF writeResult
<1>4. recorded \in BOOLEAN /\ (recorded <=> x # "none") /\ x \in {"none", adapter.status} /\ x \in Results
  BY <1>2, Here DEF AdapterRec, Results
<1>5. (~recorded) \in BOOLEAN /\ pc \in Pcs
  BY <1>4
<1> HIDE DEF x
<1>6. /\ a \in AdapterRec /\ a.err = ~recorded /\ a.status = adapter.status
      /\ a.talks = adapter.talks /\ a.collected = adapter.collected
  BY <1>5, Here DEF AdapterRec
<1> HIDE DEF a
<1>7. /\ b \in AdapterRec /\ b.pc = pc /\ b.err = a.err /\ b.status = a.status
      /\ b.talks = a.talks /\ b.collected = a.collected
  BY <1>5, <1>6, GotoKeeps
<1> HIDE DEF b
<1>8. Native => Left(client[r])
  BY <1>1, Here DEF Now, Left, Sound, Survived
<1>9. Now(b, client[r], x)
  <2>1. (b.err <=> x = "none") /\ x \in {"none", b.status}
    BY <1>4, <1>6, <1>7
  <2>2. client[r].perf = "off" /\ (~Native => client[r].excuse = "none") /\ (lane = "cli" => ~Native)
    BY <1>1, Here DEF Now, Native, NativeLanes
  <2> QED
    BY <1>7, <1>8, <2>1, <2>2 DEF Now
<1>10. client' = [client EXCEPT ![r] = client[r]]
  BY <1>1, Here
<1> QED
  BY <1>1, <1>3, <1>4, <1>6, <1>7, <1>9, <1>10, Here, OwnStep

(***************************************************************************)
(* The harness and the clients.                                            *)
(***************************************************************************)
\* The adapter is killed, and nothing it deferred runs.
LEMMA KillStep ==
    ASSUME IInv, Kill
    PROVE  IInv'
<1> DEFINE b == [adapter EXCEPT !.pc = "killed"]
           excuse == IF client[r].leader = "starting" THEN "killed while starting" ELSE "killed"
           c == [client[r] EXCEPT !.excuse = excuse]
<1>1. b \in AdapterRec /\ b.pc = "killed" /\ b.err = adapter.err /\ b.status = adapter.status
      /\ b.talks = adapter.talks /\ b.collected = adapter.collected
  BY Here, GotoKeeps
<1>2. /\ adapter' = b /\ client' = [client EXCEPT ![r] = c] /\ UNCHANGED <<lane, r, result>>
      /\ result' = [result EXCEPT ![r] = result[r]] /\ adapter.pc \notin {"returned", "killed"}
  BY Here DEF Kill, Goto, OwnBecomes, Becomes, Own
<1>3. /\ c \in ClientRec /\ c.leader = client[r].leader /\ c.helper = client[r].helper
      /\ c.job = client[r].job /\ c.report = client[r].report
      /\ c.perf = client[r].perf /\ c.excuse = excuse
  BY Here DEF ClientRec, Killed
<1>4. excuse \in Killed /\ (excuse \in {"killed", "survived"} => client[r].leader # "starting")
  BY DEF Killed
<1> HIDE DEF b, c, excuse
<1>5. Sound(c)
  BY <1>3, <1>4, Here DEF Sound
<1>6. Now(b, c, result[r])
  BY <1>1, <1>3, <1>4, Here DEF Now
<1> QED
  BY <1>1, <1>2, <1>3, <1>5, <1>6, Here, OwnStep

\* The next run starts from what the last one left.
LEMMA NextRunStep ==
    ASSUME IInv, NextRun
    PROVE  IInv'
<1>1. /\ adapter.pc \in {"returned", "killed"} /\ r < MaxRuns /\ r' = r + 1
      /\ adapter' = NewAdapter /\ UNCHANGED <<lane, client, result>>
  BY DEF NextRun
<1>2. r \in Nat /\ r' \in Runs /\ r' > r
  BY <1>1, Here, LifetimeAssumption DEF Runs
<1>3. client[r'] = NewClient /\ result[r'] = "none"
  BY <1>2 DEF IInv, Others
<1>4. /\ NewAdapter \in AdapterRec /\ NewAdapter.pc = "prepare" /\ NewAdapter.status = "none"
      /\ NewAdapter.talks = None /\ ~NewAdapter.err /\ ~NewAdapter.collected
  BY DEF NewAdapter, AdapterRec, Results
<1>5. NewClient.excuse = "none" /\ NewClient.perf = "off"
  BY DEF NewClient
<1>6. Typed'
  BY <1>1, <1>2, <1>4 DEF IInv, Typed
<1>7. (\A q \in Runs : Sound(client[q]))'
  BY <1>1 DEF IInv, Sound, Native
<1>8. Now(adapter, client[r], result[r])'
  BY <1>1, <1>3, <1>4, <1>5 DEF Now
<1>9. Seen(adapter, client)' /\ Talking(adapter, client)' /\ PortKept(adapter, client)'
  BY <1>1, <1>4 DEF Seen, Talking, PortKept, Ended
<1>10. Left(client[r])
  BY <1>1, Here DEF Now, Left
<1>11. Others'
  <2> SUFFICES ASSUME NEW q \in Runs
               PROVE  (q < r' => Left(client[q]))
                      /\ (q > r' => client[q] = NewClient /\ result[q] = "none")
    BY <1>1 DEF Others, Left
  <2>1. (q < r' => q < r \/ q = r) /\ (q > r' => q > r)
    BY <1>1, <1>2 DEF Runs
  <2> QED
    BY <1>10, <2>1 DEF IInv, Others
<1> QED
  BY <1>6, <1>7, <1>8, <1>9, <1>11 DEF IInv

\* How a client may change by itself.
Drifts(d, c) ==
    /\ d # NewClient
    /\ c.excuse = d.excuse
    /\ c.perf \in {d.perf, "off"}
    /\ d.job \in Ended => c.job = d.job
    /\ d.report = "complete" => c.report = "complete"
    /\ c.leader \in {d.leader, "dead"} \/ (d.leader = "starting" /\ c.leader \in {"up", "away"})
    /\ c.helper => d.helper \/ d.leader \in {"up", "away"}

\* A run's leavings stay acceptable whatever they do.
LEMMA LeftDrifts ==
    ASSUME NEW d, NEW c, Left(d), Drifts(d, c)
    PROVE  Left(c)
BY DEF Left, Drifts

\* A client's own step.
LEMMA DriftStep ==
    ASSUME IInv, NEW q \in Runs, NEW c \in ClientRec, client' = [client EXCEPT ![q] = c],
           UNCHANGED <<lane, r, adapter, result>>, Sound(c), Drifts(client[q], c)
    PROVE  IInv'
<1>1. client'[q] = c /\ \A p \in Runs \ {q} : client'[p] = client[p]
  BY Here
<1>2. q < r => Left(c)
  BY LeftDrifts DEF IInv, Others
<1>3. ~(q > r)
  BY DEF IInv, Others, Drifts
<1>4. Now(adapter, client'[r], result[r])
  <2>1. CASE q = r
    <3>1. adapter.pc = "returned" => Left(c)
      BY <2>1, Here, LeftDrifts DEF Now
    <3>2. c.perf # "off" => client[r].perf # "off"
      BY <2>1 DEF Drifts
    <3>3. adapter.pc \notin FreshPcs
      BY <2>1, Here DEF Now, Drifts
    <3>4. adapter.pc = "record" /\ Native => c.leader \in {"none", "dead", "dying"} \/ c.excuse \in Survived
      BY <2>1, Here DEF Now, Drifts
    <3>5. c.excuse = client[r].excuse
      BY <2>1 DEF Drifts
    <3> QED
      BY <1>1, <2>1, <3>1, <3>2, <3>3, <3>4, <3>5, Here DEF Now
  <2>2. CASE q # r
    BY <1>1, <2>2, Here
  <2> QED
    BY <2>1, <2>2
<1>5. Seen(adapter, client')
  BY <1>1, Here DEF IInv, Seen, Drifts
<1>6. Talking(adapter, client')
  <2>1. ASSUME adapter.talks \notin {None, r} PROVE client'[adapter.talks].excuse \in Late
    <3>1. adapter.talks \in Runs /\ client[adapter.talks].excuse \in Late
      BY <2>1, Here DEF IInv, Talking, AdapterRec
    <3> QED
      BY <1>1, <3>1 DEF Drifts
  <2> QED
    BY <2>1 DEF IInv, Talking
<1>7. PortKept(adapter, client')
  <2> SUFFICES ASSUME Native, adapter.pc \in {"launch", "ready"}, NEW p \in Runs \ {r},
                      client'[p].leader = "up"
               PROVE  client'[p].excuse \in Late
    BY DEF PortKept
  <2>1. client[p].leader = "up" => client[p].excuse \in Late
    BY DEF IInv, PortKept
  <2>2. CASE p # q
    BY <1>1, <2>1, <2>2
  <2>3. CASE p = q /\ client[q].leader # "starting"
    BY <1>1, <2>1, <2>3 DEF Drifts
  <2>4. CASE p = q /\ client[q].leader = "starting"
    <3>1. q < r
      BY <1>3, <2>4, Here DEF Runs
    <3>2. client[q].excuse \in Killed \union Survived
      <4>1. Left(client[q]) /\ client[q].excuse \in {"none"} \union Killed \union Survived
        BY <3>1 DEF IInv, Others, Sound
      <4> QED
        BY <2>4, <4>1 DEF Left
    <3>3. client[q].excuse \notin {"killed", "survived"}
      BY <2>4 DEF IInv, Sound
    <3> QED
      BY <1>1, <2>4, <3>2, <3>3 DEF Drifts, Killed, Survived, Late
  <2> QED
    BY <2>2, <2>3, <2>4
<1>8. result' = [result EXCEPT ![r] = result[r]]
  BY Here
<1> QED
  BY <1>2, <1>3, <1>4, <1>5, <1>6, <1>7, <1>8, Here, AnyStep

\* Everything a client, its helper or its perf may do.
LEMMA ClientSteps ==
    ASSUME IInv, NEW q \in Runs, Client(q)
    PROVE  IInv'
<1> DEFINE d == client[q]
<1>1. d \in ClientRec /\ Sound(d) /\ UNCHANGED <<lane, r, adapter, result>>
  BY Here DEF IInv, Client, Listen, Exit, Helper, JobEnds, Cli, PerfExits
<1>2. NewClient.leader = "none" /\ NewClient.perf = "off" /\ NewClient.helper = FALSE
  BY DEF NewClient
<1>3. SUFFICES \E c \in ClientRec :
                  client' = [client EXCEPT ![q] = c] /\ Sound(c) /\ Drifts(d, c)
  BY <1>1, DriftStep
<1>4. ASSUME NEW leader \in Leaders, NEW helper \in BOOLEAN,
             client' = [client EXCEPT ![q] = [d EXCEPT !.leader = leader, !.helper = helper]],
             leader \in {d.leader, "dead"} \/ (d.leader = "starting" /\ leader \in {"up", "away"}),
             helper => d.helper \/ d.leader \in {"up", "away"},
             d.leader \in Alive \/ d.helper
      PROVE  \E c \in ClientRec :
                client' = [client EXCEPT ![q] = c] /\ Sound(c) /\ Drifts(d, c)
  <2> DEFINE c == [d EXCEPT !.leader = leader, !.helper = helper]
  <2>1. /\ c \in ClientRec /\ c.leader = leader /\ c.helper = helper /\ c.job = d.job
        /\ c.report = d.report /\ c.perf = d.perf /\ c.excuse = d.excuse
    BY <1>1 DEF ClientRec
  <2>2. client' = [client EXCEPT ![q] = c]
    BY <1>4
  <2> HIDE DEF c, d
  <2>3. d # NewClient
    BY <1>2, <1>4 DEF Alive
  <2>4. Sound(c)
    BY <1>1, <1>4, <2>1 DEF Sound
  <2>5. Drifts(d, c)
    BY <1>4, <2>1, <2>3 DEF Drifts
  <2> QED
    BY <2>1, <2>2, <2>4, <2>5
<1>5. ASSUME NEW job \in {"none", "running"} \union Ended,
             NEW report \in {"none", "torn", "complete", "not complete"},
             client' = [client EXCEPT ![q] = [d EXCEPT !.job = job, !.report = report]],
             d.leader \in {"up", "away"},
             d.job \in Ended => job = d.job,
             d.report = "complete" => report = "complete",
             report # "none" => lane = "cli" /\ job \in Ended,
             report = "complete" => job = "succeeded"
      PROVE  \E c \in ClientRec :
                client' = [client EXCEPT ![q] = c] /\ Sound(c) /\ Drifts(d, c)
  <2> DEFINE c == [d EXCEPT !.job = job, !.report = report]
  <2>1. /\ c \in ClientRec /\ c.leader = d.leader /\ c.helper = d.helper /\ c.job = job
        /\ c.report = report /\ c.perf = d.perf /\ c.excuse = d.excuse
    BY <1>1 DEF ClientRec
  <2>2. client' = [client EXCEPT ![q] = c]
    BY <1>5
  <2> HIDE DEF c, d
  <2>3. d # NewClient
    BY <1>2, <1>5
  <2>4. Sound(c)
    BY <1>1, <1>5, <2>1 DEF Sound
  <2>5. Drifts(d, c)
    BY <1>5, <2>1, <2>3 DEF Drifts
  <2> QED
    BY <2>1, <2>2, <2>4, <2>5
<1>6. d.leader \in Leaders /\ d.helper \in BOOLEAN /\ d.job \in {"none", "running"} \union Ended
      /\ d.report \in {"none", "torn", "complete", "not complete"}
  BY <1>1 DEF ClientRec
<1>7. CASE Listen(q)
  <2>1. PICK leader \in {"up", "away"} :
          client' = [client EXCEPT ![q] = [d EXCEPT !.leader = leader]]
    BY <1>7 DEF Listen, Becomes
  <2>2. [d EXCEPT !.leader = leader] = [d EXCEPT !.leader = leader, !.helper = d.helper]
    BY <1>1 DEF ClientRec
  <2>3. d.leader = "starting" /\ d.leader \in Alive /\ leader \in Leaders
    BY <1>7 DEF Listen, Alive, Leaders
  <2> HIDE DEF d
  <2> QED
    BY <1>4, <1>6, <2>1, <2>2, <2>3
<1>8. CASE Exit(q)
  <2> DEFINE helper == d.helper /\ Native
  <2>1. client' = [client EXCEPT ![q] = [d EXCEPT !.leader = "dead", !.helper = helper]]
    BY <1>8 DEF Exit, Becomes
  <2>2. helper \in BOOLEAN /\ (helper => d.helper)
    OBVIOUS
  <2>3. d.leader \in Alive /\ "dead" \in Leaders
    BY <1>8 DEF Exit, Leaders
  <2> HIDE DEF d, helper
  <2> QED
    BY <1>4, <2>1, <2>2, <2>3
<1>9. CASE Helper(q)
  <2> DEFINE helper == ~d.helper
  <2>1. client' = [client EXCEPT ![q] = [d EXCEPT !.helper = helper]]
    BY <1>9 DEF Helper, Becomes
  <2>2. [d EXCEPT !.helper = helper] = [d EXCEPT !.leader = d.leader, !.helper = helper]
    BY <1>1 DEF ClientRec
  <2>3. helper \in BOOLEAN /\ (d.helper \/ d.leader \in {"up", "away"})
    BY <1>9 DEF Helper
  <2>4. d.leader \in {"up", "away"} => d.leader \in Alive
    BY DEF Alive
  <2> HIDE DEF d, helper
  <2> QED
    BY <1>4, <1>6, <2>1, <2>2, <2>3, <2>4
<1>10. CASE JobEnds(q)
  <2>1. PICK job \in Ended : client' = [client EXCEPT ![q] = [d EXCEPT !.job = job]]
    BY <1>10 DEF JobEnds, Becomes, Ended
  <2>2. [d EXCEPT !.job = job] = [d EXCEPT !.job = job, !.report = d.report]
    BY <1>1 DEF ClientRec
  <2>3. d.leader \in {"up", "away"} /\ d.job = "running" /\ d.job \notin Ended
    BY <1>10 DEF JobEnds, Ended
  <2>4. d.report = "none"
    BY <1>1, <2>3 DEF Sound
  <2> HIDE DEF d
  <2> QED
    BY <1>5, <2>1, <2>2, <2>3, <2>4
<1>11. CASE Cli(q)
  <2>1. lane = "cli" /\ d.leader = "up" /\ d.leader \in Alive
    BY <1>11 DEF Cli, Alive
  <2>2. CASE d.job = "none" /\ client' = [client EXCEPT ![q] = [d EXCEPT !.job = "running"]]
    <3>1. [d EXCEPT !.job = "running"] = [d EXCEPT !.job = "running", !.report = d.report]
      BY <1>1 DEF ClientRec
    <3>2. d.report = "none" /\ d.job \notin Ended
      BY <1>1, <2>2 DEF Sound, Ended
    <3> HIDE DEF d
    <3> QED
      BY <1>5, <2>1, <2>2, <3>1, <3>2
  <2>3. CASE /\ d.job \in Ended /\ d.report = "none"
             /\ client' = [client EXCEPT ![q] = [d EXCEPT !.report = "torn"]]
    <3>1. [d EXCEPT !.report = "torn"] = [d EXCEPT !.job = d.job, !.report = "torn"]
      BY <1>1 DEF ClientRec
    <3> HIDE DEF d
    <3> QED
      BY <1>5, <1>6, <2>1, <2>3, <3>1
  <2>4. ASSUME NEW report \in {"complete", "not complete"}, d.report = "torn",
               report = "complete" => d.job = "succeeded",
               client' = [client EXCEPT ![q] = [d EXCEPT !.report = report]]
        PROVE  \E c \in ClientRec :
                  client' = [client EXCEPT ![q] = c] /\ Sound(c) /\ Drifts(d, c)
    <3>1. [d EXCEPT !.report = report] = [d EXCEPT !.job = d.job, !.report = report]
      BY <1>1 DEF ClientRec
    <3>2. d.job \in Ended
      BY <1>1, <2>4 DEF Sound
    <3> HIDE DEF d
    <3> QED
      BY <1>5, <1>6, <2>1, <2>4, <3>1, <3>2
  <2>5. CASE client' = [client EXCEPT ![q] = [d EXCEPT !.leader = "dead"]]
    <3>1. [d EXCEPT !.leader = "dead"] = [d EXCEPT !.leader = "dead", !.helper = d.helper]
      BY <1>1 DEF ClientRec
    <3>2. "dead" \in Leaders
      BY DEF Leaders
    <3> HIDE DEF d
    <3> QED
      BY <1>4, <1>6, <2>1, <2>5, <3>1, <3>2
  <2> QED
    BY <1>11, <2>2, <2>3, <2>4, <2>5 DEF Cli, Becomes, Ended
<1>12. CASE PerfExits(q)
  <2> DEFINE c == [d EXCEPT !.perf = "off"]
  <2>1. /\ c \in ClientRec /\ c.leader = d.leader /\ c.helper = d.helper /\ c.job = d.job
        /\ c.report = d.report /\ c.perf = "off" /\ c.excuse = d.excuse
    BY <1>1 DEF ClientRec
  <2>2. client' = [client EXCEPT ![q] = c] /\ d.perf # "off"
    BY <1>12 DEF PerfExits, Becomes
  <2> HIDE DEF c, d
  <2>3. Sound(c) /\ Drifts(d, c)
    BY <1>1, <1>2, <2>1, <2>2 DEF Sound, Drifts
  <2> QED
    BY <2>1, <2>2, <2>3
<1> QED
  BY <1>7, <1>8, <1>9, <1>10, <1>11, <1>12 DEF Client

(***************************************************************************)
(* The theorems.                                                           *)
(***************************************************************************)
\* A fresh harness.
LEMMA Starts == Init => IInv
<1> SUFFICES ASSUME Init PROVE IInv
  OBVIOUS
<1>1. /\ NewClient \in ClientRec /\ NewClient.excuse = "none" /\ NewClient.perf = "off"
      /\ ~NewClient.helper /\ NewClient.report = "none" /\ NewClient.leader = "none"
  BY DEF NewClient, ClientRec, Leaders
<1>2. /\ NewAdapter \in AdapterRec /\ NewAdapter.pc = "prepare" /\ NewAdapter.status = "none"
      /\ NewAdapter.talks = None /\ ~NewAdapter.err /\ ~NewAdapter.collected
  BY DEF NewAdapter, AdapterRec, Results
<1>3. 1 \in Runs /\ r = 1 /\ \A q \in Runs : ~(q < 1)
  BY LifetimeAssumption DEF Init, Runs
<1>4. adapter = NewAdapter /\ \A q \in Runs : client[q] = NewClient /\ result[q] = "none"
  BY DEF Init
<1>5. Typed
  BY <1>1, <1>2, <1>3, LifetimeAssumption DEF Init, Typed, Results
<1>6. \A q \in Runs : Sound(client[q])
  BY <1>1, <1>4 DEF Sound
<1>7. Now(adapter, client[r], result[r])
  BY <1>1, <1>2, <1>3, <1>4 DEF Now
<1>8. Seen(adapter, client) /\ Talking(adapter, client) /\ PortKept(adapter, client)
  BY <1>2, <1>4 DEF Seen, Talking, PortKept, Ended
<1>9. Others
  BY <1>3, <1>4 DEF Others
<1> QED
  BY <1>5, <1>6, <1>7, <1>8, <1>9 DEF IInv

\* Stuttering.
LEMMA Stutter == ASSUME IInv, UNCHANGED vars PROVE IInv'
<1>1. UNCHANGED <<lane, r, client, result>> /\ adapter' = adapter
  BY DEF vars
<1>3. Seen(adapter, client) /\ Talking(adapter, client) /\ PortKept(adapter, client)
  BY DEF IInv
<1>4. client' = [client EXCEPT ![r] = client[r]] /\ result' = [result EXCEPT ![r] = result[r]]
      /\ client' = client
  BY <1>1, Here
<1>5. ~(r < r) /\ ~(r > r)
  BY Here DEF Runs
<1> QED
  BY <1>1, <1>3, <1>4, <1>5, Here, AnyStep

\* IInv is inductive: every state of every sequence of runs satisfies it.
THEOREM Invariance == Spec => []IInv
<1>1. IInv /\ [Next]_vars => IInv'
  <2> SUFFICES ASSUME IInv, [Next]_vars PROVE IInv'
    OBVIOUS
  <2>1. CASE Adapter
    BY <2>1, PrepareSteps, LaunchSteps, CounterSteps, ReadyStep, AwaitSteps, QueueSteps, MeterSteps,
       ArtifactStep, CleanupSteps, MoveSteps, StopSteps, ResultStep DEF Adapter
  <2>2. CASE awaitFails
    BY <2>2, AwaitSteps
  <2>3. CASE UNCHANGED vars
    BY <2>3, Stutter
  <2> QED
    BY <2>1, <2>2, <2>3, KillStep, NextRunStep, ClientSteps DEF Next, Done
<1> QED
  BY <1>1, Starts, PTL DEF Spec

\* An adapter that returned left no perf, no client but one that SIGKILL has not finished or
\* could not be sent, no container
\* but where docker failed, and no helper but behind a leader that exited on its
\* own: in every lane, after every error path, for any number of runs.
THEOREM NothingIsLeftBehind == Spec => []NothingLeftBehind
<1>1. IInv => NothingLeftBehind
  <2> SUFFICES ASSUME IInv, NEW q \in Runs, q < r \/ At("returned"), client[q].excuse \notin Killed
               PROVE  /\ client[q].perf = "off"
                      /\ client[q].leader \in Alive \ {"dying"} => client[q].excuse # "none"
                      /\ client[q].helper => client[q].leader = "dead" \/ client[q].excuse # "none"
    BY DEF NothingLeftBehind, Killed
  <2>1. Left(client[q])
    <3>1. CASE q < r
      BY <3>1 DEF IInv, Others
    <3>2. CASE q = r
      BY <3>2, Here DEF Now, At, Runs
    <3>3. CASE q > r
      <4>1. Left(NewClient)
        BY DEF Left, NewClient
      <4> QED
        BY <3>3, <4>1 DEF IInv, Others
    <3> QED
      BY <3>1, <3>2, <3>3, Here DEF Runs
  <2> QED
    BY <2>1 DEF Left, Alive
<1> QED
  BY <1>1, Invariance, PTL

\* A run talks to the client it started, or to one that was still starting when its adapter
\* was killed or failed to kill it.
THEOREM TalksToItsOwn == Spec => []OwnClient
<1>1. IInv => OwnClient
  BY DEF IInv, Talking, OwnClient, LateStarter, Late
<1> QED
  BY <1>1, Invariance, PTL

\* A recorded outcome is the one the client reported, and an adapter that
\* returns without an error has written one.
THEOREM OutcomeIsTheClients == Spec => []RecordedOutcome
<1>1. IInv => RecordedOutcome
  <2> SUFFICES ASSUME IInv, At("returned") PROVE RecordedOutcome
    BY DEF RecordedOutcome
  <2>1. (adapter.err <=> result[r] = "none") /\ result[r] \in {"none", adapter.status}
    BY Here DEF Now, At
  <2>2. result[r] \in Ended => adapter.status = result[r] /\ adapter.status \in Ended
    BY <2>1 DEF Ended
  <2> QED
    BY <2>1, <2>2 DEF IInv, Seen, RecordedOutcome, Own, Peer, Ended
<1> QED
  BY <1>1, Invariance, PTL
=============================================================================
