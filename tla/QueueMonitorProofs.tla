------------------------- MODULE QueueMonitorProofs -------------------------
(***************************************************************************)
(* Proofs about QueueMonitor for every product, either submission mode,    *)
(* any number of runs and any timeout.                                     *)
(*                                                                         *)
(* BInv relates what the monitor has noted to what the client has done:    *)
(* every time noted as "still pending" is one the client had not finished  *)
(* by, every outcome noted is final, and a poll that is about to be        *)
(* applied has seen every job the client finished before it began.  The    *)
(* statement that matters (TerminalBracketed) is about jobs being tracked; *)
(* BInv carries it from the submission through the channel, the requests   *)
(* of a poll and their answers, while client and clock go on.              *)
(***************************************************************************)
EXTENDS QueueMonitor, WellFoundedInduction, TLAPS

JobRec ==
    [run : Nat, id : Nat, submitted : Nat, queuedAt : Nat, last : Nat, processing : Nat,
     status : {"pending", "succeeded", "failed", "timed_out"}, lower : Nat, at : Nat,
     refused : BOOLEAN]
SeenRec == [state : {"queued", "active", "complete", "failed"}, pendingAt : Nat]
SeenFns == UNION {[ids -> SeenRec] : ids \in SUBSET Nat}

SubPcs == {"next", "calling", "registering", "waiting", "returned"}
\* The poll has an answer that shows finished jobs.
Informed == {"askQueue", "queue", "askAgain", "again", "apply"}
Asking == {"history", "listgroups", "nzbgetHistory", "jobs"} \union Informed
MonPcs == {"select", "ok", "error"} \union Asking
Phases == {"absent", "queued", "active", "past", "post", "complete", "failed"}

SubRec ==
    [pc : SubPcs, run : Nat, startedAt : Nat, job : JobRec \union {Zero},
     ids : SUBSET Nat, jobs : Seq(JobRec)]
MonRec ==
    [pc : MonPcs, open : BOOLEAN, jobs : Seq(JobRec), requestAt : Nat, queueAt : Nat,
     againAt : Nat, seen : SeenFns, past : SUBSET Nat]

Typed ==
    /\ input \in Inputs /\ now \in Nat \ {0}
    /\ phase \in [Runs -> Phases] /\ ended \in [Runs -> Nat]

\* At time t the client had not finished, as far as its end e tells.
NotAhead(t, e) == e # Zero => t <= e

ClientSound ==
    \A r \in Runs : /\ ended[r] <= now
                    /\ phase[r] \in Terminal <=> ended[r] # Zero

\* A job that is on its way to the monitor.
Underway(job) ==
    /\ job.run \in Runs /\ job.id \in Runs
    /\ job.submitted # Zero /\ job.submitted <= job.queuedAt /\ job.queuedAt <= now
    /\ job.status = "pending" /\ ~job.refused /\ job.processing = Zero
    /\ NotAhead(job.submitted, ended[job.run])

\* A job the monitor has: what it noted about the client holds of the client.
KnownTimes(job) ==
    /\ job.run \in Runs /\ job.id \in Runs /\ ~job.refused
    /\ job.submitted # Zero /\ job.submitted <= job.queuedAt /\ job.queuedAt <= now
    /\ job.submitted <= job.last /\ job.last <= now
    /\ job.processing # Zero => job.queuedAt <= job.processing /\ job.processing <= now
    /\ Complete(job) => /\ job.lower = job.last /\ job.queuedAt <= job.at /\ job.at <= now
                        /\ job.lower <= job.at /\ job.processing <= job.at
KnownClient(job) ==
    job.id = job.run =>
        /\ NotAhead(job.last, ended[job.run])
        /\ job.status \in {"succeeded", "failed"} =>
              /\ ended[job.run] # Zero /\ ended[job.run] <= job.at
              /\ phase[job.run] = IF job.status = "failed" THEN "failed" ELSE "complete"
Known(job) == KnownTimes(job) /\ KnownClient(job)

\* The submitting goroutine: nothing is with the client before it is submitted.
SubGood(s) ==
    /\ s \in SubRec
    /\ \A r \in Runs : r > s.run \/ (r = s.run /\ s.pc = "next") => phase[r] = "absent"
    /\ s.pc \in {"calling", "registering"} => s.run \in Runs
    /\ s.run # 0
    /\ s.ids \subseteq Runs
    /\ s.pc = "calling" =>
          /\ s.startedAt # Zero /\ s.startedAt <= now
          /\ NotAhead(s.startedAt, ended[s.run])
    /\ s.pc = "registering" => s.job \in JobRec /\ Underway(s.job)

ChanGood(c) ==
    /\ c \in [queue : Seq(JobRec), closed : BOOLEAN]
    /\ \A i \in DOMAIN c.queue : Underway(c.queue[i])

\* The monitor's notes of one poll.
Noted(id, o, requestAt) ==
    /\ id \in Runs
    /\ o.pendingAt <= now /\ NotAhead(o.pendingAt, ended[id])
    /\ o.state \in Terminal => phase[id] = o.state
    /\ o.state \notin Terminal => NotAhead(requestAt, ended[id])

Polling(m) ==
    /\ m.requestAt <= now /\ m.queueAt <= now /\ m.againAt <= now
    /\ \A id \in DOMAIN m.seen : Noted(id, m.seen[id], m.requestAt)
    /\ \A id \in m.past : /\ id \in Runs
                          /\ NotAhead(m.queueAt, ended[id]) /\ NotAhead(m.requestAt, ended[id])
    /\ m.pc \in {"select", "history", "listgroups", "jobs"} => DOMAIN m.seen = {}
    /\ m.pc \notin {"askAgain", "again", "apply"} => m.past = {}

\* The jobs a poll asks about were all accepted before it.
Since(m) == m.pc \in Asking => \A i \in DOMAIN m.jobs : m.jobs[i].queuedAt <= m.requestAt

\* Whatever the client finished before the poll began has been seen.
Thorough(m) ==
    m.pc \in Informed =>
        \A i \in DOMAIN m.jobs :
            ~Complete(m.jobs[i]) /\ ~NotAhead(m.requestAt, ended[m.jobs[i].id])
            => /\ m.jobs[i].id \in DOMAIN m.seen
               /\ m.seen[m.jobs[i].id].state \in Terminal

MonGood(m) ==
    /\ m \in MonRec
    /\ \A i \in DOMAIN m.jobs : Known(m.jobs[i])
    /\ Polling(m) /\ Since(m) /\ Thorough(m)

BInv == Typed /\ ClientSound /\ SubGood(sub) /\ ChanGood(chan) /\ MonGood(mon)

USE DEF Zero, Informed, Asking, MonPcs, SubPcs, Terminal

(***************************************************************************)
(* Facts about the operators.                                              *)
(***************************************************************************)
LEMMA InputTyped ==
    ASSUME input \in Inputs
    PROVE  /\ N \in Nat /\ N # 0 /\ Runs = 1..N
           /\ mode \in {"queued", "sequential"}
           /\ client \in {"sab", "nzbfast", "nzbget", "weaver"}
BY MonitorAssumption DEF N, Runs, mode, client

\* An observation with domain ids.
LEMMA SeenTyped ==
    ASSUME NEW ids \in SUBSET Nat, NEW f \in [ids -> SeenRec]
    PROVE  f \in SeenFns
BY DEF SeenFns

LEMMA SeenAt ==
    ASSUME NEW f \in SeenFns
    PROVE  /\ DOMAIN f \subseteq Nat /\ f \in [DOMAIN f -> SeenRec]
           /\ \A id \in DOMAIN f : f[id] \in SeenRec
BY DEF SeenFns

LEMMA NothingSeen == <<>> \in SeenFns /\ DOMAIN <<>> = {}
<1>1. DOMAIN <<>> = {}
  OBVIOUS
<1>2. <<>> \in [{} -> SeenRec]
  BY <1>1
<1> QED
  BY <1>1, <1>2, SeenTyped

\* A monitor that has nothing to poll.
Fresh(m) == /\ m \in MonRec /\ m.jobs = <<>> /\ m.seen = <<>> /\ m.past = {}
            /\ m.requestAt = 0 /\ m.queueAt = 0 /\ m.againAt = 0

LEMMA FreshGood ==
    ASSUME NEW m, Fresh(m), now \in Nat
    PROVE  MonGood(m)
<1>1. DOMAIN m.jobs = {} /\ DOMAIN m.seen = {}
  BY DEF Fresh
<1> QED
  BY <1>1 DEF Fresh, MonGood, Polling, Since, Thorough

LEMMA NewMonitorFresh ==
    ASSUME NEW pc \in MonPcs
    PROVE  /\ Fresh(NewMonitor) /\ Fresh([NewMonitor EXCEPT !.pc = pc])
           /\ NewMonitor.pc = "select" /\ NewMonitor.open
           /\ [NewMonitor EXCEPT !.pc = pc].pc = pc
           /\ [NewMonitor EXCEPT !.pc = pc].open
<1>1. NewMonitor \in MonRec
  BY NothingSeen DEF NewMonitor, MonRec
<1>2. Fresh(NewMonitor) /\ NewMonitor.pc = "select" /\ NewMonitor.open
  BY <1>1 DEF NewMonitor, Fresh
<1> QED
  BY <1>1, <1>2 DEF Fresh, MonRec

(***************************************************************************)
(* Steps of the goroutines: the clock and the client stand still.          *)
(***************************************************************************)
LEMMA Still ==
    ASSUME BInv, UNCHANGED <<input, now, clientVars>>,
           NEW s, sub' = s, SubGood(s), NEW c, chan' = c, ChanGood(c), NEW m, mon' = m, MonGood(m)
    PROVE  BInv'
<1>1. input' = input /\ now' = now /\ phase' = phase /\ ended' = ended /\ Runs' = Runs
  BY DEF clientVars, Runs, N
<1>2. Typed' /\ ClientSound'
  BY <1>1 DEF BInv, Typed, ClientSound
<1>3. ASSUME NEW job PROVE (Underway(job) => Underway(job)') /\ (Known(job) => Known(job)')
  BY <1>1 DEF Underway, Known, KnownTimes, KnownClient
<1>4. SubGood(sub)'
  BY <1>1, <1>3 DEF SubGood
<1>5. ChanGood(chan)'
  BY <1>3 DEF ChanGood
<1>6. MonGood(mon)'
  <2>1. Polling(mon)' /\ Since(mon)' /\ Thorough(mon)'
    BY <1>1 DEF MonGood, Polling, Noted, Since, Thorough
  <2> QED
    BY <1>3, <2>1 DEF MonGood
<1> QED
  BY <1>2, <1>4, <1>5, <1>6 DEF BInv

(***************************************************************************)
(* The client and the clock go on.                                         *)
(***************************************************************************)
Onward ==
    /\ input' = input /\ now' \in Nat /\ now <= now'
    /\ \A r \in Runs : /\ ended'[r] = ended[r] \/ (ended[r] = 0 /\ ended'[r] = now)
                       /\ ended[r] # 0 => phase'[r] = phase[r]

LEMMA OnwardKeeps ==
    ASSUME BInv, Onward, sub' = sub, chan' = chan, mon' = mon, Typed', ClientSound',
           \A r \in Runs : r > sub.run \/ (r = sub.run /\ sub.pc = "next") => phase'[r] = phase[r]
    PROVE  BInv'
<1>1. Runs' = Runs /\ now \in Nat /\ ended \in [Runs -> Nat] /\ input \in Inputs
  BY DEF Onward, Runs, N, BInv, Typed
<1>2. ASSUME NEW t \in Nat, t <= now, NEW r \in Runs, NotAhead(t, ended[r])
      PROVE  NotAhead(t, ended'[r])
  BY <1>1, <1>2 DEF NotAhead, Onward
<1>3. ASSUME NEW job \in JobRec, Underway(job) PROVE Underway(job)'
  BY <1>1, <1>2, <1>3 DEF Underway, Onward, JobRec
<1>4. ASSUME NEW job \in JobRec, Known(job) PROVE Known(job)'
  <2>1. KnownTimes(job)'
    BY <1>1, <1>4 DEF Known, KnownTimes, Onward, JobRec
  <2>2. KnownClient(job)'
    BY <1>1, <1>2, <1>4 DEF Known, KnownTimes, KnownClient, Onward, JobRec
  <2> QED
    BY <2>1, <2>2 DEF Known
<1>5. SubGood(sub)'
  BY <1>1, <1>2, <1>3 DEF BInv, SubGood, SubRec, Onward
<1>6. ChanGood(chan)'
  BY <1>3 DEF BInv, ChanGood
<1>7. MonGood(mon)'
  <2> DEFINE m == mon
  <2>1. m \in MonRec /\ m.requestAt \in Nat /\ m.queueAt \in Nat /\ m.againAt \in Nat
        /\ m.seen \in SeenFns /\ m.jobs \in Seq(JobRec) /\ MonGood(m)
    BY DEF BInv, MonGood, MonRec
  <2>2. \A i \in DOMAIN m.jobs : m.jobs[i] \in JobRec /\ m.jobs[i].id \in Runs
    BY <2>1 DEF MonGood, Known, KnownTimes
  <2>3. ASSUME NEW id \in DOMAIN m.seen PROVE Noted(id, m.seen[id], m.requestAt)'
    <3>1. m.seen[id] \in SeenRec /\ Noted(id, m.seen[id], m.requestAt)
      BY <2>1, SeenAt DEF MonGood, Polling
    <3>2. m.requestAt <= now
      BY <2>1 DEF MonGood, Polling
    <3>3. phase[id] \in Terminal => ended[id] # 0
      BY <3>1 DEF BInv, ClientSound, Noted
    <3> QED
      BY <1>1, <1>2, <2>1, <3>1, <3>2, <3>3 DEF Noted, SeenRec, Onward
  <2>4. Polling(m)'
    BY <1>1, <1>2, <2>1, <2>3 DEF MonGood, Polling, Onward
  <2>5. Since(m)'
    BY <2>1 DEF MonGood, Since
  <2>6. Thorough(m)'
    BY <1>1, <1>2, <2>1, <2>2 DEF MonGood, Polling, Thorough
  <2>7. \A i \in DOMAIN m.jobs : Known(m.jobs[i])'
    BY <1>4, <2>1, <2>2 DEF MonGood
  <2> QED
    BY <2>1, <2>4, <2>5, <2>6, <2>7 DEF MonGood
<1> QED
  BY <1>5, <1>6, <1>7 DEF BInv

LEMMA ClientBInv ==
    ASSUME BInv, Tick \/ ClientTakes \/ \E r \in Runs : ClientMoves(r)
    PROVE  BInv'
<1>1. /\ input \in Inputs /\ now \in Nat \ {0} /\ phase \in [Runs -> Phases] /\ ended \in [Runs -> Nat]
      /\ ClientSound /\ SubGood(sub)
  BY DEF BInv, Typed
<1>2. CASE Tick
  <2>1. now' = now + 1 /\ UNCHANGED <<input, phase, ended, sub, chan, mon>>
    BY <1>2 DEF Tick, clientVars
  <2>2. Runs' = Runs
    BY <2>1 DEF Runs, N
  <2> QED
    BY <1>1, <2>1, <2>2, OnwardKeeps DEF Onward, Typed, ClientSound
<1>3. CASE ClientTakes
  <2>1. /\ UNCHANGED <<input, now, ended, sub, chan, mon>>
        /\ sub.pc = "calling" /\ phase[sub.run] = "absent"
        /\ phase' = [phase EXCEPT ![sub.run] = "queued"]
    BY <1>3 DEF ClientTakes
  <2>2. Runs' = Runs /\ sub.run \in Runs
    BY <1>1, <2>1 DEF Runs, N, SubGood
  <2>3. phase' \in [Runs -> Phases]
    BY <1>1, <2>1, <2>2 DEF Phases
  <2>4. \A r \in Runs : phase'[r] = IF r = sub.run THEN "queued" ELSE phase[r]
    BY <1>1, <2>1
  <2>5. ClientSound'
    BY <1>1, <2>1, <2>2, <2>4 DEF ClientSound
  <2>6. sub.run \in Nat /\ \A r \in Runs : r \in Nat
    BY <1>1, InputTyped DEF SubGood, SubRec
  <2> QED
    BY <1>1, <2>1, <2>2, <2>3, <2>4, <2>5, <2>6, OnwardKeeps DEF Onward, Typed, ClientSound
<1>4. ASSUME NEW r \in Runs, ClientMoves(r) PROVE BInv'
  <2>1. PICK p \in Moves(phase[r]) :
          /\ phase' = [phase EXCEPT ![r] = p]
          /\ ended' = IF p \in Terminal THEN [ended EXCEPT ![r] = now] ELSE ended
          /\ UNCHANGED <<input, now, sub, chan, mon>>
    BY <1>4 DEF ClientMoves
  <2>2. /\ phase[r] \in {"queued", "active", "past", "post"} /\ p \in Phases
        /\ p \in Terminal \/ p \in {"active", "past", "post"}
    BY <1>1, <2>1 DEF Moves, Phases
  <2>3. Runs' = Runs /\ ended[r] = 0
    BY <1>1, <2>1, <2>2 DEF Runs, N, ClientSound
  <2>4. phase' \in [Runs -> Phases] /\ ended' \in [Runs -> Nat]
    BY <1>1, <2>1, <2>2
  <2>5. \A q \in Runs : /\ phase'[q] = IF q = r THEN p ELSE phase[q]
                        /\ ended'[q] = IF q = r /\ p \in Terminal THEN now ELSE ended[q]
    BY <1>1, <2>1
  <2>6. ClientSound'
    BY <1>1, <2>1, <2>2, <2>3, <2>5 DEF ClientSound
  <2>7. Typed' /\ Onward
    BY <1>1, <2>1, <2>3, <2>4, <2>5 DEF Typed, Onward
  <2>8. \A q \in Runs : q > sub.run \/ (q = sub.run /\ sub.pc = "next") => phase'[q] = phase[q]
    BY <1>1, <2>2, <2>5 DEF SubGood
  <2> QED
    BY <2>1, <2>6, <2>7, <2>8, OnwardKeeps
<1> QED
  BY <1>2, <1>3, <1>4

(***************************************************************************)
(* The submitting goroutine.                                               *)
(***************************************************************************)
LEMMA NewJob ==
    ASSUME NEW r \in Nat, NEW id \in Nat, NEW startedAt \in Nat, NEW at \in Nat,
           NEW job, job = queuedJob(r, id, startedAt, at)
    PROVE  /\ job \in JobRec /\ job.run = r /\ job.id = id /\ job.submitted = startedAt
           /\ job.queuedAt = at /\ job.status = "pending" /\ ~job.refused /\ job.processing = 0
BY DEF queuedJob, JobRec

LEMMA RefusedJob ==
    ASSUME NEW r \in Nat, NEW startedAt \in Nat, now \in Nat
    PROVE  LET job == refusedSubmissionJob(r, startedAt) IN
           /\ job \in JobRec /\ job.run = r /\ job.id = r /\ job.submitted = startedAt
           /\ job.queuedAt = now /\ job.status = "failed" /\ job.refused /\ job.processing = 0
           /\ job.lower = now /\ job.at = now
<1> DEFINE q == queuedJob(r, r, startedAt, now)
<1>1. /\ q \in JobRec /\ q.run = r /\ q.id = r /\ q.submitted = startedAt
      /\ q.queuedAt = now /\ q.processing = 0
  BY NewJob
<1> HIDE DEF q
<1>2. refusedSubmissionJob(r, startedAt) =
        [q EXCEPT !.status = "failed", !.lower = now, !.at = now, !.refused = TRUE]
  BY DEF refusedSubmissionJob, q
<1> QED
  BY <1>1, <1>2 DEF JobRec

\* The goroutine stops: runQueue has returned.
LEMMA Stops ==
    ASSUME BInv
    PROVE  SubGood([sub EXCEPT !.pc = "returned", !.startedAt = Zero, !.jobs = <<>>])
<1> DEFINE s == [sub EXCEPT !.pc = "returned", !.startedAt = Zero, !.jobs = <<>>]
<1>1. SubGood(sub) /\ sub \in SubRec /\ <<>> \in Seq(JobRec)
  BY DEF BInv, SubGood
<1>2. s \in SubRec /\ s.pc = "returned" /\ s.run = sub.run /\ s.ids = sub.ids
  BY <1>1 DEF SubRec
<1> HIDE DEF s
<1>3. SubGood(s)
  BY <1>1, <1>2 DEF SubGood
<1> QED
  BY <1>3 DEF s

LEMMA SubmittingBInv ==
    ASSUME BInv, Submitting
    PROVE  BInv'
<1>1. /\ input \in Inputs /\ now \in Nat /\ now # 0 /\ ended \in [Runs -> Nat]
      /\ ClientSound /\ SubGood(sub) /\ sub \in SubRec /\ ChanGood(chan) /\ MonGood(mon)
  BY DEF BInv, Typed, SubGood
<1>2. /\ N \in Nat /\ Runs = 1..N /\ sub.run \in Nat /\ sub.run # 0 /\ sub.startedAt \in Nat
      /\ sub.ids \subseteq Runs /\ sub.jobs \in Seq(JobRec)
  BY <1>1, InputTyped DEF SubGood, SubRec
<1>3. Fresh(NewMonitor) /\ MonGood(NewMonitor)
  BY <1>1, NewMonitorFresh, FreshGood
<1>4. ChanGood(NewChannel)
  BY DEF ChanGood, NewChannel
<1>5. CASE Submit
  <2> DEFINE s == [sub EXCEPT !.pc = "calling", !.startedAt = now]
  <2>1. /\ sub' = s /\ sub.pc = "next" /\ sub.run <= N /\ UNCHANGED <<input, now, clientVars>>
        /\ mon' \in {mon, NewMonitor} /\ chan' \in {chan, NewChannel}
    BY <1>5 DEF Submit
  <2>2. s \in SubRec /\ s.pc = "calling" /\ s.startedAt = now /\ s.run = sub.run /\ s.ids = sub.ids
    BY <1>1 DEF SubRec
  <2>3. sub.run \in Runs
    BY <1>2, <2>1
  <2>4. ended[sub.run] = 0
    BY <1>1, <2>1, <2>3 DEF SubGood, ClientSound
  <2> HIDE DEF s
  <2>5. SubGood(s)
    BY <1>1, <1>2, <2>1, <2>2, <2>3, <2>4 DEF SubGood, NotAhead
  <2> QED
    BY <1>1, <1>3, <1>4, <2>1, <2>5, Still
<1>6. ASSUME NEW id \in {sub.run} \union sub.ids, Accepted(id) PROVE BInv'
  <2> DEFINE job == queuedJob(sub.run, id, sub.startedAt, now)
             s == [sub EXCEPT !.pc = "registering", !.ids = sub.ids \union {id}, !.startedAt = Zero,
                              !.job = job]
  <2>1. /\ sub' = s /\ sub.pc = "calling"
        /\ UNCHANGED <<input, now, clientVars, chan, mon>>
    BY <1>6 DEF Accepted
  <2>2. sub.run \in Runs /\ id \in Runs /\ id \in Nat
    BY <1>1, <1>2, <2>1 DEF SubGood
  <2>3. /\ job \in JobRec /\ job.run = sub.run /\ job.id = id /\ job.submitted = sub.startedAt
        /\ job.queuedAt = now /\ job.status = "pending" /\ ~job.refused /\ job.processing = 0
    <3>1. sub.run \in Nat /\ id \in Nat /\ sub.startedAt \in Nat /\ now \in Nat
      BY <1>1, <1>2, <2>2
    <3>2. job = queuedJob(sub.run, id, sub.startedAt, now)
      OBVIOUS
    <3> HIDE DEF job, s
    <3> QED
      BY <3>1, <3>2 DEF queuedJob, JobRec
  <2> HIDE DEF job
  <2>4. Underway(job)
    BY <1>1, <2>1, <2>2, <2>3 DEF Underway, SubGood
  <2>5. s \in SubRec /\ s.pc = "registering" /\ s.run = sub.run /\ s.ids = sub.ids \union {id}
        /\ s.job = job
    BY <1>1, <2>2, <2>3 DEF SubRec
  <2> HIDE DEF s
  <2>6. SubGood(s)
    BY <1>1, <1>2, <2>1, <2>2, <2>3, <2>4, <2>5 DEF SubGood
  <2> QED
    BY <1>1, <2>1, <2>6, Still
<1>7. CASE Refused
  <2> DEFINE job == refusedSubmissionJob(sub.run, sub.startedAt)
             jobs == Append(sub.jobs, job)
             s == [sub EXCEPT !.pc = "next", !.run = sub.run + 1, !.jobs = jobs]
  <2>1. /\ sub' = s /\ sub.pc = "calling"
        /\ UNCHANGED <<input, now, clientVars, chan, mon>>
    BY <1>7 DEF Refused
  <2>2. job \in JobRec
    BY <1>1, <1>2, RefusedJob
  <2> HIDE DEF job
  <2>3. jobs \in Seq(JobRec) /\ sub.run + 1 \in Nat
    BY <1>2, <2>2
  <2> HIDE DEF jobs
  <2>4. s \in SubRec /\ s.pc = "next" /\ s.run = sub.run + 1 /\ s.ids = sub.ids
    BY <1>1, <1>2, <2>3 DEF SubRec
  <2> HIDE DEF s
  <2>5. SubGood(s)
    BY <1>1, <1>2, <2>4 DEF SubGood
  <2> QED
    BY <1>1, <2>1, <2>5, Still
<1>8. CASE QueueFails
  BY <1>1, <1>8, Stops, Still DEF QueueFails, Fails
<1>9. CASE Register
  <2> DEFINE pc == IF mode = "sequential" THEN "waiting" ELSE "next"
             run == IF mode = "sequential" THEN sub.run ELSE sub.run + 1
             s == [sub EXCEPT !.job = Zero, !.pc = pc, !.run = run]
             q == Append(chan.queue, sub.job)
             b == mode = "sequential"
             c == [queue |-> q, closed |-> b]
  <2>1. /\ sub' = s /\ sub.pc = "registering" /\ chan' = c
        /\ UNCHANGED <<input, now, clientVars, mon>>
    BY <1>9 DEF Register
  <2>2. sub.job \in JobRec /\ Underway(sub.job) /\ chan.queue \in Seq(JobRec)
        /\ \A i \in DOMAIN chan.queue : Underway(chan.queue[i])
    BY <1>1, <2>1 DEF SubGood, ChanGood
  <2>3. pc \in {"waiting", "next"} /\ run \in {sub.run, sub.run + 1} /\ run \in Nat /\ b \in BOOLEAN
        /\ (pc = "next" => run = sub.run + 1)
    BY <1>2
  <2>4. q \in Seq(JobRec) /\ \A i \in DOMAIN q : Underway(q[i])
    BY <2>2
  <2> HIDE DEF pc, run, q, b
  <2>5. s \in SubRec /\ s.pc = pc /\ s.run = run /\ s.ids = sub.ids
    BY <1>1, <2>3 DEF SubRec
  <2>6. ChanGood(c)
    BY <2>3, <2>4 DEF ChanGood
  <2> HIDE DEF s, c
  <2>7. SubGood(s)
    BY <1>1, <1>2, <2>3, <2>5 DEF SubGood
  <2> QED
    BY <1>1, <2>1, <2>6, <2>7, Still
<1>10. CASE CloseRegistrations
  <2> DEFINE s == [sub EXCEPT !.pc = "waiting"]
             c == [chan EXCEPT !.closed = TRUE]
  <2>1. sub' = s /\ chan' = c /\ UNCHANGED <<input, now, clientVars, mon>>
    BY <1>10 DEF CloseRegistrations
  <2>2. s \in SubRec /\ s.pc = "waiting" /\ s.run = sub.run /\ s.ids = sub.ids
    BY <1>1 DEF SubRec
  <2>3. ChanGood(c)
    BY <1>1 DEF ChanGood
  <2> HIDE DEF s, c
  <2>4. SubGood(s)
    BY <1>1, <2>2 DEF SubGood
  <2> QED
    BY <1>1, <2>1, <2>3, <2>4, Still
<1>11. CASE QueuedReturns \/ SequentialReturns
  <2>1. /\ sub' = [sub EXCEPT !.pc = "returned", !.startedAt = Zero, !.jobs = <<>>]
        /\ UNCHANGED <<input, now, clientVars, chan, mon>>
    BY <1>11 DEF QueuedReturns, SequentialReturns, Returns, Fails
  <2> QED
    BY <1>1, <2>1, Stops, Still
<1>12. CASE FixtureReturns
  <2>1. /\ mon' = [NewMonitor EXCEPT !.pc = mon.pc] /\ mon.pc \in MonPcs
        /\ UNCHANGED <<input, now, clientVars, chan>>
    BY <1>12 DEF FixtureReturns
  <2>2. MonGood(mon')
    BY <1>1, <2>1, NewMonitorFresh, FreshGood
  <2>3. CASE sub' = [sub EXCEPT !.pc = "returned", !.startedAt = Zero, !.jobs = <<>>]
    BY <1>1, <2>1, <2>2, <2>3, Stops, Still
  <2>4. CASE sub' = [sub EXCEPT !.pc = "next", !.run = sub.run + 1, !.jobs = sub.jobs \o mon.jobs]
    <3> DEFINE jobs == sub.jobs \o mon.jobs
               s == [sub EXCEPT !.pc = "next", !.run = sub.run + 1, !.jobs = jobs]
    <3>1. jobs \in Seq(JobRec) /\ sub.run + 1 \in Nat
      BY <1>1, <1>2 DEF MonGood, MonRec
    <3> HIDE DEF jobs
    <3>2. s \in SubRec /\ s.pc = "next" /\ s.run = sub.run + 1 /\ s.ids = sub.ids
      BY <1>1, <1>2, <3>1 DEF SubRec
    <3> HIDE DEF s
    <3>3. SubGood(s)
      BY <1>1, <1>2, <3>2 DEF SubGood
    <3> QED
      BY <1>1, <2>1, <2>2, <2>4, <3>3, Still DEF s, jobs
  <2> QED
    BY <1>12, <2>3, <2>4 DEF FixtureReturns, Fails
<1> QED
  BY <1>5, <1>6, <1>7, <1>8, <1>9, <1>10, <1>11, <1>12 DEF Submitting

(***************************************************************************)
(* The monitoring goroutine.                                               *)
(***************************************************************************)
\* A job is registered: it was pending when it was submitted.
LEMMA TrackKnown ==
    ASSUME NEW job \in JobRec, Underway(job), now \in Nat
    PROVE  Track(job) \in JobRec /\ Known(Track(job))
<1> DEFINE t == Track(job)
<1>1. /\ t \in JobRec /\ t.run = job.run /\ t.id = job.id /\ t.submitted = job.submitted
      /\ t.queuedAt = job.queuedAt /\ t.last = job.submitted /\ t.status = job.status
      /\ t.refused = job.refused /\ t.processing = job.processing
  BY DEF Track, JobRec
<1> HIDE DEF t
<1>2. KnownTimes(t)
  BY <1>1 DEF Underway, KnownTimes, JobRec, Complete
<1>3. KnownClient(t)
  BY <1>1 DEF Underway, KnownClient
<1> QED
  BY <1>1, <1>2, <1>3 DEF Known, t

\* A step between two requests of a poll, or the reading of an answer.
LEMMA PollStep ==
    ASSUME BInv, UNCHANGED <<input, now, clientVars, sub, chan>>,
           NEW m \in MonRec, mon' = m, m.pc \in Asking, m.jobs = mon.jobs,
           \A i \in DOMAIN m.jobs : m.jobs[i].queuedAt <= m.requestAt,
           Polling(m), Thorough(m)
    PROVE  BInv'
<1>1. MonGood(m)
  BY DEF BInv, MonGood, Since
<1> QED
  BY <1>1, Still DEF BInv

\* What the monitor is known to be in a poll.
LEMMA InPoll ==
    ASSUME BInv
    PROVE  /\ mon \in MonRec /\ mon.pc \in MonPcs /\ mon.seen \in SeenFns /\ mon.past \in SUBSET Nat
           /\ mon.requestAt \in Nat /\ mon.queueAt \in Nat /\ mon.againAt \in Nat
           /\ mon.jobs \in Seq(JobRec) /\ now \in Nat /\ now # 0 /\ Runs \subseteq Nat
           /\ ended \in [Runs -> Nat] /\ phase \in [Runs -> Phases] /\ input \in Inputs
           /\ Polling(mon) /\ Since(mon) /\ Thorough(mon)
           /\ \A i \in DOMAIN mon.jobs : mon.jobs[i] \in JobRec /\ Known(mon.jobs[i])
           /\ \A r \in Runs : phase[r] \in Terminal <=> ended[r] # 0
<1>1. input \in Inputs
  BY DEF BInv, Typed
<1>2. Runs \subseteq Nat
  BY <1>1, InputTyped
<1>3. mon \in MonRec /\ MonGood(mon)
  BY DEF BInv, MonGood
<1>4. mon.jobs \in Seq(JobRec)
  BY <1>3 DEF MonRec
<1>5. \A i \in DOMAIN mon.jobs : mon.jobs[i] \in JobRec
  BY <1>4
<1> QED
  BY <1>1, <1>2, <1>3, <1>4, <1>5 DEF BInv, Typed, ClientSound, MonGood, MonRec

LEMMA WantedIs ==
    ASSUME BInv
    PROVE  /\ Wanted \subseteq Runs
           /\ \A i \in DOMAIN mon.jobs : ~Complete(mon.jobs[i]) => mon.jobs[i].id \in Wanted
BY InPoll DEF Wanted, Known, KnownTimes

\* Registrations, failures and the start of a poll.
LEMMA RegistrationBInv ==
    ASSUME BInv, MonitorCancelled \/ ObserveFails \/ Registered \/ RegistrationsClosed \/ Poll
    PROVE  BInv'
<1>1. SubGood(sub) /\ ChanGood(chan) /\ MonGood(mon)
  BY DEF BInv
<1>2. MonGood([NewMonitor EXCEPT !.pc = "error"])
  BY InPoll, NewMonitorFresh, FreshGood
<1>3. CASE MonitorCancelled \/ ObserveFails
  BY <1>1, <1>2, <1>3, Still DEF MonitorCancelled, ObserveFails, MonitorFails
<1>4. CASE Registered
  <2> DEFINE job == Head(chan.queue)
             rest == Tail(chan.queue)
             c == [chan EXCEPT !.queue = rest]
  <2>1. chan.queue \in Seq(JobRec) /\ chan.queue # <<>> /\ chan \in [queue : Seq(JobRec), closed : BOOLEAN]
        /\ \A i \in DOMAIN chan.queue : Underway(chan.queue[i])
    BY <1>1, <1>4 DEF ChanGood, Registered
  <2>2. job \in JobRec /\ Underway(job)
    BY <2>1
  <2>3. rest \in Seq(JobRec) /\ \A i \in DOMAIN rest : Underway(rest[i])
    BY <2>1
  <2>4. chan' = c /\ UNCHANGED <<input, now, clientVars, sub>> /\ mon.pc = "select"
        /\ (MonitorFails \/ mon' = [mon EXCEPT !.jobs = Append(mon.jobs, Track(job))])
    BY <1>4 DEF Registered
  <2> HIDE DEF job, rest
  <2>5. ChanGood(c)
    BY <2>1, <2>3 DEF ChanGood
  <2> HIDE DEF c
  <2>6. CASE MonitorFails
    BY <1>1, <1>2, <2>4, <2>5, <2>6, Still DEF MonitorFails
  <2>7. CASE mon' = [mon EXCEPT !.jobs = Append(mon.jobs, Track(job))]
    <3> DEFINE jobs == Append(mon.jobs, Track(job))
               m == [mon EXCEPT !.jobs = jobs]
    <3>1. Track(job) \in JobRec /\ Known(Track(job))
      BY <2>2, TrackKnown, InPoll
    <3>2. jobs \in Seq(JobRec) /\ \A i \in DOMAIN jobs : Known(jobs[i])
      BY <3>1, InPoll
    <3>3. mon' = m
      BY <2>7
    <3> HIDE DEF jobs
    <3>4. /\ m \in MonRec /\ m.pc = mon.pc /\ m.jobs = jobs /\ m.requestAt = mon.requestAt
          /\ m.queueAt = mon.queueAt /\ m.againAt = mon.againAt /\ m.seen = mon.seen
          /\ m.past = mon.past
      BY <3>2, InPoll DEF MonRec
    <3> HIDE DEF m
    <3>5. MonGood(m)
      BY <2>4, <3>2, <3>4, InPoll DEF MonGood, Polling, Since, Thorough
    <3> QED
      BY <1>1, <2>4, <2>5, <3>3, <3>5, Still
  <2> QED
    BY <2>4, <2>6, <2>7
<1>5. CASE RegistrationsClosed
  <2>1. UNCHANGED <<input, now, clientVars, sub, chan>> /\ mon.pc = "select"
    BY <1>5 DEF RegistrationsClosed
  <2>2. CASE MonitorFails
    BY <1>1, <1>2, <2>1, <2>2, Still DEF MonitorFails
  <2>3. CASE Continue([mon EXCEPT !.open = FALSE])
    <3> DEFINE o == [mon EXCEPT !.open = FALSE]
               pc == Loop(o)
               m == [o EXCEPT !.pc = pc]
    <3>1. mon' = m
      BY <2>3 DEF Continue
    <3>2. pc \in {"select", "ok"}
      BY DEF Loop
    <3>3. /\ o \in MonRec /\ o.jobs = mon.jobs /\ o.requestAt = mon.requestAt
          /\ o.queueAt = mon.queueAt /\ o.againAt = mon.againAt /\ o.seen = mon.seen
          /\ o.past = mon.past
      BY InPoll DEF MonRec
    <3> HIDE DEF pc, o
    <3>4. /\ m \in MonRec /\ m.pc = pc /\ m.jobs = mon.jobs /\ m.requestAt = mon.requestAt
          /\ m.queueAt = mon.queueAt /\ m.againAt = mon.againAt /\ m.seen = mon.seen
          /\ m.past = mon.past
      BY <3>2, <3>3 DEF MonRec
    <3> HIDE DEF m
    <3>5. MonGood(m)
      BY <2>1, <3>2, <3>4, InPoll DEF MonGood, Polling, Since, Thorough
    <3> QED
      BY <1>1, <2>1, <3>1, <3>5, Still
  <2> QED
    BY <1>5, <2>2, <2>3 DEF RegistrationsClosed
<1>6. CASE Poll
  <2> DEFINE pc == CASE client \in {"sab", "nzbfast"} -> "history"
                     [] client = "nzbget"            -> "listgroups"
                     [] client = "weaver"            -> "jobs"
             m == [mon EXCEPT !.requestAt = now, !.pc = pc]
  <2>1. mon' = m /\ UNCHANGED <<input, now, clientVars, sub, chan>> /\ mon.pc = "select"
    BY <1>6 DEF Poll
  <2>2. pc \in {"history", "listgroups", "jobs"}
    BY InPoll, InputTyped
  <2> HIDE DEF pc
  <2>3. /\ m \in MonRec /\ m.pc = pc /\ m.jobs = mon.jobs /\ m.requestAt = now
        /\ m.queueAt = mon.queueAt /\ m.againAt = mon.againAt /\ m.seen = mon.seen
        /\ m.past = mon.past
    BY <2>2, InPoll DEF MonRec
  <2> HIDE DEF m
  <2>4. Polling(m) /\ Thorough(m)
    BY <2>1, <2>2, <2>3, InPoll DEF Polling, Thorough
  <2>5. \A i \in DOMAIN m.jobs : m.jobs[i].queuedAt <= m.requestAt
    BY <2>3, InPoll DEF Known, KnownTimes
  <2> QED
    BY <2>1, <2>2, <2>3, <2>4, <2>5, PollStep
<1> QED
  BY <1>3, <1>4, <1>5, <1>6

\* One answer has been read: what is noted in m by then.
Reads(m) ==
    /\ m \in MonRec /\ m.jobs = mon.jobs
    /\ m.requestAt = mon.requestAt /\ m.queueAt = mon.queueAt /\ m.againAt = mon.againAt

LEMMA AnswerBInv ==
    ASSUME BInv, UNCHANGED <<input, now, clientVars, sub, chan>>, mon.pc \in Asking,
           NEW m, mon' = m, Reads(m), m.pc \in Asking, m.pc \notin {"history", "listgroups", "jobs"},
           m.pc \notin {"askAgain", "again", "apply"} => m.past = {},
           \A id \in DOMAIN m.seen : Noted(id, m.seen[id], mon.requestAt),
           \A id \in m.past : /\ id \in Runs /\ NotAhead(mon.queueAt, ended[id])
                              /\ NotAhead(mon.requestAt, ended[id]),
           m.pc \in Informed => \A id \in Wanted : ~NotAhead(mon.requestAt, ended[id])
                                   => id \in DOMAIN m.seen /\ m.seen[id].state \in Terminal
    PROVE  BInv'
<1>1. Polling(m)
  BY InPoll DEF Polling, Reads
<1>2. Thorough(m)
  BY WantedIs DEF Thorough, Reads
<1>3. \A i \in DOMAIN m.jobs : m.jobs[i].queuedAt <= m.requestAt
  BY InPoll DEF Since, Reads
<1> QED
  BY <1>1, <1>2, <1>3, PollStep DEF Reads

\* Only the time of the next request is new.
LEMMA AskBInv ==
    ASSUME BInv, SabAskQueue \/ SabAskAgain
    PROVE  BInv'
<1>1. CASE SabAskQueue
  <2> DEFINE m == [mon EXCEPT !.pc = "queue", !.queueAt = now]
  <2>1. mon' = m /\ UNCHANGED <<input, now, clientVars, sub, chan>> /\ mon.pc = "askQueue"
    BY <1>1 DEF SabAskQueue
  <2>2. /\ m \in MonRec /\ m.pc = "queue" /\ m.jobs = mon.jobs /\ m.requestAt = mon.requestAt
        /\ m.queueAt = now /\ m.againAt = mon.againAt /\ m.seen = mon.seen /\ m.past = mon.past
    BY InPoll DEF MonRec
  <2> HIDE DEF m
  <2>3. Polling(m) /\ Thorough(m) /\ \A i \in DOMAIN m.jobs : m.jobs[i].queuedAt <= m.requestAt
    BY <2>1, <2>2, InPoll DEF Polling, Thorough, Since
  <2> QED
    BY <2>1, <2>2, <2>3, PollStep
<1>2. CASE SabAskAgain
  <2> DEFINE m == [mon EXCEPT !.pc = "again", !.againAt = now]
  <2>1. mon' = m /\ UNCHANGED <<input, now, clientVars, sub, chan>> /\ mon.pc = "askAgain"
    BY <1>2 DEF SabAskAgain
  <2>2. /\ m \in MonRec /\ m.pc = "again" /\ m.jobs = mon.jobs /\ m.requestAt = mon.requestAt
        /\ m.queueAt = mon.queueAt /\ m.againAt = now /\ m.seen = mon.seen /\ m.past = mon.past
    BY InPoll DEF MonRec
  <2> HIDE DEF m
  <2>3. Polling(m) /\ Thorough(m) /\ \A i \in DOMAIN m.jobs : m.jobs[i].queuedAt <= m.requestAt
    BY <2>1, <2>2, InPoll DEF Polling, Thorough, Since
  <2> QED
    BY <2>1, <2>2, <2>3, PollStep
<1> QED
  BY <1>1, <1>2

\* A note is a record; a job that is not finished has no end yet.
LEMMA SeenIs ==
    ASSUME NEW state \in {"queued", "active", "complete", "failed"}, NEW t \in Nat
    PROVE  /\ Seen(state, t) \in SeenRec
           /\ Seen(state, t).state = state /\ Seen(state, t).pendingAt = t
BY DEF Seen, SeenRec

LEMMA LiveNoted ==
    ASSUME BInv, NEW id \in Runs, phase[id] \notin Terminal, NEW t \in Nat, t <= now,
           NEW state \in {"queued", "active"}
    PROVE  Seen(state, t) \in SeenRec /\ Noted(id, Seen(state, t), mon.requestAt)
           /\ NotAhead(t, ended[id]) /\ NotAhead(mon.requestAt, ended[id])
BY InPoll, SeenIs DEF Noted, NotAhead

LEMMA TerminalNoted ==
    ASSUME BInv, NEW id \in Runs, phase[id] \in Terminal, NEW t \in Nat, t <= now,
           NotAhead(t, ended[id])
    PROVE  Seen(phase[id], t) \in SeenRec /\ Noted(id, Seen(phase[id], t), mon.requestAt)
           /\ Seen(phase[id], t).state = phase[id]
BY InPoll, SeenIs DEF Noted

LEMMA LiveIs == \A p : Live(p) \in {"queued", "active"}
BY DEF Live

\* observeHistory shows every finished job it is asked for, as it is.
LEMMA HistoryIs ==
    ASSUME BInv, NEW ids \in SUBSET Runs, NEW t \in Nat, t <= now
    PROVE  LET f == observeHistory(ids, t) IN
           /\ f \in SeenFns /\ DOMAIN f = {i \in ids : phase[i] \in Terminal \union {"post"}}
           /\ \A id \in DOMAIN f :
                 /\ Noted(id, f[id], mon.requestAt)
                 /\ f[id].state \in Terminal => phase[id] \in Terminal /\ f[id].state = phase[id]
                 /\ f[id].state \notin Terminal => ended[id] = 0 /\ f[id] = Seen("active", t)
                 /\ phase[id] \in Terminal => f[id].state \in Terminal
<1> DEFINE f == observeHistory(ids, t)
           D == {i \in ids : phase[i] \in Terminal \union {"post"}}
<1>1. /\ f = [id \in D |-> IF phase[id] \in Terminal THEN Seen(phase[id], Zero) ELSE Seen("active", t)]
      /\ D \subseteq Runs /\ Runs \subseteq Nat
  BY InPoll DEF observeHistory
<1> HIDE DEF f
<1>2. ASSUME NEW id \in D
      PROVE  /\ f[id] \in SeenRec /\ Noted(id, f[id], mon.requestAt)
             /\ f[id].state \in Terminal => phase[id] \in Terminal /\ f[id].state = phase[id]
             /\ f[id].state \notin Terminal => ended[id] = 0 /\ f[id] = Seen("active", t)
             /\ phase[id] \in Terminal => f[id].state \in Terminal
  <2>1. CASE phase[id] \in Terminal
    <3>1. f[id] = Seen(phase[id], 0)
      BY <1>1, <2>1
    <3>2. NotAhead(0, ended[id]) /\ 0 <= now
      BY <1>1, InPoll DEF NotAhead
    <3> QED
      BY <1>1, <2>1, <3>1, <3>2, TerminalNoted
  <2>2. CASE phase[id] \notin Terminal
    <3>1. f[id] = Seen("active", t)
      BY <1>1, <2>2
    <3> QED
      BY <1>1, <2>2, <3>1, LiveNoted, SeenIs, InPoll
  <2> QED
    BY <2>1, <2>2
<1>3. DOMAIN f = D /\ f \in [D -> SeenRec]
  BY <1>1, <1>2
<1>4. f \in SeenFns
  <2> HIDE DEF D
  <2> QED
    BY <1>1, <1>3, SeenTyped
<1> QED
  BY <1>2, <1>3, <1>4 DEF f

LEMMA OverIs ==
    ASSUME NEW new \in SeenFns, NEW old \in SeenFns
    PROVE  /\ Over(new, old) \in SeenFns /\ DOMAIN Over(new, old) = DOMAIN new \union DOMAIN old
           /\ \A id \in DOMAIN new : Over(new, old)[id] = new[id]
           /\ \A id \in DOMAIN old \ DOMAIN new : Over(new, old)[id] = old[id]
<1> DEFINE D == DOMAIN new \union DOMAIN old
           f == Over(new, old)
<1>1. f = [id \in D |-> IF id \in DOMAIN new THEN new[id] ELSE old[id]]
  BY DEF Over
<1>2. D \in SUBSET Nat /\ \A id \in D : (IF id \in DOMAIN new THEN new[id] ELSE old[id]) \in SeenRec
  BY SeenAt
<1> HIDE DEF f
<1>3. DOMAIN f = D /\ f \in [D -> SeenRec]
  BY <1>1, <1>2
<1>4. f \in SeenFns
  <2> HIDE DEF D
  <2> QED
    BY <1>2, <1>3, SeenTyped
<1> QED
  BY <1>1, <1>3, <1>4 DEF f

\* SABnzbd and nzbfast.
LEMMA SabBInv ==
    ASSUME BInv, SabHistory \/ SabQueue \/ SabAgain
    PROVE  BInv'
<1>1. Wanted \in SUBSET Runs /\ mon.requestAt <= now /\ mon.queueAt <= now /\ mon.againAt <= now
      /\ Runs \subseteq Nat
  BY WantedIs, InPoll DEF Polling
<1>2. CASE SabHistory
  <2> DEFINE f == observeHistory(Wanted, mon.requestAt)
             pc == IF DOMAIN f = Wanted THEN "apply" ELSE "askQueue"
             m == [mon EXCEPT !.seen = f, !.pc = pc]
  <2>1. mon' = m /\ UNCHANGED <<input, now, clientVars, sub, chan>> /\ mon.pc = "history"
    BY <1>2 DEF SabHistory, Answered
  <2>2. /\ f \in SeenFns /\ DOMAIN f = {i \in Wanted : phase[i] \in Terminal \union {"post"}}
        /\ \A id \in DOMAIN f : /\ Noted(id, f[id], mon.requestAt)
                                /\ phase[id] \in Terminal => f[id].state \in Terminal
    BY <1>1, HistoryIs, InPoll
  <2> HIDE DEF f
  <2>3. pc \in {"apply", "askQueue"}
    OBVIOUS
  <2> HIDE DEF pc
  <2>4. Reads(m) /\ m.seen = f /\ m.pc = pc /\ m.past = mon.past
    BY <2>2, <2>3, InPoll DEF Reads, MonRec
  <2>5. mon.past = {}
    BY <2>1, InPoll DEF Polling
  <2>6. ASSUME NEW id \in Wanted, ~NotAhead(mon.requestAt, ended[id])
        PROVE  id \in DOMAIN f /\ f[id].state \in Terminal
    <3>1. phase[id] \in Terminal
      BY <1>1, <2>6, InPoll DEF NotAhead
    <3> QED
      BY <2>2, <2>6, <3>1
  <2> HIDE DEF m
  <2> QED
    BY <2>1, <2>2, <2>3, <2>4, <2>5, <2>6, AnswerBInv
<1>3. CASE SabQueue
  <2> DEFINE listed == {id \in Wanted \ DOMAIN mon.seen : phase[id] \in {"queued", "active", "past"}}
             past == {id \in listed : phase[id] = "past"}
             g == [id \in listed |-> Seen(Live(phase[id]), mon.queueAt)]
             f == Over(g, mon.seen)
             pc == IF past = {} THEN "apply" ELSE "askAgain"
             m == [mon EXCEPT !.seen = f, !.past = past, !.pc = pc]
  <2>1. mon' = m /\ UNCHANGED <<input, now, clientVars, sub, chan>> /\ mon.pc = "queue"
    BY <1>3 DEF SabQueue, Answered
  <2>2. /\ listed \subseteq Runs /\ past \subseteq listed /\ pc \in {"apply", "askAgain"}
        /\ listed \in SUBSET Nat /\ past \in SUBSET Nat /\ listed \cap DOMAIN mon.seen = {}
        /\ \A id \in listed : phase[id] \notin Terminal
    BY <1>1
  <2>3. \A id \in listed : /\ g[id] \in SeenRec /\ Noted(id, g[id], mon.requestAt)
                           /\ NotAhead(mon.queueAt, ended[id]) /\ NotAhead(mon.requestAt, ended[id])
    BY <1>1, <2>2, LiveNoted, LiveIs, InPoll
  <2>4. DOMAIN g = listed /\ g \in [listed -> SeenRec]
    BY <2>3
  <2> HIDE DEF g, pc, past, listed
  <2>5. g \in SeenFns
    BY <2>2, <2>4, SeenTyped
  <2>6. /\ f \in SeenFns /\ DOMAIN f = listed \union DOMAIN mon.seen
        /\ \A id \in listed : f[id] = g[id]
        /\ \A id \in DOMAIN mon.seen : f[id] = mon.seen[id]
    <3>1. mon.seen \in SeenFns
      BY InPoll
    <3>2. /\ Over(g, mon.seen) \in SeenFns
          /\ DOMAIN Over(g, mon.seen) = DOMAIN g \union DOMAIN mon.seen
          /\ \A id \in DOMAIN g : Over(g, mon.seen)[id] = g[id]
          /\ \A id \in DOMAIN mon.seen \ DOMAIN g : Over(g, mon.seen)[id] = mon.seen[id]
      BY <2>5, <3>1, OverIs, Zenon
    <3> QED
      BY <2>2, <2>4, <3>2
  <2> HIDE DEF f
  <2>7. Reads(m) /\ m.seen = f /\ m.pc = pc /\ m.past = past
    BY <2>2, <2>6, InPoll DEF Reads, MonRec
  <2>8. \A id \in DOMAIN f : Noted(id, f[id], mon.requestAt)
    BY <2>3, <2>6, InPoll DEF Polling
  <2>9. ASSUME NEW id \in Wanted, ~NotAhead(mon.requestAt, ended[id])
        PROVE  id \in DOMAIN f /\ f[id].state \in Terminal
    <3>1. PICK i \in DOMAIN mon.jobs : ~Complete(mon.jobs[i]) /\ mon.jobs[i].id = id
      BY DEF Wanted
    <3> QED
      BY <2>1, <2>6, <2>9, <3>1, InPoll DEF Thorough
  <2> HIDE DEF m
  <2> QED
    BY <2>1, <2>2, <2>3, <2>7, <2>8, <2>9, AnswerBInv
<1>4. CASE SabAgain
  <2> DEFINE found == observeHistory(mon.past, mon.againAt)
             g == [id \in DOMAIN found |-> IF found[id].state \in Terminal
                                           THEN Seen(found[id].state, mon.queueAt) ELSE found[id]]
             f == Over(g, mon.seen)
             m == [mon EXCEPT !.pc = "apply", !.seen = f]
  <2>1. mon' = m /\ UNCHANGED <<input, now, clientVars, sub, chan>> /\ mon.pc = "again"
    BY <1>4 DEF SabAgain, Answered
  <2>2. mon.past \in SUBSET Runs /\ \A id \in mon.past : NotAhead(mon.queueAt, ended[id])
                                                         /\ NotAhead(mon.requestAt, ended[id])
    BY InPoll DEF Polling
  <2>3. /\ found \in SeenFns /\ DOMAIN found \subseteq mon.past
        /\ \A id \in DOMAIN found :
              /\ Noted(id, found[id], mon.requestAt)
              /\ found[id].state \in Terminal => phase[id] \in Terminal /\ found[id].state = phase[id]
    <3>1. mon.againAt \in Nat /\ mon.againAt <= now
      BY <1>1, InPoll
    <3>2. /\ found \in SeenFns /\ DOMAIN found = {i \in mon.past : phase[i] \in Terminal \union {"post"}}
          /\ \A id \in DOMAIN found :
                /\ Noted(id, found[id], mon.requestAt)
                /\ found[id].state \in Terminal => phase[id] \in Terminal /\ found[id].state = phase[id]
      BY <2>2, <3>1, HistoryIs, Zenon
    <3> QED
      BY <3>2
  <2> HIDE DEF found
  <2>4. \A id \in DOMAIN found : g[id] \in SeenRec /\ Noted(id, g[id], mon.requestAt)
    <3> SUFFICES ASSUME NEW id \in DOMAIN found
                 PROVE  g[id] \in SeenRec /\ Noted(id, g[id], mon.requestAt)
      OBVIOUS
    <3>1. CASE found[id].state \in Terminal
      <4>1. g[id] = Seen(phase[id], mon.queueAt) /\ phase[id] \in Terminal
        BY <2>3, <3>1
      <4>2. id \in Runs /\ NotAhead(mon.queueAt, ended[id])
        BY <2>2, <2>3
      <4> QED
        BY <1>1, <4>1, <4>2, TerminalNoted, InPoll
    <3>2. CASE found[id].state \notin Terminal
      BY <2>3, <3>2, SeenAt
    <3> QED
      BY <3>1, <3>2
  <2>5. DOMAIN g = DOMAIN found /\ g \in [DOMAIN found -> SeenRec] /\ DOMAIN found \in SUBSET Nat
    BY <2>3, <2>4, SeenAt
  <2> HIDE DEF g
  <2>6. g \in SeenFns
    BY <2>5, SeenTyped
  <2>7. /\ f \in SeenFns /\ DOMAIN f = DOMAIN found \union DOMAIN mon.seen
        /\ \A id \in DOMAIN found : f[id] = g[id]
        /\ \A id \in DOMAIN mon.seen \ DOMAIN found : f[id] = mon.seen[id]
    <3>1. mon.seen \in SeenFns
      BY InPoll
    <3>2. /\ Over(g, mon.seen) \in SeenFns
          /\ DOMAIN Over(g, mon.seen) = DOMAIN g \union DOMAIN mon.seen
          /\ \A id \in DOMAIN g : Over(g, mon.seen)[id] = g[id]
          /\ \A id \in DOMAIN mon.seen \ DOMAIN g : Over(g, mon.seen)[id] = mon.seen[id]
      BY <2>6, <3>1, OverIs, Zenon
    <3> QED
      BY <2>5, <3>2
  <2> HIDE DEF f
  <2>8. Reads(m) /\ m.seen = f /\ m.pc = "apply" /\ m.past = mon.past
    BY <2>7, InPoll DEF Reads, MonRec
  <2>9. \A id \in DOMAIN f : Noted(id, f[id], mon.requestAt)
    BY <2>4, <2>7, InPoll DEF Polling
  <2>10. ASSUME NEW id \in Wanted, ~NotAhead(mon.requestAt, ended[id])
         PROVE  id \in DOMAIN f /\ f[id].state \in Terminal
    <3>1. PICK i \in DOMAIN mon.jobs : ~Complete(mon.jobs[i]) /\ mon.jobs[i].id = id
      BY DEF Wanted
    <3>2. id \in DOMAIN mon.seen /\ mon.seen[id].state \in Terminal
      BY <2>1, <2>10, <3>1, InPoll DEF Thorough
    <3>3. id \notin DOMAIN found
      BY <2>2, <2>3, <2>10
    <3> QED
      BY <2>7, <3>2, <3>3
  <2> HIDE DEF m
  <2> QED
    BY <2>1, <2>2, <2>8, <2>9, <2>10, AnswerBInv
<1> QED
  BY <1>2, <1>3, <1>4

\* NZBGet and Weaver.
LEMMA OthersBInv ==
    ASSUME BInv, NzbgetGroups \/ NzbgetHistory \/ WeaverJobs
    PROVE  BInv'
<1>1. Wanted \in SUBSET Runs /\ Runs \subseteq Nat /\ 0 <= now
      /\ \A id \in Runs : NotAhead(0, ended[id])
  BY WantedIs, InPoll DEF NotAhead
<1>2. CASE NzbgetGroups
  <2> DEFINE listed == {id \in Wanted : phase[id] \notin Terminal}
             f == [id \in listed |-> Seen(Live(phase[id]), Zero)]
             m == [mon EXCEPT !.pc = "nzbgetHistory", !.seen = f]
  <2>1. mon' = m /\ UNCHANGED <<input, now, clientVars, sub, chan>> /\ mon.pc = "listgroups"
    BY <1>2 DEF NzbgetGroups, Answered
  <2>2. \A id \in listed : f[id] \in SeenRec /\ Noted(id, f[id], mon.requestAt)
    BY <1>1, LiveNoted, LiveIs
  <2>3. DOMAIN f = listed /\ f \in [listed -> SeenRec] /\ listed \in SUBSET Nat
    BY <1>1, <2>2
  <2> HIDE DEF f, listed
  <2>4. f \in SeenFns
    BY <2>3, SeenTyped
  <2>5. Reads(m) /\ m.seen = f /\ m.pc = "nzbgetHistory" /\ m.past = mon.past
    BY <2>4, InPoll DEF Reads, MonRec
  <2>6. mon.past = {}
    BY <2>1, InPoll DEF Polling
  <2> HIDE DEF m
  <2> QED
    BY <2>1, <2>2, <2>3, <2>5, <2>6, AnswerBInv
<1>3. CASE NzbgetHistory
  <2> DEFINE listed == {id \in Wanted : phase[id] \in Terminal}
             g == [id \in listed |-> Seen(phase[id], Zero)]
             f == Over(g, mon.seen)
             m == [mon EXCEPT !.pc = "apply", !.seen = f]
  <2>1. mon' = m /\ UNCHANGED <<input, now, clientVars, sub, chan>> /\ mon.pc = "nzbgetHistory"
    BY <1>3 DEF NzbgetHistory, Answered
  <2>2. \A id \in listed : /\ g[id] \in SeenRec /\ Noted(id, g[id], mon.requestAt)
                           /\ g[id].state \in Terminal
    BY <1>1, TerminalNoted
  <2>3. DOMAIN g = listed /\ g \in [listed -> SeenRec] /\ listed \in SUBSET Nat
    BY <1>1, <2>2
  <2>4. ASSUME NEW id \in Wanted, ~NotAhead(mon.requestAt, ended[id]) PROVE id \in listed
    BY <1>1, <2>4, InPoll DEF NotAhead
  <2> HIDE DEF g, listed
  <2>5. g \in SeenFns
    BY <2>3, SeenTyped
  <2>6. /\ f \in SeenFns /\ DOMAIN f = listed \union DOMAIN mon.seen
        /\ \A id \in listed : f[id] = g[id]
        /\ \A id \in DOMAIN mon.seen \ listed : f[id] = mon.seen[id]
    BY <2>3, <2>5, OverIs, InPoll
  <2> HIDE DEF f
  <2>7. Reads(m) /\ m.seen = f /\ m.pc = "apply" /\ m.past = mon.past
    BY <2>6, InPoll DEF Reads, MonRec
  <2>8. \A id \in DOMAIN f : Noted(id, f[id], mon.requestAt)
    BY <2>2, <2>6, InPoll DEF Polling
  <2>9. mon.past = {}
    BY <2>1, InPoll DEF Polling
  <2> HIDE DEF m
  <2> QED
    BY <2>1, <2>2, <2>4, <2>6, <2>7, <2>8, <2>9, AnswerBInv
<1>4. CASE WeaverJobs
  <2> DEFINE f == [id \in Wanted |-> IF phase[id] \in Terminal THEN Seen(phase[id], Zero)
                                     ELSE Seen(Live(phase[id]), Zero)]
             m == [mon EXCEPT !.pc = "apply", !.seen = f]
  <2>1. mon' = m /\ UNCHANGED <<input, now, clientVars, sub, chan>> /\ mon.pc = "jobs"
    BY <1>4 DEF WeaverJobs, Answered
  <2>2. \A id \in Wanted : /\ f[id] \in SeenRec /\ Noted(id, f[id], mon.requestAt)
                           /\ phase[id] \in Terminal => f[id].state \in Terminal
    <3> SUFFICES ASSUME NEW id \in Wanted
                 PROVE  /\ f[id] \in SeenRec /\ Noted(id, f[id], mon.requestAt)
                        /\ phase[id] \in Terminal => f[id].state \in Terminal
      OBVIOUS
    <3>1. CASE phase[id] \in Terminal
      <4>1. f[id] = Seen(phase[id], 0)
        BY <3>1
      <4> QED
        BY <1>1, <3>1, <4>1, TerminalNoted
    <3>2. CASE phase[id] \notin Terminal
      <4>1. f[id] = Seen(Live(phase[id]), 0)
        BY <3>2
      <4> QED
        BY <1>1, <3>2, <4>1, LiveNoted, LiveIs
    <3> QED
      BY <3>1, <3>2
  <2>3. DOMAIN f = Wanted /\ f \in [Wanted -> SeenRec] /\ Wanted \in SUBSET Nat
    BY <1>1, <2>2
  <2>4. ASSUME NEW id \in Wanted, ~NotAhead(mon.requestAt, ended[id]) PROVE phase[id] \in Terminal
    BY <1>1, <2>4, InPoll DEF NotAhead
  <2> HIDE DEF f
  <2>5. f \in SeenFns
    BY <2>3, SeenTyped
  <2>6. Reads(m) /\ m.seen = f /\ m.pc = "apply" /\ m.past = mon.past
    BY <2>5, InPoll DEF Reads, MonRec
  <2>7. mon.past = {}
    BY <2>1, InPoll DEF Polling
  <2> HIDE DEF m
  <2> QED
    BY <2>1, <2>2, <2>3, <2>4, <2>6, <2>7, AnswerBInv
<1> QED
  BY <1>2, <1>3, <1>4

LEMMA LaterIs ==
    ASSUME NEW x \in Nat, NEW t \in Nat
    PROVE  /\ Later(x, t) \in Nat /\ x <= Later(x, t) /\ t <= Later(x, t)
           /\ Later(x, t) \in {x, t}
BY DEF Later

\* What is kept of a job, whatever is noted about it.
SameJob(job, e) ==
    /\ e \in JobRec /\ e.run = job.run /\ e.id = job.id /\ e.submitted = job.submitted
    /\ e.queuedAt = job.queuedAt

\* An observation is applied: the outcome is the client's, the time is behind it.
LEMMA ObservedKnown ==
    ASSUME BInv, mon.pc = "apply", NEW i \in DOMAIN mon.jobs, NEW job, job = mon.jobs[i],
           NEW e, e = Observed(job)
    PROVE  /\ SameJob(job, e) /\ Known(e)
           /\ e.status # "timed_out" \/ e.status = job.status
           /\ ~Complete(e) => ~Complete(job) /\ NotAhead(mon.requestAt, ended[job.id])
<1>1. /\ job \in JobRec /\ Known(job) /\ now \in Nat /\ job.id \in Runs /\ job.run \in Runs
      /\ job.last \in Nat /\ job.queuedAt \in Nat /\ job.submitted \in Nat /\ job.processing \in Nat
      /\ job.queuedAt <= mon.requestAt /\ mon.requestAt \in Nat /\ mon.requestAt <= now
      /\ ended \in [Runs -> Nat]
  BY InPoll DEF Known, KnownTimes, Since, JobRec, Polling
<1>2. CASE Complete(job) \/ job.id \notin DOMAIN mon.seen
  <2>1. e = job
    BY <1>2 DEF Observed
  <2>2. ~Complete(job) => NotAhead(mon.requestAt, ended[job.id])
    BY <1>2, InPoll DEF Thorough
  <2> QED
    BY <1>1, <2>1, <2>2 DEF SameJob
<1>3. CASE ~Complete(job) /\ job.id \in DOMAIN mon.seen
  <2> DEFINE o == mon.seen[job.id]
             t == Later(o.pendingAt, mon.requestAt)
             lower == Later(o.pendingAt, job.last)
  <2>1. o \in SeenRec /\ Noted(job.id, o, mon.requestAt) /\ o.pendingAt \in Nat
        /\ o.state \in {"queued", "active", "complete", "failed"}
    BY <1>3, InPoll, SeenAt DEF Polling, SeenRec
  <2>2. /\ e = CASE o.state = "complete" -> Ended(job, "succeeded", lower)
                 [] o.state = "failed"   -> Ended(job, "failed", lower)
                 [] o.state = "queued"   -> [job EXCEPT !.last = t]
                 [] o.state = "active"   ->
                      [job EXCEPT !.last = t,
                                  !.processing = IF job.processing = Zero THEN now ELSE job.processing]
    BY <1>3 DEF Observed
  <2> HIDE DEF o
  <2>3. t \in Nat /\ o.pendingAt <= t /\ mon.requestAt <= t /\ t \in {o.pendingAt, mon.requestAt}
    BY <1>1, <2>1, LaterIs
  <2>4. lower \in Nat /\ o.pendingAt <= lower /\ job.last <= lower /\ lower \in {o.pendingAt, job.last}
    BY <1>1, <2>1, LaterIs
  <2> HIDE DEF t, lower
  <2>5. CASE o.state \in Terminal
    <3> DEFINE status == IF o.state = "failed" THEN "failed" ELSE "succeeded"
    <3>1. e = Ended(job, status, lower) /\ status \in {"succeeded", "failed"}
          /\ (status = "failed" <=> o.state = "failed")
      BY <2>2, <2>5
    <3> HIDE DEF status
    <3>2. /\ e \in JobRec /\ e.run = job.run /\ e.id = job.id /\ e.submitted = job.submitted
          /\ e.queuedAt = job.queuedAt /\ e.processing = job.processing /\ e.refused = job.refused
          /\ e.status = status /\ e.last = lower /\ e.lower = lower /\ e.at = now
      BY <1>1, <2>4, <3>1 DEF Ended, JobRec
    <3>3. KnownTimes(e)
      BY <1>1, <2>1, <2>4, <3>2 DEF Known, KnownTimes, Noted
    <3>4. KnownClient(e)
      <4> SUFFICES ASSUME job.id = job.run
                   PROVE  /\ NotAhead(e.last, ended[job.run])
                          /\ ended[job.run] # Zero /\ ended[job.run] <= e.at
                          /\ phase[job.run] = IF e.status = "failed" THEN "failed" ELSE "complete"
        BY <3>2 DEF KnownClient
      <4>1. phase[job.run] = o.state /\ NotAhead(o.pendingAt, ended[job.run])
        BY <2>1, <2>5 DEF Noted
      <4>2. NotAhead(job.last, ended[job.run])
        BY <1>1 DEF Known, KnownClient
      <4>3. ended[job.run] # 0 /\ ended[job.run] <= now
        BY <1>1, <2>5, <4>1 DEF BInv, ClientSound
      <4> QED
        BY <1>1, <2>4, <2>5, <3>1, <3>2, <4>1, <4>2, <4>3 DEF NotAhead
    <3> QED
      BY <3>1, <3>2, <3>3, <3>4 DEF SameJob, Known, Complete
  <2>6. CASE o.state \notin Terminal
    <3> DEFINE p == IF o.state = "active" /\ job.processing = Zero THEN now ELSE job.processing
    <3>1. p \in Nat /\ p \in {job.processing, now}
      BY <1>1
    <3>2. e = [job EXCEPT !.last = t] \/ e = [job EXCEPT !.last = t, !.processing = p]
      BY <2>1, <2>2, <2>6
    <3> HIDE DEF p
    <3>3. /\ e \in JobRec /\ e.run = job.run /\ e.id = job.id /\ e.submitted = job.submitted
          /\ e.queuedAt = job.queuedAt /\ e.processing \in {job.processing, now}
          /\ e.refused = job.refused /\ e.status = job.status /\ e.last = t
      BY <1>1, <2>3, <3>1, <3>2 DEF JobRec
    <3>4. e.status = "pending"
      BY <1>3, <3>3 DEF Complete
    <3>5. KnownTimes(e)
      BY <1>1, <2>1, <2>3, <3>3, <3>4 DEF Known, KnownTimes, Noted, Complete
    <3>6. KnownClient(e)
      BY <2>1, <2>3, <2>6, <3>3, <3>4 DEF KnownClient, Noted
    <3>7. NotAhead(mon.requestAt, ended[job.id])
      BY <2>1, <2>6 DEF Noted
    <3> QED
      BY <1>3, <3>3, <3>4, <3>5, <3>6, <3>7 DEF SameJob, Known
  <2> QED
    BY <2>5, <2>6
<1> QED
  BY <1>2, <1>3

\* The whole of one application, and what a timeout means.
LEMMA AppliedKnown ==
    ASSUME BInv, mon.pc = "apply", NEW i \in DOMAIN mon.jobs, NEW job, job = mon.jobs[i],
           NEW e, e = Applied(job)
    PROVE  /\ SameJob(job, e) /\ Known(e)
           /\ job.status = "pending" /\ e.status = "timed_out" =>
                 /\ now - job.queuedAt >= JobTimeout
                 /\ NotAhead(mon.requestAt, ended[job.id])
<1> DEFINE o == Observed(job)
<1>1. /\ SameJob(job, o) /\ Known(o)
      /\ o.status # "timed_out" \/ o.status = job.status
      /\ ~Complete(o) => ~Complete(job) /\ NotAhead(mon.requestAt, ended[job.id])
  BY ObservedKnown
<1>2. e = TimedOut(o)
  BY DEF Applied
<1> HIDE DEF o
<1>3. now \in Nat /\ JobTimeout \in Nat
  BY InPoll, MonitorAssumption
<1>4. CASE Complete(o) \/ now < o.queuedAt + JobTimeout
  <2>1. e = o
    BY <1>2, <1>4 DEF TimedOut
  <2> QED
    BY <1>1, <2>1
<1>5. CASE ~Complete(o) /\ ~(now < o.queuedAt + JobTimeout)
  <2>1. e = Ended(o, "timed_out", o.last)
    BY <1>2, <1>5 DEF TimedOut
  <2>2. o \in JobRec /\ o.last \in Nat /\ o.queuedAt \in Nat /\ o.queuedAt = job.queuedAt
    BY <1>1 DEF SameJob, JobRec
  <2>3. /\ e \in JobRec /\ e.run = o.run /\ e.id = o.id /\ e.submitted = o.submitted
        /\ e.queuedAt = o.queuedAt /\ e.processing = o.processing /\ e.refused = o.refused
        /\ e.status = "timed_out" /\ e.last = o.last /\ e.lower = o.last /\ e.at = now
    BY <1>3, <2>1, <2>2 DEF Ended, JobRec
  <2>4. KnownTimes(e)
    BY <1>1, <1>3, <2>2, <2>3 DEF Known, KnownTimes, JobRec
  <2>5. KnownClient(e)
    BY <1>1, <2>3 DEF Known, KnownClient
  <2>6. now - job.queuedAt >= JobTimeout
    BY <1>3, <1>5, <2>2
  <2> QED
    BY <1>1, <1>5, <2>3, <2>4, <2>5, <2>6 DEF SameJob, Known
<1> QED
  BY <1>4, <1>5

LEMMA ApplyBInv ==
    ASSUME BInv, Apply
    PROVE  BInv'
<1> DEFINE jobs == [i \in DOMAIN mon.jobs |-> Applied(mon.jobs[i])]
           n == [mon EXCEPT !.jobs = jobs, !.requestAt = Zero, !.queueAt = Zero, !.againAt = Zero,
                            !.seen = <<>>, !.past = {}]
           pc == Loop(n)
           m == [n EXCEPT !.pc = pc]
<1>1. mon' = m /\ UNCHANGED <<input, now, clientVars, sub, chan>> /\ mon.pc = "apply"
  BY DEF Apply, Continue
<1>2. \A i \in DOMAIN mon.jobs : Applied(mon.jobs[i]) \in JobRec /\ Known(Applied(mon.jobs[i]))
  BY <1>1, AppliedKnown DEF SameJob
<1>3. jobs \in Seq(JobRec) /\ \A i \in DOMAIN jobs : Known(jobs[i])
  BY <1>2, InPoll
<1> HIDE DEF jobs
<1>4. /\ n \in MonRec /\ n.jobs = jobs /\ n.seen = <<>> /\ n.past = {}
      /\ n.requestAt = 0 /\ n.queueAt = 0 /\ n.againAt = 0
  BY <1>3, NothingSeen, InPoll DEF MonRec
<1> HIDE DEF n
<1>5. pc \in {"select", "ok"}
  BY DEF Loop
<1> HIDE DEF pc
<1>6. /\ m \in MonRec /\ m.jobs = jobs /\ m.seen = <<>> /\ m.past = {} /\ m.pc = pc
      /\ m.requestAt = 0 /\ m.queueAt = 0 /\ m.againAt = 0
  BY <1>4, <1>5 DEF MonRec
<1>7. DOMAIN m.seen = {}
  BY <1>6
<1> HIDE DEF m
<1>8. MonGood(m)
  BY <1>3, <1>5, <1>6, <1>7, InPoll DEF MonGood, Polling, Since, Thorough
<1> QED
  BY <1>1, <1>8, Still DEF BInv

(***************************************************************************)
(* The theorems about the observations.                                    *)
(***************************************************************************)
LEMMA BInvInit == Init => BInv
<1> SUFFICES ASSUME Init PROVE BInv
  OBVIOUS
<1>1. input \in Inputs /\ now = 1 /\ chan = NewChannel /\ mon = NewMonitor
      /\ phase = [r \in Runs |-> "absent"] /\ ended = [r \in Runs |-> 0]
  BY DEF Init
<1>2. Typed /\ ClientSound
  BY <1>1 DEF Typed, ClientSound, Phases
<1>3. ChanGood(chan) /\ MonGood(mon)
  BY <1>1, NewMonitorFresh, FreshGood DEF ChanGood, NewChannel
<1>4. sub = [pc |-> "next", run |-> 1, startedAt |-> 0, job |-> 0, ids |-> {}, jobs |-> <<>>]
      /\ <<>> \in Seq(JobRec)
  BY DEF Init
<1>5. sub \in SubRec /\ sub.pc = "next" /\ sub.run = 1 /\ sub.ids = {}
  BY <1>4 DEF SubRec
<1>6. SubGood(sub)
  BY <1>1, <1>5 DEF SubGood
<1> QED
  BY <1>2, <1>3, <1>6 DEF BInv

LEMMA BInvStep == BInv /\ [Next]_vars => BInv'
<1> SUFFICES ASSUME BInv, [Next]_vars PROVE BInv'
  OBVIOUS
<1>1. CASE UNCHANGED vars
  BY <1>1, Still DEF vars, clientVars, BInv
<1>2. CASE Monitoring
  BY <1>2, RegistrationBInv, AskBInv, SabBInv, OthersBInv, ApplyBInv DEF Monitoring
<1> QED
  BY <1>1, <1>2, SubmittingBInv, ClientBInv DEF Next

\* What the monitor has noted holds of the client.
THEOREM Observation == Spec => []BInv
<1> QED
  BY BInvInit, BInvStep, PTL DEF Spec

\* For every product, mode, number of runs and timing: the interval recorded
\* for a job contains the moment the client finished it, and the outcome is
\* the client's.
THEOREM IntervalContainsTheEnd == Spec => []TerminalBracketed
<1>1. BInv => TerminalBracketed
  <2> SUFFICES ASSUME BInv, NEW i \in DOMAIN mon.jobs, mon.jobs[i].id = mon.jobs[i].run
               PROVE  LET job == mon.jobs[i] IN
                      /\ ended[job.run] # Zero => job.last <= ended[job.run]
                      /\ job.status \in {"succeeded", "failed"} =>
                            /\ ended[job.run] \in job.lower..job.at
                            /\ phase[job.run] = IF job.status = "failed" THEN "failed" ELSE "complete"
    BY DEF TerminalBracketed, Tracked
  <2> DEFINE job == mon.jobs[i]
  <2>1. job \in JobRec /\ KnownTimes(job) /\ KnownClient(job) /\ ended \in [Runs -> Nat]
    BY InPoll DEF Known
  <2>2. job.lower \in Nat /\ job.at \in Nat /\ ended[job.run] \in Nat
    BY <2>1 DEF JobRec, KnownTimes
  <2> HIDE DEF job
  <2> QED
    BY <2>1, <2>2 DEF KnownTimes, KnownClient, NotAhead, Complete, job
<1> QED
  BY <1>1, Observation, PTL

(***************************************************************************)
(* What a step of the monitor does to the jobs it has.                     *)
(***************************************************************************)
\* It fails and forgets them.
Forgets == /\ mon'.pc = "error" /\ mon'.open /\ mon'.jobs = <<>>
           /\ mon.pc \notin {"ok", "error"} /\ chan'.closed = chan.closed
           /\ chan'.queue = chan.queue \/ (chan.queue # <<>> /\ chan'.queue = Tail(chan.queue))

\* It takes the next one from the channel.
Takes == /\ mon.pc = "select" /\ mon'.pc = "select" /\ mon'.open = mon.open
         /\ chan.queue # <<>> /\ mon'.jobs = Append(mon.jobs, Track(Head(chan.queue)))
         /\ chan'.queue = Tail(chan.queue) /\ chan'.closed = chan.closed

\* It goes on with the ones it has; it ends when all of them are complete.
GoesOn == /\ chan' = chan /\ mon.pc \notin {"ok", "error"} /\ mon'.pc # "error"
          /\ DOMAIN mon'.jobs = DOMAIN mon.jobs /\ mon'.jobs \in Seq(JobRec)
          /\ \A i \in DOMAIN mon.jobs : mon'.jobs[i].run = mon.jobs[i].run
          /\ Apply \/ mon'.jobs = mon.jobs
          /\ mon'.open = mon.open \/ (~mon'.open /\ chan.closed /\ chan.queue = <<>>)
          /\ mon'.pc = "ok" => ~mon'.open /\ \A i \in DOMAIN mon'.jobs : Complete(mon'.jobs[i])

LEMMA LoopIs ==
    ASSUME NEW m \in MonRec, NEW n, n = [m EXCEPT !.pc = Loop(m)]
    PROVE  /\ n.jobs = m.jobs /\ n.open = m.open /\ n.pc \in {"select", "ok"}
           /\ n.pc = "ok" => ~n.open /\ \A i \in DOMAIN n.jobs : Complete(n.jobs[i])
<1> DEFINE pc == Loop(m)
<1>1. pc \in {"select", "ok"} /\ (pc = "ok" => ~m.open /\ \A i \in DOMAIN m.jobs : Complete(m.jobs[i]))
  BY DEF Loop
<1>2. n = [m EXCEPT !.pc = pc]
  OBVIOUS
<1> HIDE DEF pc
<1>3. n.jobs = m.jobs /\ n.open = m.open /\ n.pc = pc
  BY <1>1, <1>2 DEF MonRec
<1> QED
  BY <1>1, <1>3

LEMMA MonitorMoves ==
    ASSUME BInv, Monitoring
    PROVE  UNCHANGED <<input, now, clientVars, sub, ret>> /\ (Forgets \/ Takes \/ GoesOn)
<1>1. mon \in MonRec /\ mon.jobs \in Seq(JobRec)
  BY InPoll
<1>2. [NewMonitor EXCEPT !.pc = "error"].pc = "error" /\ [NewMonitor EXCEPT !.pc = "error"].jobs = <<>>
      /\ [NewMonitor EXCEPT !.pc = "error"].open
  BY NewMonitorFresh DEF Fresh
<1>3. CASE MonitorCancelled \/ ObserveFails
  BY <1>2, <1>3 DEF MonitorCancelled, ObserveFails, MonitorFails, Forgets
<1>4. CASE Registered
  <2> DEFINE m == [mon EXCEPT !.jobs = Append(mon.jobs, Track(Head(chan.queue)))]
             c == [chan EXCEPT !.queue = Tail(chan.queue)]
  <2>1. /\ UNCHANGED <<input, now, clientVars, sub, ret>> /\ mon.pc = "select" /\ chan.queue # <<>>
        /\ MonitorFails \/ mon' = m
        /\ chan' = c
    BY <1>4 DEF Registered
  <2>2. c.queue = Tail(chan.queue) /\ c.closed = chan.closed
    BY DEF BInv, ChanGood
  <2>3. m.pc = mon.pc /\ m.open = mon.open /\ m.jobs = Append(mon.jobs, Track(Head(chan.queue)))
    BY <1>1 DEF MonRec
  <2> QED
    BY <1>2, <2>1, <2>2, <2>3 DEF MonitorFails, Forgets, Takes
<1>5. CASE RegistrationsClosed
  <2> DEFINE o == [mon EXCEPT !.open = FALSE]
  <2>1. /\ UNCHANGED <<input, now, clientVars, sub, chan, ret>> /\ mon.pc = "select"
        /\ chan.closed /\ chan.queue = <<>>
        /\ MonitorFails \/ mon' = [o EXCEPT !.pc = Loop(o)]
    BY <1>5 DEF RegistrationsClosed, Continue
  <2>2. o \in MonRec /\ o.jobs = mon.jobs /\ ~o.open
    BY <1>1 DEF MonRec
  <2> HIDE DEF o
  <2>3. CASE MonitorFails
    BY <1>2, <2>1, <2>3 DEF MonitorFails, Forgets
  <2>4. CASE mon' = [o EXCEPT !.pc = Loop(o)]
    <3>1. /\ mon'.jobs = o.jobs /\ mon'.open = o.open /\ mon'.pc \in {"select", "ok"}
          /\ mon'.pc = "ok" => ~mon'.open /\ \A i \in DOMAIN mon'.jobs : Complete(mon'.jobs[i])
      BY <2>2, <2>4, LoopIs
    <3> QED
      BY <1>1, <2>1, <2>2, <3>1 DEF GoesOn
  <2> QED
    BY <2>1, <2>3, <2>4
<1>6. CASE Poll \/ SabAskQueue \/ SabAskAgain
  <2>1. /\ UNCHANGED <<input, now, clientVars, sub, chan, ret>>
        /\ mon.pc \notin {"ok", "error"}
        /\ mon'.jobs = mon.jobs /\ mon'.open = mon.open
        /\ mon'.pc \notin {"ok", "error"}
    <3>1. CASE Poll
      <4> DEFINE pc == CASE client \in {"sab", "nzbfast"} -> "history"
                         [] client = "nzbget"            -> "listgroups"
                         [] client = "weaver"            -> "jobs"
      <4>1. pc \in {"history", "listgroups", "jobs"}
        BY InPoll, InputTyped
      <4>2. mon' = [mon EXCEPT !.requestAt = now, !.pc = pc]
        BY <3>1 DEF Poll
      <4> HIDE DEF pc
      <4> QED
        BY <1>1, <3>1, <4>1, <4>2 DEF Poll, MonRec
    <3>2. CASE SabAskQueue \/ SabAskAgain
      BY <1>1, <3>2 DEF SabAskQueue, SabAskAgain, MonRec
    <3> QED
      BY <1>6, <3>1, <3>2
  <2> QED
    BY <1>1, <2>1 DEF GoesOn
<1>7. CASE SabHistory \/ SabQueue \/ SabAgain \/ NzbgetGroups \/ NzbgetHistory \/ WeaverJobs
  <2>1. ASSUME NEW f, NEW past, NEW pc \in Asking,
               \/ mon' = [mon EXCEPT !.seen = f, !.pc = pc]
               \/ mon' = [mon EXCEPT !.pc = pc, !.seen = f]
               \/ mon' = [mon EXCEPT !.seen = f, !.past = past, !.pc = pc]
        PROVE  mon'.jobs = mon.jobs /\ mon'.open = mon.open /\ mon'.pc \in Asking
    BY <1>1, <2>1 DEF MonRec
  <2>2. mon'.jobs = mon.jobs /\ mon'.open = mon.open /\ mon'.pc \in Asking
    <3>1. CASE SabHistory
      <4> DEFINE f == observeHistory(Wanted, mon.requestAt)
                 pc == IF DOMAIN f = Wanted THEN "apply" ELSE "askQueue"
      <4>1. mon' = [mon EXCEPT !.seen = f, !.pc = pc] /\ pc \in Asking
        BY <3>1 DEF SabHistory
      <4> HIDE DEF f, pc
      <4> QED
        BY <2>1, <4>1
    <3>2. CASE SabQueue
      <4> DEFINE listed == {id \in Wanted \ DOMAIN mon.seen : phase[id] \in {"queued", "active", "past"}}
                 past == {id \in listed : phase[id] = "past"}
                 f == Over([id \in listed |-> Seen(Live(phase[id]), mon.queueAt)], mon.seen)
                 pc == IF past = {} THEN "apply" ELSE "askAgain"
      <4>1. mon' = [mon EXCEPT !.seen = f, !.past = past, !.pc = pc] /\ pc \in Asking
        BY <3>2 DEF SabQueue
      <4> HIDE DEF f, past, pc
      <4> QED
        BY <2>1, <4>1
    <3>3. CASE SabAgain
      <4> DEFINE found == observeHistory(mon.past, mon.againAt)
                 f == Over([id \in DOMAIN found |-> IF found[id].state \in Terminal
                                                    THEN Seen(found[id].state, mon.queueAt)
                                                    ELSE found[id]], mon.seen)
      <4>1. mon' = [mon EXCEPT !.pc = "apply", !.seen = f]
        BY <3>3 DEF SabAgain
      <4> HIDE DEF f
      <4> QED
        BY <2>1, <4>1
    <3>4. CASE NzbgetGroups
      <4> DEFINE f == [id \in {i \in Wanted : phase[i] \notin Terminal} |-> Seen(Live(phase[id]), Zero)]
      <4>1. mon' = [mon EXCEPT !.pc = "nzbgetHistory", !.seen = f]
        BY <3>4 DEF NzbgetGroups
      <4> HIDE DEF f
      <4> QED
        BY <2>1, <4>1
    <3>5. CASE NzbgetHistory
      <4> DEFINE f == Over([id \in {i \in Wanted : phase[i] \in Terminal} |-> Seen(phase[id], Zero)],
                           mon.seen)
      <4>1. mon' = [mon EXCEPT !.pc = "apply", !.seen = f]
        BY <3>5 DEF NzbgetHistory
      <4> HIDE DEF f
      <4> QED
        BY <2>1, <4>1
    <3>6. CASE WeaverJobs
      <4> DEFINE f == [id \in Wanted |-> IF phase[id] \in Terminal THEN Seen(phase[id], Zero)
                                         ELSE Seen(Live(phase[id]), Zero)]
      <4>1. mon' = [mon EXCEPT !.pc = "apply", !.seen = f]
        BY <3>6 DEF WeaverJobs
      <4> HIDE DEF f
      <4> QED
        BY <2>1, <4>1
    <3> QED
      BY <1>7, <3>1, <3>2, <3>3, <3>4, <3>5, <3>6
  <2>3. UNCHANGED <<input, now, clientVars, sub, chan, ret>> /\ mon.pc \notin {"ok", "error"}
    BY <1>7 DEF SabHistory, SabQueue, SabAgain, NzbgetGroups, NzbgetHistory, WeaverJobs, Answered
  <2> QED
    BY <1>1, <2>2, <2>3 DEF GoesOn
<1>8. CASE Apply
  <2> DEFINE jobs == [i \in DOMAIN mon.jobs |-> Applied(mon.jobs[i])]
             n == [mon EXCEPT !.jobs = jobs, !.requestAt = Zero, !.queueAt = Zero, !.againAt = Zero,
                              !.seen = <<>>, !.past = {}]
  <2>1. /\ mon' = [n EXCEPT !.pc = Loop(n)] /\ UNCHANGED <<input, now, clientVars, sub, chan, ret>>
        /\ mon.pc = "apply"
    BY <1>8 DEF Apply, Continue
  <2>2. \A i \in DOMAIN mon.jobs : SameJob(mon.jobs[i], Applied(mon.jobs[i]))
    BY <2>1, AppliedKnown
  <2>3. jobs \in Seq(JobRec) /\ DOMAIN jobs = DOMAIN mon.jobs
        /\ \A i \in DOMAIN mon.jobs : jobs[i].run = mon.jobs[i].run
    BY <1>1, <2>2 DEF SameJob
  <2> HIDE DEF jobs
  <2>4. n \in MonRec /\ n.jobs = jobs /\ n.open = mon.open
    BY <1>1, <2>3, NothingSeen DEF MonRec
  <2> HIDE DEF n
  <2>5. /\ mon'.jobs = n.jobs /\ mon'.open = n.open /\ mon'.pc \in {"select", "ok"}
        /\ mon'.pc = "ok" => ~mon'.open /\ \A i \in DOMAIN mon'.jobs : Complete(mon'.jobs[i])
    BY <2>1, <2>4, LoopIs
  <2> QED
    BY <1>8, <2>1, <2>3, <2>4, <2>5 DEF GoesOn
<1> QED
  BY <1>3, <1>4, <1>5, <1>6, <1>7, <1>8 DEF Monitoring

LEMMA TimeoutStep == BInv /\ [Next]_vars => [GivenUpHonestly]_vars
<1> SUFFICES ASSUME BInv, Next, NEW i \in DOMAIN mon.jobs, mon.jobs[i].status = "pending",
                    i \in DOMAIN mon'.jobs, mon'.jobs[i].status = "timed_out"
             PROVE  /\ now - mon.jobs[i].queuedAt >= JobTimeout
                    /\ ended[mon.jobs[i].id] # Zero => ended[mon.jobs[i].id] >= mon.requestAt
  BY DEF GivenUpHonestly
<1>1. CASE Apply
  <2>1. mon.pc = "apply" /\ mon'.jobs[i] = Applied(mon.jobs[i])
    <3> DEFINE jobs == [j \in DOMAIN mon.jobs |-> Applied(mon.jobs[j])]
               n == [mon EXCEPT !.jobs = jobs, !.requestAt = Zero, !.queueAt = Zero, !.againAt = Zero,
                                !.seen = <<>>, !.past = {}]
    <3>1. mon' = [n EXCEPT !.pc = Loop(n)] /\ mon.pc = "apply"
      BY <1>1 DEF Apply, Continue
    <3>2. jobs \in Seq(JobRec)
      <4>1. \A j \in DOMAIN mon.jobs : Applied(mon.jobs[j]) \in JobRec
        BY <3>1, AppliedKnown DEF SameJob
      <4>2. mon.jobs \in Seq(JobRec)
        BY InPoll
      <4>3. DOMAIN mon.jobs = 1..Len(mon.jobs) /\ Len(mon.jobs) \in Nat
        BY <4>2
      <4> QED
        BY <4>1, <4>3
    <3>3. jobs[i] = Applied(mon.jobs[i])
      OBVIOUS
    <3> HIDE DEF jobs
    <3>4. n \in MonRec /\ n.jobs = jobs
      BY <3>2, NothingSeen, InPoll DEF MonRec
    <3> HIDE DEF n
    <3>5. mon'.jobs = n.jobs
      BY <3>1, <3>4, LoopIs
    <3> QED
      BY <3>1, <3>3, <3>4, <3>5
  <2>2. /\ now - mon.jobs[i].queuedAt >= JobTimeout
        /\ NotAhead(mon.requestAt, ended[mon.jobs[i].id])
    BY <2>1, AppliedKnown
  <2>3. ended[mon.jobs[i].id] \in Nat /\ mon.requestAt \in Nat
    BY InPoll DEF Known, KnownTimes
  <2> QED
    BY <2>2, <2>3 DEF NotAhead
<1>2. CASE ~Apply
  <2>1. CASE Monitoring
    <3>1. CASE Forgets
      BY <3>1 DEF Forgets
    <3>2. CASE Takes
      <4>1. mon'.jobs[i] = mon.jobs[i]
        BY <3>2, InPoll DEF Takes
      <4> QED
        BY <4>1
    <3>3. CASE GoesOn
      BY <1>2, <3>3 DEF GoesOn
    <3> QED
      BY <2>1, <3>1, <3>2, <3>3, MonitorMoves
  <2>2. CASE Submitting
    <3>1. mon' = mon \/ mon' = NewMonitor \/ (mon.pc \in MonPcs /\ mon' = [NewMonitor EXCEPT !.pc = mon.pc])
      BY <2>2 DEF Submitting, Submit, Accepted, Refused, QueueFails, Register, CloseRegistrations,
                  QueuedReturns, FixtureReturns, SequentialReturns
    <3>2. mon' = mon \/ mon'.jobs = <<>>
      BY <3>1, NewMonitorFresh DEF Fresh
    <3> QED
      BY <3>2
  <2>3. CASE Tick \/ ClientTakes \/ \E r \in Runs : ClientMoves(r)
    BY <2>3 DEF Tick, ClientTakes, ClientMoves
  <2> QED
    BY <2>1, <2>2, <2>3 DEF Next
<1> QED
  BY <1>1, <1>2

\* For every product, mode, number of runs and timing: a job is given up on
\* only after its timeout, and never when the client had finished it before
\* the poll began.
THEOREM GivenUpOnlyHonestly == Spec => TimeoutHonest
<1> QED
  BY Observation, TimeoutStep, PTL DEF Spec, TimeoutHonest

(***************************************************************************)
(* What the adapter writes.  RInv says where every run submitted so far    *)
(* is: with the monitor, in the channel, or among the jobs to be written.  *)
(***************************************************************************)
RunsOf(q) == {q[i].run : i \in DOMAIN q}

\* A job that is complete and consistent in itself.
Settled(job) ==
    /\ job \in JobRec
    /\ job.submitted # 0 /\ job.submitted <= job.queuedAt /\ job.queuedAt <= job.at /\ job.at <= now
    /\ job.submitted <= job.lower /\ job.lower <= job.at
    /\ job.status \in {"succeeded", "failed", "timed_out"}
    /\ job.processing # 0 => job.queuedAt <= job.processing /\ job.processing <= job.at
    /\ job.refused => job.lower = job.at /\ job.queuedAt = job.at /\ job.status = "failed"

\* One monitor for the whole suite.  Once it has failed only refusals count,
\* and then only if nothing was accepted.
QueuedInv ==
    /\ sub.ids = {} => mon.jobs = <<>> /\ chan.queue = <<>> /\ sub.pc # "registering"
    /\ mon.pc # "error" \/ sub.ids = {} =>
          /\ Len(mon.jobs) + Len(chan.queue) + Len(sub.jobs) = sub.run - 1
          /\ 1..(sub.run - 1) \subseteq RunsOf(mon.jobs) \union RunsOf(chan.queue) \union RunsOf(sub.jobs)
    /\ sub.pc = "waiting" => sub.run = N + 1
    /\ chan.closed => sub.pc = "waiting"
    /\ ~mon.open => chan.closed /\ chan.queue = <<>>
    /\ mon.pc = "ok" => ~mon.open /\ \A i \in DOMAIN mon.jobs : Complete(mon.jobs[i])

\* One monitor for each run.
SequentialInv ==
    /\ Len(sub.jobs) = sub.run - 1
    /\ 1..(sub.run - 1) \subseteq RunsOf(sub.jobs)
    /\ sub.pc \in {"calling", "registering"} =>
          mon.jobs = <<>> /\ mon.open /\ mon.pc # "ok" /\ chan.queue = <<>> /\ ~chan.closed
    /\ sub.pc = "waiting" =>
          /\ sub.run <= N
          /\ \A i \in DOMAIN mon.jobs : mon.jobs[i].run = sub.run
          /\ \A i \in DOMAIN chan.queue : chan.queue[i].run = sub.run
          /\ mon.pc = "ok" => \A i \in DOMAIN mon.jobs : Complete(mon.jobs[i])

Submitted ==
    /\ \A i \in DOMAIN sub.jobs : Settled(sub.jobs[i]) /\ sub.jobs[i].run \in Runs
    /\ sub.run <= N + 1
    /\ sub.pc = "registering" => sub.job.run = sub.run

Working ==
    /\ Submitted
    /\ ret.status = "running"
    /\ mode = "queued" => QueuedInv
    /\ mode = "sequential" => SequentialInv

Written ==
    /\ ret \in [status : {"running", "ok", "error"}, jobs : Seq(JobRec),
                startedAt : Nat, completedAt : Nat]
    /\ ResultAccepted

RInv == Written /\ (sub.pc # "returned" => Working)

LEMMA HasLeast ==
    ASSUME NEW S, S \subseteq Nat, S # {}
    PROVE  \E x \in S : \A y \in S : x <= y
<1> DEFINE R == {ss \in Nat \X Nat : ss[1] < ss[2]}
<1>1. IsWellFoundedOn(R, Nat)
  BY NatLessThanWellFounded DEF OpToRel
<1>2. PICK x \in S : \A y \in S : ~ (<<y, x>> \in R)
  <2> HIDE DEF R
  <2> QED
    BY <1>1, WFMin
<1>3. ASSUME NEW y \in S PROVE x <= y
  <2>1. y < x => <<y, x>> \in R
    OBVIOUS
  <2> QED
    BY <1>2, <2>1
<1> QED
  BY <1>3

LEMMA MinIs ==
    ASSUME NEW S, S \subseteq Nat, S # {}
    PROVE  Min(S) \in S /\ \A y \in S : Min(S) <= y
BY HasLeast DEF Min

LEMMA MaxIs ==
    ASSUME NEW S, S \subseteq Nat, S # {}, NEW b \in Nat, \A y \in S : y <= b
    PROVE  Max(S) \in S /\ \A y \in S : y <= Max(S)
<1> DEFINE T == {b - y : y \in S}
<1>1. PICK z \in S : TRUE
  OBVIOUS
<1>2. T \subseteq Nat /\ b - z \in T
  BY <1>1
<1>3. PICK t \in T : \A u \in T : t <= u
  <2>1. T # {}
    BY <1>2
  <2> HIDE DEF T
  <2> QED
    BY <1>2, <2>1, HasLeast
<1>4. PICK x \in S : t = b - x
  OBVIOUS
<1>5. \A y \in S : x >= y
  <2> SUFFICES ASSUME NEW y \in S PROVE x >= y
    OBVIOUS
  <2>1. b - y \in T
    OBVIOUS
  <2>2. t <= b - y
    BY <1>3, <2>1
  <2> QED
    BY <1>4, <2>2
<1>6. Max(S) \in S /\ \A y \in S : Max(S) >= y
  BY <1>5 DEF Max
<1> QED
  BY <1>6

\* The runs of a sequence of jobs that grows, shrinks or is joined.
LEMMA RunsOfAppend ==
    ASSUME NEW q \in Seq(JobRec), NEW job \in JobRec
    PROVE  /\ Append(q, job) \in Seq(JobRec) /\ Len(Append(q, job)) = Len(q) + 1
           /\ RunsOf(q) \union {job.run} \subseteq RunsOf(Append(q, job))
<1>1. /\ Len(Append(q, job)) = Len(q) + 1 /\ Append(q, job)[Len(q) + 1] = job
      /\ \A i \in DOMAIN q : i \in DOMAIN Append(q, job) /\ Append(q, job)[i] = q[i]
      /\ Len(q) + 1 \in DOMAIN Append(q, job)
  OBVIOUS
<1> QED
  BY <1>1 DEF RunsOf

LEMMA RunsOfTail ==
    ASSUME NEW q \in Seq(JobRec), q # <<>>
    PROVE  /\ Head(q) \in JobRec /\ Tail(q) \in Seq(JobRec) /\ Len(Tail(q)) = Len(q) - 1
           /\ RunsOf(q) \subseteq {Head(q).run} \union RunsOf(Tail(q))
<1>1. Head(q) \in JobRec /\ Tail(q) \in Seq(JobRec) /\ Len(Tail(q)) = Len(q) - 1
  OBVIOUS
<1>2. ASSUME NEW i \in DOMAIN q PROVE q[i].run \in {Head(q).run} \union RunsOf(Tail(q))
  <2>1. CASE i = 1
    BY <2>1
  <2>2. CASE i # 1
    <3>1. i - 1 \in DOMAIN Tail(q) /\ Tail(q)[i - 1] = q[i]
      BY <2>2
    <3> QED
      BY <3>1 DEF RunsOf
  <2> QED
    BY <2>1, <2>2
<1> QED
  BY <1>1, <1>2 DEF RunsOf

LEMMA RunsOfJoin ==
    ASSUME NEW p \in Seq(JobRec), NEW q \in Seq(JobRec)
    PROVE  /\ p \o q \in Seq(JobRec) /\ Len(p \o q) = Len(p) + Len(q)
           /\ RunsOf(p) \union RunsOf(q) \subseteq RunsOf(p \o q)
           /\ \A i \in DOMAIN (p \o q) :
                 \/ \E j \in DOMAIN p : (p \o q)[i] = p[j]
                 \/ \E j \in DOMAIN q : (p \o q)[i] = q[j]
<1>1. p \o q \in Seq(JobRec) /\ Len(p \o q) = Len(p) + Len(q)
  OBVIOUS
<1>2. \A i \in DOMAIN p : i \in DOMAIN (p \o q) /\ (p \o q)[i] = p[i]
  OBVIOUS
<1>3. \A i \in DOMAIN q : i + Len(p) \in DOMAIN (p \o q) /\ (p \o q)[i + Len(p)] = q[i]
  OBVIOUS
<1>4. ASSUME NEW i \in DOMAIN (p \o q)
      PROVE  \/ \E j \in DOMAIN p : (p \o q)[i] = p[j]
             \/ \E j \in DOMAIN q : (p \o q)[i] = q[j]
  <2>1. CASE i <= Len(p)
    BY <1>2, <2>1
  <2>2. CASE i > Len(p)
    <3>1. i - Len(p) \in DOMAIN q
      BY <1>1, <2>2
    <3>2. (p \o q)[i] = q[i - Len(p)]
      BY <1>1, <2>2
    <3> QED
      BY <3>1, <3>2
  <2> QED
    BY <1>1, <2>1, <2>2
<1>5. RunsOf(p) \union RunsOf(q) \subseteq RunsOf(p \o q)
  BY <1>2, <1>3 DEF RunsOf
<1> QED
  BY <1>1, <1>4, <1>5

\* A settled job is valid in a window that holds it.
LEMMA SettledValid ==
    ASSUME NEW job, Settled(job), now \in Nat, NEW result, result.startedAt \in Nat,
           result.completedAt \in Nat, result.startedAt <= job.submitted, job.at <= result.completedAt
    PROVE  /\ JobValid(job, result)
           /\ job.refused => Precise(job)
<1>1. /\ job.submitted \in Nat /\ job.queuedAt \in Nat /\ job.at \in Nat /\ job.lower \in Nat
      /\ job.processing \in Nat
  BY DEF Settled, JobRec
<1>2. job.at - job.submitted <= SubmissionToTerminal(job) /\ SubmissionToTerminal(job) \in Int
      /\ (job.refused => SubmissionToTerminal(job) > 0)
  BY <1>1 DEF SubmissionToTerminal, Later
<1>3. JobValid(job, result)
  BY <1>1, <1>2 DEF Settled, JobValid, Uncertainty
<1> QED
  BY <1>2, <1>3 DEF Settled, Precise

\* A complete list of settled jobs is written as a result the controller takes.
LEMMA ReturnsAccepted ==
    ASSUME BInv, NEW jobs \in Seq(JobRec), Returns(jobs), Len(jobs) = N, Runs \subseteq RunsOf(jobs),
           \A i \in DOMAIN jobs : Settled(jobs[i]) /\ jobs[i].run \in Runs, input' = input
    PROVE  Written'
<1> DEFINE S == {jobs[i].submitted : i \in DOMAIN jobs}
           T == {jobs[i].at : i \in DOMAIN jobs}
<1>1. /\ N \in Nat /\ N # 0 /\ Runs = 1..N /\ now \in Nat /\ mode \in {"queued", "sequential"}
  BY InPoll, InputTyped
<1>2. 1 \in DOMAIN jobs
  BY <1>1
<1>3. S \subseteq Nat /\ T \subseteq Nat /\ (\A y \in T : y <= now) /\ jobs[1].submitted \in S
      /\ jobs[1].at \in T
  BY <1>2 DEF Settled, JobRec
<1>4. Min(S) \in S /\ \A y \in S : Min(S) <= y
  <2> HIDE DEF S
  <2> QED
    BY <1>3, MinIs
<1>5. Max(T) \in T /\ \A y \in T : y <= Max(T)
  <2>1. T # {}
    BY <1>3
  <2> HIDE DEF T
  <2> QED
    BY <1>1, <1>3, <2>1, MaxIs
<1>6. ret' = [status |-> "ok", jobs |-> jobs, startedAt |-> Min(S), completedAt |-> Max(T)]
  BY DEF Returns
<1> DEFINE min == Min(S)
           max == Max(T)
<1>7. min \in Nat /\ max \in Nat /\ \A i \in DOMAIN jobs : min <= jobs[i].submitted /\ jobs[i].at <= max
  BY <1>3, <1>4, <1>5
<1> HIDE DEF min, max, S, T
<1>8. /\ ret'.jobs = jobs /\ ret'.startedAt = min /\ ret'.completedAt = max /\ ret'.status = "ok"
      /\ ret' \in [status : {"running", "ok", "error"}, jobs : Seq(JobRec),
                   startedAt : Nat, completedAt : Nat]
  BY <1>6, <1>7 DEF min, max
<1>9. \A i \in DOMAIN jobs : JobValid(jobs[i], ret') /\ (jobs[i].refused => Precise(jobs[i]))
  BY <1>1, <1>7, <1>8, SettledValid
<1>10. {jobs[i].run : i \in DOMAIN jobs} = Runs
  BY DEF RunsOf
<1>11. min <= max
  <2>1. Settled(jobs[1]) /\ min <= jobs[1].submitted /\ jobs[1].at <= max
    BY <1>2, <1>7
  <2> QED
    BY <1>1, <1>7, <2>1 DEF Settled, JobRec
<1>12. Runs' = Runs /\ N' = N /\ mode' = mode
  BY DEF Runs, N, mode
<1>13. ResultAccepted'
  <2> SUFFICES ASSUME ~(mode = "sequential" /\ \E i \in DOMAIN jobs : ~jobs[i].refused /\ ~Precise(jobs[i]))
               PROVE  ValidateFor(ret)'
    BY <1>8, <1>12 DEF ResultAccepted
  <2>1. \A i \in DOMAIN jobs : JobValid(jobs[i], ret') /\ (mode = "sequential" => Precise(jobs[i]))
    BY <1>9
  <2> QED
    BY <1>8, <1>10, <1>11, <1>12, <2>1 DEF ValidateFor
<1> QED
  BY <1>8, <1>13 DEF Written

\* What is written stays as it is.
LEMMA WrittenKept ==
    ASSUME Written, input' = input, ret' = ret \/ ret' = [ret EXCEPT !.status = "error"]
    PROVE  Written'
<1>1. CASE ret' = ret
  BY <1>1 DEF Written, ResultAccepted, ValidateFor, N, Runs, mode
<1>2. CASE ret' = [ret EXCEPT !.status = "error"]
  BY <1>2 DEF Written, ResultAccepted
<1> QED
  BY <1>1, <1>2

LEMMA SettledLater ==
    ASSUME NEW job, Settled(job), now \in Nat, now' \in Nat, now <= now'
    PROVE  Settled(job)'
BY DEF Settled, JobRec

LEMMA KnownSettled ==
    ASSUME NEW job \in JobRec, Known(job), Complete(job), now \in Nat
    PROVE  Settled(job)
BY DEF Known, KnownTimes, Complete, Settled, JobRec

\* What the counting needs of the types.
LEMMA Counting ==
    ASSUME BInv
    PROVE  /\ N \in Nat /\ N # 0 /\ Runs = 1..N /\ mode \in {"queued", "sequential"}
           /\ sub.run \in Nat /\ sub.run # 0 /\ sub.jobs \in Seq(JobRec) /\ sub \in SubRec
           /\ chan.queue \in Seq(JobRec) /\ mon.jobs \in Seq(JobRec) /\ now \in Nat
           /\ chan.closed \in BOOLEAN /\ mon.open \in BOOLEAN
           /\ sub.ids \in SUBSET Nat /\ sub.startedAt \in Nat
<1>1. /\ N \in Nat /\ N # 0 /\ Runs = 1..N /\ mode \in {"queued", "sequential"}
      /\ mon.jobs \in Seq(JobRec) /\ now \in Nat /\ mon \in MonRec
  BY InPoll, InputTyped
<1>2. SubGood(sub) /\ ChanGood(chan)
  BY DEF BInv
<1> QED
  BY <1>1, <1>2 DEF SubGood, SubRec, ChanGood, MonRec

LEMMA ClientRInv ==
    ASSUME BInv, RInv, Tick \/ ClientTakes \/ \E r \in Runs : ClientMoves(r)
    PROVE  RInv'
<1>1. UNCHANGED <<input, sub, chan, mon, ret>> /\ now \in Nat /\ now' \in Nat /\ now <= now'
  BY Counting DEF Tick, ClientTakes, ClientMoves
<1>2. Written'
  BY <1>1, WrittenKept DEF RInv
<1>3. Runs' = Runs /\ N' = N /\ mode' = mode
  BY <1>1 DEF Runs, N, mode
<1>4. ASSUME sub.pc # "returned" PROVE Working'
  <2>1. Working
    BY <1>4 DEF RInv
  <2>2. Submitted'
    BY <1>1, <1>3, <2>1, SettledLater DEF Working, Submitted
  <2>3. (QueuedInv => QueuedInv') /\ (SequentialInv => SequentialInv')
    BY <1>1, <1>3 DEF QueuedInv, SequentialInv
  <2> QED
    BY <1>1, <1>3, <2>1, <2>2, <2>3 DEF Working
<1> QED
  BY <1>1, <1>2, <1>4 DEF RInv

LEMMA SameRuns ==
    ASSUME NEW p \in Seq(JobRec), NEW q \in Seq(JobRec), DOMAIN p = DOMAIN q,
           \A i \in DOMAIN q : p[i].run = q[i].run
    PROVE  Len(p) = Len(q) /\ RunsOf(p) = RunsOf(q) /\ (q = <<>> => p = <<>>)
<1>1. DOMAIN p = 1..Len(p) /\ DOMAIN q = 1..Len(q) /\ Len(p) \in Nat /\ Len(q) \in Nat
  OBVIOUS
<1>2. Len(p) = Len(q)
  <2>1. ~(Len(p) < Len(q))
    <3>1. Len(p) < Len(q) => Len(q) \in 1..Len(q) /\ Len(q) \notin 1..Len(p)
      BY <1>1
    <3> QED
      BY <1>1, <3>1
  <2>2. ~(Len(q) < Len(p))
    <3>1. Len(q) < Len(p) => Len(p) \in 1..Len(p) /\ Len(p) \notin 1..Len(q)
      BY <1>1
    <3> QED
      BY <1>1, <3>1
  <2> DEFINE m == Len(p)
             n == Len(q)
  <2>3. m \in Nat /\ n \in Nat /\ ~(m < n) /\ ~(n < m)
    BY <1>1, <2>1, <2>2
  <2> HIDE DEF m, n
  <2>4. m = n
    BY <2>3
  <2> QED
    BY <2>4 DEF m, n
<1>3. RunsOf(p) = RunsOf(q)
  BY DEF RunsOf
<1>4. q = <<>> => p = <<>>
  BY <1>2
<1> QED
  BY <1>2, <1>3, <1>4

LEMMA TrackRun ==
    ASSUME NEW job \in JobRec
    PROVE  Track(job) \in JobRec /\ Track(job).run = job.run
<1> DEFINE t == job.submitted
<1>1. t \in Nat /\ Track(job) = [job EXCEPT !.last = t]
  BY DEF Track, JobRec
<1> HIDE DEF t
<1> QED
  BY <1>1 DEF JobRec

LEMMA MonitorRInv ==
    ASSUME BInv, RInv, Monitoring
    PROVE  RInv'
<1>1. UNCHANGED <<input, now, sub, ret>> /\ (Forgets \/ Takes \/ GoesOn)
  BY MonitorMoves
<1>2. Written'
  BY <1>1, WrittenKept DEF RInv
<1>3. Runs' = Runs /\ N' = N /\ mode' = mode
  BY <1>1 DEF Runs, N, mode
<1>4. ASSUME sub.pc # "returned" PROVE Working'
  <2>1. Working
    BY <1>4 DEF RInv
  <2>2. Submitted'
    BY <1>1, <1>3, <2>1 DEF Working, Submitted, Settled
  <2>3. ASSUME QueuedInv PROVE QueuedInv'
    <3>1. CASE Forgets
      BY <1>1, <1>3, <2>3, <3>1, Counting DEF QueuedInv, Forgets
    <3>2. CASE Takes
      <4> DEFINE job == Track(Head(chan.queue))
                 mj == Append(mon.jobs, job)
                 cq == Tail(chan.queue)
      <4>1. /\ Head(chan.queue) \in JobRec /\ cq \in Seq(JobRec) /\ Len(cq) = Len(chan.queue) - 1
            /\ RunsOf(chan.queue) \subseteq {Head(chan.queue).run} \union RunsOf(cq)
        <5>1. chan.queue \in Seq(JobRec) /\ chan.queue # <<>>
          BY <3>2, Counting DEF Takes
        <5> QED
          BY <5>1, RunsOfTail
      <4>2. job \in JobRec /\ job.run = Head(chan.queue).run
        BY <4>1, TrackRun
      <4>3. /\ mj \in Seq(JobRec) /\ Len(mj) = Len(mon.jobs) + 1
            /\ RunsOf(mon.jobs) \union {job.run} \subseteq RunsOf(mj)
        <5>1. mon.jobs \in Seq(JobRec)
          BY Counting
        <5> HIDE DEF job
        <5> QED
          BY <4>2, <5>1, RunsOfAppend
      <4>4. mon'.jobs = mj /\ chan'.queue = cq /\ mon'.pc = "select" /\ mon.pc = "select"
            /\ mon'.open = mon.open /\ chan'.closed = chan.closed /\ chan.queue # <<>>
        BY <3>2 DEF Takes
      <4> HIDE DEF mj, cq, job
      <4>5. sub.ids # {} /\ mon.open
        BY <2>3, <4>4 DEF QueuedInv
      <4>6. Len(mj) + Len(cq) + Len(sub.jobs) = sub.run - 1
        <5>1. Len(mon.jobs) + Len(chan.queue) + Len(sub.jobs) = sub.run - 1
          BY <2>3, <4>4 DEF QueuedInv
        <5> DEFINE a == Len(mon.jobs)
                   b == Len(chan.queue)
                   c == Len(sub.jobs)
        <5>2. a \in Nat /\ b \in Nat /\ c \in Nat /\ sub.run \in Nat
          BY Counting
        <5>3. Len(mj) = a + 1 /\ Len(cq) = b - 1 /\ a + b + c = sub.run - 1
          BY <4>1, <4>3, <5>1
        <5> HIDE DEF a, b, c
        <5>4. (a + 1) + (b - 1) + c = sub.run - 1
          BY <5>2, <5>3
        <5> QED
          BY <5>3, <5>4 DEF c
      <4>7. 1..(sub.run - 1) \subseteq RunsOf(mj) \union RunsOf(cq) \union RunsOf(sub.jobs)
        BY <2>3, <4>1, <4>2, <4>3, <4>4 DEF QueuedInv
      <4> QED
        BY <1>1, <1>3, <2>3, <4>4, <4>5, <4>6, <4>7 DEF QueuedInv
    <3>3. CASE GoesOn
      <4>1. Len(mon'.jobs) = Len(mon.jobs) /\ RunsOf(mon'.jobs) = RunsOf(mon.jobs)
            /\ (mon.jobs = <<>> => mon'.jobs = <<>>)
        <5>1. /\ mon.jobs \in Seq(JobRec) /\ mon'.jobs \in Seq(JobRec)
              /\ DOMAIN mon'.jobs = DOMAIN mon.jobs
              /\ \A i \in DOMAIN mon.jobs : mon'.jobs[i].run = mon.jobs[i].run
          BY <3>3, Counting DEF GoesOn
        <5> QED
          BY <5>1, SameRuns
      <4>2. /\ chan' = chan /\ mon.pc # "error" /\ mon'.pc # "error"
            /\ mon'.open = mon.open \/ (~mon'.open /\ chan.closed /\ chan.queue = <<>>)
            /\ mon'.pc = "ok" => ~mon'.open /\ \A i \in DOMAIN mon'.jobs : Complete(mon'.jobs[i])
        BY <3>3 DEF GoesOn
      <4> QED
        BY <1>1, <1>3, <2>3, <4>1, <4>2 DEF QueuedInv
    <3> QED
      BY <1>1, <3>1, <3>2, <3>3
  <2>4. ASSUME SequentialInv PROVE SequentialInv'
    <3>1. CASE Forgets
      <4> DEFINE cq == chan'.queue
      <4>1. /\ mon'.pc = "error" /\ mon'.open /\ mon'.jobs = <<>> /\ chan'.closed = chan.closed
            /\ cq = chan.queue \/ (chan.queue # <<>> /\ cq = Tail(chan.queue))
        BY <3>1 DEF Forgets
      <4>2. chan.queue \in Seq(JobRec)
        BY Counting
      <4>3. \A i \in DOMAIN cq : \E j \in DOMAIN chan.queue : cq[i] = chan.queue[j]
        <5>1. CASE cq = chan.queue
          BY <5>1
        <5>2. CASE chan.queue # <<>> /\ cq = Tail(chan.queue)
          BY <4>2, <5>2
        <5> QED
          BY <4>1, <5>1, <5>2
      <4>4. chan.queue = <<>> => cq = <<>>
        BY <4>1
      <4> HIDE DEF cq
      <4>5. chan'.queue = cq
        BY DEF cq
      <4>6. sub.pc \in {"calling", "registering"} => cq = <<>> /\ ~chan.closed
        BY <2>4, <4>4 DEF SequentialInv
      <4>7. sub.pc = "waiting" => sub.run <= N /\ \A i \in DOMAIN cq : cq[i].run = sub.run
        BY <2>4, <4>3 DEF SequentialInv
      <4> QED
        BY <1>1, <1>3, <2>4, <4>1, <4>5, <4>6, <4>7 DEF SequentialInv
    <3>2. CASE Takes
      <4> DEFINE head == Head(chan.queue)
                 job == Track(head)
                 mj == Append(mon.jobs, job)
                 cq == Tail(chan.queue)
      <4>1. /\ mon'.jobs = mj /\ chan'.queue = cq /\ chan.queue # <<>> /\ mon'.pc = "select"
        BY <3>2 DEF Takes
      <4>2. mon.jobs \in Seq(JobRec) /\ chan.queue \in Seq(JobRec)
        BY Counting
      <4>3. head \in JobRec /\ head = chan.queue[1] /\ 1 \in DOMAIN chan.queue
        BY <4>1, <4>2
      <4>4. \A i \in DOMAIN cq : i + 1 \in DOMAIN chan.queue /\ cq[i] = chan.queue[i + 1]
        BY <4>1, <4>2
      <4> HIDE DEF head, cq
      <4>5. job \in JobRec /\ job.run = head.run
        BY <4>3, TrackRun
      <4> HIDE DEF job
      <4>6. \A i \in DOMAIN mj : (i \in DOMAIN mon.jobs /\ mj[i] = mon.jobs[i]) \/ mj[i] = job
        BY <4>2, <4>5
      <4> HIDE DEF mj
      <4>7. sub.pc \notin {"calling", "registering"}
        BY <2>4, <4>1 DEF SequentialInv
      <4>8. ASSUME sub.pc = "waiting"
            PROVE  /\ \A i \in DOMAIN mj : mj[i].run = sub.run
                   /\ \A i \in DOMAIN cq : cq[i].run = sub.run
        <5>1. /\ \A i \in DOMAIN mon.jobs : mon.jobs[i].run = sub.run
              /\ \A i \in DOMAIN chan.queue : chan.queue[i].run = sub.run
          BY <2>4, <4>8 DEF SequentialInv
        <5> QED
          BY <4>3, <4>4, <4>5, <4>6, <5>1
      <4> QED
        BY <1>1, <1>3, <2>4, <4>1, <4>7, <4>8 DEF SequentialInv
    <3>3. CASE GoesOn
      <4>1. /\ chan' = chan /\ DOMAIN mon'.jobs = DOMAIN mon.jobs
            /\ \A i \in DOMAIN mon.jobs : mon'.jobs[i].run = mon.jobs[i].run
            /\ mon'.open = mon.open \/ chan.closed
            /\ mon'.pc = "ok" => ~mon'.open /\ \A i \in DOMAIN mon'.jobs : Complete(mon'.jobs[i])
        BY <3>3 DEF GoesOn
      <4>2. mon.jobs = <<>> => mon'.jobs = <<>>
        <5>1. mon.jobs \in Seq(JobRec) /\ mon'.jobs \in Seq(JobRec)
          BY <3>3, Counting DEF GoesOn
        <5> QED
          BY <4>1, <5>1, SameRuns
      <4>3. sub.pc \in {"calling", "registering"} =>
               mon'.jobs = <<>> /\ mon'.open /\ mon'.pc # "ok" /\ chan.queue = <<>> /\ ~chan.closed
        BY <2>4, <4>1, <4>2 DEF SequentialInv
      <4>4. sub.pc = "waiting" =>
               /\ sub.run <= N
               /\ \A i \in DOMAIN mon'.jobs : mon'.jobs[i].run = sub.run
               /\ \A i \in DOMAIN chan.queue : chan.queue[i].run = sub.run
               /\ mon'.pc = "ok" => \A i \in DOMAIN mon'.jobs : Complete(mon'.jobs[i])
        BY <2>4, <4>1 DEF SequentialInv
      <4> QED
        BY <1>1, <1>3, <2>4, <4>1, <4>3, <4>4 DEF SequentialInv
    <3> QED
      BY <1>1, <3>1, <3>2, <3>3
  <2> QED
    BY <1>1, <1>3, <2>1, <2>2, <2>3, <2>4 DEF Working
<1> QED
  BY <1>1, <1>2, <1>4 DEF RInv

\* The submitting goroutine has not returned, and this is what it knows.
LEMMA Submitter ==
    ASSUME BInv, RInv, Submitting
    PROVE  Working /\ Written /\ input' = input /\ now' = now
<1>1. sub.pc # "returned" /\ input' = input /\ now' = now
  BY DEF Submitting, Submit, Accepted, Refused, QueueFails, Register, CloseRegistrations,
         QueuedReturns, FixtureReturns, SequentialReturns
<1> QED
  BY <1>1 DEF RInv

\* A step of the goroutine that keeps ret and does not return.
LEMMA StillWorking ==
    ASSUME RInv, Written, input' = input, ret' = ret, ret.status = "running", Submitted',
           mode = "queued" => QueuedInv', mode = "sequential" => SequentialInv'
    PROVE  RInv'
<1>1. Written'
  BY WrittenKept
<1>2. mode' = mode
  BY DEF mode
<1> QED
  BY <1>1, <1>2 DEF RInv, Working

LEMMA SubmitRInv ==
    ASSUME BInv, RInv, Submit
    PROVE  RInv'
<1> DEFINE s == [sub EXCEPT !.pc = "calling", !.startedAt = now]
<1>1. Working /\ Written /\ input' = input /\ now' = now
  BY Submitter DEF Submitting
<1>2. /\ sub' = s /\ sub.pc = "next" /\ ret' = ret
      /\ mode = "sequential" => mon' = NewMonitor /\ chan' = NewChannel
      /\ mode = "queued" => mon' = mon /\ chan' = chan
  BY DEF Submit
<1>3. sub \in SubRec /\ mode \in {"queued", "sequential"}
  BY Counting
<1>4. s.pc = "calling" /\ s.run = sub.run /\ s.ids = sub.ids /\ s.jobs = sub.jobs
  BY <1>3 DEF SubRec
<1> HIDE DEF s
<1>5. N' = N /\ Runs' = Runs
  BY <1>1 DEF N, Runs
<1>6. Submitted'
  BY <1>1, <1>2, <1>4, <1>5 DEF Working, Submitted, Settled
<1>7. ASSUME mode = "queued" PROVE QueuedInv'
  <2>1. QueuedInv
    BY <1>1, <1>7 DEF Working
  <2> QED
    BY <1>2, <1>4, <1>5, <1>7, <2>1 DEF QueuedInv
<1>8. ASSUME mode = "sequential" PROVE SequentialInv'
  <2>1. SequentialInv
    BY <1>1, <1>8 DEF Working
  <2>2. mon'.jobs = <<>> /\ mon'.open /\ mon'.pc = "select" /\ chan'.queue = <<>> /\ ~chan'.closed
    BY <1>2, <1>8 DEF NewMonitor, NewChannel
  <2> QED
    BY <1>2, <1>4, <1>5, <2>1, <2>2 DEF SequentialInv
<1> QED
  BY <1>1, <1>2, <1>6, <1>7, <1>8, StillWorking DEF Working

LEMMA AcceptedRInv ==
    ASSUME BInv, RInv, NEW id \in {sub.run} \union sub.ids, Accepted(id)
    PROVE  RInv'
<1> DEFINE job == queuedJob(sub.run, id, sub.startedAt, now)
           ids == sub.ids \union {id}
           s == [sub EXCEPT !.pc = "registering", !.ids = ids, !.startedAt = Zero, !.job = job]
<1>1. Working /\ Written /\ input' = input /\ now' = now
  BY Submitter DEF Submitting
<1>2. sub' = s /\ sub.pc = "calling" /\ ret' = ret /\ mon' = mon /\ chan' = chan
  BY DEF Accepted
<1>3. sub \in SubRec
  BY Counting
<1>4. job.run = sub.run
  BY DEF queuedJob
<1>5. ids # {}
  OBVIOUS
<1> HIDE DEF job, ids
<1>6. s.pc = "registering" /\ s.run = sub.run /\ s.ids = ids /\ s.jobs = sub.jobs /\ s.job = job
  BY <1>3 DEF SubRec
<1> HIDE DEF s
<1>7. N' = N /\ Runs' = Runs
  BY <1>1 DEF N, Runs
<1>8. Submitted'
  BY <1>1, <1>2, <1>4, <1>6, <1>7 DEF Working, Submitted, Settled
<1>9. QueuedInv => QueuedInv'
  BY <1>2, <1>5, <1>6, <1>7 DEF QueuedInv
<1>10. SequentialInv => SequentialInv'
  BY <1>2, <1>6, <1>7 DEF SequentialInv
<1> QED
  BY <1>1, <1>2, <1>8, <1>9, <1>10, StillWorking DEF Working

LEMMA RefusedRInv ==
    ASSUME BInv, RInv, Refused
    PROVE  RInv'
<1> DEFINE job == refusedSubmissionJob(sub.run, sub.startedAt)
           jobs == Append(sub.jobs, job)
           n == sub.run + 1
           s == [sub EXCEPT !.pc = "next", !.run = n, !.jobs = jobs]
<1>1. Working /\ Written /\ input' = input /\ now' = now
  BY Submitter DEF Submitting
<1>2. sub' = s /\ sub.pc = "calling" /\ ret' = ret /\ mon' = mon /\ chan' = chan
  BY DEF Refused
<1>3. sub \in SubRec /\ sub.run \in Nat /\ sub.run # 0 /\ sub.startedAt \in Nat /\ now \in Nat
      /\ sub.jobs \in Seq(JobRec) /\ N \in Nat /\ Runs = 1..N
  BY Counting
<1>4. SubGood(sub)
  BY DEF BInv
<1>5. sub.run \in Runs /\ sub.startedAt # 0 /\ sub.startedAt <= now
  BY <1>2, <1>4 DEF SubGood
<1>6. /\ job \in JobRec /\ job.run = sub.run /\ job.submitted = sub.startedAt
      /\ job.queuedAt = now /\ job.status = "failed" /\ job.processing = 0
      /\ job.lower = now /\ job.at = now
  BY <1>3, RefusedJob
<1> HIDE DEF job
<1>7. Settled(job)
  BY <1>3, <1>5, <1>6 DEF Settled
<1>8. /\ jobs \in Seq(JobRec) /\ Len(jobs) = Len(sub.jobs) + 1
      /\ RunsOf(sub.jobs) \union {sub.run} \subseteq RunsOf(jobs)
  BY <1>3, <1>6, RunsOfAppend
<1>9. \A i \in DOMAIN jobs : (i \in DOMAIN sub.jobs /\ jobs[i] = sub.jobs[i]) \/ jobs[i] = job
  BY <1>3, <1>6
<1> HIDE DEF jobs
<1>10. s.pc = "next" /\ s.run = n /\ s.ids = sub.ids /\ s.jobs = jobs
  BY <1>3, <1>8 DEF SubRec
<1>11. n \in Nat /\ n - 1 = sub.run
  BY <1>3
<1> HIDE DEF n
<1> HIDE DEF s
<1>12. N' = N /\ Runs' = Runs
  BY <1>1 DEF N, Runs
<1>13. Submitted'
  <2>1. \A i \in DOMAIN jobs : Settled(jobs[i]) /\ jobs[i].run \in Runs
    BY <1>1, <1>5, <1>6, <1>7, <1>9 DEF Working, Submitted
  <2>2. n <= N + 1
    BY <1>3, <1>5 DEF n
  <2> QED
    BY <1>1, <1>2, <1>10, <1>12, <2>1, <2>2 DEF Submitted, Settled
<1>14. ASSUME QueuedInv PROVE QueuedInv'
  <2>1. ASSUME mon.pc # "error" \/ sub.ids = {}
        PROVE  /\ Len(mon.jobs) + Len(chan.queue) + Len(jobs) = n - 1
               /\ 1..(n - 1) \subseteq RunsOf(mon.jobs) \union RunsOf(chan.queue) \union RunsOf(jobs)
    <3> DEFINE a == Len(mon.jobs)
               b == Len(chan.queue)
               c == Len(sub.jobs)
               S == RunsOf(mon.jobs) \union RunsOf(chan.queue) \union RunsOf(sub.jobs)
               T == RunsOf(mon.jobs) \union RunsOf(chan.queue) \union RunsOf(jobs)
    <3>1. a \in Nat /\ b \in Nat /\ c \in Nat
      BY Counting
    <3>2. a + b + c = sub.run - 1 /\ 1..(sub.run - 1) \subseteq S
      BY <1>14, <2>1 DEF QueuedInv
    <3>3. S \union {sub.run} \subseteq T
      BY <1>8
    <3>4. Len(jobs) = c + 1
      BY <1>8
    <3> HIDE DEF a, b, c, S, T
    <3>5. 1..(n - 1) \subseteq T
      BY <1>3, <1>11, <3>2, <3>3
    <3>6. a + b + (c + 1) = n - 1
      BY <1>3, <1>11, <3>1, <3>2
    <3> QED
      BY <3>4, <3>5, <3>6 DEF a, b, T
  <2> QED
    BY <1>2, <1>10, <1>12, <1>14, <2>1 DEF QueuedInv
<1>15. ASSUME SequentialInv PROVE SequentialInv'
  <2>1. Len(jobs) = n - 1
    <3> DEFINE c == Len(sub.jobs)
    <3>1. c \in Nat /\ c = sub.run - 1 /\ Len(jobs) = c + 1
      BY <1>3, <1>8, <1>15 DEF SequentialInv
    <3> HIDE DEF c
    <3> QED
      BY <1>3, <1>11, <3>1
  <2>2. 1..(n - 1) \subseteq RunsOf(jobs)
    <3>1. 1..(sub.run - 1) \subseteq RunsOf(sub.jobs)
      BY <1>15 DEF SequentialInv
    <3> QED
      BY <1>3, <1>8, <1>11, <3>1
  <2> QED
    BY <1>2, <1>10, <1>12, <2>1, <2>2 DEF SequentialInv
<1> QED
  BY <1>1, <1>2, <1>13, <1>14, <1>15, StillWorking DEF Working

LEMMA RegisterRInv ==
    ASSUME BInv, RInv, Register
    PROVE  RInv'
<1> DEFINE pc == IF mode = "sequential" THEN "waiting" ELSE "next"
           run == IF mode = "sequential" THEN sub.run ELSE sub.run + 1
           b == mode = "sequential"
           q == Append(chan.queue, sub.job)
           s == [sub EXCEPT !.job = Zero, !.pc = pc, !.run = run]
           c == [queue |-> q, closed |-> b]
<1>1. Working /\ Written /\ input' = input /\ now' = now
  BY Submitter DEF Submitting
<1>2. sub' = s /\ sub.pc = "registering" /\ ret' = ret /\ mon' = mon /\ chan' = c
  BY DEF Register
<1>3. sub \in SubRec /\ sub.run \in Nat /\ sub.run # 0 /\ chan.queue \in Seq(JobRec)
      /\ N \in Nat /\ Runs = 1..N /\ mode \in {"queued", "sequential"}
  BY Counting
<1>4. SubGood(sub)
  BY DEF BInv
<1>5. sub.run \in Runs /\ sub.job \in JobRec /\ sub.job.run = sub.run
  BY <1>1, <1>2, <1>4 DEF SubGood, Working, Submitted
<1>6. /\ q \in Seq(JobRec) /\ Len(q) = Len(chan.queue) + 1
      /\ RunsOf(chan.queue) \union {sub.run} \subseteq RunsOf(q)
  BY <1>3, <1>5, RunsOfAppend
<1>7. \A i \in DOMAIN q : (i \in DOMAIN chan.queue /\ q[i] = chan.queue[i]) \/ q[i] = sub.job
  BY <1>3, <1>5
<1>8. /\ pc \in {"waiting", "next"} /\ run \in Nat /\ b \in BOOLEAN
      /\ mode = "queued" => pc = "next" /\ run = sub.run + 1 /\ ~b
      /\ mode = "sequential" => pc = "waiting" /\ run = sub.run
  BY <1>3
<1> HIDE DEF pc, run, b, q
<1>9. s.pc = pc /\ s.run = run /\ s.ids = sub.ids /\ s.jobs = sub.jobs /\ c.queue = q /\ c.closed = b
  BY <1>3, <1>8 DEF SubRec
<1> HIDE DEF s, c
<1>10. N' = N /\ Runs' = Runs
  BY <1>1 DEF N, Runs
<1>11. Submitted'
  <2>1. run <= N + 1
    BY <1>3, <1>5, <1>8
  <2> QED
    BY <1>1, <1>2, <1>8, <1>9, <1>10, <2>1 DEF Working, Submitted, Settled
<1>12. ASSUME mode = "queued" PROVE QueuedInv'
  <2>1. QueuedInv
    BY <1>1, <1>12 DEF Working
  <2>2. sub.ids # {} /\ mon.open /\ mon.pc # "ok"
    BY <1>2, <2>1 DEF QueuedInv
  <2>3. ASSUME mon.pc # "error"
        PROVE  /\ Len(mon.jobs) + Len(q) + Len(sub.jobs) = run - 1
               /\ 1..(run - 1) \subseteq RunsOf(mon.jobs) \union RunsOf(q) \union RunsOf(sub.jobs)
    <3> DEFINE x == Len(mon.jobs)
               y == Len(chan.queue)
               z == Len(sub.jobs)
               S == RunsOf(mon.jobs) \union RunsOf(chan.queue) \union RunsOf(sub.jobs)
               T == RunsOf(mon.jobs) \union RunsOf(q) \union RunsOf(sub.jobs)
    <3>1. x \in Nat /\ y \in Nat /\ z \in Nat
      BY Counting
    <3>2. x + y + z = sub.run - 1 /\ 1..(sub.run - 1) \subseteq S
      BY <2>1, <2>3 DEF QueuedInv
    <3>3. S \union {sub.run} \subseteq T
      BY <1>6
    <3>4. Len(q) = y + 1
      BY <1>6
    <3>5. run - 1 = sub.run
      BY <1>3, <1>8, <1>12
    <3> HIDE DEF x, y, z, S, T
    <3>6. 1..(run - 1) \subseteq T
      BY <1>3, <3>2, <3>3, <3>5
    <3>7. x + (y + 1) + z = run - 1
      BY <1>3, <3>1, <3>2, <3>5
    <3> QED
      BY <3>4, <3>6, <3>7 DEF x, z, T
  <2> QED
    BY <1>2, <1>8, <1>9, <1>10, <1>12, <2>2, <2>3 DEF QueuedInv
<1>13. ASSUME mode = "sequential" PROVE SequentialInv'
  <2>1. SequentialInv
    BY <1>1, <1>13 DEF Working
  <2>2. mon.jobs = <<>> /\ mon.pc # "ok" /\ chan.queue = <<>>
    BY <1>2, <2>1 DEF SequentialInv
  <2>3. \A i \in DOMAIN q : q[i].run = sub.run
    BY <1>5, <1>7, <2>2
  <2>4. sub.run <= N
    BY <1>3, <1>5
  <2> QED
    BY <1>2, <1>8, <1>9, <1>10, <1>13, <2>1, <2>2, <2>3, <2>4 DEF SequentialInv
<1> QED
  BY <1>1, <1>2, <1>11, <1>12, <1>13, StillWorking DEF Working

LEMMA CloseRInv ==
    ASSUME BInv, RInv, CloseRegistrations
    PROVE  RInv'
<1> DEFINE s == [sub EXCEPT !.pc = "waiting"]
           c == [chan EXCEPT !.closed = TRUE]
<1>1. Working /\ Written /\ input' = input /\ now' = now
  BY Submitter DEF Submitting
<1>2. /\ sub' = s /\ chan' = c /\ sub.pc = "next" /\ ret' = ret /\ mon' = mon
      /\ mode = "queued" /\ sub.run > N
  BY DEF CloseRegistrations
<1>3. sub \in SubRec /\ ChanGood(chan) /\ N \in Nat /\ sub.run \in Nat
  BY Counting DEF BInv
<1>4. /\ s.pc = "waiting" /\ s.run = sub.run /\ s.ids = sub.ids /\ s.jobs = sub.jobs
      /\ c.queue = chan.queue /\ c.closed
  BY <1>3 DEF SubRec, ChanGood
<1> HIDE DEF s, c
<1>5. N' = N /\ Runs' = Runs
  BY <1>1 DEF N, Runs
<1>6. Submitted'
  BY <1>1, <1>2, <1>4, <1>5 DEF Working, Submitted, Settled
<1>7. sub.run = N + 1
  BY <1>1, <1>2, <1>3 DEF Working, Submitted
<1>8. QueuedInv'
  <2>1. QueuedInv
    BY <1>1, <1>2 DEF Working
  <2> QED
    BY <1>2, <1>4, <1>5, <1>7, <2>1 DEF QueuedInv
<1> QED
  BY <1>1, <1>2, <1>6, <1>8, StillWorking DEF Working

LEMMA QueuedReturnsRInv ==
    ASSUME BInv, RInv, QueuedReturns
    PROVE  RInv'
<1>1. Working /\ Written /\ input' = input /\ now' = now
  BY Submitter DEF Submitting
<1>2. /\ mode = "queued" /\ sub.pc = "waiting" /\ mon.pc \in {"ok", "error"}
      /\ \/ sub.ids = {} /\ Returns(sub.jobs)
         \/ Fails
         \/ mon.pc = "ok" /\ Returns(mon.jobs \o sub.jobs)
      /\ Returns(sub.jobs) \/ Fails \/ Returns(mon.jobs \o sub.jobs)
  BY DEF QueuedReturns
<1>3. sub'.pc = "returned"
  <2>1. sub' = [sub EXCEPT !.pc = "returned", !.startedAt = Zero, !.jobs = <<>>] /\ sub \in SubRec
    BY <1>2, Counting DEF Returns, Fails
  <2> QED
    BY <2>1 DEF SubRec
<1>4. QueuedInv /\ sub.run = N + 1
  BY <1>1, <1>2 DEF Working, QueuedInv
<1>5. /\ mon.jobs \in Seq(JobRec) /\ sub.jobs \in Seq(JobRec) /\ chan.queue \in Seq(JobRec)
      /\ N \in Nat /\ Runs = 1..N /\ now \in Nat
  BY Counting
<1>6. sub.run - 1 = N
  BY <1>4, <1>5
<1>7. \A i \in DOMAIN sub.jobs : Settled(sub.jobs[i]) /\ sub.jobs[i].run \in Runs
  BY <1>1 DEF Working, Submitted
<1>8. RunsOf(<<>>) = {} /\ Len(<<>>) = 0
  BY DEF RunsOf
<1>9. CASE sub.ids = {} /\ Returns(sub.jobs)
  <2> DEFINE c == Len(sub.jobs)
  <2>1. mon.jobs = <<>> /\ chan.queue = <<>> /\ Len(mon.jobs) + Len(chan.queue) + c = sub.run - 1
        /\ 1..(sub.run - 1) \subseteq RunsOf(mon.jobs) \union RunsOf(chan.queue) \union RunsOf(sub.jobs)
    BY <1>4, <1>9 DEF QueuedInv
  <2>2. c \in Nat /\ 0 + 0 + c = N
    <3>1. c \in Nat
      BY <1>5
    <3>2. Len(mon.jobs) = 0 /\ Len(chan.queue) = 0
      BY <1>8, <2>1
    <3>3. Len(mon.jobs) + Len(chan.queue) + c = N
      BY <1>6, <2>1
    <3> HIDE DEF c
    <3> QED
      BY <3>1, <3>2, <3>3
  <2>3. 1..N \subseteq RunsOf(sub.jobs)
    <3>1. 1..N \subseteq RunsOf(mon.jobs) \union RunsOf(chan.queue) \union RunsOf(sub.jobs)
      BY <1>6, <2>1
    <3>2. RunsOf(mon.jobs) = {} /\ RunsOf(chan.queue) = {}
      BY <1>8, <2>1
    <3> QED
      BY <3>1, <3>2
  <2> HIDE DEF c
  <2>4. c = N
    BY <1>5, <2>2
  <2>5. Len(sub.jobs) = N /\ Runs \subseteq RunsOf(sub.jobs)
    BY <1>5, <2>3, <2>4 DEF c
  <2>6. Written'
    BY <1>1, <1>5, <1>7, <1>9, <2>5, ReturnsAccepted
  <2> QED
    BY <1>3, <2>6 DEF RInv
<1>10. CASE Fails
  BY <1>1, <1>3, <1>10, WrittenKept DEF Fails, RInv
<1>11. CASE mon.pc = "ok" /\ Returns(mon.jobs \o sub.jobs)
  <2> DEFINE all == mon.jobs \o sub.jobs
             a == Len(mon.jobs)
             c == Len(sub.jobs)
  <2>1. chan.queue = <<>> /\ \A i \in DOMAIN mon.jobs : Complete(mon.jobs[i])
    BY <1>4, <1>11 DEF QueuedInv
  <2>2. /\ Len(mon.jobs) + Len(chan.queue) + Len(sub.jobs) = sub.run - 1
        /\ 1..(sub.run - 1) \subseteq RunsOf(mon.jobs) \union RunsOf(chan.queue) \union RunsOf(sub.jobs)
    BY <1>4, <1>11 DEF QueuedInv
  <2>3. a \in Nat /\ c \in Nat /\ a + 0 + c = N
    <3>1. a \in Nat /\ c \in Nat
      BY <1>5
    <3>2. Len(chan.queue) = 0 /\ a + Len(chan.queue) + c = sub.run - 1
      BY <1>8, <2>1, <2>2
    <3>3. a + Len(chan.queue) + c = N
      BY <1>6, <3>2
    <3> HIDE DEF a, c
    <3> QED
      BY <3>1, <3>2, <3>3
  <2>4. 1..N \subseteq RunsOf(mon.jobs) \union RunsOf(sub.jobs)
    <3> DEFINE S == 1..(sub.run - 1)
               A == RunsOf(mon.jobs)
               B == RunsOf(chan.queue)
               C == RunsOf(sub.jobs)
    <3>1. S = 1..N
      BY <1>6
    <3>2. S \subseteq A \union B \union C /\ B = {}
      BY <1>8, <2>1, <2>2
    <3> HIDE DEF S, A, B, C
    <3>3. S \subseteq A \union C
      BY <3>2
    <3> QED
      BY <3>1, <3>3 DEF A, C
  <2>5. /\ all \in Seq(JobRec) /\ Len(all) = a + c
        /\ RunsOf(mon.jobs) \union RunsOf(sub.jobs) \subseteq RunsOf(all)
        /\ \A i \in DOMAIN all : \/ \E j \in DOMAIN mon.jobs : all[i] = mon.jobs[j]
                                 \/ \E j \in DOMAIN sub.jobs : all[i] = sub.jobs[j]
    BY <1>5, RunsOfJoin
  <2>6. \A j \in DOMAIN mon.jobs : Settled(mon.jobs[j]) /\ mon.jobs[j].run \in Runs
    <3> SUFFICES ASSUME NEW j \in DOMAIN mon.jobs PROVE Settled(mon.jobs[j]) /\ mon.jobs[j].run \in Runs
      OBVIOUS
    <3>1. mon.jobs[j] \in JobRec /\ Complete(mon.jobs[j])
      BY <1>5, <2>1
    <3>2. Known(mon.jobs[j])
      BY DEF BInv, MonGood
    <3> QED
      BY <1>5, <3>1, <3>2, KnownSettled DEF Known, KnownTimes
  <2> HIDE DEF all, a, c
  <2>7. a + c = N
    BY <1>5, <2>3
  <2>8. Len(all) = N /\ Runs \subseteq RunsOf(all)
    BY <1>5, <2>4, <2>5, <2>7
  <2>9. \A i \in DOMAIN all : Settled(all[i]) /\ all[i].run \in Runs
    BY <1>7, <2>5, <2>6
  <2>10. Returns(all)
    BY <1>11 DEF all
  <2>11. Written'
    BY <1>1, <2>5, <2>8, <2>9, <2>10, ReturnsAccepted
  <2> QED
    BY <1>3, <2>11 DEF RInv
<1> QED
  BY <1>2, <1>9, <1>10, <1>11

LEMMA FixtureReturnsRInv ==
    ASSUME BInv, RInv, FixtureReturns
    PROVE  RInv'
<1>1. Working /\ Written /\ input' = input /\ now' = now
  BY Submitter DEF Submitting
<1>2. CASE Fails
  <2>1. sub' = [sub EXCEPT !.pc = "returned", !.startedAt = Zero, !.jobs = <<>>] /\ sub \in SubRec
    BY <1>2, Counting DEF Fails
  <2>2. sub'.pc = "returned"
    BY <2>1 DEF SubRec
  <2> QED
    BY <1>1, <1>2, <2>2, WrittenKept DEF Fails, RInv
<1>3. CASE ~Fails
  <2> DEFINE n == sub.run + 1
             jobs == sub.jobs \o mon.jobs
             s == [sub EXCEPT !.pc = "next", !.run = n, !.jobs = jobs]
  <2>1. /\ mode = "sequential" /\ sub.pc = "waiting" /\ mon.pc = "ok" /\ Len(mon.jobs) = 1
        /\ sub' = s /\ ret' = ret
    BY <1>3 DEF FixtureReturns
  <2>2. /\ sub \in SubRec /\ sub.run \in Nat /\ sub.run # 0 /\ sub.jobs \in Seq(JobRec)
        /\ mon.jobs \in Seq(JobRec) /\ now \in Nat /\ N \in Nat
    BY Counting
  <2>3. /\ SequentialInv /\ sub.run <= N
        /\ \A i \in DOMAIN mon.jobs : Complete(mon.jobs[i]) /\ mon.jobs[i].run = sub.run
    BY <1>1, <2>1 DEF Working, SequentialInv
  <2>4. /\ jobs \in Seq(JobRec) /\ Len(jobs) = Len(sub.jobs) + 1
        /\ RunsOf(sub.jobs) \union RunsOf(mon.jobs) \subseteq RunsOf(jobs)
        /\ \A i \in DOMAIN jobs : \/ \E j \in DOMAIN sub.jobs : jobs[i] = sub.jobs[j]
                                  \/ \E j \in DOMAIN mon.jobs : jobs[i] = mon.jobs[j]
    BY <2>1, <2>2, RunsOfJoin
  <2>5. sub.run \in RunsOf(mon.jobs)
    <3>1. 1 \in DOMAIN mon.jobs
      BY <2>1, <2>2
    <3> QED
      BY <2>3, <3>1 DEF RunsOf
  <2>6. \A j \in DOMAIN mon.jobs : Settled(mon.jobs[j]) /\ mon.jobs[j].run \in Runs
    <3> SUFFICES ASSUME NEW j \in DOMAIN mon.jobs PROVE Settled(mon.jobs[j]) /\ mon.jobs[j].run \in Runs
      OBVIOUS
    <3>1. mon.jobs[j] \in JobRec /\ Complete(mon.jobs[j])
      BY <2>2, <2>3
    <3>2. Known(mon.jobs[j])
      BY DEF BInv, MonGood
    <3> QED
      BY <2>2, <3>1, <3>2, KnownSettled DEF Known, KnownTimes
  <2>7. n \in Nat /\ n - 1 = sub.run /\ n <= N + 1
    BY <2>2, <2>3
  <2> HIDE DEF n, jobs
  <2>8. s.pc = "next" /\ s.run = n /\ s.jobs = jobs
    BY <2>2, <2>4, <2>7 DEF SubRec
  <2> HIDE DEF s
  <2>9. N' = N /\ Runs' = Runs
    BY <1>1 DEF N, Runs
  <2>10. Submitted'
    <3>1. \A i \in DOMAIN jobs : Settled(jobs[i]) /\ jobs[i].run \in Runs
      BY <1>1, <2>4, <2>6 DEF Working, Submitted
    <3> QED
      BY <1>1, <2>1, <2>7, <2>8, <2>9, <3>1 DEF Submitted, Settled
  <2>11. SequentialInv'
    <3> DEFINE c == Len(sub.jobs)
    <3>1. c \in Nat /\ c = sub.run - 1 /\ Len(jobs) = c + 1 /\ 1..(sub.run - 1) \subseteq RunsOf(sub.jobs)
      BY <2>2, <2>3, <2>4 DEF SequentialInv
    <3> HIDE DEF c
    <3>2. Len(jobs) = n - 1
      BY <2>2, <2>7, <3>1
    <3>3. 1..(n - 1) \subseteq RunsOf(jobs)
      BY <2>2, <2>4, <2>5, <2>7, <3>1
    <3> QED
      BY <2>1, <2>8, <2>9, <3>2, <3>3 DEF SequentialInv
  <2> QED
    BY <1>1, <2>1, <2>10, <2>11, StillWorking DEF Working
<1> QED
  BY <1>2, <1>3

LEMMA SequentialReturnsRInv ==
    ASSUME BInv, RInv, SequentialReturns
    PROVE  RInv'
<1>1. Working /\ Written /\ input' = input /\ now' = now
  BY Submitter DEF Submitting
<1>2. mode = "sequential" /\ sub.run > N /\ Returns(sub.jobs)
  BY DEF SequentialReturns
<1>3. sub'.pc = "returned"
  <2>1. sub' = [sub EXCEPT !.pc = "returned", !.startedAt = Zero, !.jobs = <<>>] /\ sub \in SubRec
    BY <1>2, Counting DEF Returns
  <2> QED
    BY <2>1 DEF SubRec
<1>4. sub.jobs \in Seq(JobRec) /\ N \in Nat /\ sub.run \in Nat /\ Runs = 1..N
  BY Counting
<1>5. /\ SequentialInv /\ sub.run <= N + 1
      /\ \A i \in DOMAIN sub.jobs : Settled(sub.jobs[i]) /\ sub.jobs[i].run \in Runs
  BY <1>1, <1>2 DEF Working, Submitted
<1>6. sub.run - 1 = N
  BY <1>2, <1>4, <1>5
<1>7. Len(sub.jobs) = N /\ Runs \subseteq RunsOf(sub.jobs)
  BY <1>4, <1>5, <1>6 DEF SequentialInv
<1>8. Written'
  BY <1>1, <1>2, <1>4, <1>5, <1>7, ReturnsAccepted
<1> QED
  BY <1>3, <1>8 DEF RInv

LEMMA QueueFailsRInv ==
    ASSUME BInv, RInv, QueueFails
    PROVE  RInv'
<1>1. Written /\ input' = input /\ Fails
  BY Submitter DEF Submitting, QueueFails
<1>2. sub' = [sub EXCEPT !.pc = "returned", !.startedAt = Zero, !.jobs = <<>>] /\ sub \in SubRec
  BY <1>1, Counting DEF Fails
<1>3. sub'.pc = "returned"
  BY <1>2 DEF SubRec
<1> QED
  BY <1>1, <1>3, WrittenKept DEF Fails, RInv

LEMMA RInvInit == Init => RInv
<1> SUFFICES ASSUME Init PROVE RInv
  OBVIOUS
<1>1. ret \in [status : {"running", "ok", "error"}, jobs : Seq(JobRec), startedAt : Nat, completedAt : Nat]
  <2>1. <<>> \in Seq(JobRec)
    OBVIOUS
  <2> QED
    BY <2>1 DEF Init
<1>2. N \in Nat /\ N # 0 /\ mode \in {"queued", "sequential"}
  BY InputTyped DEF Init
<1>3. /\ sub.pc = "next" /\ sub.run = 1 /\ sub.jobs = <<>> /\ sub.ids = {} /\ ret.status = "running"
      /\ mon.jobs = <<>> /\ mon.open /\ mon.pc = "select" /\ chan.queue = <<>> /\ ~chan.closed
  BY DEF Init, NewMonitor, NewChannel
<1>4. Len(<<>>) = 0 /\ DOMAIN <<>> = {} /\ 1..(1 - 1) = {}
  OBVIOUS
<1>5. Submitted /\ QueuedInv /\ SequentialInv
  BY <1>2, <1>3, <1>4 DEF Submitted, QueuedInv, SequentialInv
<1> QED
  BY <1>1, <1>3, <1>5 DEF RInv, Written, Working, ResultAccepted

LEMMA RInvStep == BInv /\ RInv /\ [Next]_vars => RInv'
<1> SUFFICES ASSUME BInv, RInv, [Next]_vars PROVE RInv'
  OBVIOUS
<1>1. CASE Submitting
  BY <1>1, SubmitRInv, AcceptedRInv, RefusedRInv, QueueFailsRInv, RegisterRInv, CloseRInv,
     QueuedReturnsRInv, FixtureReturnsRInv, SequentialReturnsRInv DEF Submitting
<1>2. CASE Monitoring
  BY <1>2, MonitorRInv
<1>3. CASE Tick \/ ClientTakes \/ \E r \in Runs : ClientMoves(r)
  BY <1>3, ClientRInv
<1>4. CASE UNCHANGED vars
  <2>1. UNCHANGED <<input, now, sub, chan, mon, ret>>
    BY <1>4 DEF vars
  <2>2. Written'
    BY <2>1, WrittenKept DEF RInv
  <2>3. Working => Working'
    BY <2>1 DEF Working, Submitted, Settled, QueuedInv, SequentialInv, N, Runs, mode
  <2> QED
    BY <2>1, <2>2, <2>3 DEF RInv
<1> QED
  BY <1>1, <1>2, <1>3, <1>4 DEF Next

\* Whatever is refused, times out or fails, a result that runQueue writes has
\* every run once, complete and in the suite's window: ValidateFor refuses it,
\* if at all, for the width of a sequential observation.
THEOREM WrittenIsAccepted == Spec => []ResultAccepted
<1>1. RInv => ResultAccepted
  BY DEF RInv, Written
<1> QED
  BY <1>1, Observation, RInvInit, RInvStep, PTL DEF Spec
=============================================================================
