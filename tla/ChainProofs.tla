---------------------------- MODULE ChainProofs ----------------------------
(***************************************************************************)
(* Proofs about Chain for any number of sessions, any phases and any       *)
(* stack.                                                                  *)
(*                                                                         *)
(* IInv carries what a session knows about itself: how many verdicts it    *)
(* has at each point (Progress), that the lock file of its directory is    *)
(* its own while it works (LockHeld), and that what runs of a raw stack     *)
(* belongs to a session that has not stopped it, or forgot it (Owned).     *)
(*                                                                         *)
(* LInv adds what a session knows about the shaper: the key it remembers   *)
(* as applied is the link in force from a successful apply to the last     *)
(* record of a phase, and from the restore on the resting link is.  Two    *)
(* sessions at work would each change the link under the other, and the    *)
(* lock file is all that prevents it: LInv, and the theorems about links,  *)
(* are for sessions that share their log directory.                        *)
(***************************************************************************)
EXTENDS Chain, TLAPS

Verdicts == {"measured", "harness-failure"}
MeasuringPcs == {"cleaning", "starting", "measuring"}
FilingPcs == {"recording", "writing"}
EarlyPcs == {"start", "checking", "applying", "launching"} \union MeasuringPcs
LatePcs == {"stopping", "unlocking", "exited"}
Pcs == EarlyPcs \union FilingPcs \union LatePcs \union Dead \union {"restoring", "summarizing"}

Processes == {"server", "shaper"}

Session ==
    [pc : Pcs, phases : Seq(Links), next : Nat, applied : Links \union {NoLink},
     started : BOOLEAN, verdicts : Seq(Verdicts), at : {"phase", "summaries", "final"},
     outcome : {"pending", "error", "ok"}, dryRun : BOOLEAN, skipSummaries : BOOLEAN,
     warned : SUBSET {"restore", "stop"}, launched : BOOLEAN, forgot : SUBSET Processes]
Record == [verdicts : Seq(Verdicts), completed : BOOLEAN, torn : BOOLEAN]
Host == [link : Links \union {NoLink}, server : BOOLEAN,
         lease : Sessions \union {Nobody}, connected : BOOLEAN]

\* The variables' types.
Typed ==
    /\ stack \in Stacks
    /\ host \in Host
    /\ lock \in [Dirs -> Sessions \union {Nobody}]
    /\ session \in [Sessions -> Session]
    /\ record \in [Sessions -> Record]

\* The phases are the configured ones, and the cursor is on one of them.
OnPhase(s, c) == c.phases = Phases[s] /\ c.next \in 1..Len(c.phases)

\* What a session that returns success has on disk.
Truthful(c, filed) ==
    /\ Len(c.verdicts) = Len(c.phases)
    /\ ~HarnessFailed(c)
    /\ filed = [verdicts |-> c.verdicts, completed |-> TRUE, torn |-> FALSE]

\* One verdict per phase, and success only with the last record written.
Progress(c, filed) ==
    /\ c.pc \in EarlyPcs => Len(c.verdicts) = c.next - 1
    /\ c.pc \in FilingPcs =>
          Len(c.verdicts) = IF c.at = "phase" THEN c.next ELSE Len(c.phases)
    /\ c.pc = "summarizing" \/ (c.pc = "restoring" /\ c.outcome # "error") =>
          Len(c.verdicts) = Len(c.phases)
    /\ c.pc \in EarlyPcs \union FilingPcs \union {"summarizing"} => c.outcome = "pending"
    /\ c.pc = "restoring" => c.outcome # "ok" /\ c.applied # NoLink
    /\ c.pc \in LatePcs /\ c.outcome = "ok" /\ ~c.dryRun => Truthful(c, filed)

\* A session at work holds the lock file of its log directory.
LockHeld == \A s \in Sessions : Locked(s) => lock[LogDir[s]] = s

\* Session c has process p of the raw stack, or lost it: what Answers says, but not of
\* a session that launched the server and has already left the start.
Owns(c, p) ==
    \/ p \in c.forgot
    \/ c.launched /\ (c.pc \in Dead \/ (c.pc = "launching" /\ p = "server"))
    \/ c.started /\ (c.pc \notin {"start", "unlocking", "exited"} \/ "stop" \in c.warned)

Owned == \A p \in Processes : Running(p) => \E s \in Sessions : Owns(session[s], p)

\* Only a launched stack is started or has a process to lose, and a raw stack on which
\* a link was applied is a started one: the restore reshapes it.
StartedFirst(c) ==
    /\ c.started \/ c.pc = "launching" \/ c.forgot # {} => c.launched
    /\ stack = "raw" /\ c.applied # NoLink => c.started

\* The inductive invariant.
IInv ==
    /\ Typed
    /\ \A s \in Sessions :
          OnPhase(s, session[s]) /\ Progress(session[s], record[s]) /\ StartedFirst(session[s])
    /\ LockHeld
    /\ Owned

\* Inside runChainPhases, and after it.
InPhases(c) ==
    \/ c.pc \in {"applying"} \union MeasuringPcs
    \/ c.pc \in FilingPcs /\ c.at = "phase"
AfterPhases(c) ==
    \/ c.pc \in {"summarizing", "stopping"}
    \/ c.pc \in FilingPcs /\ c.at # "phase"

\* What session c may rely on when the shaper is on link l.
LinkKnown(c, l) ==
    /\ c.pc \in {"start", "checking"} => c.applied = NoLink
    /\ c.pc \in MeasuringPcs => c.applied = c.phases[c.next]
    /\ InPhases(c) /\ c.applied # NoLink => l = c.applied
    /\ AfterPhases(c) /\ c.applied # NoLink /\ Restore # NoLink /\ "restore" \notin c.warned =>
          l = Restore

\* The second inductive invariant.
LInv == stack # "external" => \A s \in Sessions : LinkKnown(session[s], host.link)

\* Every session keeps its logs, and so its lock file, in one directory.
OneLogDir == \A s, t \in Sessions : LogDir[s] = LogDir[t]

\* What the invariant says of one session.
LEMMA Here ==
    ASSUME IInv, NEW s \in Sessions
    PROVE  /\ session[s] \in Session /\ record[s] \in Record /\ host \in Host
           /\ OnPhase(s, session[s]) /\ Progress(session[s], record[s])
           /\ StartedFirst(session[s]) /\ LogDir[s] \in Dirs
  BY ChainAssumption DEF IInv, Typed

\* A step in which session s becomes c, in the form every action has.  Other
\* sessions keep what they know: they are not at work while s is, if they share
\* its lock file.
LEMMA Step ==
    ASSUME IInv, NEW s \in Sessions, NEW c \in Session, Become(s, c), stack' = stack,
           host' \in Host, lock' \in [Dirs -> Sessions \union {Nobody}], LockHeld',
           record' \in [Sessions -> Record],
           \A t \in Sessions \ {s} : record'[t] = record[t],
           OnPhase(s, c), Progress(c, record'[s]), StartedFirst(c),
           \A p \in Processes :
              Running(p)' => Owns(c, p) \/ (Running(p) /\ ~Owns(session[s], p)),
           stack # "external" /\ LinkKnown(session[s], host.link) => LinkKnown(c, host'.link),
           host'.link = host.link \/ Locked(s)
    PROVE  IInv' /\ (OneLogDir /\ LInv => LInv')
<1>1. /\ session'[s] = c
      /\ \A t \in Sessions \ {s} : session'[t] = session[t]
      /\ session' \in [Sessions -> Session]
  BY DEF Become, IInv, Typed
<1>2. Typed'
  BY <1>1 DEF IInv, Typed
<1>3. \A t \in Sessions :
         OnPhase(t, session[t])' /\ Progress(session[t], record[t])' /\ StartedFirst(session[t])'
  <2>1. OnPhase(s, session[s])' /\ Progress(session[s], record[s])' /\ StartedFirst(session[s])'
    BY <1>1 DEF OnPhase, StartedFirst
  <2>2. ASSUME NEW t \in Sessions \ {s}
        PROVE  OnPhase(t, session[t])' /\ Progress(session[t], record[t])' /\ StartedFirst(session[t])'
    BY <1>1, <2>2 DEF IInv, OnPhase, StartedFirst
  <2> QED
    BY <2>1, <2>2
<1>4. Owned'
  <2> SUFFICES ASSUME NEW p \in Processes, Running(p)'
               PROVE  \E t \in Sessions : Owns(session'[t], p)
    BY DEF Owned
  <2>1. CASE Owns(c, p)
    BY <1>1, <2>1
  <2>2. CASE Running(p) /\ ~Owns(session[s], p)
    <3>1. \E t \in Sessions \ {s} : Owns(session[t], p)
      BY <2>2 DEF IInv, Owned
    <3> QED
      BY <1>1, <3>1
  <2> QED
    BY <2>1, <2>2
<1>6. ASSUME OneLogDir, LInv PROVE LInv'
  <2> SUFFICES ASSUME stack # "external", NEW t \in Sessions
               PROVE  LinkKnown(session'[t], host'.link)
    BY <1>6 DEF LInv
  <2>1. LinkKnown(session[s], host.link) /\ LinkKnown(session[t], host.link)
    BY <1>6 DEF LInv
  <2>2. CASE t = s
    BY <1>1, <2>1, <2>2
  <2>3. CASE t # s /\ host'.link = host.link
    BY <1>1, <2>1, <2>3
  <2>4. CASE t # s /\ Locked(s)
    <3>1. ~Locked(t)
      <4>1. LogDir[s] = LogDir[t]
        BY <1>6 DEF OneLogDir
      <4> QED
        BY <2>4, <4>1 DEF IInv, LockHeld
    <3>2. session[t].pc \in {"start", "exited"} \union Dead
      BY <3>1 DEF Locked
    <3> QED
      BY <1>1, <2>1, <2>4, <3>2
         DEF LinkKnown, InPhases, AfterPhases, MeasuringPcs, FilingPcs, Dead
  <2> QED
    BY <2>2, <2>3, <2>4
<1> QED
  BY <1>2, <1>3, <1>4, <1>6 DEF IInv

\* A session that was at work, or stops being so, keeps its lock file.
LEMMA KeepsLock ==
    ASSUME IInv, NEW s \in Sessions, NEW c \in Session, Become(s, c), lock' = lock,
           Locked(s) \/ c.pc \in {"start", "exited"} \union Dead
    PROVE  LockHeld'
<1>1. session'[s] = c /\ \A t \in Sessions \ {s} : session'[t] = session[t]
  BY DEF Become, IInv, Typed
<1>2. ASSUME NEW t \in Sessions, Locked(t)' PROVE Locked(t)
  BY <1>1, <1>2 DEF Locked
<1> QED
  BY <1>2 DEF LockHeld, IInv

\* A step that changes neither the link nor the server, and in which session s does not
\* leave a start or stop its stack.
LEMMA StayStep ==
    ASSUME IInv, NEW s \in Sessions, NEW c \in Session, Become(s, c), stack' = stack,
           host' \in Host, host'.link = host.link, host'.server = host.server,
           lock' \in [Dirs -> Sessions \union {Nobody}], LockHeld',
           record' \in [Sessions -> Record],
           \A t \in Sessions \ {s} : record'[t] = record[t],
           OnPhase(s, c), Progress(c, record'[s]),
           c.applied = session[s].applied, c.started = session[s].started,
           c.launched = session[s].launched, c.forgot = session[s].forgot,
           c.warned = session[s].warned,
           c.pc # "launching", session[s].pc \in Dead \union {"launching"} => c.pc \in Dead,
           c.pc \in {"start", "unlocking", "exited"} => session[s].pc \in {"start", "unlocking"},
           stack # "external" /\ LinkKnown(session[s], host.link) => LinkKnown(c, host.link)
    PROVE  IInv' /\ (OneLogDir /\ LInv => LInv')
<1>1. StartedFirst(c)
  BY Here DEF StartedFirst
<1>2. ASSUME NEW p \in Processes, Owns(session[s], p)
      PROVE  Owns(c, p)
  BY <1>2 DEF Owns
<1>3. \A p \in Processes : Running(p)' = Running(p)
  BY DEF Running
<1>4. \A p \in Processes :
         Running(p)' => Owns(c, p) \/ (Running(p) /\ ~Owns(session[s], p))
  BY <1>2, <1>3
<1> QED
  BY <1>1, <1>4, Step

\* What apply leaves: a host, with the link in force when it succeeds and the server as
\* it was.
LEMMA ApplyResult ==
    ASSUME IInv, NEW s \in Sessions, NEW key \in Links \union {NoLink}, NEW r \in apply(s, key)
    PROVE  /\ r.host \in Host /\ r.ok \in BOOLEAN /\ r.forgot \in SUBSET Processes
           /\ r.ok /\ stack # "external" => r.host.link = key
           /\ r.host.server = host.server
           /\ stack # "raw" \/ r.ok => r.forgot = {}
<1>2. ASSUME NEW k \in Links \union {NoLink}
      PROVE  OnLink(k) \in Host /\ OnLink(k).link = k /\ OnLink(k).server = host.server
  BY Here DEF OnLink, Host
<1>3. host \in Host
  BY Here
<1>5. stack \in {"docker", "raw", "external"}
  BY ChainAssumption DEF IInv, Typed
<1>6. CASE stack = "docker"
  <2>1. r \in applyChainShaper(key)
    BY <1>6 DEF apply
  <2>2. \/ r.ok = TRUE /\ r.host.link = key /\ r.host \in {host, OnLink(key)}
        \/ r.ok = FALSE /\ r.host \in {host, OnLink(key), OnLink(NoLink)}
    BY <1>2, <2>1 DEF applyChainShaper
  <2>3. r.forgot = {}
    BY <2>1 DEF applyChainShaper
  <2> QED
    BY <1>2, <1>3, <1>6, <2>2, <2>3
<1>7. CASE stack = "raw"
  <2>1. r \in Reshape(s, key)
    BY <1>7 DEF apply
  <2>2. \/ r.ok = TRUE /\ r.host = OnLink(key) /\ r.forgot = {}
        \/ r.ok = FALSE /\ r.host \in {host, OnLink(NoLink), OnLink(key)} /\ r.forgot \in {{}, {"shaper"}}
    BY <2>1 DEF Reshape
  <2>3. {"shaper"} \in SUBSET Processes
    BY DEF Processes
  <2> QED
    BY <1>2, <1>3, <1>7, <2>2, <2>3
<1>8. CASE stack = "external"
  <2>1. r = [ok |-> TRUE, host |-> host, forgot |-> {}]
    BY <1>8 DEF apply
  <2> QED
    BY <1>3, <1>8, <2>1
<1> QED
  BY <1>5, <1>6, <1>7, <1>8

\* The server of a host, set.
LEMMA ServerSet ==
    ASSUME NEW h \in Host, NEW left, NEW after, after = [h EXCEPT !.server = "server" \in left]
    PROVE  after \in Host /\ after.link = h.link /\ after.server = ("server" \in left)
<1> DEFINE b == "server" \in left
<1>1. b \in BOOLEAN
  OBVIOUS
<1>2. after = [h EXCEPT !.server = b]
  OBVIOUS
<1> HIDE DEF b
<1>3. after \in Host /\ after.link = h.link /\ after.server = b
  BY <1>1, <1>2 DEF Host
<1> QED
  BY <1>3 DEF b

\* A session that only goes elsewhere.
LEMMA MovedFields ==
    ASSUME IInv, NEW s \in Sessions, NEW pc \in Pcs, NEW c, c = [session[s] EXCEPT !.pc = pc]
    PROVE  /\ c \in Session /\ c.pc = pc /\ OnPhase(s, c)
           /\ c.phases = session[s].phases /\ c.next = session[s].next
           /\ c.applied = session[s].applied /\ c.started = session[s].started
           /\ c.verdicts = session[s].verdicts /\ c.at = session[s].at
           /\ c.outcome = session[s].outcome /\ c.dryRun = session[s].dryRun
           /\ c.warned = session[s].warned
           /\ c.launched = session[s].launched /\ c.forgot = session[s].forgot
  BY Here DEF Session, OnPhase

\* The lock and the checks.
LEMMA PreparingIInv ==
    ASSUME IInv, NEW s \in Sessions, Preparing(s)
    PROVE  IInv' /\ (OneLogDir /\ LInv => LInv')
<1> USE DEF EarlyPcs, FilingPcs, LatePcs, MeasuringPcs, Dead
<1>0. /\ host \in Host /\ record \in [Sessions -> Record]
      /\ lock \in [Dirs -> Sessions \union {Nobody}] /\ LogDir[s] \in Dirs
  BY Here DEF IInv, Typed
<1>1. CASE acquireChainLock(s)
  <2> DEFINE c == [session[s] EXCEPT !.pc = "checking"]
  <2>1. /\ session[s].pc = "start" /\ lock[LogDir[s]] = Nobody
        /\ lock' = [lock EXCEPT ![LogDir[s]] = s]
        /\ Become(s, c) /\ UNCHANGED <<stack, host, record>>
    BY <1>1 DEF acquireChainLock, At, Goto
  <2>2. "checking" \in Pcs
    BY DEF Pcs
  <2>3. /\ c \in Session /\ c.pc = "checking" /\ OnPhase(s, c)
        /\ c.phases = session[s].phases /\ c.next = session[s].next
        /\ c.applied = session[s].applied /\ c.started = session[s].started
        /\ c.verdicts = session[s].verdicts /\ c.outcome = session[s].outcome
        /\ c.warned = session[s].warned
        /\ c.launched = session[s].launched /\ c.forgot = session[s].forgot
    BY <2>2, MovedFields
  <2> HIDE DEF c
  <2>4. LockHeld'
    <3>1. session'[s] = c /\ \A t \in Sessions \ {s} : session'[t] = session[t]
      BY <2>1 DEF Become, IInv, Typed
    <3> SUFFICES ASSUME NEW t \in Sessions, Locked(t)'
                 PROVE  lock'[LogDir[t]] = t
      BY DEF LockHeld
    <3>2. CASE t = s
      BY <1>0, <2>1, <3>2
    <3>3. CASE t # s
      <4>1. Locked(t) /\ lock[LogDir[t]] = t
        BY <3>1, <3>3 DEF Locked, LockHeld, IInv
      <4>2. t # Nobody /\ LogDir[t] \in Dirs
        BY ChainAssumption
      <4> QED
        BY <1>0, <2>1, <4>1, <4>2
    <3> QED
      BY <3>2, <3>3
  <2>5. lock' \in [Dirs -> Sessions \union {Nobody}]
    BY <1>0, <2>1
  <2>6. Progress(c, record[s])
    BY <2>1, <2>3, Here DEF Progress
  <2>7. LinkKnown(session[s], host.link) => LinkKnown(c, host.link)
    BY <2>1, <2>3 DEF LinkKnown, InPhases, AfterPhases
  <2> QED
    BY <1>0, <2>1, <2>3, <2>4, <2>5, <2>6, <2>7, StayStep
<1>2. ASSUME NEW pc \in {"exited", "stopping"}, NEW outcome \in {"error", "ok"},
             Become(s, [session[s] EXCEPT !.pc = pc, !.outcome = outcome]),
             UNCHANGED <<stack, host, lock, record>>,
             \/ pc = "exited" /\ session[s].pc = "start"
             \/ pc = "stopping" /\ session[s].pc = "checking",
             outcome = "ok" => session[s].dryRun
      PROVE  IInv' /\ (OneLogDir /\ LInv => LInv')
  <2> DEFINE c == [session[s] EXCEPT !.pc = pc, !.outcome = outcome]
  <2>1. pc \in Pcs
    BY DEF Pcs
  <2>2. /\ c \in Session /\ c.pc = pc /\ c.outcome = outcome /\ OnPhase(s, c)
        /\ c.applied = session[s].applied /\ c.started = session[s].started
        /\ c.dryRun = session[s].dryRun /\ c.warned = session[s].warned
        /\ c.launched = session[s].launched /\ c.forgot = session[s].forgot
    <3> DEFINE t == session[s]
    <3>1. t \in Session /\ OnPhase(s, t) /\ c = [t EXCEPT !.pc = pc, !.outcome = outcome]
      BY Here
    <3> HIDE DEF t, c
    <3>2. /\ c \in Session /\ c.pc = pc /\ c.outcome = outcome
          /\ c.phases = t.phases /\ c.next = t.next
          /\ c.applied = t.applied /\ c.started = t.started
          /\ c.dryRun = t.dryRun /\ c.warned = t.warned
          /\ c.launched = t.launched /\ c.forgot = t.forgot
      BY <2>1, <3>1 DEF Session
    <3>3. OnPhase(s, c)
      BY <3>1, <3>2 DEF OnPhase
    <3> QED
      BY <3>2, <3>3 DEF t
  <2>3. Become(s, c)
    BY <1>2
  <2> HIDE DEF c
  <2>4. Progress(c, record[s])
    BY <1>2, <2>2 DEF Progress
  <2>5. LinkKnown(session[s], host.link) => LinkKnown(c, host.link)
    BY <1>2, <2>2 DEF LinkKnown, InPhases, AfterPhases
  <2>7. LockHeld'
    BY <1>2, <2>2, <2>3, KeepsLock DEF Locked
  <2> QED
    BY <1>0, <1>2, <2>2, <2>3, <2>4, <2>5, <2>7, StayStep
<1>3. CASE LockRefused(s) \/ ChecksFail(s)
  BY <1>2, <1>3 DEF LockRefused, ChecksFail, Return, At
<1>4. CASE ChecksPass(s) /\ session[s].dryRun
  BY <1>2, <1>4 DEF ChecksPass, Return, At
<1>5. CASE ChecksPass(s) /\ ~session[s].dryRun
  <2> DEFINE c == [session[s] EXCEPT !.pc = "applying"]
  <2>1. /\ session[s].pc = "checking" /\ Become(s, c)
        /\ UNCHANGED <<stack, host, lock, record>>
    BY <1>5 DEF ChecksPass, At, Goto
  <2>2. "applying" \in Pcs
    BY DEF Pcs
  <2>3. /\ c \in Session /\ c.pc = "applying" /\ OnPhase(s, c)
        /\ c.phases = session[s].phases /\ c.next = session[s].next
        /\ c.applied = session[s].applied /\ c.started = session[s].started
        /\ c.verdicts = session[s].verdicts /\ c.outcome = session[s].outcome
        /\ c.warned = session[s].warned
        /\ c.launched = session[s].launched /\ c.forgot = session[s].forgot
    BY <2>2, MovedFields
  <2> HIDE DEF c
  <2>4. LockHeld'
    BY <2>1, <2>3, KeepsLock DEF Locked
  <2>5. Progress(c, record[s])
    BY <2>1, <2>3, Here DEF Progress
  <2>6. LinkKnown(session[s], host.link) => LinkKnown(c, host.link)
    BY <2>1, <2>3 DEF LinkKnown, InPhases, AfterPhases
  <2> QED
    BY <1>0, <2>1, <2>3, <2>4, <2>5, <2>6, StayStep
<1> QED
  BY <1>1, <1>3, <1>4, <1>5 DEF Preparing

\* A step that leaves the link and the server alone and only moves the session,
\* before its stack is stopped.
LEMMA MoveStep ==
    ASSUME IInv, NEW s \in Sessions, NEW pc \in Pcs \ {"start", "launching", "unlocking", "exited"},
           Goto(s, pc), UNCHANGED <<stack, lock>>, Locked(s) \/ pc \in Dead,
           session[s].pc = "launching" => pc \in Dead,
           host' \in Host, host'.link = host.link, host'.server = host.server,
           record' \in [Sessions -> Record], \A t \in Sessions \ {s} : record'[t] = record[t],
           NEW c, c = [session[s] EXCEPT !.pc = pc],
           Progress(c, record'[s]),
           stack # "external" /\ LinkKnown(session[s], host.link) => LinkKnown(c, host.link)
    PROVE  IInv' /\ (OneLogDir /\ LInv => LInv')
<1>1. Become(s, c)
  BY DEF Goto
<1>2. /\ c \in Session /\ c.pc = pc /\ OnPhase(s, c) /\ c.applied = session[s].applied
      /\ c.started = session[s].started /\ c.warned = session[s].warned
      /\ c.launched = session[s].launched /\ c.forgot = session[s].forgot
  BY MovedFields
<1>3. LockHeld'
  BY <1>1, <1>2, KeepsLock
<1>4. lock' \in [Dirs -> Sessions \union {Nobody}]
  BY DEF IInv, Typed
<1>5. session[s].pc \in Dead \union {"launching"} => c.pc \in Dead
  BY <1>2 DEF Locked
<1> QED
  BY <1>1, <1>2, <1>3, <1>4, <1>5, StayStep

\* The key the phase is measured on is a link.
LEMMA KeyIsLink ==
    ASSUME IInv, NEW s \in Sessions
    PROVE  Key(s) \in Links /\ Key(s) # NoLink
<1>1. /\ session[s].phases = Phases[s] /\ Phases[s] \in Seq(Links)
      /\ session[s].next \in 1..Len(Phases[s])
  BY Here, ChainAssumption DEF OnPhase
<1>2. Key(s) \in ToSet(Phases[s])
  BY <1>1 DEF Key, ToSet
<1> QED
  BY <1>1, <1>2, ChainAssumption DEF Key

\* A link transition that succeeded.
LEMMA AppliedIInv ==
    ASSUME IInv, NEW s \in Sessions, session[s].pc \in {"applying", "launching"}, Applied(s),
           UNCHANGED <<stack, lock, record>>, host' \in Host,
           stack # "external" => host'.link = Key(s), stack = "raw" => session[s].launched
    PROVE  IInv' /\ (OneLogDir /\ LInv => LInv')
<1> USE DEF EarlyPcs, FilingPcs, LatePcs, MeasuringPcs, Dead
<1> DEFINE old == session[s]
           c == [old EXCEPT !.applied = Key(s), !.started = stack = "raw", !.pc = "cleaning"]
<1>0. old \in Session /\ record \in [Sessions -> Record] /\ lock \in [Dirs -> Sessions \union {Nobody}]
  BY Here DEF IInv, Typed
<1>1. Become(s, c)
  BY DEF Applied
<1>2. Key(s) \in Links /\ Key(s) # NoLink /\ Key(s) = old.phases[old.next]
  BY KeyIsLink DEF Key
<1>3. /\ c \in Session /\ c.pc = "cleaning" /\ OnPhase(s, c)
      /\ c.applied = Key(s) /\ c.started = (stack = "raw")
      /\ c.phases = old.phases /\ c.next = old.next /\ c.verdicts = old.verdicts
      /\ c.outcome = old.outcome /\ c.launched = old.launched /\ c.forgot = old.forgot
  BY <1>0, <1>2, Here DEF Session, OnPhase, Pcs
<1> HIDE DEF c
<1>4. Locked(s) /\ LockHeld'
  BY <1>1, <1>3, KeepsLock DEF Locked
<1>5. Progress(c, record[s])
  BY <1>3, Here DEF Progress
<1>6. stack # "external" => LinkKnown(c, host'.link)
  BY <1>2, <1>3 DEF LinkKnown, InPhases, AfterPhases
<1>7. StartedFirst(c)
  BY <1>3, Here DEF StartedFirst
<1>8. \A p \in Processes :
         Running(p)' => Owns(c, p) \/ (Running(p) /\ ~Owns(session[s], p))
  BY <1>3 DEF Running, Owns
<1> QED
  BY <1>0, <1>1, <1>3, <1>4, <1>5, <1>6, <1>7, <1>8, Step

\* A transition that failed makes no claim about the link, and is followed by the restore
\* if a link had been applied; what it left behind is forgotten.
LEMMA NotAppliedIInv ==
    ASSUME IInv, NEW s \in Sessions, session[s].pc \in {"applying", "launching"},
           NEW left \in SUBSET Processes, NotApplied(s, left),
           UNCHANGED <<stack, lock, record>>, host' \in Host,
           left # {} => session[s].launched,
           \A p \in Processes : Running(p)' =>
              \/ p \in left \/ session[s].started
              \/ Running(p) /\ ~(session[s].pc = "launching" /\ p = "server")
    PROVE  IInv' /\ (OneLogDir /\ LInv => LInv')
<1> USE DEF EarlyPcs, FilingPcs, LatePcs, MeasuringPcs, Dead
<1> DEFINE old == session[s]
           w == old.forgot \union left
           pc == Leaves([old EXCEPT !.outcome = "error", !.forgot = w])
           c == [old EXCEPT !.outcome = "error", !.forgot = w, !.pc = pc]
<1>0. old \in Session /\ record \in [Sessions -> Record] /\ lock \in [Dirs -> Sessions \union {Nobody}]
  BY Here DEF IInv, Typed
<1>1. Become(s, c)
  <2>1. [[old EXCEPT !.outcome = "error", !.forgot = w] EXCEPT !.pc = pc] = c
    BY <1>0 DEF Session
  <2> QED
    BY <2>1 DEF NotApplied
<1>2. pc = IF old.applied # NoLink /\ Restore # NoLink THEN "restoring" ELSE "stopping"
  BY <1>0 DEF Leaves, Session
<1>3. w \in SUBSET Processes /\ old.forgot \subseteq w /\ left \subseteq w /\ (w # {} => old.forgot # {} \/ left # {})
  BY <1>0 DEF Session
<1> HIDE DEF pc, w
<1>4. /\ c \in Session /\ c.pc = pc /\ OnPhase(s, c)
      /\ c.applied = old.applied /\ c.started = old.started /\ c.outcome = "error"
      /\ c.warned = old.warned /\ c.launched = old.launched /\ c.forgot = w
  <2>1. pc \in Pcs /\ OnPhase(s, old)
    BY <1>2, Here DEF Pcs
  <2>2. /\ c \in Session /\ c.pc = pc /\ c.phases = old.phases /\ c.next = old.next
        /\ c.applied = old.applied /\ c.started = old.started /\ c.outcome = "error"
        /\ c.warned = old.warned /\ c.launched = old.launched /\ c.forgot = w
    BY <1>0, <1>3, <2>1 DEF Session
  <2> HIDE DEF c, old
  <2>3. OnPhase(s, c)
    BY <2>1, <2>2 DEF OnPhase
  <2> QED
    BY <2>2, <2>3
<1> HIDE DEF c
<1>5. Locked(s) /\ LockHeld'
  BY <1>1, <1>2, <1>4, KeepsLock DEF Locked
<1>6. Progress(c, record[s])
  BY <1>2, <1>4 DEF Progress
<1>7. LinkKnown(c, host'.link)
  BY <1>2, <1>4 DEF LinkKnown, InPhases, AfterPhases
<1>8. StartedFirst(c)
  BY <1>2, <1>3, <1>4, Here DEF StartedFirst
<1>9. \A p \in Processes :
         Running(p)' => Owns(c, p) \/ (Running(p) /\ ~Owns(session[s], p))
  <2> SUFFICES ASSUME NEW p \in Processes, Running(p)', Running(p) => Owns(session[s], p)
               PROVE  Owns(c, p)
    OBVIOUS
  <2>1. CASE p \in left
    BY <1>3, <1>4, <2>1 DEF Owns
  <2>2. CASE old.started
    BY <1>2, <1>4, <2>2 DEF Owns
  <2>3. CASE Running(p) /\ ~(old.pc = "launching" /\ p = "server") /\ ~old.started
    <3>1. p \in old.forgot
      BY <2>3 DEF Owns
    <3> QED
      BY <1>3, <1>4, <3>1 DEF Owns
  <2> QED
    BY <2>1, <2>2, <2>3
<1> QED
  BY <1>0, <1>1, <1>4, <1>5, <1>6, <1>7, <1>8, <1>9, Step

\* Link transitions of a Compose or external stack, and of a raw one that is started.
LEMMA ApplyIInv ==
    ASSUME IInv, NEW s \in Sessions, ApplyPhase(s)
    PROVE  IInv' /\ (OneLogDir /\ LInv => LInv')
<1>1. PICK r \in apply(s, Key(s)) :
         /\ host' = r.host
         /\ IF r.ok THEN Applied(s) ELSE NotApplied(s, r.forgot)
  BY DEF ApplyPhase
<1>2. /\ session[s].pc = "applying" /\ UNCHANGED <<stack, lock, record>>
      /\ stack = "raw" => session[s].started
  BY DEF ApplyPhase, At, NeedsStart
<1>3. Key(s) \in Links
  BY KeyIsLink
<1>4. /\ host' \in Host /\ r.ok \in BOOLEAN /\ r.forgot \in SUBSET Processes
      /\ r.ok /\ stack # "external" => host'.link = Key(s)
      /\ stack # "raw" \/ r.ok => r.forgot = {}
  BY <1>1, <1>3, ApplyResult
<1>5. session[s].started => session[s].launched
  BY Here DEF StartedFirst
<1>6. CASE r.ok
  BY <1>1, <1>2, <1>4, <1>5, <1>6, AppliedIInv
<1>7. CASE ~r.ok
  <2>1. \A p \in Processes : Running(p)' => session[s].started
    BY <1>2 DEF Running
  <2> QED
    BY <1>1, <1>2, <1>4, <1>5, <1>7, <2>1, NotAppliedIInv
<1> QED
  BY <1>4, <1>6, <1>7

\* The launch of a raw server.
LEMMA StartServerIInv ==
    ASSUME IInv, NEW s \in Sessions, StartServer(s)
    PROVE  IInv' /\ (OneLogDir /\ LInv => LInv')
<1> USE DEF EarlyPcs, FilingPcs, LatePcs, MeasuringPcs, Dead
<1> DEFINE old == session[s]
           c == [old EXCEPT !.pc = "launching", !.launched = TRUE]
<1>0. /\ old \in Session /\ record \in [Sessions -> Record] /\ host \in Host
      /\ lock \in [Dirs -> Sessions \union {Nobody}]
      /\ old.pc = "applying" /\ UNCHANGED <<stack, lock, record>>
  BY Here DEF IInv, Typed, StartServer, At
<1>1. CASE host' = [host EXCEPT !.server = TRUE] /\ Become(s, c)
  <2>1. "launching" \in Pcs
    BY DEF Pcs
  <2>2. /\ c \in Session /\ c.pc = "launching" /\ OnPhase(s, c)
        /\ c.phases = old.phases /\ c.next = old.next /\ c.verdicts = old.verdicts
        /\ c.applied = old.applied /\ c.started = old.started /\ c.outcome = old.outcome
        /\ c.warned = old.warned /\ c.launched = TRUE /\ c.forgot = old.forgot
    BY <1>0, <2>1, Here DEF Session, OnPhase
  <2> HIDE DEF c
  <2>3. host' \in Host /\ host'.link = host.link
    BY <1>0, <1>1 DEF Host
  <2>4. Locked(s) /\ LockHeld'
    BY <1>0, <1>1, <2>2, KeepsLock DEF Locked
  <2>5. Progress(c, record[s])
    BY <1>0, <2>2, Here DEF Progress
  <2>6. LinkKnown(c, host'.link)
    BY <2>2 DEF LinkKnown, InPhases, AfterPhases
  <2>7. StartedFirst(c)
    BY <2>2, Here DEF StartedFirst
  <2>8. \A p \in Processes :
           Running(p)' => Owns(c, p) \/ (Running(p) /\ ~Owns(session[s], p))
    <3> SUFFICES ASSUME NEW p \in Processes, Running(p)', ~Owns(c, p)
                 PROVE  Running(p) /\ ~Owns(session[s], p)
      OBVIOUS
    <3>1. p = "shaper" /\ ~Owns(session[s], p)
      BY <1>0, <2>2 DEF Owns, Processes
    <3> QED
      BY <1>0, <2>3, <3>1 DEF Running
  <2> QED
    BY <1>0, <1>1, <2>2, <2>3, <2>4, <2>5, <2>6, <2>7, <2>8, Step
<1>2. CASE UNCHANGED host /\ NotApplied(s, {})
  <2>1. \A p \in Processes : Running(p)' => Running(p)
    BY <1>0, <1>2 DEF Running
  <2> QED
    BY <1>0, <1>2, <2>1, NotAppliedIInv
<1> QED
  BY <1>1, <1>2 DEF StartServer

\* Both processes are healthy, or one is not and Start takes down what it can.
LEMMA StartedIInv ==
    ASSUME IInv, NEW s \in Sessions, StartShaper(s) \/ StartFails(s)
    PROVE  IInv' /\ (OneLogDir /\ LInv => LInv')
<1>1. /\ session[s].pc = "launching" /\ UNCHANGED <<stack, lock, record>>
      /\ host \in Host /\ session[s].launched
  BY Here DEF StartShaper, StartFails, At, StartedFirst
<1>2. OnLink(Key(s)) \in Host /\ OnLink(Key(s)).link = Key(s)
  BY <1>1, KeyIsLink DEF OnLink, Host
<1>3. CASE StartShaper(s)
  BY <1>1, <1>2, <1>3, AppliedIInv DEF StartShaper
<1>4. CASE StartFails(s)
  <2>1. PICK left \in SUBSET Processes :
           /\ host' = [(IF "shaper" \in left /\ host.link = NoLink THEN OnLink(Key(s)) ELSE host)
                           EXCEPT !.server = "server" \in left]
           /\ NotApplied(s, left)
    BY <1>4 DEF StartFails, Processes
  <2>2. PICK h \in Host : /\ host' = [h EXCEPT !.server = "server" \in left]
                          /\ h.link = host.link \/ "shaper" \in left
    BY <1>1, <1>2, <2>1
  <2>3. host' \in Host /\ host'.link = h.link /\ host'.server = ("server" \in left)
    BY <2>2, ServerSet, Zenon
  <2>4. \A p \in Processes : Running(p)' =>
           p \in left \/ (Running(p) /\ ~(session[s].pc = "launching" /\ p = "server"))
    BY <1>1, <2>2, <2>3 DEF Running, Processes
  <2> QED
    BY <1>1, <2>1, <2>3, <2>4, NotAppliedIInv
<1> QED
  BY <1>3, <1>4

\* Keeping the link, cleaning up and starting a phase.
LEMMA TowardsPhaseIInv ==
    ASSUME IInv, NEW s \in Sessions, KeepLink(s) \/ CleanUp(s) \/ PhaseStarts(s)
    PROVE  IInv' /\ (OneLogDir /\ LInv => LInv')
<1> USE DEF EarlyPcs, FilingPcs, LatePcs, MeasuringPcs, Dead
<1>0. PICK pc \in MeasuringPcs :
         /\ Goto(s, pc)
         /\ \/ session[s].pc \in MeasuringPcs
            \/ session[s].pc = "applying" /\ Key(s) = session[s].applied
  BY DEF KeepLink, CleanUp, PhaseStarts, At, NeedsLink
<1>1. /\ UNCHANGED <<stack, lock, record>>
      /\ host' \in Host /\ host'.link = host.link /\ host'.server = host.server
  <2>1. UNCHANGED <<stack, lock, record>> /\ host \in Host
    BY Here DEF KeepLink, CleanUp, PhaseStarts
  <2>2. host' \in {host, [host EXCEPT !.lease = Nobody], [host EXCEPT !.lease = s]}
    BY DEF KeepLink, CleanUp, PhaseStarts
  <2> QED
    BY <2>1, <2>2 DEF Host
<1> DEFINE c == [session[s] EXCEPT !.pc = pc]
<1>2. pc \in Pcs \ {"start", "launching", "unlocking", "exited"} /\ Locked(s)
  BY <1>0 DEF Pcs, Locked
<1>3. /\ c \in Session /\ c.pc = pc /\ c.phases = session[s].phases /\ c.next = session[s].next
      /\ c.applied = session[s].applied /\ c.verdicts = session[s].verdicts
      /\ c.outcome = session[s].outcome
  BY <1>2, MovedFields
<1>4. c = [session[s] EXCEPT !.pc = pc]
  OBVIOUS
<1> HIDE DEF c
<1>5. Progress(c, record[s])
  BY <1>0, <1>3, Here DEF Progress
<1>6. LinkKnown(session[s], host.link) => LinkKnown(c, host.link)
  BY <1>0, <1>3 DEF LinkKnown, InPhases, AfterPhases, Key
<1>7. record \in [Sessions -> Record]
  BY DEF IInv, Typed
<1> QED
  BY <1>0, <1>1, <1>2, <1>4, <1>5, <1>6, <1>7, MoveStep

\* The verdict on a phase, however it came to be.
LEMMA VerdictIInv ==
    ASSUME IInv, NEW s \in Sessions, PhaseRefused(s) \/ PhaseEnds(s) \/ PhaseDies(s)
    PROVE  IInv' /\ (OneLogDir /\ LInv => LInv')
<1> USE DEF EarlyPcs, FilingPcs, LatePcs, MeasuringPcs, Dead
<1>0. PICK v \in Verdicts : Verdict(s, v)
  BY DEF PhaseRefused, PhaseEnds, PhaseDies, Verdicts
<1>1. /\ UNCHANGED <<stack, lock, record>> /\ session[s].pc \in {"starting", "measuring"}
      /\ host' \in Host /\ host'.link = host.link /\ host'.server = host.server
  <2>1. UNCHANGED <<stack, lock, record>> /\ host \in Host /\ session[s].pc \in {"starting", "measuring"}
    BY Here DEF PhaseRefused, PhaseEnds, PhaseDies, At
  <2>2. host' \in {host, [host EXCEPT !.lease = Nobody]}
    <3>1. [host EXCEPT !.lease = host.lease] = host
      BY <2>1 DEF Host
    <3> QED
      BY <3>1 DEF PhaseRefused, PhaseEnds, PhaseDies
  <2> QED
    BY <2>1, <2>2 DEF Host
<1> DEFINE w == Append(session[s].verdicts, v)
           c == [session[s] EXCEPT !.pc = "recording", !.at = "phase", !.verdicts = w]
<1>2. Become(s, c)
  BY <1>0 DEF Verdict
<1>3. /\ c \in Session /\ c.pc = "recording" /\ OnPhase(s, c)
      /\ c.phases = session[s].phases /\ c.next = session[s].next /\ c.at = "phase"
      /\ c.applied = session[s].applied /\ Len(c.verdicts) = Len(session[s].verdicts) + 1
      /\ c.outcome = session[s].outcome /\ c.started = session[s].started
      /\ c.warned = session[s].warned
      /\ c.launched = session[s].launched /\ c.forgot = session[s].forgot
  <2>1. session[s].verdicts \in Seq(Verdicts)
    BY Here DEF Session
  <2>2. w \in Seq(Verdicts) /\ Len(w) = Len(session[s].verdicts) + 1
    BY <2>1
  <2> HIDE DEF w
  <2>3. "recording" \in Pcs
    BY DEF Pcs
  <2>4. session[s] \in Session
    BY Here
  <2>5. c \in Session
    BY <2>2, <2>3, <2>4 DEF Session
  <2>6. /\ c.pc = "recording" /\ c.phases = session[s].phases /\ c.next = session[s].next
        /\ c.at = "phase" /\ c.applied = session[s].applied /\ c.verdicts = w
        /\ c.outcome = session[s].outcome /\ c.started = session[s].started
        /\ c.warned = session[s].warned
        /\ c.launched = session[s].launched /\ c.forgot = session[s].forgot
    BY <2>4 DEF Session
  <2> QED
    BY <2>2, <2>5, <2>6, Here DEF OnPhase
<1> HIDE DEF c
<1>4. Progress(c, record[s])
  BY <1>1, <1>3, Here DEF Progress, OnPhase
<1>5. LinkKnown(session[s], host.link) => LinkKnown(c, host.link)
  BY <1>1, <1>3 DEF LinkKnown, InPhases, AfterPhases
<1>6. c.pc # "launching" /\ session[s].pc \notin Dead \union {"launching"}
  BY <1>1, <1>3
<1>7. Locked(s) /\ LockHeld'
  BY <1>1, <1>2, <1>3, KeepsLock DEF Locked
<1>8. record \in [Sessions -> Record] /\ lock \in [Dirs -> Sessions \union {Nobody}]
  BY DEF IInv, Typed
<1> QED
  BY <1>1, <1>2, <1>3, <1>4, <1>5, <1>6, <1>7, <1>8, StayStep

\* Where a session goes once the record is written, or is not.
LEMMA AfterFiling ==
    ASSUME IInv, NEW s \in Sessions, session[s].pc \in FilingPcs, NEW filed,
           NEW d, d \in {AfterWrite(session[s]), AfterFailedWrite(session[s])},
           d # AfterFailedWrite(session[s]) /\ session[s].at = "final" =>
              filed = [verdicts |-> session[s].verdicts, torn |-> FALSE, completed |-> TRUE]
    PROVE  /\ d \in Session /\ OnPhase(s, d) /\ Progress(d, filed)
           /\ d.started = session[s].started /\ d.warned = session[s].warned
           /\ d.applied = session[s].applied
           /\ d.launched = session[s].launched /\ d.forgot = session[s].forgot
           /\ d.pc \notin {"start", "launching", "exited", "unlocking"}
           /\ \A l : LinkKnown(session[s], l) => LinkKnown(d, l)
<1> USE DEF EarlyPcs, FilingPcs, LatePcs, MeasuringPcs, Dead
<1> DEFINE c == session[s]
<1>1. /\ c \in Session /\ OnPhase(s, c) /\ c.outcome = "pending"
      /\ Len(c.verdicts) = IF c.at = "phase" THEN c.next ELSE Len(c.phases)
  BY Here DEF Progress
<1>2. /\ c.next \in Nat /\ Len(c.phases) \in Nat /\ c.next \in 1..Len(c.phases)
      /\ c.at \in {"phase", "summaries", "final"} /\ Len(c.verdicts) \in Nat
  BY <1>1 DEF Session, OnPhase
<1>3. {"applying", "recording", "stopping", "restoring", "summarizing"} \subseteq Pcs
  BY DEF Pcs
<1>4. CASE c.at = "phase" /\ c.next < Len(c.phases)
  <2>1. d = [c EXCEPT !.pc = "applying", !.next = c.next + 1]
    BY <1>4 DEF AfterWrite, AfterFailedWrite
  <2>2. /\ d \in Session /\ d.pc = "applying" /\ d.next = c.next + 1 /\ d.phases = c.phases
        /\ d.started = c.started /\ d.launched = c.launched /\ d.forgot = c.forgot /\ d.warned = c.warned /\ d.verdicts = c.verdicts
        /\ d.applied = c.applied /\ d.outcome = c.outcome
    <3> DEFINE n == c.next + 1
    <3>1. n \in Nat /\ d = [c EXCEPT !.pc = "applying", !.next = n]
      BY <1>2, <2>1
    <3> HIDE DEF n
    <3>2. d \in Session
      BY <1>1, <1>3, <3>1 DEF Session
    <3>3. /\ d.pc = "applying" /\ d.next = n /\ d.phases = c.phases
          /\ d.started = c.started /\ d.launched = c.launched /\ d.forgot = c.forgot /\ d.warned = c.warned /\ d.verdicts = c.verdicts
          /\ d.applied = c.applied /\ d.outcome = c.outcome
      BY <1>1, <3>1 DEF Session
    <3> QED
      BY <3>2, <3>3 DEF n
  <2>3. OnPhase(s, d)
    BY <1>1, <1>2, <1>4, <2>2 DEF OnPhase
  <2>4. Progress(d, filed)
    BY <1>1, <1>2, <1>4, <2>2 DEF Progress
  <2>5. \A l : LinkKnown(c, l) => LinkKnown(d, l)
    BY <1>4, <2>2 DEF LinkKnown, InPhases, AfterPhases
  <2> QED
    BY <2>2, <2>3, <2>4, <2>5
<1>5. CASE c.at = "phase" /\ c.next = Len(c.phases)
  <2>0. d = [c EXCEPT !.pc = Leaves(c)]
    BY <1>2, <1>5 DEF AfterWrite, AfterFailedWrite
  <2>1. Leaves(c) = IF c.applied # NoLink /\ Restore # NoLink THEN "restoring" ELSE "summarizing"
    BY <1>1 DEF Leaves
  <2>2. /\ d \in Session /\ d.pc = Leaves(c) /\ d.next = c.next /\ d.phases = c.phases
        /\ d.started = c.started /\ d.launched = c.launched /\ d.forgot = c.forgot /\ d.warned = c.warned /\ d.verdicts = c.verdicts
        /\ d.applied = c.applied /\ d.outcome = c.outcome
    BY <1>1, <1>3, <2>0, <2>1 DEF Session
  <2>3. OnPhase(s, d)
    BY <1>1, <2>2 DEF OnPhase
  <2>4. Progress(d, filed)
    BY <1>1, <1>5, <2>1, <2>2 DEF Progress
  <2>5. \A l : LinkKnown(c, l) => LinkKnown(d, l)
    BY <2>1, <2>2 DEF LinkKnown, InPhases, AfterPhases
  <2> QED
    BY <2>1, <2>2, <2>3, <2>4, <2>5
<1>6. CASE c.at = "summaries"
  <2>1. d = [c EXCEPT !.pc = "recording", !.at = "final"]
    BY <1>6 DEF AfterWrite, AfterFailedWrite
  <2>2. /\ d \in Session /\ d.pc = "recording" /\ d.next = c.next /\ d.phases = c.phases
        /\ d.started = c.started /\ d.launched = c.launched /\ d.forgot = c.forgot /\ d.warned = c.warned /\ d.verdicts = c.verdicts
        /\ d.applied = c.applied /\ d.outcome = c.outcome /\ d.at = "final"
    BY <1>1, <1>3, <2>1 DEF Session
  <2>3. OnPhase(s, d) /\ Progress(d, filed)
    BY <1>1, <1>6, <2>2 DEF OnPhase, Progress
  <2>4. \A l : LinkKnown(c, l) => LinkKnown(d, l)
    BY <1>6, <2>2 DEF LinkKnown, InPhases, AfterPhases
  <2> QED
    BY <2>2, <2>3, <2>4
<1>7. CASE c.at = "final"
  <2>0. AfterWrite(c) = [c EXCEPT !.pc = "stopping",
                                  !.outcome = IF HarnessFailed(c) THEN "error" ELSE "ok"]
    BY <1>7 DEF AfterWrite
  <2>1. PICK outcome \in {"error", "ok"} :
           /\ d = [c EXCEPT !.pc = "stopping", !.outcome = outcome]
           /\ outcome = "ok" => ~HarnessFailed(c) /\ d # AfterFailedWrite(c)
    <3>1. AfterFailedWrite(c) = [c EXCEPT !.pc = "stopping", !.outcome = "error"]
      BY <1>7 DEF AfterFailedWrite
    <3>2. [c EXCEPT !.pc = "stopping", !.outcome = "ok"] # AfterFailedWrite(c)
      <4>1. [c EXCEPT !.pc = "stopping", !.outcome = "ok"].outcome = "ok"
        BY <1>1 DEF Session
      <4>2. AfterFailedWrite(c).outcome = "error"
        BY <1>1, <3>1 DEF Session
      <4> QED
        BY <4>1, <4>2
    <3> QED
      BY <2>0, <3>1, <3>2
  <2>2. /\ d \in Session /\ d.pc = "stopping" /\ d.next = c.next /\ d.phases = c.phases
        /\ d.started = c.started /\ d.launched = c.launched /\ d.forgot = c.forgot /\ d.warned = c.warned /\ d.verdicts = c.verdicts
        /\ d.applied = c.applied /\ d.outcome = outcome
    BY <1>1, <1>3, <2>1 DEF Session
  <2>3. OnPhase(s, d)
    BY <1>1, <2>2 DEF OnPhase
  <2>4. Progress(d, filed)
    BY <1>1, <1>7, <2>1, <2>2 DEF Progress, Truthful, HarnessFailed
  <2>5. \A l : LinkKnown(c, l) => LinkKnown(d, l)
    BY <1>7, <2>2 DEF LinkKnown, InPhases, AfterPhases
  <2> QED
    BY <2>2, <2>3, <2>4, <2>5
<1> QED
  BY <1>2, <1>4, <1>5, <1>6, <1>7

\* The record.
LEMMA RecordingIInv ==
    ASSUME IInv, NEW s \in Sessions, Recording(s)
    PROVE  IInv' /\ (OneLogDir /\ LInv => LInv')
<1>0. /\ record \in [Sessions -> Record] /\ lock \in [Dirs -> Sessions \union {Nobody}]
      /\ host \in Host /\ session[s] \in Session
  BY Here DEF IInv, Typed
<1>1. CASE TruncateRecord(s)
  <2> USE DEF EarlyPcs, FilingPcs, LatePcs, MeasuringPcs, Dead
  <2> DEFINE c == [session[s] EXCEPT !.pc = "writing"]
  <2>1. /\ session[s].pc = "recording" /\ Goto(s, "writing") /\ UNCHANGED <<stack, host, lock>>
        /\ record' = [record EXCEPT ![s].torn = TRUE]
    BY <1>1 DEF TruncateRecord, At
  <2>2. "writing" \in Pcs
    BY DEF Pcs
  <2>3. /\ c \in Session /\ c.pc = "writing" /\ c.phases = session[s].phases
        /\ c.next = session[s].next /\ c.applied = session[s].applied
        /\ c.verdicts = session[s].verdicts /\ c.at = session[s].at
        /\ c.outcome = session[s].outcome /\ c.warned = session[s].warned
    BY <2>2, MovedFields
  <2>4. c = [session[s] EXCEPT !.pc = "writing"]
    OBVIOUS
  <2> HIDE DEF c
  <2>5. Progress(c, record'[s])
    BY <2>1, <2>3, Here DEF Progress
  <2>6. LinkKnown(session[s], host.link) => LinkKnown(c, host.link)
    BY <2>1, <2>3 DEF LinkKnown, InPhases, AfterPhases
  <2>7. record' \in [Sessions -> Record] /\ \A t \in Sessions \ {s} : record'[t] = record[t]
    BY <1>0, <2>1 DEF Record
  <2>8. Locked(s)
    BY <2>1 DEF Locked
  <2> QED
    BY <1>0, <2>1, <2>2, <2>4, <2>5, <2>6, <2>7, <2>8, MoveStep
<1>2. CASE WriteRecord(s) \/ WriteRecordFails(s)
  <2>1. /\ session[s].pc \in FilingPcs /\ UNCHANGED <<stack, host, lock>> /\ Locked(s)
    BY <1>2 DEF WriteRecord, WriteRecordFails, At, FilingPcs, Locked, Dead
  <2>2. PICK d \in {AfterWrite(session[s]), AfterFailedWrite(session[s])} :
           /\ Become(s, d)
           /\ \/ record' = record /\ d = AfterFailedWrite(session[s])
              \/ record' = [record EXCEPT ![s] =
                    [verdicts |-> session[s].verdicts, torn |-> FALSE,
                     completed |-> session[s].at = "final"]]
    BY <1>2 DEF WriteRecord, WriteRecordFails
  <2>3. /\ record' \in [Sessions -> Record]
        /\ \A t \in Sessions \ {s} : record'[t] = record[t]
    <3> DEFINE filed == [verdicts |-> session[s].verdicts, torn |-> FALSE,
                         completed |-> session[s].at = "final"]
    <3>1. filed \in Record
      BY <1>0 DEF Record, Session
    <3>2. record' = record \/ record' = [record EXCEPT ![s] = filed]
      BY <2>2
    <3> HIDE DEF filed
    <3> QED
      BY <1>0, <3>1, <3>2
  <2>4. /\ d \in Session /\ OnPhase(s, d) /\ Progress(d, record'[s])
        /\ d.started = session[s].started /\ d.warned = session[s].warned
        /\ d.applied = session[s].applied
        /\ d.launched = session[s].launched /\ d.forgot = session[s].forgot
        /\ d.pc \notin {"start", "launching", "exited", "unlocking"}
        /\ \A l : LinkKnown(session[s], l) => LinkKnown(d, l)
    <3>1. d # AfterFailedWrite(session[s]) /\ session[s].at = "final" =>
             record'[s] = [verdicts |-> session[s].verdicts, torn |-> FALSE, completed |-> TRUE]
      BY <1>0, <2>2
    <3> QED
      BY <2>1, <2>2, <3>1, AfterFiling
  <2>5. LockHeld'
    BY <2>1, <2>2, <2>4, KeepsLock
  <2>6. session[s].pc \notin Dead \union {"launching"}
    BY <2>1 DEF FilingPcs, Dead
  <2> QED
    BY <1>0, <2>1, <2>2, <2>3, <2>4, <2>5, <2>6, StayStep
<1> QED
  BY <1>1, <1>2 DEF Recording

\* The deferred restore: if it succeeds the resting link is in force, and if it
\* does not the session has warned.
LEMMA RestoreIInv ==
    ASSUME IInv, NEW s \in Sessions, RestoreLink(s)
    PROVE  IInv' /\ (OneLogDir /\ LInv => LInv')
<1> USE DEF EarlyPcs, FilingPcs, LatePcs, MeasuringPcs, Dead
<1> DEFINE old == session[s]
<1>0. old \in Session /\ record \in [Sessions -> Record] /\ lock \in [Dirs -> Sessions \union {Nobody}]
  BY Here DEF IInv, Typed
<1>1. PICK r \in apply(s, Restore) :
         /\ host' = r.host
         /\ Become(s, [old EXCEPT
               !.warned = IF r.ok THEN @ ELSE @ \union {"restore"},
               !.forgot = @ \union r.forgot,
               !.pc = IF old.outcome = "error" THEN "stopping" ELSE "summarizing"])
  BY DEF RestoreLink
<1>2. old.pc = "restoring" /\ UNCHANGED <<stack, lock, record>>
  BY DEF RestoreLink, At
<1>3. Restore \in Links \union {NoLink}
  BY DEF Links
<1>4. /\ host' \in Host /\ r.ok \in BOOLEAN
      /\ r.ok /\ stack # "external" => host'.link = Restore
      /\ r.forgot \in SUBSET Processes /\ (stack # "raw" => r.forgot = {})
  BY <1>1, <1>3, ApplyResult
<1> DEFINE w == IF r.ok THEN old.warned ELSE old.warned \union {"restore"}
           g == old.forgot \union r.forgot
           pc == IF old.outcome = "error" THEN "stopping" ELSE "summarizing"
           c == [old EXCEPT !.warned = w, !.forgot = g, !.pc = pc]
<1>5. Become(s, c)
  BY <1>1
<1>6. /\ w \in SUBSET {"restore", "stop"} /\ old.warned \subseteq w
      /\ "restore" \notin w => r.ok
      /\ pc \in Pcs /\ pc = IF old.outcome = "error" THEN "stopping" ELSE "summarizing"
      /\ g \in SUBSET Processes /\ (stack # "raw" => g = old.forgot)
  BY <1>0, <1>4 DEF Session, Pcs
<1> HIDE DEF w, g, pc
<1>7. /\ c \in Session /\ c.pc = pc /\ OnPhase(s, c)
      /\ c.applied = old.applied /\ c.started = old.started /\ c.outcome = old.outcome
      /\ c.warned = w /\ c.verdicts = old.verdicts /\ c.phases = old.phases
      /\ c.launched = old.launched /\ c.forgot = g
  BY <1>0, <1>6, Here DEF Session, OnPhase
<1> HIDE DEF c
<1>8. LockHeld'
  BY <1>2, <1>5, <1>7, KeepsLock DEF Locked
<1>9. Progress(c, record[s])
  BY <1>0, <1>2, <1>6, <1>7, Here DEF Progress, Session
<1>10. stack # "external" => LinkKnown(c, host'.link)
  BY <1>4, <1>6, <1>7 DEF LinkKnown, InPhases, AfterPhases
<1>11. StartedFirst(old) /\ (stack = "raw" => old.started)
  BY <1>2, Here DEF Progress, StartedFirst
<1>12. StartedFirst(c)
  BY <1>6, <1>7, <1>11 DEF StartedFirst
<1>13. \A p \in Processes :
          Running(p)' => Owns(c, p) \/ (Running(p) /\ ~Owns(session[s], p))
  <2>1. \A p \in Processes : Running(p)' => old.started
    BY <1>2, <1>11 DEF Running
  <2>2. c.pc \notin {"start", "unlocking", "exited"}
    BY <1>6, <1>7
  <2> QED
    BY <1>7, <2>1, <2>2 DEF Owns
<1>14. Locked(s)
  BY <1>2 DEF Locked
<1> QED
  BY <1>0, <1>2, <1>4, <1>5, <1>7, <1>8, <1>9, <1>10, <1>12, <1>13, <1>14, Step

\* Summaries and the stop of the stack.
LEMMA LeavingIInv ==
    ASSUME IInv, NEW s \in Sessions, Summarize(s) \/ Stop(s)
    PROVE  IInv' /\ (OneLogDir /\ LInv => LInv')
<1> USE DEF EarlyPcs, FilingPcs, LatePcs, MeasuringPcs, Dead
<1> DEFINE old == session[s]
<1>0. /\ old \in Session /\ record \in [Sessions -> Record]
      /\ lock \in [Dirs -> Sessions \union {Nobody}] /\ host \in Host
  BY Here DEF IInv, Typed
<1>1. CASE Summarize(s)
  <2> DEFINE at == IF old.skipSummaries THEN "final" ELSE "summaries"
             c == [old EXCEPT !.pc = "recording", !.at = at]
  <2>1. old.pc = "summarizing" /\ Become(s, c) /\ UNCHANGED <<stack, host, lock, record>>
    BY <1>1 DEF Summarize, At
  <2>2. at \in {"summaries", "final"} /\ "recording" \in Pcs
    BY DEF Pcs
  <2> HIDE DEF at
  <2>3. /\ c \in Session /\ c.pc = "recording" /\ OnPhase(s, c) /\ c.at = at
        /\ c.applied = old.applied /\ c.started = old.started /\ c.outcome = old.outcome
        /\ c.warned = old.warned /\ c.verdicts = old.verdicts /\ c.phases = old.phases
        /\ c.launched = old.launched /\ c.forgot = old.forgot
    BY <1>0, <2>2, Here DEF Session, OnPhase
  <2> HIDE DEF c
  <2>4. LockHeld' /\ Locked(s)
    BY <2>1, <2>3, KeepsLock DEF Locked
  <2>5. Progress(c, record[s])
    BY <2>1, <2>2, <2>3, Here DEF Progress
  <2>6. LinkKnown(old, host.link) => LinkKnown(c, host.link)
    BY <2>1, <2>2, <2>3 DEF LinkKnown, InPhases, AfterPhases
  <2> QED
    BY <1>0, <2>1, <2>3, <2>4, <2>5, <2>6, StayStep
<1>2. CASE Stop(s)
  <2>1. old.pc = "stopping" /\ UNCHANGED <<stack, lock, record>>
    BY <1>2 DEF Stop, At
  <2>2. PICK w \in {old.warned, old.warned \union {"stop"}}, left \in SUBSET Processes :
           /\ Become(s, [old EXCEPT !.pc = "unlocking", !.warned = w])
           /\ IF old.started
              THEN /\ host' = [(IF "shaper" \in left \union old.forgot THEN host ELSE Down)
                                   EXCEPT !.server = "server" \in left]
                   /\ left # {} => "stop" \in w
              ELSE host' = host
    <3>1. CASE ~old.started /\ UNCHANGED host /\ Goto(s, "unlocking")
      <4>1. [old EXCEPT !.pc = "unlocking", !.warned = old.warned] = [old EXCEPT !.pc = "unlocking"]
        BY <1>0 DEF Session
      <4> QED
        BY <3>1, <4>1 DEF Goto
    <3>2. CASE old.started
      <4>1. PICK left \in SUBSET Processes :
               /\ host' = [(IF "shaper" \in left \union old.forgot THEN host ELSE Down)
                               EXCEPT !.server = "server" \in left]
               /\ Become(s, [old EXCEPT !.pc = "unlocking",
                                        !.warned = IF left = {} THEN @ ELSE @ \union {"stop"}])
        BY <1>2, <3>2 DEF Stop, Processes
      <4> DEFINE w == IF left = {} THEN old.warned ELSE old.warned \union {"stop"}
      <4>2. Become(s, [old EXCEPT !.pc = "unlocking", !.warned = w])
        BY <4>1
      <4>3. w \in {old.warned, old.warned \union {"stop"}} /\ (left # {} => "stop" \in w)
        OBVIOUS
      <4> HIDE DEF w
      <4> QED
        BY <3>2, <4>1, <4>2, <4>3
    <3> QED
      BY <1>2, <3>1, <3>2 DEF Stop
  <2> DEFINE c == [old EXCEPT !.pc = "unlocking", !.warned = w]
  <2>3. w \in SUBSET {"restore", "stop"} /\ "unlocking" \in Pcs /\ old.warned \subseteq w
    BY <1>0 DEF Session, Pcs
  <2>4. /\ c \in Session /\ c.pc = "unlocking" /\ OnPhase(s, c)
        /\ c.applied = old.applied /\ c.started = old.started /\ c.outcome = old.outcome
        /\ c.warned = w /\ c.verdicts = old.verdicts /\ c.phases = old.phases
        /\ c.dryRun = old.dryRun /\ c.launched = old.launched /\ c.forgot = old.forgot
    BY <1>0, <2>3, Here DEF Session, OnPhase
  <2>5. Become(s, c)
    BY <2>2
  <2> HIDE DEF c
  <2>6. LockHeld' /\ Locked(s)
    BY <2>1, <2>4, <2>5, KeepsLock DEF Locked
  <2>7. Progress(c, record[s])
    BY <2>1, <2>4, Here DEF Progress, Truthful, HarnessFailed
  <2>8. LinkKnown(c, host'.link)
    BY <2>4 DEF LinkKnown, InPhases, AfterPhases
  <2>9. PICK h \in Host : /\ h = Down \/ (h = host /\ "shaper" \in left \union old.forgot)
                          /\ old.started => host' = [h EXCEPT !.server = "server" \in left]
    <3>1. Down \in Host
      BY DEF Down, Host
    <3> QED
      BY <1>0, <2>2, <3>1
  <2>10. /\ h \in Host
         /\ host' \in Host
         /\ old.started => host'.link = h.link /\ host'.server = ("server" \in left)
    <3>1. h \in Host
      BY <1>0, <2>9 DEF Down, Host
    <3> HIDE DEF old
    <3>2. CASE old.started
      <4>1. host' = [h EXCEPT !.server = "server" \in left]
        BY <2>9, <3>2
      <4> QED
        BY <3>1, <4>1, ServerSet, Zenon
    <3>3. CASE ~old.started
      BY <1>0, <2>2, <3>3
    <3> QED
      BY <3>1, <3>2, <3>3
  <2>11. StartedFirst(c)
    BY <2>4, Here DEF StartedFirst
  <2>12. \A p \in Processes :
            Running(p)' => Owns(c, p) \/ (Running(p) /\ ~Owns(session[s], p))
    <3>1. CASE ~old.started
      BY <2>1, <2>2, <2>4, <3>1 DEF Owns, Running
    <3>2. ASSUME old.started, NEW p \in Processes, Running(p)'
          PROVE  Owns(c, p)
      <4>1. p \in left \union old.forgot
        <5>1. host'.link = h.link /\ host'.server = ("server" \in left)
          BY <2>10, <3>2
        <5>2. CASE p = "server"
          BY <3>2, <5>1, <5>2, Zenon DEF Running
        <5>3. CASE p = "shaper"
          <6>1. host'.link # NoLink
            BY <3>2, <5>3 DEF Running
          <6>2. h # Down
            BY <5>1, <6>1 DEF Down
          <6> QED
            BY <2>9, <5>3, <6>2
        <5> QED
          BY <3>2, <5>2, <5>3 DEF Processes
      <4>2. CASE p \in old.forgot
        BY <2>4, <4>2 DEF Owns
      <4>3. CASE p \in left
        BY <2>2, <2>4, <3>2, <4>3 DEF Owns
      <4> QED
        BY <4>1, <4>2, <4>3
    <3> QED
      BY <1>0, <3>1, <3>2 DEF Session
  <2> QED
    BY <1>0, <2>1, <2>4, <2>5, <2>6, <2>7, <2>8, <2>10, <2>11, <2>12, Step
<1> QED
  BY <1>1, <1>2

\* The lock file is removed by its owner: no other session relied on it.
LEMMA UnlockIInv ==
    ASSUME IInv, NEW s \in Sessions, Unlock(s)
    PROVE  IInv' /\ (OneLogDir /\ LInv => LInv')
<1> USE DEF EarlyPcs, FilingPcs, LatePcs, MeasuringPcs, Dead
<1> DEFINE c == [session[s] EXCEPT !.pc = "exited"]
<1>0. /\ record \in [Sessions -> Record] /\ lock \in [Dirs -> Sessions \union {Nobody}]
      /\ host \in Host /\ LogDir[s] \in Dirs
  BY Here DEF IInv, Typed
<1>1. /\ session[s].pc = "unlocking" /\ lock' = [lock EXCEPT ![LogDir[s]] = Nobody]
      /\ Become(s, c) /\ UNCHANGED <<stack, host, record>>
  BY DEF Unlock, At, Goto
<1>2. "exited" \in Pcs
  BY DEF Pcs
<1>3. /\ c \in Session /\ c.pc = "exited" /\ OnPhase(s, c)
      /\ c.phases = session[s].phases /\ c.applied = session[s].applied
      /\ c.started = session[s].started /\ c.verdicts = session[s].verdicts
      /\ c.outcome = session[s].outcome /\ c.dryRun = session[s].dryRun
      /\ c.warned = session[s].warned
      /\ c.launched = session[s].launched /\ c.forgot = session[s].forgot
  BY <1>2, MovedFields
<1> HIDE DEF c
<1>4. LockHeld'
  <2>1. session'[s] = c /\ \A t \in Sessions \ {s} : session'[t] = session[t]
    BY <1>1 DEF Become, IInv, Typed
  <2>2. lock[LogDir[s]] = s
    BY <1>1 DEF IInv, LockHeld, Locked
  <2> SUFFICES ASSUME NEW t \in Sessions, Locked(t)'
               PROVE  lock'[LogDir[t]] = t
    BY DEF LockHeld
  <2>3. t # s
    BY <1>3, <2>1 DEF Locked
  <2>4. lock[LogDir[t]] = t /\ LogDir[t] \in Dirs
    BY <2>1, <2>3, ChainAssumption DEF Locked, LockHeld, IInv
  <2> QED
    BY <1>0, <1>1, <2>2, <2>3, <2>4
<1>5. lock' \in [Dirs -> Sessions \union {Nobody}]
  BY <1>0, <1>1
<1>6. Progress(c, record[s])
  BY <1>1, <1>3, Here DEF Progress, Truthful, HarnessFailed
<1>7. LinkKnown(c, host.link)
  BY <1>3 DEF LinkKnown, InPhases, AfterPhases
<1> QED
  BY <1>0, <1>1, <1>3, <1>4, <1>5, <1>6, <1>7, StayStep

\* Kills, and the end of an orphaned phase.
LEMMA KillIInv ==
    ASSUME IInv, NEW s \in Sessions, Kill(s) \/ OrphanEnds(s)
    PROVE  IInv' /\ (OneLogDir /\ LInv => LInv')
<1> USE DEF EarlyPcs, FilingPcs, LatePcs, MeasuringPcs, Dead
<1>0. PICK pc \in Dead : Goto(s, pc)
  BY DEF Kill, OrphanEnds
<1>1. /\ UNCHANGED <<stack, lock, record>> /\ record \in [Sessions -> Record]
      /\ host' \in Host /\ host'.link = host.link /\ host'.server = host.server
  <2>1. UNCHANGED <<stack, lock, record>> /\ host \in Host /\ record \in [Sessions -> Record]
    BY Here DEF Kill, OrphanEnds, IInv, Typed
  <2>2. host' \in {host, [host EXCEPT !.lease = Nobody]}
    <3>1. [host EXCEPT !.lease = host.lease] = host
      BY <2>1 DEF Host
    <3> QED
      BY <3>1 DEF Kill, OrphanEnds
  <2> QED
    BY <2>1, <2>2 DEF Host
<1> DEFINE c == [session[s] EXCEPT !.pc = pc]
<1>2. pc \in Pcs \ {"start", "launching", "unlocking", "exited"}
  BY DEF Pcs
<1>3. c.pc = pc /\ c = [session[s] EXCEPT !.pc = pc]
  BY <1>2, MovedFields
<1> HIDE DEF c
<1>4. Progress(c, record[s]) /\ LinkKnown(c, host.link)
  BY <1>3 DEF Progress, LinkKnown, InPhases, AfterPhases
<1> QED
  BY <1>0, <1>1, <1>2, <1>3, <1>4, MoveStep

\* Clients come and go, and the operator removes a dead session's lock file.
LEMMA OutsideIInv ==
    ASSUME IInv, \/ \E s \in Sessions : ClientConnects(s)
                 \/ ClientDisconnects
                 \/ \E d \in Dirs : RemoveStaleLock(d)
    PROVE  IInv' /\ (LInv => LInv')
<1>0. host \in Host /\ lock \in [Dirs -> Sessions \union {Nobody}]
  BY DEF IInv, Typed
<1>1. /\ UNCHANGED <<stack, session, record>>
      /\ host' \in Host /\ host'.link = host.link /\ host'.server = host.server
  <2>1. UNCHANGED <<stack, session, record>>
    BY DEF ClientConnects, ClientDisconnects, RemoveStaleLock
  <2>2. host' \in {host, [host EXCEPT !.connected = TRUE], [host EXCEPT !.connected = FALSE]}
    BY DEF ClientConnects, ClientDisconnects, RemoveStaleLock
  <2> QED
    BY <1>0, <2>1, <2>2 DEF Host
<1>2. lock' \in [Dirs -> Sessions \union {Nobody}] /\ LockHeld'
  <2>1. CASE lock' = lock
    BY <1>0, <1>1, <2>1 DEF IInv, LockHeld, Locked
  <2>2. ASSUME NEW d \in Dirs, RemoveStaleLock(d)
        PROVE  lock' \in [Dirs -> Sessions \union {Nobody}] /\ LockHeld'
    <3>1. /\ lock' = [lock EXCEPT ![d] = Nobody] /\ session[lock[d]].pc \in Dead
      BY <2>2 DEF RemoveStaleLock
    <3> SUFFICES ASSUME NEW t \in Sessions, Locked(t)
                 PROVE  lock'[LogDir[t]] = t
      BY <1>0, <1>1, <3>1 DEF LockHeld, Locked
    <3>2. lock[LogDir[t]] = t /\ LogDir[t] \in Dirs
      BY ChainAssumption DEF IInv, LockHeld
    <3>3. LogDir[t] # d
      BY <3>1, <3>2 DEF Locked
    <3> QED
      BY <1>0, <3>1, <3>2, <3>3
  <2> QED
    BY <2>1, <2>2 DEF ClientConnects, ClientDisconnects
<1>3. Typed' /\ Owned'
  BY <1>1, <1>2 DEF IInv, Typed, Owned, Running
<1>4. \A s \in Sessions :
         OnPhase(s, session[s])' /\ Progress(session[s], record[s])' /\ StartedFirst(session[s])'
  BY <1>1 DEF IInv, OnPhase, StartedFirst
<1>5. LInv => LInv'
  BY <1>1 DEF LInv
<1> QED
  BY <1>2, <1>3, <1>4, <1>5 DEF IInv

\* The initial states satisfy both invariants.
LEMMA InitIInv == Init => IInv /\ LInv
<1> SUFFICES ASSUME Init PROVE IInv /\ LInv
  OBVIOUS
<1> USE DEF EarlyPcs, FilingPcs, LatePcs, MeasuringPcs, Dead
<1>1. PICK dryRun, skip \in BOOLEAN : session = [s \in Sessions |-> NewSession(s, dryRun, skip)]
  BY DEF Init
<1>2. ASSUME NEW s \in Sessions
      PROVE  /\ session[s] \in Session /\ session[s].pc = "start" /\ session[s].phases = Phases[s]
             /\ session[s].next = 1 /\ session[s].verdicts = <<>> /\ session[s].outcome = "pending"
             /\ session[s].applied = NoLink /\ ~session[s].started /\ session[s].forgot = {}
  <2>1. Phases[s] \in Seq(Links)
    BY ChainAssumption
  <2>2. session[s] = NewSession(s, dryRun, skip)
    BY <1>1
  <2>3. "start" \in Pcs /\ <<>> \in Seq(Verdicts)
    BY DEF Pcs
  <2> QED
    BY <2>1, <2>2, <2>3 DEF NewSession, Session
<1>3. host \in Host /\ (stack = "raw" => host.server = FALSE /\ host.link = NoLink)
  <2>1. Down \in Host /\ Down.server = FALSE /\ Down.link = NoLink
    BY DEF Down, Host
  <2>2. \A k \in Links : [Down EXCEPT !.link = k] \in Host
    BY <2>1 DEF Host
  <2> QED
    BY <2>1, <2>2 DEF Init
<1>4. Typed
  <2>1. record \in [Sessions -> Record]
    <3>1. <<>> \in Seq(Verdicts)
      OBVIOUS
    <3>2. NoRecord \in Record
      BY <3>1 DEF NoRecord, Record
    <3> QED
      BY <3>2 DEF Init
  <2>2. session \in [Sessions -> Session]
    BY <1>1, <1>2
  <2> QED
    BY <1>3, <2>1, <2>2 DEF Init, Typed
<1>5. ASSUME NEW s \in Sessions
      PROVE  /\ OnPhase(s, session[s]) /\ Progress(session[s], record[s]) /\ StartedFirst(session[s])
             /\ LinkKnown(session[s], host.link)
  <2>1. Len(Phases[s]) \in Nat \ {0}
    <3>1. Phases[s] \in Seq(Links) /\ Phases[s] # <<>>
      BY ChainAssumption
    <3> QED
      BY <3>1
  <2>2. OnPhase(s, session[s])
    BY <1>2, <2>1 DEF OnPhase
  <2>3. Progress(session[s], record[s])
    BY <1>2 DEF Progress
  <2>4. LinkKnown(session[s], host.link)
    BY <1>2 DEF LinkKnown, InPhases, AfterPhases
  <2>5. StartedFirst(session[s])
    BY <1>2 DEF StartedFirst
  <2> QED
    BY <2>2, <2>3, <2>4, <2>5
<1>6. LockHeld /\ Owned
  BY <1>2, <1>3 DEF LockHeld, Locked, Owned, Running
<1> QED
  BY <1>4, <1>5, <1>6 DEF IInv, LInv

\* Every step preserves the invariant, and with a shared log directory the second
\* one too.
LEMMA NextIInv == IInv /\ [Next]_vars => IInv' /\ (OneLogDir /\ LInv => LInv')
<1> SUFFICES ASSUME IInv, [Next]_vars PROVE IInv' /\ (OneLogDir /\ LInv => LInv')
  OBVIOUS
<1>1. CASE UNCHANGED vars
  <2>1. UNCHANGED <<stack, host, lock, session, record>>
    BY <1>1 DEF vars
  <2>2. Typed' /\ LockHeld' /\ Owned'
    BY <2>1 DEF IInv, Typed, LockHeld, Locked, Owned, Running
  <2>3. \A s \in Sessions :
           OnPhase(s, session[s])' /\ Progress(session[s], record[s])' /\ StartedFirst(session[s])'
    BY <2>1 DEF IInv, OnPhase, StartedFirst
  <2>4. LInv => LInv'
    BY <2>1 DEF LInv
  <2> QED
    BY <2>2, <2>3, <2>4 DEF IInv
<1>2. ASSUME NEW s \in Sessions, SessionStep(s)
      PROVE  IInv' /\ (OneLogDir /\ LInv => LInv')
  <2>1. CASE Preparing(s)
    BY <2>1, PreparingIInv
  <2>2. CASE Measuring(s)
    BY <2>2, ApplyIInv, StartServerIInv, StartedIInv, TowardsPhaseIInv, VerdictIInv DEF Measuring
  <2>3. CASE Recording(s)
    BY <2>3, RecordingIInv
  <2>4. CASE Leaving(s)
    BY <2>4, RestoreIInv, LeavingIInv, UnlockIInv DEF Leaving
  <2> QED
    BY <1>2, <2>1, <2>2, <2>3, <2>4 DEF SessionStep
<1>3. ASSUME NEW s \in Sessions, Kill(s) \/ OrphanEnds(s)
      PROVE  IInv' /\ (OneLogDir /\ LInv => LInv')
  BY <1>3, KillIInv
<1>4. ASSUME \/ \E s \in Sessions : ClientConnects(s)
             \/ ClientDisconnects
             \/ \E d \in Dirs : RemoveStaleLock(d)
      PROVE  IInv' /\ (OneLogDir /\ LInv => LInv')
  BY <1>4, OutsideIInv
<1> QED
  BY <1>1, <1>2, <1>3, <1>4 DEF Next

\* The inductive invariant holds of every reachable state.
THEOREM Invariance == Spec => []IInv
<1>1. Init => IInv
  BY InitIInv
<1>2. IInv /\ [Next]_vars => IInv'
  BY NextIInv
<1> QED
  BY <1>1, <1>2, PTL DEF Spec

\* Type correctness.
THEOREM TypeCorrect == Spec => []TypeOK
<1>1. IInv => TypeOK
  BY DEF IInv, Typed, TypeOK, Host, OnPhase
<1> QED
  BY <1>1, Invariance, PTL

\* A raw server or shaper that runs always belongs to a session that launched the stack
\* and has not stopped it, said that it could not, or lost the process in a failed start:
\* whatever fails and whoever is killed, with any number of lock files.
THEOREM NothingIsLeftRunning == Spec => []NothingLeftRunning
<1>1. IInv => NothingLeftRunning
  <2> SUFFICES ASSUME IInv, NEW p \in Processes, Running(p)
               PROVE  \E s \in Sessions : Answers(session[s], p)
    BY DEF NothingLeftRunning, Processes
  <2>1. PICK s \in Sessions : Owns(session[s], p)
    BY DEF IInv, Owned
  <2>2. StartedFirst(session[s])
    BY Here
  <2> QED
    BY <2>1, <2>2 DEF Owns, StartedFirst, Answers, Dead
<1> QED
  BY <1>1, Invariance, PTL

\* Exit status 0 of nntpbench chain means that every phase was measured and that
\* the result file on disk says so.
THEOREM ExitIsTruthful == Spec => []ExitTruthful
<1>1. IInv => ExitTruthful
  <2> SUFFICES ASSUME IInv, NEW s \in Sessions, session[s].pc = "exited",
                      session[s].outcome = "ok", ~session[s].dryRun
               PROVE  Truthful(session[s], record[s])
    BY DEF ExitTruthful, Truthful, At
  <2> QED
    BY Here DEF Progress, LatePcs
<1> QED
  BY <1>1, Invariance, PTL

\* With one log directory the second invariant holds of every reachable state.
THEOREM LinkInvariance == ASSUME OneLogDir PROVE Spec => [](IInv /\ LInv)
<1>1. Init => IInv /\ LInv
  BY InitIInv
<1>2. (IInv /\ LInv) /\ [Next]_vars => (IInv /\ LInv)'
  BY NextIInv, OneLogDir
<1> QED
  BY <1>1, <1>2, PTL DEF Spec

\* Sessions that share their log directory measure every phase on its own link:
\* what runChainPhases remembers as applied is in force, although failed
\* transitions, kills and orphaned phases come in between.
THEOREM PhaseOnItsLink == ASSUME OneLogDir PROVE Spec => []LinkInEffect
<1>1. IInv /\ LInv => LinkInEffect
  <2> SUFFICES ASSUME IInv, LInv, NEW s \in Sessions, stack # "external",
                      session[s].pc \in {"starting", "measuring"}
               PROVE  host.link = Key(s)
    BY DEF LinkInEffect
  <2>1. LinkKnown(session[s], host.link) /\ Key(s) # NoLink
    BY KeyIsLink DEF LInv
  <2> QED
    BY <2>1 DEF LinkKnown, InPhases, MeasuringPcs, Key
<1> QED
  BY <1>1, LinkInvariance, PTL

\* And the deferred restore leaves the resting link in force, or a warning.
THEOREM RestoredOnEveryExit == ASSUME OneLogDir PROVE Spec => []RestoredOnExit
<1>1. IInv /\ LInv => RestoredOnExit
  BY DEF LInv, LinkKnown, AfterPhases, RestoredOnExit
<1> QED
  BY <1>1, LinkInvariance, PTL

=============================================================================
