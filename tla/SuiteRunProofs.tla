--------------------------- MODULE SuiteRunProofs ---------------------------
(***************************************************************************)
(* Proofs about SuiteRun for any number of controllers and any plans.      *)
(*                                                                         *)
(* LeakIsFailure only speaks of artifacts on disk, so the inductive        *)
(* invariant has to say what a suite may have left at every point before   *)
(* its artifact is written: as long as nothing has failed, whatever exists *)
(* outside the controller is recorded in the suite and will be given back  *)
(* by a deferred call that is still to run (Accounted); where the deferred *)
(* calls are over nothing is recorded any more (Shape); and suites to come *)
(* have touched nothing (Untouched).  A failure, which may leave anything, *)
(* is remembered in the suite's status.                                    *)
(***************************************************************************)
EXTENDS SuiteRun, TLAPS

Things == {"export", "complete", "incomplete", "shaper lease", "output"}
Names == {"lease", "export", "complete", "incomplete"}

OpeningPcs == {"exporting", "volume", "volume2", "attesting"}
ForwardPcs == OpeningPcs \union
    {"mkdir", "leasing", "preparing", "acquiring", "measuring", "finishing", "verifying"}
ReturnPcs == {"scrubbing", "persisting", "writing", "over", "exited"}
Pcs == ForwardPcs \union ReturnPcs \union {"abandoning", "releasing", "closing", "killed"}

Suite == [pc : Pcs, names : SUBSET Names, open : BOOLEAN, shaperHeld : BOOLEAN,
          status : Good \union {"failed"}]
Process == [suite : Suite, index : Nat, statuses : Seq(Good \union {"failed"}),
            exit : {-1, 0, 1, 2}]

\* The variables' types, in the form the proofs use.
Typed ==
    /\ plan \in [Controllers -> Plan]
    /\ run \in [Controllers -> Process]
    /\ lease \in Suites \union {None}
    /\ leftover \subseteq Suites \X Things
    /\ disk \in [Suites -> Good \union {"absent", "torn", "failed"}]

\* What the suite records, by where the controller is.
Shape(u) ==
    /\ u.pc \in {"mkdir", "leasing"} \union ReturnPcs =>
          u.names = {} /\ ~u.open /\ ~u.shaperHeld
    /\ u.pc \in OpeningPcs \union {"abandoning"} => ~u.open /\ ~u.shaperHeld
    /\ u.pc \in OpeningPcs => {"lease", "export"} \subseteq u.names
    /\ u.pc \in {"preparing", "acquiring", "closing"} => ~u.shaperHeld
    /\ u.pc = "closing" => u.open
    /\ u.pc \in {"preparing", "acquiring", "measuring", "finishing", "verifying", "releasing"} =>
          (u.names # {} => u.open)
    /\ u.open => "lease" \in u.names
    /\ u.status \in Good => u.pc \in {"releasing", "closing", "killed"} \union ReturnPcs

\* The suite s, with record u, has named the lease only if it holds it.
HoldsLease(u, s, l) == u.pc # "killed" /\ "lease" \in u.names => l = s

\* Unless it has failed, a suite has recorded everything it has left outside.
Accounted(u, s, l, left) ==
    u.pc \in ForwardPcs \/ (u.status \in Good /\ u.pc # "killed") =>
        /\ l = s => "lease" \in u.names
        /\ \A t \in Things : <<s, t>> \in left =>
              \/ t \in u.names
              \/ t = "shaper lease" /\ u.shaperHeld
              \/ t = "output" /\ u.pc \in {"finishing", "verifying"}

\* The artifact is written after everything else, and says what the suite did.
Artifact(u, s, d) ==
    /\ u.pc \notin {"over", "exited", "killed"} => d[s] \in {"absent", "torn"}
    /\ u.pc = "over" /\ u.status \in Good => d[s] = u.status

Untouched(s) ==
    /\ disk[s] = "absent"
    /\ lease # s
    /\ \A t \in Things : <<s, t>> \notin leftover

\* The suites before and after the current one.
History(c) ==
    LET r == run[c]
    IN  /\ r.index \in 1..plan[c].suites
        /\ Len(r.statuses) = IF r.suite.pc = "exited" THEN r.index ELSE r.index - 1
        /\ r.suite.pc = "exited" => r.index = plan[c].suites
        /\ \A i \in 1..Len(r.statuses) :
              r.statuses[i] \in Good => disk[<<c, i>>] = r.statuses[i]
        /\ \A j \in 1..plan[c].suites : j > r.index => Untouched(<<c, j>>)
        /\ r.exit # -1 => r.suite.pc = "exited" /\ r.exit = ExitStatus(r.statuses)

\* The current suite.
Current(c) ==
    /\ Shape(run[c].suite)
    /\ HoldsLease(run[c].suite, S(c), lease)
    /\ Accounted(run[c].suite, S(c), lease, leftover)
    /\ Artifact(run[c].suite, S(c), disk)

\* The inductive invariant.
IInv ==
    /\ Typed
    /\ \A c \in Controllers : Current(c) /\ History(c)
    /\ LeakIsFailure

\* What a step of controller c, other than going on to the next suite, may do to
\* the world: it touches the leftovers and the artifact of its own suite, and
\* takes the lease only when free and gives back only its own.
OwnStep(c) ==
    /\ plan' = plan
    /\ run'[c].suite \in Suite
    /\ run' = [run EXCEPT ![c].suite = run'[c].suite]
    /\ leftover' \subseteq Suites \X Things
    /\ \A s \in Suites, t \in Things :
          s # S(c) => (<<s, t>> \in leftover' <=> <<s, t>> \in leftover)
    /\ disk' \in [Suites -> Good \union {"absent", "torn", "failed"}]
    /\ \A s \in Suites : s # S(c) => disk'[s] = disk[s]
    /\ \/ lease' = lease
       \/ lease = None /\ lease' = S(c)
       \/ lease = S(c) /\ lease' = None

\* The suites are the pairs of a controller and a number within its plan.
LEMMA SuitesPairs ==
    ASSUME Typed
    PROVE  /\ \A c \in Controllers : \A i \in 1..plan[c].suites : <<c, i>> \in Suites
           /\ None \notin Suites
           /\ \A s \in Suites : \E c \in Controllers : \E i \in 1..plan[c].suites : s = <<c, i>>
<1>1. \A c \in Controllers : plan[c].suites \in Nat
  BY DEF Typed, Plan
<1>2. \A s \in Suites : \E c \in Controllers : \E i \in 1..plan[c].suites : s = <<c, i>>
  BY DEF Suites
<1>3. \A c \in Controllers : \A i \in 1..plan[c].suites : <<c, i>> \in Suites
  BY DEF Suites
<1>4. \A s \in Suites : s \in Controllers \X Nat
  BY <1>1, <1>2
<1> QED
  BY <1>2, <1>3, <1>4, SuiteAssumption

\* The current suites of two controllers differ, and are suites.
LEMMA CurrentSuite ==
    ASSUME IInv, NEW c \in Controllers
    PROVE  /\ S(c) \in Suites
           /\ S(c) # None
           /\ run[c] \in Process
           /\ \A d \in Controllers \ {c} : \A j : S(c) # <<d, j>>
           /\ \A j : j # run[c].index => S(c) # <<c, j>>
<1>1. run[c].index \in 1..plan[c].suites
  BY DEF IInv, History
<1> QED
  BY <1>1, SuitesPairs DEF IInv, S, Typed

\* A step of one controller leaves what is said of another one true.
LEMMA OthersKeep ==
    ASSUME IInv, NEW c \in Controllers, OwnStep(c), NEW d \in Controllers \ {c}
    PROVE  Current(d)' /\ History(d)'
<1>1. /\ run'[d] = run[d] /\ plan' = plan /\ S(d)' = S(d)
      /\ Suites' = Suites
  BY DEF OwnStep, IInv, Typed, S, Suites
<1>2. S(d) \in Suites /\ S(d) # S(c) /\ S(c) # None /\ S(d) # None
  BY CurrentSuite DEF S
<1>3. Shape(run[d].suite)'
  BY <1>1 DEF IInv, Current, Shape
<1>4. HoldsLease(run[d].suite, S(d), lease)'
  BY <1>1, <1>2 DEF IInv, Current, HoldsLease, OwnStep
<1>5. Accounted(run[d].suite, S(d), lease, leftover)'
  <2>1. lease' = S(d) => lease = S(d)
    BY <1>2 DEF OwnStep
  <2>2. \A t \in Things : <<S(d), t>> \in leftover' <=> <<S(d), t>> \in leftover
    BY <1>2 DEF OwnStep
  <2>3. Accounted(run[d].suite, S(d), lease, leftover)
    BY DEF IInv, Current
  <2> QED
    BY <1>1, <2>1, <2>2, <2>3 DEF Accounted
<1>6. Artifact(run[d].suite, S(d), disk)'
  BY <1>1, <1>2 DEF IInv, Current, Artifact, OwnStep
<1>7. History(d)'
  <2>1. History(d)
    BY DEF IInv
  <2>2. \A i \in 1..plan[d].suites :
           /\ disk'[<<d, i>>] = disk[<<d, i>>]
           /\ Untouched(<<d, i>>) => Untouched(<<d, i>>)'
    <3> SUFFICES ASSUME NEW i \in 1..plan[d].suites
                 PROVE  /\ disk'[<<d, i>>] = disk[<<d, i>>]
                        /\ Untouched(<<d, i>>) => Untouched(<<d, i>>)'
      OBVIOUS
    <3>1. <<d, i>> \in Suites /\ <<d, i>> # S(c) /\ <<d, i>> # None
      BY SuitesPairs, CurrentSuite DEF IInv
    <3> QED
      BY <3>1 DEF Untouched, OwnStep
  <2>3. \A i \in 1..Len(run[d].statuses) : i \in 1..plan[d].suites
    BY <2>1 DEF History, IInv, Typed, Process, Plan
  <2> QED
    BY <1>1, <2>1, <2>2, <2>3 DEF History
<1> QED
  BY <1>3, <1>4, <1>5, <1>6, <1>7 DEF Current

\* And what is said of the suites of c before and after the current one.
LEMMA HistoryKeeps ==
    ASSUME IInv, NEW c \in Controllers, OwnStep(c),
           run[c].suite.pc # "exited", run'[c].suite.pc # "exited"
    PROVE  History(c)'
<1>1. /\ run'[c].index = run[c].index /\ run'[c].statuses = run[c].statuses
      /\ run'[c].exit = run[c].exit /\ plan' = plan
  BY DEF OwnStep, IInv, Typed, Process
<1>2. History(c) /\ run[c] \in Process /\ plan[c].suites \in Nat
  BY DEF IInv, Typed, Plan
<1>3. \A i \in 1..plan[c].suites : i # run[c].index =>
         /\ disk'[<<c, i>>] = disk[<<c, i>>]
         /\ Untouched(<<c, i>>) => Untouched(<<c, i>>)'
  <2> SUFFICES ASSUME NEW i \in 1..plan[c].suites, i # run[c].index
               PROVE  /\ disk'[<<c, i>>] = disk[<<c, i>>]
                      /\ Untouched(<<c, i>>) => Untouched(<<c, i>>)'
    OBVIOUS
  <2>1. <<c, i>> \in Suites /\ <<c, i>> # S(c) /\ <<c, i>> # None
    BY SuitesPairs, CurrentSuite DEF IInv
  <2> QED
    BY <2>1 DEF Untouched, OwnStep
<1>4. \A i \in 1..Len(run[c].statuses) : i \in 1..plan[c].suites /\ i # run[c].index
  BY <1>2 DEF History, Process
<1> QED
  BY <1>1, <1>2, <1>3, <1>4 DEF History, Process

\* So only the current suite of the controller that steps has to be looked at.
LEMMA OwnStepIInv ==
    ASSUME IInv, NEW c \in Controllers, OwnStep(c), Current(c)',
           run[c].suite.pc # "exited", run'[c].suite.pc # "exited",
           disk'[S(c)] \in Good => lease' # S(c) /\ \A t \in Things : <<S(c), t>> \notin leftover'
    PROVE  IInv'
<1>1. Suites' = Suites /\ S(c) \in Suites /\ S(c) # None
  BY CurrentSuite DEF OwnStep, Suites
<1>2. Typed'
  <2>1. run' \in [Controllers -> Process]
    BY DEF OwnStep, IInv, Typed, Process
  <2> QED
    BY <1>1, <2>1 DEF OwnStep, IInv, Typed
<1>3. \A d \in Controllers : Current(d)' /\ History(d)'
  BY OthersKeep, HistoryKeeps
<1>4. LeakIsFailure'
  <2> SUFFICES ASSUME NEW s \in Suites, disk'[s] \in Good
               PROVE  lease' # s /\ \A x \in leftover' : x[1] # s
    BY <1>1 DEF LeakIsFailure
  <2>1. ASSUME s # S(c), NEW x \in leftover', x[1] = s
        PROVE  FALSE
    <3>1. x[2] \in Things /\ x = <<s, x[2]>>
      BY <2>1 DEF OwnStep
    <3>2. x \in leftover
      BY <2>1, <3>1 DEF OwnStep
    <3> QED
      BY <2>1, <3>2 DEF OwnStep, IInv, LeakIsFailure
  <2>2. CASE s # S(c)
    <3>1. lease # s
      BY <2>2 DEF OwnStep, IInv, LeakIsFailure
    <3>2. s # None
      BY SuitesPairs DEF IInv
    <3> QED
      BY <2>1, <2>2, <3>1, <3>2 DEF OwnStep
  <2>3. CASE s = S(c)
    <3>1. \A x \in leftover' : x[2] \in Things /\ x = <<x[1], x[2]>>
      BY DEF OwnStep
    <3> QED
      BY <2>3, <3>1
  <2> QED
    BY <2>2, <2>3
<1> QED
  BY <1>2, <1>3, <1>4 DEF IInv


\* The form the actions are in: the controller's suite becomes u, and the world
\* fits it.
LEMMA SuiteStep ==
    ASSUME IInv, NEW c \in Controllers, NEW u \in Suite, Become(c, u), plan' = plan,
           run[c].suite.pc # "exited", u.pc # "exited",
           leftover' \subseteq Suites \X Things,
           \A s \in Suites, t \in Things :
              s # S(c) => (<<s, t>> \in leftover' <=> <<s, t>> \in leftover),
           disk' \in [Suites -> Good \union {"absent", "torn", "failed"}],
           \A s \in Suites : s # S(c) => disk'[s] = disk[s],
           \/ lease' = lease
           \/ lease = None /\ lease' = S(c)
           \/ lease = S(c) /\ lease' = None,
           Shape(u), HoldsLease(u, S(c), lease'), Accounted(u, S(c), lease', leftover'),
           Artifact(u, S(c), disk'),
           disk'[S(c)] \in Good => lease' # S(c) /\ \A t \in Things : <<S(c), t>> \notin leftover'
    PROVE  IInv'
<1>1. run'[c].suite = u /\ run'[c].index = run[c].index
  BY DEF Become, IInv, Typed, Process
<1>2. OwnStep(c)
  BY <1>1 DEF OwnStep, Become
<1>3. Current(c)'
  BY <1>1 DEF Current, S
<1> QED
  BY <1>1, <1>2, <1>3, OwnStepIInv

\* Going to another place is becoming the same suite there.
LEMMA GotoBecomes ==
    ASSUME IInv, NEW c \in Controllers, NEW pc, Goto(c, pc)
    PROVE  Become(c, [run[c].suite EXCEPT !.pc = pc])
  BY DEF Goto, Become, IInv, Typed, Process, Suite

\* Before the artifact is written, only what Unwind keeps matters: a suite that
\* has failed, or has accounted for itself, returns through its deferred calls.
LEMMA UnwindFits ==
    ASSUME NEW u \in Suite, NEW s, NEW l, NEW left, NEW d,
           ~u.open => u.names = {},
           u.open => "lease" \in u.names,
           HoldsLease(u, s, l), u.pc # "killed",
           d[s] \in {"absent", "torn"},
           u.status \in Good => 
              /\ l = s => "lease" \in u.names
              /\ \A t \in Things : <<s, t>> \in left =>
                    t \in u.names \/ (t = "shaper lease" /\ u.shaperHeld)
    PROVE  /\ Unwind(u) \in Suite /\ Unwind(u).pc # "exited"
           /\ Shape(Unwind(u)) /\ HoldsLease(Unwind(u), s, l)
           /\ Accounted(Unwind(u), s, l, left) /\ Artifact(Unwind(u), s, d)
<1>1. /\ Unwind(u).names = u.names /\ Unwind(u).open = u.open
      /\ Unwind(u).shaperHeld = u.shaperHeld /\ Unwind(u).status = u.status
      /\ Unwind(u).pc = IF u.shaperHeld THEN "releasing"
                        ELSE IF u.open THEN "closing" ELSE "scrubbing"
      /\ Unwind(u) \in Suite
  BY DEF Unwind, Suite, Pcs, ReturnPcs
<1>2. Shape(Unwind(u)) /\ HoldsLease(Unwind(u), s, l)
  BY <1>1 DEF Shape, HoldsLease, Suite, ForwardPcs, OpeningPcs, ReturnPcs
<1>3. Accounted(Unwind(u), s, l, left)
  BY <1>1 DEF Accounted, ForwardPcs, OpeningPcs, Suite
<1>4. Artifact(Unwind(u), s, d)
  BY <1>1 DEF Artifact
<1> QED
  BY <1>1, <1>2, <1>3, <1>4

\* What the invariant says of the suite a controller is executing.
LEMMA Here ==
    ASSUME IInv, NEW c \in Controllers
    PROVE  /\ run[c].suite \in Suite
           /\ Shape(run[c].suite)
           /\ HoldsLease(run[c].suite, S(c), lease)
           /\ Accounted(run[c].suite, S(c), lease, leftover)
           /\ Artifact(run[c].suite, S(c), disk)
           /\ S(c) \in Suites /\ S(c) # None
           /\ lease \in Suites \union {None}
           /\ leftover \subseteq Suites \X Things
           /\ disk \in [Suites -> Good \union {"absent", "torn", "failed"}]
  BY CurrentSuite DEF IInv, Typed, Current, Process

\* A command that creates a thing of suite s affects nothing else ...
LEMMA CreatesOwn ==
    ASSUME NEW s \in Suites, NEW thing \in Things, leftover \subseteq Suites \X Things,
           NEW ok \in BOOLEAN, Creates(ok, <<s, thing>>)
    PROVE  /\ leftover' \subseteq Suites \X Things
           /\ \A r \in Suites, t \in Things :
                 r # s => (<<r, t>> \in leftover' <=> <<r, t>> \in leftover)
           /\ \A t \in Things : <<s, t>> \in leftover' => t = thing \/ <<s, t>> \in leftover
  BY DEF Creates

\* ... nor does one that removes it, and if it succeeds the thing is gone.
LEMMA RemovesOwn ==
    ASSUME NEW s \in Suites, NEW thing \in Things, leftover \subseteq Suites \X Things,
           NEW ok \in BOOLEAN, Removes(ok, <<s, thing>>)
    PROVE  /\ leftover' \subseteq Suites \X Things
           /\ \A r \in Suites, t \in Things :
                 r # s => (<<r, t>> \in leftover' <=> <<r, t>> \in leftover)
           /\ \A t \in Things : <<s, t>> \in leftover' => <<s, t>> \in leftover
           /\ ok => <<s, thing>> \notin leftover'
  BY DEF Removes

\* Making the directory: nothing has been acquired.
LEMMA MkdirIInv ==
    ASSUME IInv, NEW c \in Controllers, Mkdir(c) \/ MkdirFails(c)
    PROVE  IInv'
<1> DEFINE u(pc) == [run[c].suite EXCEPT !.pc = pc]
<1>1. PICK pc \in {"preparing", "leasing", "over"} : Become(c, u(pc))
  BY GotoBecomes DEF Mkdir, MkdirFails
<1>2. UNCHANGED <<plan, lease, leftover, disk>> /\ run[c].suite.pc = "mkdir"
  BY DEF Mkdir, MkdirFails, At
<1>3. u(pc) \in Suite /\ u(pc).pc = pc
  BY Here DEF Suite, Pcs, ForwardPcs, ReturnPcs
<1>4. Shape(u(pc)) /\ HoldsLease(u(pc), S(c), lease) /\ u(pc).status \notin Good
  BY <1>2, Here DEF Shape, HoldsLease, Suite, ForwardPcs, OpeningPcs, ReturnPcs
<1>5. Accounted(u(pc), S(c), lease, leftover) /\ Artifact(u(pc), S(c), disk)
  BY <1>2, <1>3, <1>4, Here DEF Accounted, Artifact, ForwardPcs, OpeningPcs, Suite, Shape
<1>6. disk[S(c)] \notin Good
  BY <1>2, Here DEF Artifact, Good
<1> QED
  BY <1>1, <1>2, <1>3, <1>4, <1>5, <1>6, Here, SuiteStep

\* A step that fails without touching the world returns through the deferred
\* calls.
LEMMA FailsIInv ==
    ASSUME IInv, NEW c \in Controllers, Fails(c), plan' = plan, disk' = disk,
           run[c].suite.pc \in {"leasing", "preparing", "acquiring", "measuring",
                                "finishing", "verifying"},
           leftover' \subseteq Suites \X Things,
           \A s \in Suites, t \in Things :
              s # S(c) => (<<s, t>> \in leftover' <=> <<s, t>> \in leftover),
           \/ lease' = lease
           \/ lease = None /\ lease' = S(c)
    PROVE  IInv'
<1> DEFINE u == run[c].suite
<1>1. /\ ~u.open => u.names = {}
      /\ u.open => "lease" \in u.names
      /\ u.status \notin Good
    BY Here DEF Shape, Suite, ReturnPcs
<1>2. disk[S(c)] \in {"absent", "torn"} /\ u.pc # "killed" /\ u.pc # "exited"
    BY Here DEF Artifact
<1>3. HoldsLease(u, S(c), lease')
    BY Here DEF HoldsLease
<1>4. /\ Unwind(u) \in Suite /\ Unwind(u).pc # "exited"
      /\ Shape(Unwind(u)) /\ HoldsLease(Unwind(u), S(c), lease')
      /\ Accounted(Unwind(u), S(c), lease', leftover') /\ Artifact(Unwind(u), S(c), disk')
    BY <1>1, <1>2, <1>3, Here, UnwindFits
<1>5. disk'[S(c)] \notin Good
    BY <1>2 DEF Good
<1> QED
    BY <1>2, <1>4, <1>5, Here, SuiteStep DEF Fails

\* Taking the storage lease.
LEMMA LeaseIInv ==
    ASSUME IInv, NEW c \in Controllers, LeaseAcquired(c) \/ LeaseRefused(c)
    PROVE  IInv'
<1>1. CASE LeaseRefused(c)
  BY <1>1, Here, FailsIInv DEF LeaseRefused, LeaseFree, At
<1>2. CASE LeaseAcquired(c)
  <2> DEFINE u == [run[c].suite EXCEPT !.pc = "exporting", !.names = {"lease", "export"}]
  <2>1. /\ Become(c, u) /\ lease = None /\ lease' = S(c) /\ run[c].suite.pc = "leasing"
        /\ UNCHANGED <<plan, leftover, disk>>
    BY <1>2 DEF LeaseAcquired, LeaseFree, At
  <2>2. u \in Suite /\ u.pc = "exporting" /\ u.names = {"lease", "export"}
    BY Here DEF Suite, Pcs, ForwardPcs, OpeningPcs, Names
  <2>3. Shape(u) /\ HoldsLease(u, S(c), lease')
    BY <2>1, Here DEF Shape, HoldsLease, Suite, OpeningPcs, ReturnPcs
  <2>4. Accounted(u, S(c), lease', leftover) /\ Artifact(u, S(c), disk)
    BY <2>1, Here DEF Accounted, Artifact, ForwardPcs, OpeningPcs, Suite, Shape
  <2>5. disk[S(c)] \notin Good
    BY <2>1, Here DEF Artifact, Good
  <2> QED
    BY <2>1, <2>2, <2>3, <2>4, <2>5, Here, SuiteStep
<1> QED
  BY <1>1, <1>2

\* A step of the open names what it creates, whether or not the command fails.
LEMMA NamingStep ==
    ASSUME IInv, NEW c \in Controllers, run[c].suite.pc \in OpeningPcs,
           NEW u \in Suite, Become(c, u), u.pc \in OpeningPcs \union {"abandoning"},
           NEW thing \in {"export", "complete", "incomplete"},
           u.names = run[c].suite.names \union {thing}, u.open = run[c].suite.open,
           u.shaperHeld = run[c].suite.shaperHeld, u.status = run[c].suite.status,
           NEW ok \in BOOLEAN, Creates(ok, <<S(c), thing>>), UNCHANGED <<plan, lease, disk>>
    PROVE  IInv'
<1>0. thing \in Things /\ S(c) \in Suites /\ leftover \subseteq Suites \X Things
  BY Here DEF Things
<1>1. /\ leftover' \subseteq Suites \X Things
      /\ \A r \in Suites, t \in Things :
            r # S(c) => (<<r, t>> \in leftover' <=> <<r, t>> \in leftover)
      /\ \A t \in Things : <<S(c), t>> \in leftover' => t = thing \/ <<S(c), t>> \in leftover
  BY <1>0, CreatesOwn
<1>2. Shape(u) /\ HoldsLease(u, S(c), lease)
  BY Here DEF Shape, HoldsLease, OpeningPcs, ReturnPcs
<1>3. Accounted(u, S(c), lease, leftover')
  BY <1>1, Here DEF Accounted, ForwardPcs, OpeningPcs, Shape, ReturnPcs
<1>4. Artifact(u, S(c), disk) /\ disk[S(c)] \notin Good
  BY Here DEF Artifact, OpeningPcs, Good
<1>5. run[c].suite.pc # "exited" /\ u.pc # "exited"
  BY DEF OpeningPcs
<1> QED
  BY <1>1, <1>2, <1>3, <1>4, <1>5, Here, SuiteStep

\* export-create and the volumes.
LEMMA CreateIInv ==
    ASSUME IInv, NEW c \in Controllers, NEW ok \in BOOLEAN,
           ExportCreate(c, ok) \/ VolumeCreate(c, ok) \/ IncompleteVolumeCreate(c, ok)
    PROVE  IInv'
<1> DEFINE u(pc, thing) == [run[c].suite EXCEPT !.pc = pc, !.names = @ \union {thing}]
<1>0. run[c].suite \in Suite
  BY Here
<1>1. PICK pc \in OpeningPcs \union {"abandoning"}, thing \in {"export", "complete", "incomplete"} :
         Become(c, u(pc, thing)) /\ Creates(ok, <<S(c), thing>>)
  <2>1. CASE ExportCreate(c, ok)
    <3>1. PICK pc \in OpeningPcs \union {"abandoning"} :
             Become(c, [run[c].suite EXCEPT !.pc = pc])
      BY <2>1, GotoBecomes DEF ExportCreate, Abandon, OpeningPcs
    <3>2. run[c].suite.names \union {"export"} = run[c].suite.names
      BY <2>1, Here DEF ExportCreate, At, Shape, OpeningPcs
    <3>3. u(pc, "export") = [run[c].suite EXCEPT !.pc = pc]
      BY <1>0, <3>2 DEF Suite
    <3> QED
      BY <2>1, <3>1, <3>3 DEF ExportCreate
  <2>2. CASE VolumeCreate(c, ok)
    <3>1. \E pc \in OpeningPcs \union {"abandoning"} : Become(c, u(pc, "complete"))
      BY <1>0, <2>2 DEF VolumeCreate, Abandon, OpeningPcs, Suite
    <3> QED
      BY <2>2, <3>1 DEF VolumeCreate
  <2>3. CASE IncompleteVolumeCreate(c, ok)
    <3>1. \E pc \in OpeningPcs \union {"abandoning"} : Become(c, u(pc, "incomplete"))
      BY <1>0, <2>3 DEF IncompleteVolumeCreate, Abandon, OpeningPcs, Suite
    <3> QED
      BY <2>3, <3>1 DEF IncompleteVolumeCreate
  <2> QED
    BY <2>1, <2>2, <2>3
<1>2. run[c].suite.pc \in OpeningPcs /\ UNCHANGED <<plan, lease, disk>>
  BY DEF ExportCreate, VolumeCreate, IncompleteVolumeCreate, At, OpeningPcs
<1>3. /\ u(pc, thing) \in Suite /\ u(pc, thing).pc = pc
      /\ u(pc, thing).names = run[c].suite.names \union {thing}
      /\ u(pc, thing).open = run[c].suite.open
      /\ u(pc, thing).shaperHeld = run[c].suite.shaperHeld
      /\ u(pc, thing).status = run[c].suite.status
  BY <1>0 DEF Suite, Pcs, ForwardPcs, OpeningPcs, Names
<1> HIDE DEF u
<1> QED
  BY <1>1, <1>2, <1>3, NamingStep

\* The opening attestation.
LEMMA AttestIInv ==
    ASSUME IInv, NEW c \in Controllers, NEW ok \in BOOLEAN, Attest(c, ok)
    PROVE  IInv'
<1> DEFINE u == IF ok THEN [run[c].suite EXCEPT !.pc = "preparing", !.open = TRUE]
                ELSE [run[c].suite EXCEPT !.pc = "abandoning"]
<1>1. /\ Become(c, u) /\ run[c].suite.pc = "attesting"
      /\ UNCHANGED <<plan, lease, leftover, disk>>
  BY DEF Attest, Abandon, At
<1>2. /\ u \in Suite /\ u.pc = IF ok THEN "preparing" ELSE "abandoning"
      /\ u.names = run[c].suite.names /\ u.open = IF ok THEN TRUE ELSE run[c].suite.open
      /\ u.shaperHeld = run[c].suite.shaperHeld /\ u.status = run[c].suite.status
  BY Here DEF Suite, Pcs, ForwardPcs
<1> HIDE DEF u
<1>3. Shape(u) /\ HoldsLease(u, S(c), lease)
  BY <1>1, <1>2, Here DEF Shape, HoldsLease, OpeningPcs, ReturnPcs
<1>4. Accounted(u, S(c), lease, leftover)
  BY <1>1, <1>2, <1>3, Here DEF Accounted, ForwardPcs, OpeningPcs, Shape, ReturnPcs
<1>5. Artifact(u, S(c), disk) /\ disk[S(c)] \notin Good
  BY <1>1, <1>2, Here DEF Artifact, Good
<1> QED
  BY <1>1, <1>2, <1>3, <1>4, <1>5, Here, SuiteStep

\* Close, with the status the caller keeps: if nothing stays behind the suite
\* has given back all it had named; otherwise it has failed.
LEMMA CloseIInv ==
    ASSUME IInv, NEW c \in Controllers, run[c].suite.pc \in {"abandoning", "closing"},
           NEW status \in Good \union {"failed"}, NEW bad \in SUBSET run[c].suite.names,
           Close(c, [run[c].suite EXCEPT !.status = status], bad), UNCHANGED <<plan, disk>>,
           status \in Good => bad = {} /\ run[c].suite.status \in Good
    PROVE  IInv'
<1> DEFINE old == run[c].suite
           u == [[old EXCEPT !.status = status] EXCEPT !.pc = "scrubbing", !.names = {}, !.open = FALSE]
<1>1. PICK kept \in SUBSET bad :
         /\ leftover' = {x \in leftover : x[1] # S(c) \/ x[2] \notin (old.names \ kept)}
         /\ lease' = IF "lease" \in (old.names \ kept) /\ lease = S(c) THEN None ELSE lease
  BY DEF Close
<1>2. /\ Become(c, u) /\ u \in Suite /\ u.pc = "scrubbing" /\ u.names = {} /\ u.open = FALSE
      /\ u.shaperHeld = old.shaperHeld /\ u.status = status
  BY Here DEF Close, Suite, Pcs, ReturnPcs
<1> HIDE DEF u
<1>3. Shape(u) /\ HoldsLease(u, S(c), lease')
  BY <1>2, Here DEF Shape, HoldsLease, OpeningPcs, ReturnPcs
<1>4. /\ leftover' \subseteq Suites \X Things
      /\ \A r \in Suites, t \in Things :
            r # S(c) => (<<r, t>> \in leftover' <=> <<r, t>> \in leftover)
      /\ \A t \in Things : <<S(c), t>> \in leftover' =>
            <<S(c), t>> \in leftover /\ t \notin (old.names \ kept)
  BY <1>1, Here
<1>5. Accounted(u, S(c), lease', leftover')
  <2>1. CASE status \notin Good
    BY <2>1, <1>2 DEF Accounted, ForwardPcs, OpeningPcs
  <2>2. CASE status \in Good
    <3>1. kept = {} /\ old.status \in Good /\ old.pc = "closing" /\ ~old.shaperHeld
      BY <1>1, <2>2, Here DEF Shape, ReturnPcs
    <3>2. \A t \in Things : <<S(c), t>> \notin leftover'
      BY <1>4, <3>1, Here DEF Accounted
    <3>3. lease' # S(c)
      BY <1>1, <3>1, Here DEF Accounted
    <3> QED
      BY <3>2, <3>3 DEF Accounted
  <2> QED
    BY <2>1, <2>2
<1>6. Artifact(u, S(c), disk) /\ disk[S(c)] \notin Good
  BY <1>2, Here DEF Artifact, Good
<1>7. \/ lease' = lease
      \/ lease = S(c) /\ lease' = None
  BY <1>1
<1> QED
  BY <1>2, <1>3, <1>4, <1>5, <1>6, <1>7, Here, SuiteStep

\* The two places Close is deferred from.
LEMMA StorageIInv ==
    ASSUME IInv, NEW c \in Controllers, AbandonStorage(c) \/ CloseStorage(c)
    PROVE  IInv'
<1>1. CASE CloseStorage(c)
  <2>1. PICK bad \in SUBSET run[c].suite.names :
           Close(c, [run[c].suite EXCEPT !.status = IF bad = {} THEN @ ELSE "failed"], bad)
    BY <1>1 DEF CloseStorage
  <2> DEFINE status == IF bad = {} THEN run[c].suite.status ELSE "failed"
  <2>2. /\ status \in Good \union {"failed"}
        /\ status \in Good => bad = {} /\ run[c].suite.status \in Good
    BY Here DEF Suite, Good
  <2>3. Close(c, [run[c].suite EXCEPT !.status = status], bad)
    BY <2>1
  <2> HIDE DEF status
  <2> QED
    BY <1>1, <2>2, <2>3, CloseIInv DEF CloseStorage, At
<1>2. CASE AbandonStorage(c)
  <2>1. PICK bad \in SUBSET run[c].suite.names : Close(c, run[c].suite, bad)
    BY <1>2 DEF AbandonStorage
  <2> DEFINE status == run[c].suite.status
  <2>2. status \in Good \union {"failed"} /\ status \notin Good
    BY <1>2, Here DEF Suite, Shape, AbandonStorage, At, ReturnPcs
  <2>3. [run[c].suite EXCEPT !.status = status] = run[c].suite
    BY Here DEF Suite
  <2> HIDE DEF status
  <2> QED
    BY <1>2, <2>1, <2>2, <2>3, CloseIInv DEF AbandonStorage, At
<1> QED
  BY <1>1, <1>2

\* Preparing the inputs.
LEMMA PrepareIInv ==
    ASSUME IInv, NEW c \in Controllers, NEW ok \in BOOLEAN, Prepare(c, ok)
    PROVE  IInv'
<1>1. CASE ~ok
  BY <1>1, Here, FailsIInv DEF Prepare, At
<1>2. CASE ok
  <2> DEFINE u == [run[c].suite EXCEPT !.pc = "acquiring"]
  <2>1. /\ Become(c, u) /\ run[c].suite.pc = "preparing"
        /\ UNCHANGED <<plan, lease, leftover, disk>>
    BY <1>2, GotoBecomes DEF Prepare, At
  <2>2. /\ u \in Suite /\ u.pc = "acquiring" /\ u.names = run[c].suite.names
        /\ u.open = run[c].suite.open /\ u.shaperHeld = run[c].suite.shaperHeld
        /\ u.status = run[c].suite.status
    BY Here DEF Suite, Pcs, ForwardPcs
  <2> HIDE DEF u
  <2>3. Shape(u) /\ HoldsLease(u, S(c), lease)
    BY <2>1, <2>2, Here DEF Shape, HoldsLease, OpeningPcs, ReturnPcs
  <2>4. Accounted(u, S(c), lease, leftover)
    BY <2>1, <2>2, Here DEF Accounted, ForwardPcs
  <2>5. Artifact(u, S(c), disk) /\ disk[S(c)] \notin Good
    BY <2>1, <2>2, Here DEF Artifact, Good
  <2> QED
    BY <2>1, <2>2, <2>3, <2>4, <2>5, Here, SuiteStep
<1> QED
  BY <1>1, <1>2

\* The shaper's lease is recorded as soon as it is held.
LEMMA AcquireIInv ==
    ASSUME IInv, NEW c \in Controllers, NEW ok \in BOOLEAN, AcquireLease(c, ok)
    PROVE  IInv'
<1>1. CASE ~ok
  BY <1>1, Here, FailsIInv DEF AcquireLease, At
<1>2. CASE ok
  <2> DEFINE u == [run[c].suite EXCEPT !.pc = "measuring", !.shaperHeld = TRUE]
  <2>1. /\ Become(c, u) /\ run[c].suite.pc = "acquiring" /\ UNCHANGED <<plan, lease, disk>>
        /\ Creates(TRUE, <<S(c), "shaper lease">>)
    BY <1>2 DEF AcquireLease, At, Creates
  <2>2. /\ u \in Suite /\ u.pc = "measuring" /\ u.names = run[c].suite.names
        /\ u.open = run[c].suite.open /\ u.shaperHeld = TRUE /\ u.status = run[c].suite.status
    BY Here DEF Suite, Pcs, ForwardPcs
  <2> HIDE DEF u
  <2>3. /\ leftover' \subseteq Suites \X Things
        /\ \A r \in Suites, t \in Things :
              r # S(c) => (<<r, t>> \in leftover' <=> <<r, t>> \in leftover)
        /\ \A t \in Things : <<S(c), t>> \in leftover' => t = "shaper lease" \/ <<S(c), t>> \in leftover
    <3>1. "shaper lease" \in Things
      BY DEF Things
    <3> QED
      BY <2>1, <3>1, Here, CreatesOwn
  <2>4. Shape(u) /\ HoldsLease(u, S(c), lease)
    BY <2>1, <2>2, Here DEF Shape, HoldsLease, OpeningPcs, ReturnPcs
  <2>5. Accounted(u, S(c), lease, leftover')
    BY <2>1, <2>2, <2>3, Here DEF Accounted, ForwardPcs
  <2>6. Artifact(u, S(c), disk) /\ disk[S(c)] \notin Good
    BY <2>1, <2>2, Here DEF Artifact, Good
  <2> QED
    BY <2>1, <2>2, <2>3, <2>4, <2>5, <2>6, Here, SuiteStep
<1> QED
  BY <1>1, <1>2

\* The client leaves its output, which the verification will delete.
LEMMA MeasureIInv ==
    ASSUME IInv, NEW c \in Controllers, NEW ok \in BOOLEAN, Measure(c, ok)
    PROVE  IInv'
<1>1. /\ leftover' \subseteq Suites \X Things
      /\ \A r \in Suites, t \in Things :
            r # S(c) => (<<r, t>> \in leftover' <=> <<r, t>> \in leftover)
      /\ \A t \in Things : <<S(c), t>> \in leftover' => t = "output" \/ <<S(c), t>> \in leftover
  <2>1. "output" \in Things /\ Creates(ok, <<S(c), "output">>)
    BY DEF Things, Measure
  <2> QED
    BY <2>1, Here, CreatesOwn
<1>2. CASE ~ok
  BY <1>1, <1>2, FailsIInv DEF Measure, At
<1>3. CASE ok
  <2> DEFINE u(pc) == [run[c].suite EXCEPT !.pc = pc]
  <2>1. PICK pc \in {"verifying", "finishing"} : Become(c, u(pc))
    BY <1>3, GotoBecomes DEF Measure
  <2>2. run[c].suite.pc = "measuring" /\ UNCHANGED <<plan, lease, disk>>
    BY DEF Measure, At
  <2>3. /\ u(pc) \in Suite /\ u(pc).pc = pc /\ u(pc).names = run[c].suite.names
        /\ u(pc).open = run[c].suite.open /\ u(pc).shaperHeld = run[c].suite.shaperHeld
        /\ u(pc).status = run[c].suite.status
    BY Here DEF Suite, Pcs, ForwardPcs
  <2> HIDE DEF u
  <2>4. Shape(u(pc)) /\ HoldsLease(u(pc), S(c), lease)
    BY <2>2, <2>3, Here DEF Shape, HoldsLease, OpeningPcs, ReturnPcs
  <2>5. Accounted(u(pc), S(c), lease, leftover')
    BY <1>1, <2>2, <2>3, Here DEF Accounted, ForwardPcs
  <2>6. Artifact(u(pc), S(c), disk) /\ disk[S(c)] \notin Good
    BY <2>2, <2>3, Here DEF Artifact, Good
  <2> QED
    BY <1>1, <2>1, <2>2, <2>3, <2>4, <2>5, <2>6, Here, SuiteStep
<1> QED
  BY <1>2, <1>3

\* The closing attestation of the storage.
LEMMA FinishIInv ==
    ASSUME IInv, NEW c \in Controllers, NEW ok \in BOOLEAN, FinishStorage(c, ok)
    PROVE  IInv'
<1>1. CASE ~ok
  BY <1>1, Here, FailsIInv DEF FinishStorage, At
<1>2. CASE ok
  <2> DEFINE u == [run[c].suite EXCEPT !.pc = "verifying"]
  <2>1. /\ Become(c, u) /\ run[c].suite.pc = "finishing"
        /\ UNCHANGED <<plan, lease, leftover, disk>>
    BY <1>2, GotoBecomes DEF FinishStorage, At
  <2>2. /\ u \in Suite /\ u.pc = "verifying" /\ u.names = run[c].suite.names
        /\ u.open = run[c].suite.open /\ u.shaperHeld = run[c].suite.shaperHeld
        /\ u.status = run[c].suite.status
    BY Here DEF Suite, Pcs, ForwardPcs
  <2> HIDE DEF u
  <2>3. Shape(u) /\ HoldsLease(u, S(c), lease)
    BY <2>1, <2>2, Here DEF Shape, HoldsLease, OpeningPcs, ReturnPcs
  <2>4. Accounted(u, S(c), lease, leftover)
    BY <2>1, <2>2, Here DEF Accounted, ForwardPcs
  <2>5. Artifact(u, S(c), disk) /\ disk[S(c)] \notin Good
    BY <2>1, <2>2, Here DEF Artifact, Good
  <2> QED
    BY <2>1, <2>2, <2>3, <2>4, <2>5, Here, SuiteStep
<1> QED
  BY <1>1, <1>2

\* Only a suite whose output is gone gets a status other than failed.
LEMMA VerifyIInv ==
    ASSUME IInv, NEW c \in Controllers, NEW ok \in BOOLEAN, VerifyAndDelete(c, ok)
    PROVE  IInv'
<1>1. /\ leftover' \subseteq Suites \X Things
      /\ \A r \in Suites, t \in Things :
            r # S(c) => (<<r, t>> \in leftover' <=> <<r, t>> \in leftover)
      /\ \A t \in Things : <<S(c), t>> \in leftover' => <<S(c), t>> \in leftover
      /\ ok => <<S(c), "output">> \notin leftover'
  <2>1. "output" \in Things /\ Removes(ok, <<S(c), "output">>)
    BY DEF Things, VerifyAndDelete
  <2> QED
    BY <2>1, Here, RemovesOwn
<1>2. CASE ~ok
  BY <1>1, <1>2, FailsIInv DEF VerifyAndDelete, At
<1>3. CASE ok
  <2> DEFINE v(status) == [run[c].suite EXCEPT !.status = status]
  <2>1. PICK status \in Good : Become(c, Unwind(v(status)))
    BY <1>3 DEF VerifyAndDelete, Good
  <2>2. run[c].suite.pc = "verifying" /\ UNCHANGED <<plan, lease, disk>>
    BY DEF VerifyAndDelete, At
  <2>3. /\ v(status) \in Suite /\ v(status).pc = "verifying"
        /\ v(status).names = run[c].suite.names /\ v(status).open = run[c].suite.open
        /\ v(status).shaperHeld = run[c].suite.shaperHeld
    BY <2>2, Here DEF Suite
  <2> HIDE DEF v
  <2>4. /\ ~run[c].suite.open => run[c].suite.names = {}
        /\ run[c].suite.open => "lease" \in run[c].suite.names
    BY <2>2, Here DEF Shape, Suite
  <2>5. /\ lease = S(c) => "lease" \in run[c].suite.names
        /\ \A t \in Things : <<S(c), t>> \in leftover' =>
              t \in run[c].suite.names \/ (t = "shaper lease" /\ run[c].suite.shaperHeld)
    BY <1>1, <1>3, <2>2, Here DEF Accounted, ForwardPcs
  <2>6. disk[S(c)] \in {"absent", "torn"}
    BY <2>2, Here DEF Artifact
  <2>7. HoldsLease(v(status), S(c), lease)
    BY <2>2, <2>3, Here DEF HoldsLease
  <2>8. /\ Unwind(v(status)) \in Suite /\ Unwind(v(status)).pc # "exited"
        /\ Shape(Unwind(v(status))) /\ HoldsLease(Unwind(v(status)), S(c), lease)
        /\ Accounted(Unwind(v(status)), S(c), lease, leftover')
        /\ Artifact(Unwind(v(status)), S(c), disk)
    BY <2>3, <2>4, <2>5, <2>6, <2>7, UnwindFits
  <2>9. disk[S(c)] \notin Good
    BY <2>6 DEF Good
  <2> QED
    BY <1>1, <2>1, <2>2, <2>8, <2>9, Here, SuiteStep
<1> QED
  BY <1>2, <1>3

\* Releasing the shaper's lease, successfully or not.
LEMMA ReleaseIInv ==
    ASSUME IInv, NEW c \in Controllers, NEW ok \in BOOLEAN, ReleaseLease(c, ok)
    PROVE  IInv'
<1> DEFINE old == run[c].suite
           v == [old EXCEPT !.shaperHeld = FALSE, !.status = IF ok THEN @ ELSE "failed"]
<1>1. /\ leftover' \subseteq Suites \X Things
      /\ \A r \in Suites, t \in Things :
            r # S(c) => (<<r, t>> \in leftover' <=> <<r, t>> \in leftover)
      /\ \A t \in Things : <<S(c), t>> \in leftover' => <<S(c), t>> \in leftover
      /\ ok => <<S(c), "shaper lease">> \notin leftover'
  <2>1. "shaper lease" \in Things /\ Removes(ok, <<S(c), "shaper lease">>)
    BY DEF Things, ReleaseLease
  <2> QED
    BY <2>1, Here, RemovesOwn
<1>2. Become(c, Unwind(v)) /\ old.pc = "releasing" /\ UNCHANGED <<plan, lease, disk>>
  BY DEF ReleaseLease, At
<1>3. /\ v \in Suite /\ v.pc = "releasing" /\ v.names = old.names /\ v.open = old.open
      /\ v.shaperHeld = FALSE /\ v.status = IF ok THEN old.status ELSE "failed"
  BY <1>2, Here DEF Suite
<1> HIDE DEF v
<1>4. /\ ~old.open => old.names = {}
      /\ old.open => "lease" \in old.names
  BY <1>2, Here DEF Shape, Suite
<1>5. v.status \in Good =>
         /\ lease = S(c) => "lease" \in old.names
         /\ \A t \in Things : <<S(c), t>> \in leftover' => t \in old.names
  BY <1>1, <1>2, <1>3, Here DEF Accounted, Good
<1>6. disk[S(c)] \in {"absent", "torn"} /\ HoldsLease(v, S(c), lease)
  BY <1>2, <1>3, Here DEF Artifact, HoldsLease
<1>7. /\ Unwind(v) \in Suite /\ Unwind(v).pc # "exited"
      /\ Shape(Unwind(v)) /\ HoldsLease(Unwind(v), S(c), lease)
      /\ Accounted(Unwind(v), S(c), lease, leftover') /\ Artifact(Unwind(v), S(c), disk)
  BY <1>3, <1>4, <1>5, <1>6, UnwindFits
<1>8. disk[S(c)] \notin Good
  BY <1>6 DEF Good
<1> QED
  BY <1>1, <1>2, <1>7, <1>8, Here, SuiteStep

\* A suite that returns has nothing left to give back, so if it has not failed it
\* has left nothing anywhere.
LEMMA NothingOwed ==
    ASSUME IInv, NEW c \in Controllers, run[c].suite.pc \in ReturnPcs,
           run[c].suite.status \in Good
    PROVE  lease # S(c) /\ \A t \in Things : <<S(c), t>> \notin leftover
  BY Here DEF Shape, Accounted, ReturnPcs

\* The scrub and the two steps of writing the artifact.
LEMMA PersistIInv ==
    ASSUME IInv, NEW c \in Controllers,
           \/ \E ok \in BOOLEAN : Scrub(c, ok)
           \/ PersistTruncate(c) \/ Persist(c) \/ PersistFails(c)
    PROVE  IInv'
<1> DEFINE old == run[c].suite
           u(pc, status) == [old EXCEPT !.pc = pc, !.status = status]
<1>0. old \in Suite /\ S(c) \in Suites
  BY Here
<1>1. PICK pc \in {"persisting", "writing", "over"}, status \in {old.status, "failed"} :
         /\ Become(c, u(pc, status))
         /\ \/ pc # "over" /\ disk' \in {disk, [disk EXCEPT ![S(c)] = "torn"]}
            \/ pc = "over" /\ status = "failed"
               /\ disk' \in {disk, [disk EXCEPT ![S(c)] = old.status]}
            \/ pc = "over" /\ disk' = [disk EXCEPT ![S(c)] = old.status]
  <2>1. ASSUME NEW ok \in BOOLEAN, Scrub(c, ok)
        PROVE  Become(c, u("persisting", IF ok THEN old.status ELSE "failed")) /\ disk' = disk
    BY <2>1 DEF Scrub
  <2>2. ASSUME NEW pc, Goto(c, pc)
        PROVE  Become(c, u(pc, old.status))
    <3>1. u(pc, old.status) = [old EXCEPT !.pc = pc]
      BY <1>0 DEF Suite
    <3> QED
      BY <2>2, <3>1, GotoBecomes
  <2>3. CASE \E ok \in BOOLEAN : Scrub(c, ok)
    BY <2>1, <2>3
  <2>4. CASE PersistTruncate(c)
    BY <2>2, <2>4 DEF PersistTruncate
  <2>5. CASE Persist(c)
    BY <2>2, <2>5 DEF Persist
  <2>6. CASE PersistFails(c)
    BY <2>6 DEF PersistFails
  <2> QED
    BY <2>3, <2>4, <2>5, <2>6
<1>2. old.pc \in {"scrubbing", "persisting", "writing"} /\ UNCHANGED <<plan, lease, leftover>>
  BY DEF Scrub, PersistTruncate, Persist, PersistFails, At
<1>3. /\ u(pc, status) \in Suite /\ u(pc, status).pc = pc /\ u(pc, status).status = status
      /\ u(pc, status).names = old.names /\ u(pc, status).open = old.open
      /\ u(pc, status).shaperHeld = old.shaperHeld
  BY <1>0 DEF Suite, Pcs, ReturnPcs
<1> HIDE DEF u
<1>4. Shape(u(pc, status)) /\ HoldsLease(u(pc, status), S(c), lease)
  BY <1>2, <1>3, Here DEF Shape, HoldsLease, OpeningPcs, ReturnPcs, Good
<1>5. status \in Good => status = old.status
  BY DEF Good
<1>6. Accounted(u(pc, status), S(c), lease, leftover)
  BY <1>2, <1>3, <1>5, Here DEF Accounted, ForwardPcs, OpeningPcs
<1>7. /\ disk' \in [Suites -> Good \union {"absent", "torn", "failed"}]
      /\ \A s \in Suites : s # S(c) => disk'[s] = disk[s]
  BY <1>0, <1>1, Here DEF Suite
<1>8. disk[S(c)] \in {"absent", "torn"}
  BY <1>2, Here DEF Artifact
<1>9. Artifact(u(pc, status), S(c), disk')
  <2>1. \/ pc # "over" /\ disk'[S(c)] \in {"absent", "torn"}
        \/ pc = "over" /\ status = "failed"
        \/ pc = "over" /\ disk'[S(c)] = old.status
    BY <1>0, <1>1, <1>8, Here
  <2> QED
    BY <1>1, <1>3, <1>5, <2>1 DEF Artifact, Good
<1>10. disk'[S(c)] \in Good => old.status \in Good
  BY <1>0, <1>1, <1>8, Here DEF Good
<1>11. disk'[S(c)] \in Good => lease # S(c) /\ \A t \in Things : <<S(c), t>> \notin leftover
  BY <1>2, <1>10, NothingOwed DEF ReturnPcs
<1> QED
  BY <1>1, <1>2, <1>3, <1>4, <1>6, <1>7, <1>9, <1>11, Here, SuiteStep

\* A kill leaves the world as it is; an artifact already written stays truthful.
LEMMA KillIInv ==
    ASSUME IInv, NEW c \in Controllers, Kill(c)
    PROVE  IInv'
<1> DEFINE u == [run[c].suite EXCEPT !.pc = "killed"]
<1>1. /\ Become(c, u) /\ run[c].suite.pc # "exited"
      /\ UNCHANGED <<plan, lease, leftover, disk>>
  BY GotoBecomes DEF Kill
<1>2. /\ u \in Suite /\ u.pc = "killed" /\ u.names = run[c].suite.names
      /\ u.open = run[c].suite.open /\ u.status = run[c].suite.status
  BY Here DEF Suite, Pcs
<1> HIDE DEF u
<1>3. Shape(u) /\ HoldsLease(u, S(c), lease)
  BY <1>2, Here DEF Shape, HoldsLease, OpeningPcs, ReturnPcs
<1>4. Accounted(u, S(c), lease, leftover) /\ Artifact(u, S(c), disk)
  BY <1>2 DEF Accounted, Artifact, ForwardPcs, OpeningPcs
<1>5. disk[S(c)] \in Good => lease # S(c) /\ \A t \in Things : <<S(c), t>> \notin leftover
  BY Here DEF IInv, LeakIsFailure
<1> QED
  BY <1>1, <1>2, <1>3, <1>4, <1>5, Here, SuiteStep

\* On to the next suite, which has touched nothing, or to the exit.
LEMMA NextSuiteIInv ==
    ASSUME IInv, NEW c \in Controllers, NextSuite(c)
    PROVE  IInv'
<1> DEFINE r == run[c]
           more == r.index < plan[c].suites
           statuses == Append(r.statuses, r.suite.status)
<1>1. /\ r \in Process /\ r.suite.pc = "over" /\ UNCHANGED <<plan, lease, leftover, disk>>
      /\ plan[c].suites \in Nat /\ r.index \in 1..plan[c].suites
      /\ Len(r.statuses) = r.index - 1
      /\ r.suite \in Suite
  BY DEF NextSuite, At, IInv, Typed, Plan, History, Process
<1>2. /\ statuses \in Seq(Good \union {"failed"})
      /\ Len(statuses) = r.index
      /\ \A i \in 1..r.index : statuses[i] = IF i = r.index THEN r.suite.status ELSE r.statuses[i]
  BY <1>1 DEF Process, Suite
<1>3. \A i \in 1..r.index : statuses[i] \in Good => disk[<<c, i>>] = statuses[i]
  <2>1. \A i \in 1..Len(r.statuses) : r.statuses[i] \in Good => disk[<<c, i>>] = r.statuses[i]
    BY DEF IInv, History
  <2>2. r.suite.status \in Good => disk[<<c, r.index>>] = r.suite.status
    BY <1>1, Here DEF Artifact, S
  <2> QED
    BY <1>1, <1>2, <2>1, <2>2 DEF Process
<1>4. ExitStatus(statuses) \in {-1, 0, 1, 2}
  BY DEF ExitStatus
<1> HIDE DEF statuses
<1>5. NewSuite \in Suite /\ [r.suite EXCEPT !.pc = "exited"] \in Suite
  BY <1>1 DEF NewSuite, Suite, Pcs, ForwardPcs, OpeningPcs, ReturnPcs, Good
<1>6. /\ run' = [run EXCEPT ![c] = run'[c]]
      /\ more => run'[c] = [suite |-> NewSuite, index |-> r.index + 1,
                            statuses |-> statuses, exit |-> r.exit]
      /\ ~more => run'[c] = [suite |-> [r.suite EXCEPT !.pc = "exited"], index |-> r.index,
                             statuses |-> statuses, exit |-> ExitStatus(statuses)]
  <2>1. CASE more
    <3>1. run' = [run EXCEPT ![c] = [r EXCEPT !.suite = NewSuite, !.index = r.index + 1,
                                              !.statuses = statuses]]
      BY <2>1 DEF NextSuite, statuses
    <3> QED
      BY <1>1, <2>1, <3>1 DEF IInv, Typed, Process
  <2>2. CASE ~more
    <3>1. run' = [run EXCEPT ![c] = [r EXCEPT !.suite.pc = "exited", !.statuses = statuses,
                                              !.exit = ExitStatus(statuses)]]
      BY <2>2 DEF NextSuite, statuses
    <3> QED
      BY <1>1, <2>2, <3>1 DEF IInv, Typed, Process
  <2> QED
    BY <2>1, <2>2
<1>7. /\ Suites' = Suites
      /\ \A d \in Controllers \ {c} : run'[d] = run[d] /\ S(d)' = S(d)
      /\ more => /\ run'[c].suite = NewSuite /\ run'[c].index = r.index + 1
                 /\ run'[c].statuses = statuses /\ run'[c].exit = r.exit
      /\ ~more => /\ run'[c].suite = [r.suite EXCEPT !.pc = "exited"]
                  /\ run'[c].index = r.index
                  /\ run'[c].statuses = statuses /\ run'[c].exit = ExitStatus(statuses)
  <2>1. Suites' = Suites
    BY <1>1 DEF Suites
  <2>2. \A d \in Controllers \ {c} : run'[d] = run[d] /\ S(d)' = S(d)
    BY <1>6 DEF IInv, Typed, S
  <2> QED
    BY <1>6, <2>1, <2>2
<1>8. Typed'
  <2>1. run'[c] \in Process
    <3>1. CASE more
      BY <1>1, <1>2, <1>5, <1>6, <3>1 DEF Process
    <3>2. CASE ~more
      <4> DEFINE u == [r.suite EXCEPT !.pc = "exited"]
                 k == r.index
                 e == ExitStatus(statuses)
      <4>1. run'[c] = [suite |-> u, index |-> k, statuses |-> statuses, exit |-> e]
        BY <1>6, <3>2
      <4>2. u \in Suite /\ k \in Nat /\ e \in {-1, 0, 1, 2}
        BY <1>1, <1>4, <1>5
      <4> HIDE DEF u, k, e
      <4> QED
        BY <1>2, <4>1, <4>2 DEF Process
    <3> QED
      BY <3>1, <3>2
  <2>2. run' \in [Controllers -> Process]
    BY <1>6, <2>1 DEF IInv, Typed
  <2> QED
    BY <1>1, <1>7, <2>2 DEF IInv, Typed
<1>9. \A d \in Controllers \ {c} : Current(d)' /\ History(d)'
  BY <1>1, <1>7 DEF IInv, Current, History, Untouched
<1>10. more => /\ Untouched(S(c))' /\ S(c)' \in Suites
               /\ NewSuite.names = {} /\ NewSuite.status = "failed"
  <2> SUFFICES ASSUME more
               PROVE  Untouched(S(c))' /\ S(c)' \in Suites /\ NewSuite.names = {}
                      /\ NewSuite.status = "failed"
    OBVIOUS
  <2>1. S(c)' = <<c, r.index + 1>> /\ r.index + 1 \in 1..plan[c].suites /\ r.index + 1 > r.index
    BY <1>1, <1>7 DEF S
  <2>2. Untouched(<<c, r.index + 1>>)
    BY <2>1 DEF IInv, History
  <2> QED
    BY <1>1, <2>1, <2>2, SuitesPairs DEF Untouched, NewSuite, IInv
<1>11. Current(c)'
  <2>1. CASE more
    <3>1. Shape(NewSuite) /\ HoldsLease(NewSuite, S(c)', lease)
      BY DEF Shape, HoldsLease, NewSuite, OpeningPcs, ReturnPcs, Good
    <3>2. Accounted(NewSuite, S(c)', lease, leftover) /\ Artifact(NewSuite, S(c)', disk)
      BY <1>1, <1>10, <2>1 DEF Accounted, Artifact, Untouched, NewSuite, Good
    <3> QED
      BY <1>1, <1>7, <2>1, <3>1, <3>2 DEF Current
  <2>2. CASE ~more
    <3> DEFINE u == [r.suite EXCEPT !.pc = "exited"]
    <3>1. /\ u.pc = "exited" /\ u.names = r.suite.names /\ u.open = r.suite.open
          /\ u.shaperHeld = r.suite.shaperHeld /\ u.status = r.suite.status
      BY <1>1 DEF Suite
    <3> HIDE DEF u
    <3>2. S(c)' = S(c) /\ run'[c].suite = u
      BY <1>7, <2>2 DEF S, u
    <3>3. Shape(u) /\ HoldsLease(u, S(c), lease)
      BY <1>1, <3>1, Here DEF Shape, HoldsLease, OpeningPcs, ReturnPcs
    <3>4. Accounted(u, S(c), lease, leftover) /\ Artifact(u, S(c), disk)
      BY <1>1, <3>1, Here DEF Accounted, Artifact, ForwardPcs, OpeningPcs
    <3> QED
      BY <1>1, <3>2, <3>3, <3>4 DEF Current
  <2> QED
    BY <2>1, <2>2
<1>12. History(c)'
  <2>0. \A j \in 1..plan[c].suites : j > r.index => Untouched(<<c, j>>)'
    BY <1>1 DEF IInv, History, Untouched
  <2>1. r.exit = -1
    BY <1>1 DEF IInv, History
  <2>2. CASE more
    <3>1. /\ run'[c].suite.pc = "mkdir" /\ run'[c].index = r.index + 1
          /\ run'[c].statuses = statuses /\ run'[c].exit = -1
          /\ r.index + 1 \in 1..plan[c].suites
      BY <1>1, <1>7, <2>1, <2>2 DEF NewSuite
    <3>2. \A j \in 1..plan[c].suites : j > r.index + 1 => j > r.index
      BY <1>1
    <3> DEFINE n == r.index + 1
    <3>3. n - 1 = r.index /\ n \in 1..plan'[c].suites /\ Len(statuses) = n - 1
      BY <1>1, <1>2, <3>1
    <3>4. \A i \in 1..Len(statuses) : statuses[i] \in Good => disk'[<<c, i>>] = statuses[i]
      BY <1>1, <1>2, <1>3
    <3>5. \A j \in 1..plan'[c].suites : j > n => Untouched(<<c, j>>)'
      BY <1>1, <2>0, <3>2
    <3>6. /\ run'[c].suite.pc = "mkdir" /\ run'[c].index = n
          /\ run'[c].statuses = statuses /\ run'[c].exit = -1
      BY <3>1
    <3> HIDE DEF n
    <3> QED
      BY <3>3, <3>4, <3>5, <3>6 DEF History
  <2>3. CASE ~more
    <3>1. run'[c].suite.pc = "exited" /\ r.index = plan[c].suites
      BY <1>1, <1>7, <2>3 DEF Suite
    <3> QED
      BY <1>1, <1>2, <1>3, <1>7, <2>0, <2>3, <3>1 DEF History
  <2> QED
    BY <2>2, <2>3
<1>13. LeakIsFailure'
  BY <1>1, <1>7 DEF IInv, LeakIsFailure
<1> QED
  BY <1>8, <1>9, <1>11, <1>12, <1>13 DEF IInv

\* The initial states satisfy the inductive invariant.
LEMMA InitIInv == Init => IInv
<1> SUFFICES ASSUME Init PROVE IInv
  OBVIOUS
<1>0. NewSuite \in Suite
  BY DEF NewSuite, Suite, Pcs, ForwardPcs, Good
<1>1. Typed
  BY <1>0, SuiteAssumption DEF Init, Typed, Process
<1>2. /\ LeakIsFailure
      /\ \A s \in Suites : Untouched(s)
  BY <1>1, SuitesPairs DEF Init, LeakIsFailure, Untouched, Good
<1>3. ASSUME NEW c \in Controllers PROVE Current(c) /\ History(c)
  <2>1. /\ run[c].suite = NewSuite /\ run[c].index = 1 /\ run[c].statuses = <<>>
        /\ run[c].exit = -1 /\ plan[c].suites \in Nat /\ 1 \in 1..plan[c].suites
    BY <1>1 DEF Init, Typed, Plan
  <2>2. S(c) \in Suites
    BY <1>1, <2>1, SuitesPairs DEF S
  <2>3. Untouched(S(c)) /\ \A j \in 1..plan[c].suites : Untouched(<<c, j>>)
    BY <1>1, <1>2, <2>2, SuitesPairs
  <2>4. Shape(NewSuite) /\ HoldsLease(NewSuite, S(c), lease)
    BY DEF Shape, HoldsLease, NewSuite, OpeningPcs, ReturnPcs, Good
  <2>5. Accounted(NewSuite, S(c), lease, leftover) /\ Artifact(NewSuite, S(c), disk)
    BY <2>3 DEF Accounted, Artifact, Untouched, NewSuite, Good
  <2>6. History(c)
    BY <2>1, <2>3 DEF History, NewSuite
  <2> QED
    BY <2>1, <2>4, <2>5, <2>6 DEF Current
<1> QED
  BY <1>1, <1>2, <1>3 DEF IInv

\* Every step preserves the inductive invariant.
LEMMA NextIInv == IInv /\ [Next]_vars => IInv'
<1> SUFFICES ASSUME IInv, [Next]_vars PROVE IInv'
  OBVIOUS
<1>1. CASE UNCHANGED vars
  <2>1. Typed' /\ LeakIsFailure'
    BY <1>1 DEF vars, IInv, Typed, LeakIsFailure, Suites
  <2>2. \A c \in Controllers : Current(c)'
    BY <1>1 DEF vars, IInv, Current, S
  <2>3. \A c \in Controllers : History(c)'
    BY <1>1 DEF vars, IInv, History, Untouched
  <2> QED
    BY <2>1, <2>2, <2>3 DEF IInv
<1>2. ASSUME NEW c \in Controllers, Opening(c) PROVE IInv'
  BY <1>2, LeaseIInv, StorageIInv, CreateIInv, AttestIInv DEF Opening
<1>3. ASSUME NEW c \in Controllers, Executing(c) PROVE IInv'
  BY <1>3, MkdirIInv, PrepareIInv, AcquireIInv, MeasureIInv, FinishIInv, VerifyIInv DEF Executing
<1>4. ASSUME NEW c \in Controllers, Deferred(c) PROVE IInv'
  BY <1>4, StorageIInv, PersistIInv, ReleaseIInv DEF Deferred
<1> QED
  BY <1>1, <1>2, <1>3, <1>4, NextSuiteIInv, KillIInv DEF Next

\* The inductive invariant holds of every reachable state.
THEOREM Invariance == Spec => []IInv
  BY InitIInv, NextIInv, PTL DEF Spec

\* Type correctness.
THEOREM TypeCorrect == Spec => []TypeOK
<1>1. IInv => TypeOK
  BY CurrentSuite DEF IInv, Typed, TypeOK, Process, Things
<1> QED
  BY <1>1, Invariance, PTL

\* "A leaked volume can never be mistaken for a clean run": for every number of
\* controllers, every plan, every failed or half-effective cleanup and every kill,
\* an artifact that executeQueueSuite wrote with a status other than failed
\* belongs to a suite that has left nothing.
THEOREM LeakIsAlwaysFailure == Spec => []LeakIsFailure
<1>1. IInv => LeakIsFailure
  BY DEF IInv
<1> QED
  BY <1>1, Invariance, PTL

\* An open storage session is the holder of the NFS container's lease, so no two
\* controllers ever attest the same counters.
THEOREM StorageAlwaysExclusive == Spec => []StorageExclusive
<1>1. IInv => StorageExclusive
  BY Here DEF StorageExclusive, Shape, HoldsLease, At
<1> QED
  BY <1>1, Invariance, PTL

\* The exit status of nntpbench says what the artifacts on disk say.
THEOREM ExitAlwaysTruthful == Spec => []ExitTruthful
<1>1. ASSUME IInv, NEW c \in Controllers
      PROVE  LET written == {disk[<<c, i>>] : i \in 1..plan[c].suites}
             IN  /\ run[c].exit = 0 => written = {"passed"}
                 /\ run[c].exit = 2 => written \subseteq Good /\ written # {"passed"}
  <2> DEFINE n == plan[c].suites
             statuses == run[c].statuses
             written == {disk[<<c, i>>] : i \in 1..n}
  <2> SUFFICES ASSUME run[c].exit \in {0, 2}
               PROVE  /\ run[c].exit = 0 => written = {"passed"}
                      /\ run[c].exit = 2 => written \subseteq Good /\ written # {"passed"}
    OBVIOUS
  <2>1. /\ run[c].exit = ExitStatus(statuses) /\ Len(statuses) = n /\ n \in Nat \ {0}
        /\ statuses \in Seq(Good \union {"failed"})
        /\ \A i \in 1..n : statuses[i] \in Good => disk[<<c, i>>] = statuses[i]
    <3>1. run[c].exit # -1 /\ plan[c] \in Plan /\ run[c] \in Process
      BY <1>1 DEF IInv, Typed
    <3> QED
      BY <1>1, <3>1 DEF IInv, History, Process, Plan
  <2>2. DOMAIN statuses = 1..n
    BY <2>1
  <2>3. \A i \in 1..n : statuses[i] \in Good
    BY <2>1, <2>2 DEF ExitStatus, Good
  <2>4. \A i \in 1..n : disk[<<c, i>>] = statuses[i]
    BY <2>1, <2>3
  <2>0. \A x : x \in written <=> \E i \in 1..n : x = disk[<<c, i>>]
    OBVIOUS
  <2> HIDE DEF written, statuses, n
  <2>5. CASE run[c].exit = 0
    <3>1. \A i \in 1..n : statuses[i] = "passed"
      BY <2>1, <2>2, <2>5 DEF ExitStatus
    <3>2. 1 \in 1..n
      BY <2>1
    <3>3. \A x : x \in written <=> x = "passed"
      BY <2>0, <2>4, <3>1, <3>2
    <3> QED
      BY <2>5, <3>3
  <2>6. CASE run[c].exit = 2
    <3>1. \E i \in 1..n : statuses[i] # "passed"
      BY <2>1, <2>2, <2>6 DEF ExitStatus
    <3>2. \A i \in 1..n : disk[<<c, i>>] \in Good
      BY <2>3, <2>4
    <3>3. \A x \in written : x \in Good
      BY <2>0, <3>2
    <3>4. \E x \in written : x # "passed"
      BY <2>0, <2>4, <3>1
    <3> QED
      BY <2>6, <3>3, <3>4
  <2> QED
    BY <2>5, <2>6
<1>2. IInv => ExitTruthful
  BY <1>1 DEF ExitTruthful
<1> QED
  BY <1>2, Invariance, PTL

=============================================================================
