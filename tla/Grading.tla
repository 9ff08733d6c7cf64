------------------------------ MODULE Grading ------------------------------
(***************************************************************************)
(* How an adversarial case is graded: internal/adversarial (evaluate.go,   *)
(* evidence.go, output.go, record.go, plan.go) turns an observation into a *)
(* verdict, a recorded attempt and a comparison with the plan, and         *)
(* cmd/adversarial-supervise classifies a supervised run and decides       *)
(* whether the next case may start.                                        *)
(*                                                                         *)
(* A case is its family, its expectation and its expected outputs; digests *)
(* are equal exactly when what they digest is.  An output tree is whether  *)
(* it can be read at all, the set of its files, whether it has any entry,  *)
(* and whether one of them is forbidden: a link, a special file,           *)
(* privileged metadata, or more than its budget.  An operator that may     *)
(* fail returns a set: empty is its error.                                 *)
(***************************************************************************)
EXTENDS Integers, FiniteSets, Sequences, SequencesExt

CONSTANTS
    RequiredChecks,     \* what an independent observer has to establish
    WeaverMarker        \* the bookkeeping file weaver leaves in its output

GradedOutcomes == {"accepted", "rejected", "repaired", "crashed", "timeout", "unsupported"}
Decided(check) == check.status \in {"pass", "fail"}

(***************************************************************************)
(* Output trees.                                                           *)
(***************************************************************************)
InspectOutput(tree, rejected) ==
    IF ~tree.readable THEN "unreadable"
    ELSE IF tree.forbidden \/ (rejected /\ tree.entries) THEN "unsafe" ELSE "safe"
VerifyOutput(tree, expected) ==
    IF expected # {} /\ tree.readable /\ tree.forbidden THEN "unsafe"
    ELSE IF expected # {} /\ tree.readable /\ tree.files = expected THEN "verified" ELSE "mismatch"

(***************************************************************************)
(* Evidence: each decided check and the resources have an artifact of      *)
(* their own, a statement made for this attempt that says the same.        *)
(***************************************************************************)
References(o) == {o.checks[c].evidence : c \in {k \in RequiredChecks : Decided(o.checks[k])}} \cup {o.resource}
validateObserverEvidence(o) ==
    \E e \in o.evidence :
        LET decided == {c \in RequiredChecks : Decided(o.checks[c])}
        IN  /\ e.run # "" /\ e.stopped /\ e.assigned = o.directory /\ e.scope = "client_process_tree" /\ e.dropped = 0
            /\ e.stage \in {"entry", "component", "application"}
            /\ "" \notin References(o) /\ Cardinality(References(o)) = Cardinality(decided) + 1
            /\ DOMAIN e.artifacts = References(o)
            /\ \A c \in decided : LET s == e.artifacts[o.checks[c].evidence]
                                  IN  s.run = e.run /\ s.check = c /\ s.status = o.checks[c].status
            /\ LET s == e.artifacts[o.resource]
               IN  s.run = e.run /\ s.check = "resources" /\ o.usage # "none" /\ s.usage = o.usage

\* A protocol case also needs the responder's word that its fault was delivered.
FaultDelivered(case, o) ==
    case.family = "nntp" => \E e \in o.evidence : e.responder.run = e.run
                                /\ e.responder.deliveries >= 1 /\ e.responder.dropped = 0

(***************************************************************************)
(* The verdict.                                                            *)
(***************************************************************************)
Unfinished(o) == o.outcome \in {"crashed", "timeout"} \/ o.external
Failed(o) == \/ Unfinished(o) \/ o.usage = "over"
             \/ \E c \in RequiredChecks : o.checks[c].status = "fail"
Unknown(case, o) == \/ ~validateObserverEvidence(o) \/ ~FaultDelivered(case, o)
                    \/ o.usage = "none" \/ o.resource = ""
                    \/ \E c \in RequiredChecks : ~Decided(o.checks[c]) \/ o.checks[c].evidence = ""
ObservedSecurity(case, o) == IF Failed(o) THEN "fail" ELSE IF Unknown(case, o) THEN "inconclusive" ELSE "pass"
Doubted(security) == IF security = "pass" THEN "inconclusive" ELSE security

ExpectedBehavior(case, o) ==
    CASE case.expectation = "contain" -> "policy-dependent"
      [] case.expectation = "reject" /\ o.outcome = "rejected" -> IF o.directory = "" THEN "inconclusive" ELSE "pass"
      [] case.expectation = "reject" /\ o.outcome # "rejected" -> "fail"
      [] case.expectation \in {"accept", "recover"} /\ o.outcome \notin {"accepted", "repaired"} -> "fail"
      [] case.expectation \in {"accept", "recover"} /\ o.outcome \in {"accepted", "repaired"} ->
            IF o.directory = "" THEN "inconclusive"
            ELSE IF VerifyOutput(o.tree, case.expected) = "verified" THEN "pass" ELSE "fail"

\* Mutant: what an unsupported client was not asked is taken as observed.
EvaluateUnsupported(case, o) ==
    IF o.case # case.id \/ o.outcome \notin GradedOutcomes THEN {}
    ELSE IF o.outcome = "unsupported" THEN {[security |-> ObservedSecurity(case, o), behavior |-> "pass"]}
    ELSE {[security |-> ObservedSecurity(case, o), behavior |-> ExpectedBehavior(case, o)]}

Evaluate(case, o) ==
    LET verdict(security, behavior) == {[security |-> security, behavior |-> behavior]}
        inspected == InspectOutput(o.tree, o.outcome = "rejected")
        security == IF o.directory = "" THEN Doubted(ObservedSecurity(case, o)) ELSE ObservedSecurity(case, o)
    IN  IF o.case # case.id \/ o.outcome \notin GradedOutcomes THEN {}
        ELSE IF o.outcome = "unsupported" THEN verdict(Doubted(ObservedSecurity(case, o)), "unsupported")
        ELSE IF Unfinished(o) THEN verdict(ObservedSecurity(case, o), "fail")
        ELSE IF o.directory # "" /\ inspected = "unsafe" THEN verdict("fail", "fail")
        ELSE IF o.directory # "" /\ inspected = "unreadable" THEN verdict(Doubted(security), "fail")
        ELSE verdict(security, ExpectedBehavior(case, o))

(***************************************************************************)
(* Recorded attempts and the comparison with the plan: a sequence of       *)
(* attempts [id, case], of one client.                                     *)
(***************************************************************************)
RecordResult(attempt, o) ==
    LET bound == \E e \in o.evidence : e.run = attempt.id
    IN  {[run |-> attempt.id, observation |-> o,
          verdict |-> IF bound THEN v ELSE [v EXCEPT !.security = Doubted(@)]] : v \in Evaluate(attempt.case, o)}
RecordValid(r) ==
    r.verdict.security = "pass" => /\ validateObserverEvidence(r.observation)
                                   /\ \E e \in r.observation.evidence : e.run = r.run

ComparePlan(plan, records) ==
    LET attempts == {a.id : a \in ToSet(plan)}
        passes(v) == v.security = "pass" /\ v.behavior \in {"pass", "policy-dependent"}
        fails(v) == v.security = "fail" \/ v.behavior = "fail"
    IN  IF \/ \E r \in records : ~RecordValid(r) \/ r.run \notin attempts
           \/ \E r, s \in records : r.run = s.run /\ r # s
           \/ \E r \in records, a \in ToSet(plan) : r.run = a.id /\ r.observation.case # a.case.id
        THEN {}
        ELSE {IF \E r \in records : fails(r.verdict) THEN "failed"
              ELSE IF {r.run : r \in records} # attempts \/ \E r \in records : ~passes(r.verdict)
              THEN "incomplete" ELSE "passed"}

(***************************************************************************)
(* A supervised run.                                                       *)
(***************************************************************************)
\* What is left in the final root: the client's own scratch directories, which have to
\* be empty, and at most one job directory.  run.tree is the tree below what is selected.
selectOutputRoot(left) ==
    /\ {"staging-used", "unpack-used", "file"} \cap left = {}
    /\ ~({"job", "other-job"} \subseteq left)

classifyNonzeroExit(expectation, unsupported) ==
    IF unsupported THEN [behavior |-> "unsupported", review |-> FALSE]
    ELSE CASE expectation = "reject" -> [behavior |-> "rejected", review |-> FALSE]
           [] expectation = "contain" -> [behavior |-> "contained_rejection", review |-> FALSE]
           [] OTHER -> [behavior |-> "nonzero_exit_requires_classification", review |-> TRUE]
classifyNonterminal(run, clean) ==
    IF run.stall /\ run.timedOut /\ clean THEN [behavior |-> "contained_stall", review |-> FALSE]
    ELSE [behavior |-> "did_not_finish", review |-> TRUE]
classifyCompleted(case, run) ==
    LET marker == IF run.client = "weaver" THEN {WeaverMarker} ELSE {}
        verified == VerifyOutput(run.tree, case.expected \cup marker)
    IN  IF case.expectation = "reject" THEN [behavior |-> "unexpected_acceptance", review |-> TRUE]
        ELSE IF case.expected = {} THEN [behavior |-> "completed_policy_dependent", review |-> FALSE]
        ELSE IF verified = "verified" THEN [behavior |-> "verified_output", review |-> FALSE]
        ELSE IF run.unsupported THEN [behavior |-> "unsupported", review |-> FALSE]
        ELSE [behavior |-> "output_mismatch", review |-> TRUE]

\* A client that fails by itself settles the review anew (runCase:540); every other ending
\* only adds to it.
runCase(case, run) ==
    LET clean == /\ run.inventoried /\ run.canaries /\ selectOutputRoot(run.left)
                 /\ InspectOutput(run.tree, case.expectation = "reject") = "safe"
        adding(ended) == [ended EXCEPT !.review = @ \/ ~clean]
        ended == IF run.timedOut \/ run.exit < 0 THEN adding(classifyNonterminal(run, clean))
                 ELSE IF run.exit = 0 /\ run.drained /\ run.report = "complete" THEN adding(classifyCompleted(case, run))
                 ELSE IF run.exit > 0 THEN classifyNonzeroExit(case.expectation, run.unsupported)
                 ELSE [behavior |-> "missing_terminal_outcome", review |-> TRUE]
    IN  [behavior |-> IF run.unsupported /\ ~ended.review THEN "unsupported" ELSE ended.behavior,
         security |-> IF run.canaries THEN "inconclusive" ELSE "potential_finding", review |-> ended.review]

(***************************************************************************)
(* Properties.                                                             *)
(***************************************************************************)
\* A comparison that passes (ComparePlan) has seen every planned attempt through: its own
\* evidence establishes every check and the resources, the client ended by itself, its final
\* output was inspected and holds nothing forbidden, a rejected case left nothing and an
\* accepted one left exactly the expected bytes.  One failed check or unfinished
\* client makes it fail, whatever else is missing.
GradeHonest(plan, records) ==
    \A status \in ComparePlan(plan, records) :
        /\ \A r \in records : Failed(r.observation) => status = "failed"
        /\ status = "passed" => \A a \in ToSet(plan) : \E r \in records :
              LET o == r.observation
              IN  /\ r.run = a.id /\ o.case = a.case.id /\ \E e \in o.evidence : e.run = a.id /\ e.stopped
                  /\ \A c \in RequiredChecks : o.checks[c].status = "pass"
                  /\ o.usage = "within" /\ ~Unfinished(o) /\ o.outcome # "unsupported"
                  /\ o.directory # "" /\ ~o.tree.forbidden
                  /\ o.outcome = "rejected" => ~o.tree.entries
                  /\ a.case.expectation = "reject" => o.outcome = "rejected"
                  /\ a.case.expectation \in {"accept", "recover"} => o.tree.files = a.case.expected

\* The supervisor goes on to the next case (run: no review required) only if the client
\* failed by itself, or the inventory, the canaries and the output tree are as they should be and it
\* either completed or stalled as declared; a case to be rejected was rejected.  It
\* calls an output verified only if its bytes are the expected ones.  A declared capability
\* gap waives the review of a mismatch or of a nonzero exit and of nothing else
\* (ADVERSARIAL.md:193-196; a nonzero exit is FindingStopsBatch's exception here too), and
\* labels a result to be reviewed only if the client completed.
SupervisedHonest(case, run) ==
    LET r == runCase(case, run)
        undeclared == runCase(case, [run EXCEPT !.unsupported = FALSE])
        failedItself == run.exit > 0 /\ ~run.timedOut
    IN  /\ ~r.review /\ ~failedItself =>
              /\ run.inventoried /\ run.canaries /\ run.tree.readable /\ ~run.tree.forbidden /\ "file" \notin run.left
              /\ case.expectation # "reject"
              /\ IF run.timedOut \/ run.exit < 0 THEN run.stall /\ case.expectation = "contain" ELSE run.report = "complete"
        /\ r.behavior = "verified_output" => run.tree.files \ {WeaverMarker} = case.expected /\ run.exit = 0
        /\ undeclared.review /\ ~r.review => failedItself \/ undeclared.behavior = "output_mismatch"
        /\ r.review => r.behavior # "contained_stall" /\ (r.behavior = "unsupported" => run.exit = 0)

\* What ADVERSARIAL.md says of the canaries: "Either change is a review-required potential
\* finding that stops the batch".
CanaryStops(case, run) == ~run.canaries => runCase(case, run).review
=============================================================================
