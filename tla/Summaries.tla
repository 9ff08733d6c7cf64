----------------------------- MODULE Summaries -----------------------------
(***************************************************************************)
(* `nntpbench summarize` and `size-pilot`: from an artifact root to the    *)
(* report (cmd/nntpbench/summarize*.go, subgroups.go, precision.go,        *)
(* pilot.go, internal/benchmark/evidence.go).                              *)
(*                                                                         *)
(* A root is the record of an execution: the snapshotted plan (options and *)
(* runs), whether its snapshots still match the manifest, and the artifact *)
(* files in the order the walk meets them.  A sequential artifact has one  *)
(* job, a queue-drain artifact one per queued copy.  Times are small       *)
(* numbers; an interval computed by bootstrap is left open ("by interval").*)
(* An operator that can fail is paired with the predicate under which it   *)
(* does not.                                                               *)
(***************************************************************************)
EXTENDS BenchmarkPlan

(***************************************************************************)
(* Loading and evidence.                                                   *)
(***************************************************************************)
ExecutionIntact(root, command) == root.command = command /\ root.intact
PlannedRuns(root) == {run \in ToSet(root.plan.runs) : run.target = root.target}

summarizableSequentialStatus(status) == status \in {"passed", "completed_with_dnf"}

RunsOf(artifact) == [i \in DOMAIN artifact.jobs |-> artifact.jobs[i].run]
AllRuns(artifacts) == FlattenSeq([i \in DOMAIN artifacts |-> RunsOf(artifacts[i])])
OfMode(root, mode) == SelectSeq(root.files, LAMBDA a : a.mode = mode)

\* Mutant: an execution that stopped early is summarised as it is.
RootCompletePartial(root, artifacts) == TRUE

\* Missing runs are not failures of a client: nothing is reported without them.
RootComplete(root, artifacts) == ToSet(AllRuns(artifacts)) = PlannedRuns(root)

Loadable(root) ==
    LET artifacts == OfMode(root, "sequential")
    IN  /\ ExecutionIntact(root, "sequential") /\ PlannedRuns(root) # {}
        /\ NoDuplicates(AllRuns(artifacts))
        /\ ToSet(AllRuns(artifacts)) \subseteq PlannedRuns(root)
        /\ \A i \in DOMAIN artifacts : summarizableSequentialStatus(artifacts[i].status)
        /\ artifacts # <<>>
        /\ RootComplete(root, artifacts)

\* QueueArtifact.ValidateEvidence: attested stands for the digests and
\* identities an artifact repeats and that must agree with each other.
ValidateEvidence(artifact) ==
    /\ artifact.attested
    /\ \A i \in DOMAIN artifact.jobs :
          LET job == artifact.jobs[i]
          IN  \/ job.outcome = "dnf" /\ job.error /\ artifact.status = "completed_with_dnf"
              \/ job.outcome = "completed" /\ ~job.error /\ job.verified

\* Every verified run of an external post matched the same pinned output.
ValidatePinnedAgreement(artifacts) ==
    \A i, j \in DOMAIN artifacts : \A a \in ToSet(artifacts[i].jobs), b \in ToSet(artifacts[j].jobs) :
        a.run.fixture = b.run.fixture /\ a.verified /\ b.verified => a.pin = b.pin

\* A shaped run's counters and an NFS run's attestation are part of its evidence.
LinkEvidence(artifact, run) ==
    /\ Shaped(run.link) => artifact.shaperBytes > 0
    /\ run.storage.kind = "nfs" <=> artifact.storageAttested

(***************************************************************************)
(* The paired sequential summary.                                          *)
(***************************************************************************)
Stratum(run) == [fixture |-> run.fixture, transport |-> run.transport, target |-> run.target,
                 toolchain |-> run.toolchain, link |-> run.link, storage |-> run.storage]
aggregateKey(stratum, class) ==
    [class |-> class, transport |-> stratum.transport, target |-> stratum.target,
     toolchain |-> stratum.toolchain, link |-> stratum.link, storage |-> stratum.storage]

JobOf(artifact) == artifact.jobs[1]
Compared(artifacts, pair) == SelectSeq(artifacts, LAMBDA a : JobOf(a).run.client \in pair)

\* Every artifact of the execution, whoever is compared.
Admissible(artifact) ==
    /\ ValidateEvidence(artifact)
    /\ summarizableSequentialStatus(artifact.status)
    /\ Len(artifact.jobs) = 1
    /\ LinkEvidence(artifact, JobOf(artifact).run)

\* 250 ms, which is less than the unit of time.
ObservationUncertaintyFloor == 0
ObservationUncertaintyAcceptable(uncertainty, duration) ==
    duration > 0 /\ (uncertainty <= ObservationUncertaintyFloor \/ uncertainty <= duration \div 100)

\* The artifacts of the two clients that are compared.
Comparable(artifact) ==
    LET job == JobOf(artifact)
    IN  IF artifact.status = "completed_with_dnf" THEN job.outcome = "dnf"
        ELSE /\ job.outcome = "completed" /\ job.verified
             /\ ObservationUncertaintyAcceptable(job.uncertainty, job.time)

\* Nothing a comparison rests on changes inside it, and no run is seen twice.
Consistent(artifacts) ==
    \A i, j \in DOMAIN artifacts :
        LET a == JobOf(artifacts[i])
            b == JobOf(artifacts[j])
            stratum == Stratum(a.run) = Stratum(b.run)
            aggregate == aggregateKey(Stratum(a.run), a.class) = aggregateKey(Stratum(b.run), b.class)
        IN  /\ stratum => a.workload = b.workload /\ artifacts[i].infra = artifacts[j].infra
            /\ a.run.fixture = b.run.fixture => a.class = b.class
            /\ stratum /\ a.run.client = b.run.client => a.product = b.product
            /\ aggregate /\ a.run.client = b.run.client => a.product.build = b.product.build
            /\ stratum /\ a.run.client = b.run.client /\ a.run.rep = b.run.rep => i = j

\* What one client did in one block: measured, dnf, excluded or missing.
Jobs(artifacts) == {JobOf(artifacts[i]) : i \in DOMAIN artifacts}
Block(artifacts, plan, stratum, client, rep) ==
    LET jobs == {job \in Jobs(artifacts) :
                    Stratum(job.run) = stratum /\ job.run.client = client /\ job.run.rep = rep}
    IN  CASE \E job \in jobs : job.outcome = "dnf" -> "dnf"
          [] jobs # {} -> "measured"
          [] jobs = {} /\ Excluded(plan.options, client, stratum.fixture) -> "excluded"
          [] OTHER -> "missing"
Repetitions(artifacts, stratum) ==
    {job.run.rep : job \in {j \in Jobs(artifacts) : Stratum(j.run) = stratum}}

completionCounts(artifacts, plan, stratum, pair) ==
    LET reps == Repetitions(artifacts, stratum)
        count(client, kinds) ==
            Cardinality({rep \in reps : Block(artifacts, plan, stratum, client, rep) \in kinds})
    IN  [observed |-> Cardinality(reps),
         didNotFinish |-> [client \in pair |-> count(client, {"dnf", "excluded"})],
         excluded |-> [client \in pair |-> count(client, {"excluded"})],
         paired |-> Cardinality({rep \in reps : \A client \in pair :
                        Block(artifacts, plan, stratum, client, rep) = "measured"})]

(***************************************************************************)
(* Secondary counters.  A job's counter is a provenance, "zero" or "none". *)
(***************************************************************************)
Finished(artifacts, stratum, client) ==
    {job \in Jobs(artifacts) :
        Stratum(job.run) = stratum /\ job.run.client = client /\ job.outcome = "completed"}
counterObservation(job) == IF job.counter \in {"none", "zero"} THEN {} ELSE {job.counter}
Provenances(artifacts, stratum, client) ==
    UNION {counterObservation(job) : job \in Finished(artifacts, stratum, client)}

\* The reasons of buildCounterComparison: no finished block or no measured one,
\* a source that changed, sources that differ.
CounterWithheld(artifacts, stratum, pair) ==
    \/ \E client \in pair : Cardinality(Provenances(artifacts, stratum, client)) # 1
    \/ \E a, b \in pair : Provenances(artifacts, stratum, a) # Provenances(artifacts, stratum, b)
CounterPairs(artifacts, stratum, pair) ==
    {rep \in Repetitions(artifacts, stratum) : \A client \in pair :
        \E job \in Finished(artifacts, stratum, client) :
            job.run.rep = rep /\ counterObservation(job) # {}}
MaxOf(a, b) == IF a > b THEN a ELSE b
buildCounterComparison(artifacts, stratum, pair, minimumBlocks) ==
    LET pairs == Cardinality(CounterPairs(artifacts, stratum, pair))
    IN  [paired |-> pairs,
         summary |-> ~CounterWithheld(artifacts, stratum, pair) /\ pairs >= MaxOf(2, minimumBlocks)]

(***************************************************************************)
(* The report.                                                             *)
(***************************************************************************)
\* precision.go, up to the conclusions an interval decides.
ShortRun == 10
assessTiming(artifacts, stratum, completion) ==
    LET paired == {job \in Jobs(artifacts) : Stratum(job.run) = stratum /\ job.outcome = "completed"}
    IN  IF completion.paired < 2 THEN "insufficient_pairs"
        ELSE IF \E client \in DOMAIN completion.didNotFinish : completion.didNotFinish[client] > 0
        THEN "conditional_only_with_failures"
        ELSE IF \E job \in paired : job.time < ShortRun THEN "short_run_descriptive_only"
        ELSE "by_interval"

Comparison(artifacts, plan, stratum, pair, minimumBlocks) ==
    LET completion == completionCounts(artifacts, plan, stratum, pair)
    IN  [stratum |-> stratum,
         class |-> (CHOOSE job \in Jobs(artifacts) : job.run.fixture = stratum.fixture).class,
         completion |-> completion,
         timing |-> assessTiming(artifacts, stratum, completion),
         exclusions |-> {client \in pair : Excluded(plan.options, client, stratum.fixture)},
         counter |-> buildCounterComparison(artifacts, stratum, pair, minimumBlocks),
         summary |-> completion.paired >= minimumBlocks]

\* Mutant: a comparison that has a figure is pooled whatever did not finish.
WithheldOnlyWithout(c) == ~c.summary

\* A fixture is kept out of its class's figure when it has no figure of its
\* own or when any block of it did not finish.
WithheldFromAggregate(c) == ~c.summary \/ \E client \in DOMAIN c.completion.didNotFinish : c.completion.didNotFinish[client] > 0

\* buildClassAggregates.
Aggregates(comparisons) ==
    {LET members == {c \in comparisons : aggregateKey(c.stratum, c.class) = key}
         withheld == {c.stratum.fixture : c \in {m \in members : WithheldFromAggregate(m)}}
     IN  [key |-> key, withheld |-> withheld,
          compared |-> {c.stratum.fixture : c \in members} \ withheld,
          summary |-> withheld = {}] :
        key \in {aggregateKey(c.stratum, c.class) : c \in comparisons}}

Summarizable(root, pair, minimumBlocks) ==
    LET artifacts == OfMode(root, "sequential")
        compared == Compared(artifacts, pair)
        strata == {Stratum(job.run) : job \in Jobs(compared)}
        comparisons == {Comparison(compared, root.plan, s, pair, minimumBlocks) : s \in strata}
    IN  /\ Loadable(root)
        /\ ValidatePinnedAgreement(artifacts)
        /\ \A i \in DOMAIN artifacts : Admissible(artifacts[i])
        /\ \A i, j \in DOMAIN artifacts : JobOf(artifacts[i]).run.storage = JobOf(artifacts[j]).run.storage
        /\ \A i \in DOMAIN compared : Comparable(compared[i])
        /\ Consistent(compared)
        /\ strata # {}
        /\ \A s \in strata : \A rep \in Repetitions(compared, s) : \A client \in pair :
              Block(compared, root.plan, s, client, rep) # "missing"
        /\ \A c \in comparisons :
              c.summary \/ \E client \in pair : c.completion.didNotFinish[client] > 0
buildSummaryReport(root, pair, minimumBlocks) ==
    LET compared == Compared(OfMode(root, "sequential"), pair)
        comparisons == {Comparison(compared, root.plan, s, pair, minimumBlocks) :
                            s \in {Stratum(job.run) : job \in Jobs(compared)}}
    IN  [comparisons |-> comparisons, aggregates |-> Aggregates(comparisons)]

(***************************************************************************)
(* The interleaved report: arms per client and fixture, medians, warnings. *)
(***************************************************************************)
Interleavable(root) ==
    /\ Loadable(root) /\ root.plan.options.passes >= 1
    /\ ValidatePinnedAgreement(OfMode(root, "sequential"))
    /\ \A i \in DOMAIN OfMode(root, "sequential") : ValidateEvidence(OfMode(root, "sequential")[i])
Arms(root, client, fixture) ==
    {job \in Jobs(OfMode(root, "sequential")) : job.run.client = client /\ job.run.fixture = fixture}
\* The upper median of the finished arms' times.
UpperMedian(times) ==
    LET sorted == SortSeq(times, LAMBDA x, y : x < y) IN sorted[(Len(sorted) \div 2) + 1]
InterleavedClient(root, client, fixture) ==
    LET finished == {job \in Arms(root, client, fixture) : job.outcome = "completed"}
        order == SetToSeq(finished)
    IN  [finished |-> Cardinality(finished),
         didNotFinish |-> Cardinality(Arms(root, client, fixture) \ finished),
         median |-> IF finished = {} THEN 0 ELSE UpperMedian([i \in DOMAIN order |-> order[i].time])]
buildInterleavedReport(root) ==
    [key \in {<<job.run.client, job.run.fixture>> : job \in Jobs(OfMode(root, "sequential"))} |->
        InterleavedClient(root, key[1], key[2])]

(***************************************************************************)
(* The queue-drain report: one lane per artifact.                          *)
(***************************************************************************)
MinimumCopies == 2
DrainLaneValid(root, artifact) ==
    LET jobs == ToSet(artifact.jobs)
    IN  /\ ValidateEvidence(artifact) /\ artifact.elapsed > 0
        /\ summarizableSequentialStatus(artifact.status)
        /\ Len(artifact.jobs) >= MinimumCopies
        /\ \A job \in jobs : job.run \in PlannedRuns(root)
        /\ \A a, b \in jobs : [a.run EXCEPT !.rep = 0] = [b.run EXCEPT !.rep = 0]
        /\ \A job \in jobs : LinkEvidence(artifact, job.run)
        /\ (artifact.status = "completed_with_dnf") <=> (\E job \in jobs : job.outcome = "dnf")
DrainLane(artifact) ==
    [copies |-> Len(artifact.jobs),
     didNotFinish |-> Cardinality({i \in DOMAIN artifact.jobs : artifact.jobs[i].outcome = "dnf"}),
     wallClock |-> IF artifact.status = "completed_with_dnf" THEN 0 ELSE artifact.elapsed]
DrainReportable(root) ==
    LET artifacts == OfMode(root, "queue-drain")
    IN  /\ ExecutionIntact(root, "queue-transition") /\ artifacts # <<>>
        /\ \A i \in DOMAIN artifacts : DrainLaneValid(root, artifacts[i])
        /\ NoDuplicates(AllRuns(artifacts)) /\ RootComplete(root, artifacts)
loadQueueDrainReport(root) ==
    {DrainLane(artifact) : artifact \in ToSet(OfMode(root, "queue-drain"))}

(***************************************************************************)
(* Pilot sizing, in units of the smallest tier.                            *)
(***************************************************************************)
CeilDiv(a, b) == (a + b - 1) \div b
\* The payload scaled so that the fastest run would take the target duration.
RequiredSize(payload, target, fastest) ==
    IF target > fastest THEN CeilDiv(payload * target, fastest) ELSE payload
\* tier doubles from 1 while it is too small and another doubling stays in reach.
Tiers(maximum) == {tier \in 1..maximum : \E k \in 0..maximum : tier = 2^k}
RecommendedTier(required, maximum) ==
    LET reachable == Tiers(maximum)
        tier == IF \E t \in reachable : t >= required THEN Min({t \in reachable : t >= required})
                ELSE Max(reachable)
    IN  IF tier < required THEN 0 ELSE tier
Sizing(status, tier) == [status |-> status, tier |-> tier]
buildPilotSizing(jobs, payload, target, maximum) ==
    LET done == {job \in jobs : job.outcome = "completed"}
        fastest == Min({job.time - job.uncertainty : job \in done})
        wanted == Max({target} \cup {100 * job.uncertainty : job \in done})
    IN  IF \E job \in jobs : job.outcome = "dnf" THEN Sizing("investigate_failures", 0)
        ELSE IF Cardinality(done) < 2 THEN Sizing("insufficient", 0)
        ELSE LET tier == RecommendedTier(RequiredSize(payload, wanted, fastest), maximum)
             IN  Sizing(IF tier = 0 THEN "exceeds_ceiling" ELSE "recommended", tier)

(***************************************************************************)
(* Properties.                                                             *)
(***************************************************************************)
Completed(root, client, rep, key, fixture) ==
    \E i \in DOMAIN root.files : \E job \in ToSet(root.files[i].jobs) :
        /\ job.run.client = client /\ job.run.rep = rep /\ job.run.fixture = fixture
        /\ aggregateKey(Stratum(job.run), job.class) = key /\ job.outcome = "completed" /\ job.verified

\* A figure that is published hides no failure: a class's aggregate has one only
\* when every planned repetition of every fixture of the class was verified for
\* both clients, but for the fixtures that the plan excludes for both, which the
\* aggregate does not mention; and a counter is compared only between
\* blocks that one collector measured (buildSummaryReport, buildClassAggregates,
\* buildCounterComparison).
FiguresHideNothing(root, classOf, pair, minimumBlocks) ==
    Summarizable(root, pair, minimumBlocks) =>
        LET report == buildSummaryReport(root, pair, minimumBlocks)
            o == root.plan.options
        IN  /\ \A g \in report.aggregates : g.summary =>
                  \A fixture \in {f \in ToSet(o.fixtures) : classOf[f] = g.key.class} :
                      \/ \A client \in pair : Excluded(o, client, fixture)
                      \/ /\ fixture \in g.compared
                         /\ \A client \in pair, rep \in 1..o.repetitions :
                               Completed(root, client, rep, g.key, fixture)
            /\ \A c \in report.comparisons : c.counter.summary =>
                  Cardinality({job.counter : job \in {j \in UNION {ToSet(root.files[i].jobs) : i \in DOMAIN root.files} :
                      /\ Stratum(j.run) = c.stratum /\ j.run.client \in pair
                      /\ j.outcome = "completed" /\ j.counter \notin {"none", "zero"}}}) = 1

\* A report is made only of complete executions: every planned run has its one
\* artifact, each repetition of a comparison is measured, unfinished or excluded,
\* each pass of an interleaved one finished or not, and a drain's wall clock
\* stands only for a lane whose every copy was verified (loadSequentialArtifacts,
\* buildInterleavedReport, loadQueueDrainReport).
EveryRunAccounted(root, pair, minimumBlocks) ==
    LET o == root.plan.options
        times(run) == Cardinality({x \in (DOMAIN root.files) \X (1..o.repetitions) :
                          x[2] \in DOMAIN root.files[x[1]].jobs /\ root.files[x[1]].jobs[x[2]].run = run})
        once == \A run \in PlannedRuns(root) : times(run) = 1
    IN  /\ Summarizable(root, pair, minimumBlocks) =>
              /\ once
              /\ \A c \in buildSummaryReport(root, pair, minimumBlocks).comparisons :
                    /\ c.completion.observed = o.repetitions
                    /\ \A client \in pair : client \in c.exclusions =>
                          c.completion.excluded[client] = o.repetitions /\ ~(c.summary /\ minimumBlocks > 0)
        /\ Interleavable(root) =>
              LET report == buildInterleavedReport(root)
              IN  /\ once
                  /\ \A client \in ToSet(o.clients), fixture \in ToSet(o.fixtures) :
                        Excluded(o, client, fixture) <=> <<client, fixture>> \notin DOMAIN report
                  /\ \A key \in DOMAIN report : report[key].finished + report[key].didNotFinish
                        = o.passes * Cardinality({<<r.transport, r.toolchain>> : r \in {p \in PlannedRuns(root) : p.client = key[1]}})
        /\ DrainReportable(root) =>
              /\ once
              /\ \A artifact \in ToSet(root.files) : DrainLane(artifact).wallClock > 0 <=>
                    \A job \in ToSet(artifact.jobs) : job.outcome = "completed" /\ job.verified

\* A pilot recommends a tier in which its fastest run would last as long as asked,
\* and no smaller tier would do (buildPilotSizing).
PilotTierFits(jobs, payload, target, maximum) ==
    LET tier == buildPilotSizing(jobs, payload, target, maximum).tier
        lasts(t) == \A job \in jobs : (job.time - job.uncertainty) * t >= payload * target
    IN  tier > 0 =>
            /\ tier <= maximum /\ lasts(tier)
            /\ \/ tier = 1 \/ ~lasts(tier \div 2) \/ tier \div 2 < payload
               \/ \E job \in jobs : 100 * job.uncertainty > target
=============================================================================
