---------------------------- MODULE MCAlgorithms ----------------------------
(***************************************************************************)
(* The pure algorithms on bounded inputs.  A state is a problem: the kind  *)
(* of computation, its input, and, once solved, what the code computes.    *)
(***************************************************************************)
EXTENDS Summaries, ClientConfig, CommandCensus, OutputVerification, Articles, Grading, ChainPlan

CONSTANTS
    MaxStream,     \* longest command stream, in bytes
    MaxPlainStream,  \* longest command stream of one letter, blanks and newlines
    MaxVolume,     \* largest posted file, in bytes
    MaxArticle,    \* largest article size, in bytes
    MaxOutput      \* most files in a client's output

VARIABLES kind, input, answer
vars == <<kind, input, answer>>

(***************************************************************************)
(* Plans.                                                                  *)
(***************************************************************************)
AllClients == <<"weaver", "sabnzbd", "nzbget", "nzbfast">>
Options ==
    [fixtures |-> <<"f1", "f2">>, clients |-> <<"weaver", "sabnzbd">>, toolchains |-> <<"vanilla">>,
     transports |-> <<"plaintext">>, targets |-> <<"docker-linux">>, repetitions |-> 2, passes |-> 0,
     link |-> Link("unlimited", 0, 0, 0), storage |-> DefaultStorageProfile, profiles |-> <<>>,
     exclusions |-> <<>>]
Without(c, f) == [client |-> c, fixture |-> f]
Exclusions == {<<>>, <<Without("sabnzbd", "f1")>>, <<Without("sabnzbd", "f1"), Without("weaver", "f2")>>}
Links == {Link("unlimited", 0, 0, 0), Link("1gbit", 1, 1, 2), Link("10gbit", 1, 1, 0), Link("custom", 3, 1, 0),
          Link("external", 0, 0, 0), Link("external", 0, 0, 2), Link("1gbit", 1, 1, 1)}
Storages == {DefaultStorageProfile} \cup
            UNION {ResolveStorageProfile(id, "nas-1gbit") : id \in {"nfs-all", "nfs-complete"}}
Policies(clients) == {<<>>} \cup {[i \in DOMAIN clients |-> [client |-> clients[i], tls |-> tls]] : tls \in ValidForTLS}

InterleavedOptions ==
    {[Options EXCEPT !.clients = c, !.toolchains = t, !.transports = r, !.targets = g, !.passes = p,
                     !.repetitions = n, !.exclusions = x, !.link = Link("external", 0, 0, 0)] :
        c \in {<<"weaver", "sabnzbd">>, <<"weaver", "sabnzbd", "nzbget">>}, t \in {<<"vanilla">>, <<"vanilla", "rarpar">>},
        r \in {<<"tls">>, <<"plaintext", "tls">>}, g \in {<<"docker-linux">>, <<"macos-native", "docker-linux">>},
        p \in 2..3, n \in 2..3, x \in Exclusions}
LabelledOptions ==
    {[Options EXCEPT !.clients = AllClients, !.fixtures = <<"f1">>, !.repetitions = 1, !.toolchains = t,
                     !.transports = <<"plaintext", "tls">>, !.targets = g, !.link = l, !.storage = s, !.profiles = p] :
        t \in {<<"vanilla">>, <<"vanilla", "rarpar">>}, g \in {<<"docker-linux">>, <<"macos-native">>, <<"docker-linux", "windows-native">>},
        l \in Links, s \in Storages, p \in Policies(AllClients)}
Hosts == [caFile : BOOLEAN, certStore : BOOLEAN, rarpar : BOOLEAN, os : {"linux", "darwin", "windows"},
          mode : {"sequential", "queue-drain"}, jobs : {1}]

(***************************************************************************)
(* Chains and shapers.                                                     *)
(***************************************************************************)
PlanSpec ==
    [fixtures |-> <<"f1">>, set |-> "", corpus |-> <<>>, exclude |-> <<>>, clients |-> <<"weaver">>, toolchains |-> <<>>,
     transports |-> <<"tls">>, targets |-> <<>>, profile |-> TRUE, repetitions |-> 1, interleaved |-> FALSE, passes |-> 0,
     storage |-> "", nfsLink |-> "none", exclusions |-> <<>>]
Phase ==
    [name |-> "p1", mode |-> "sequential", plan |-> "plan1", artifacts |-> "a1", link |-> "", rtt |-> 0, egress |-> 0, burst |-> 0,
     article |-> "", nfs |-> "", spec |-> <<PlanSpec>>, baselines |-> FALSE, interleavedSummary |-> FALSE]
ServerSide == {"nntp_host", "username", "password_file", "ca_file"}
Needs(stack) ==
    {"adapters"} \cup (CASE stack = "raw" -> {"raw", "bin_dir", "data_dir", "password_file"}
                         [] stack = "external" -> {} [] OTHER -> {"compose_file"} \cup ServerSide)
ChainConfig(stack) ==
    [stack |-> stack, given |-> Needs(stack), target |-> "", phases |-> <<Phase>>, restore |-> [Phase EXCEPT !.link = "1gbit"],
     sets |-> [s1 |-> <<"f1", "f2">>, s2 |-> <<>>]]
Seeded750 == [manifest |-> TRUE, external |-> FALSE, small |-> FALSE, class |-> TRUE, nzb |-> 750]
World ==
    [os |-> "darwin", provider |-> [tls |-> TRUE], disk |-> <<>>, only |-> <<>>, dryRun |-> FALSE, ifb |-> TRUE,
     fixtures |-> [f1 |-> Seeded750, f2 |-> Seeded750]]
Imported == [World EXCEPT !.fixtures = [f \in DOMAIN @ |-> [@[f] EXCEPT !.external = TRUE, !.nzb = 0]]]
Settings == {"provider_env", "compose_file", "raw", "bin_dir", "password_file", "nntp_host", "nntp_port", "username", "ca_file",
             "shaper_control_url", "connections", "restore_server_link", "server_pipelining", "client_version", "adapters"}
\* Each setting given that is not called for, or missing that is; each host.
Chains(configs, worlds) == [c : configs, w : worlds]
SettingChains ==
    Chains({[ChainConfig(stack) EXCEPT !.given = (@ \ {x}) \cup ({x} \ @), !.target = t] :
               stack \in {"", "raw", "external", "other"}, x \in Settings, t \in {"", "docker-linux", "macos-native"}},
           {[w EXCEPT !.os = os, !.provider.tls = tls] : w \in {World, Imported}, os \in {"linux", "darwin"}, tls \in BOOLEAN})
\* Two phases on two links, with plans of their own or one path for both, and
\* with a plan of an earlier session or none.
PhaseLinks == {[Phase EXCEPT !.link = l[1], !.egress = l[2], !.burst = l[3], !.rtt = rtt] :
                   l \in {<<"", 0, 0>>, <<"1gbit", 0, 0>>, <<"custom", 3, 1>>, <<"custom", 3, 2>>}, rtt \in {-1, 0, 2}}
Earlier == {<<>>} \cup {[plan1 |-> plan] : plan \in buildChainPlan([Phase EXCEPT !.link = "1gbit", !.rtt = 2, !.article = "384k"], "docker-linux")}
LinkChains ==
    Chains({[ChainConfig("docker") EXCEPT !.given = @ \cup control, !.phases = <<p, [q EXCEPT !.name = "p2", !.artifacts = "a2", !.plan = path]>>] :
               control \in {{}, {"shaper_control_url"}}, p \in PhaseLinks, q \in PhaseLinks, path \in {"plan1", "plan2"}},
           {[World EXCEPT !.disk = disk, !.ifb = ifb, !.fixtures.f1.nzb = nzb] :
               disk \in Earlier, ifb \in BOOLEAN, nzb \in {750, 384}})
\* What a phase may ask of its plan, and what the fixtures may be.
Specs == {[PlanSpec EXCEPT !.fixtures = f, !.set = set, !.exclude = x, !.targets = t, !.interleaved = n # "no", !.passes = IF n = "two" THEN 2 ELSE 0, !.transports = r] :
             f \in {<<>>, <<"f1", "f2">>, <<"f1", "f1">>}, set \in {"", "s1", "s2"}, x \in {<<>>, <<"f1">>}, n \in {"no", "default", "two"},
             t \in {<<>>, <<"docker-linux", "macos-native">>, <<"windows-native">>}, r \in {<<"tls">>, <<>>}}
         \cup {[PlanSpec EXCEPT !.passes = 1], [PlanSpec EXCEPT !.profile = FALSE], [PlanSpec EXCEPT !.storage = "nfs-all", !.nfsLink = "nas-1gbit"]}
SpecChains ==
    Chains({[ChainConfig(stack) EXCEPT !.target = t, !.phases = <<[Phase EXCEPT !.spec = <<spec>>, !.article = a, !.nfs = nfs]>>] :
               stack \in {"docker", "raw", "external"}, t \in {"", "docker-linux"}, spec \in Specs, a \in {"", "384k"}, nfs \in {"", "full"}},
           {World, Imported, [World EXCEPT !.fixtures.f2.manifest = FALSE], [World EXCEPT !.dryRun = TRUE, !.only = <<{"p1"}>>]})

ShaperLinks == {Link("unlimited", 0, 0, rtt) : rtt \in {0, 2, 1002}} \cup {Link("10gbit", 10, 1, rtt) : rtt \in {0, 6, 502, 2500, 10000}}
\* A shaper started for one link, a qdisc since changed under it or not, and the
\* link of the plan it is asked to serve.
Changed(s) ==
    LET set == s.actual.egress
    IN  {[s.actual EXCEPT !.egress = x] :
            x \in {set} \cup IF s.report # <<>> /\ s.report[1].egressBy = "netem" THEN {0, (set * 9) \div 10, set + 90} ELSE {}}
Shapers ==
    [shaper : {EarlierShaper(link) : link \in ShaperLinks}, late : {0}, planned : ShaperLinks] \cup
    UNION {UNION {{[shaper |-> [s EXCEPT !.actual = a], late |-> late, planned |-> planned] :
                      a \in Changed(s),
                      late \in {0, 5000, 20000}, planned \in ShaperLinks} :
                  s \in StartShaper(link, mechanism, ifb, queue)} :
           link \in ShaperLinks, mechanism \in {"netem", "userspace-delay"}, ifb \in BOOLEAN, queue \in {0, 10, 1000, 2000000}}

(***************************************************************************)
(* Artifact roots.                                                         *)
(***************************************************************************)
NewJob(run, classOf, outcome, counter) ==
    [run |-> run, outcome |-> outcome, error |-> outcome = "dnf", verified |-> outcome = "completed",
     pin |-> 1, class |-> classOf[run.fixture], workload |-> run.fixture, product |-> [build |-> 1, config |-> run.fixture],
     time |-> 20, counter |-> counter, uncertainty |-> 0]
Artifact(mode, jobs) ==
    [mode |-> mode, attested |-> TRUE, jobs |-> jobs, infra |-> 1, shaperBytes |-> 1, storageAttested |-> FALSE,
     status |-> IF \E job \in ToSet(jobs) : job.outcome = "dnf" THEN "completed_with_dnf" ELSE "passed", elapsed |-> 5]
Root(plan, command, files) ==
    [plan |-> plan, command |-> command, intact |-> TRUE, target |-> "docker-linux", files |-> files]

\* One thing wrong with an execution's files.
Damaged(root, damage) ==
    CASE damage = "none" -> root
      [] damage = "manifest" -> [root EXCEPT !.intact = FALSE]
      [] damage = "missing" -> [root EXCEPT !.files = Tail(@)]
      [] damage = "twice" -> [root EXCEPT !.files = Append(@, @[1])]
      [] damage = "failed" -> [root EXCEPT !.files[1].status = "failed"]
      [] damage = "altered" -> [root EXCEPT !.files[1].attested = FALSE]
      [] damage = "pin" -> [root EXCEPT !.files[1].jobs[1].pin = 2]
      [] damage = "build" -> [root EXCEPT !.files[1].jobs[1].product.build = 2]
      [] damage = "unverified" -> [root EXCEPT !.files[1].jobs[1].verified = FALSE]
      [] damage = "instant" -> [root EXCEPT !.files[1].jobs[1].time = 0]
      [] damage = "uncertain" -> [root EXCEPT !.files[1].jobs[1].uncertainty = 1]
Damages == {"none", "manifest", "missing", "twice", "failed", "altered", "pin", "build", "unverified", "instant", "uncertain"}

Outcomes == {"completed", "dnf"}
SequentialRoots(options, classOf, counters, damages) ==
    UNION {LET n == Len(plan.runs) IN
           {Damaged(Root(plan, "sequential", [i \in 1..n |->
                Artifact("sequential", <<NewJob(plan.runs[i], classOf, outcome[i], counter[i])>>)]), damage) :
              outcome \in [1..n -> Outcomes], counter \in [1..n -> counters], damage \in damages} :
           plan \in BuildPlan(options)}
DrainRoots(options, classOf) ==
    UNION {LET lane(client) == SelectSeq(plan.runs, LAMBDA r : r.client = client)
               jobs(client, outcome) == [i \in DOMAIN lane(client) |-> NewJob(lane(client)[i], classOf, outcome[client][i], "none")]
           IN  {Damaged(Root(plan, "queue-transition", [c \in DOMAIN options.clients |->
                    Artifact("queue-drain", jobs(options.clients[c], outcome))]), damage) :
                  outcome \in [ToSet(options.clients) -> [1..options.repetitions -> Outcomes]], damage \in Damages} :
           plan \in BuildPlan(options)}

Classes == {[f1 |-> "c", f2 |-> "c"], [f1 |-> "c", f2 |-> "d"]}
One == [Options EXCEPT !.fixtures = <<"f1">>]
\* Excluded for both compared clients, run only by a third.
ThirdOnly == [Options EXCEPT !.clients = <<"weaver", "sabnzbd", "nzbget">>, !.repetitions = 1,
                             !.exclusions = <<Without("sabnzbd", "f1"), Without("weaver", "f1")>>]
Interleaved == [One EXCEPT !.link = Link("external", 0, 0, 0), !.passes = 2, !.transports = <<"tls">>]
Roots(classOf) ==
    UNION {SequentialRoots([Options EXCEPT !.exclusions = x], classOf, {"none"}, {"none", "missing"}) : x \in Exclusions}
      \cup SequentialRoots(One, classOf, {"none"}, Damages)
      \cup SequentialRoots(One, classOf, {"none", "zero", "perf", "cgroup"}, {"none"})
      \cup SequentialRoots([One EXCEPT !.link = Link("1gbit", 1, 1, 2)], classOf, {"none"}, Damages)
      \cup SequentialRoots(ThirdOnly, classOf, {"none"}, {"none", "instant", "uncertain"})
      \cup SequentialRoots(Interleaved, classOf, {"none"}, Damages)
      \cup DrainRoots(One, classOf)
Pilots ==
    [jobs : {{[outcome |-> o, time |-> t, uncertainty |-> u], [outcome |-> "completed", time |-> v, uncertainty |-> 0]} :
                o \in Outcomes, t \in {4, 9}, u \in {0, 1}, v \in {3, 5, 30}},
     payload : 1..3, target : {5, 12, 40}, maximum : {2, 4, 8, 12}]

(***************************************************************************)
(* Client outputs.                                                         *)
(***************************************************************************)
F(path, size, digest) == [path |-> path, size |-> size, digest |-> digest]
Manifest(expected, archive, sidecars, source, external) ==
    [expected |-> expected, archive |-> archive, sidecars |-> sidecars, source |-> source, external |-> external]
\* Members 20 and 21 have equal bytes; 30 is a sidecar, 40 a volume, 41 a recovery file.
Flat == <<F(<<20>>, 2, "x"), F(<<21>>, 2, "x")>>
Nested == <<F(<<60, 20>>, 2, "x"), F(<<61, 20>>, 2, "x")>>
Posted == <<F(<<40>>, 2, "v"), F(<<41>>, 1, "r"), F(<<30>>, 1, "s")>>
Manifests ==
    {Manifest(Flat, Posted, {<<30>>}, {<<40>>, <<30>>}, FALSE), Manifest(Nested, Posted, {}, {<<40>>}, FALSE),
     Manifest(<<F(<<20>>, 2, "x")>>, Posted, {<<30>>}, {}, FALSE)}
External == Manifest(<<>>, Posted, {}, {}, TRUE)
Files == {F(<<20>>, 2, "x"), F(<<21>>, 2, "x"), F(<<50, 20>>, 2, "x"), F(<<50, 21>>, 2, "x"), F(<<50, 60, 20>>, 2, "x"),
          F(<<60, 20>>, 2, "x"), F(<<61, 20>>, 2, "x"), F(<<30>>, 1, "s"), F(<<50, 30>>, 1, "s"), F(<<41>>, 1, "r"),
          F(<<40>>, 2, "v"), F(<<1>>, 1, "weaver"), F(<<22>>, 1, "x"), F(<<23>>, 0, "e")}
PinFiles == {F(<<20>>, 2, "x"), F(<<21>>, 2, "x"), F(<<22>>, 1, "s"), F(<<23>>, 0, "e"), F(<<40>>, 2, "v"), F(<<41>>, 1, "r"), F(<<1>>, 1, "weaver")}
Outputs(files, most) == UNION {kSubset(k, files) : k \in 0..most}
Clients == {"weaver", "sabnzbd"}

(***************************************************************************)
(* Posts.                                                                  *)
(***************************************************************************)
Volumes == UNION {[1..n -> {1, MaxVolume - 1, MaxVolume}] : n \in 1..3}
Sources(sizes) == [i \in DOMAIN sizes |-> [path |-> i, size |-> sizes[i]]]
Recovery == <<[path |-> 10, size |-> 3]>>
Profiles == {<<"clean", 0>>, <<"light", 1>>, <<"heavy", 1>>, <<"heavy-withheld", 1>>, <<"heavy-withheld", 2>>, <<"scattered", 400>>}
Posts ==
    UNION {generateCase("yenc", order, p[1], p[2], Sources(sizes), Recovery) :
              order \in {"sequential", "scattered"}, p \in Profiles, sizes \in Volumes}
      \cup UNION {generateCase("uuencode", "sequential", "clean", 0, Sources(<<size>>), <<>>) : size \in 1..(2 * MaxVolume)}

(***************************************************************************)
(* Graded attempts and supervised runs.                                    *)
(***************************************************************************)
Case(family, expectation, expected) ==
    [id |-> <<family, expectation>>, family |-> family, expectation |-> expectation, expected |-> expected]
GradedCases == {Case("zip", "contain", {}), Case("zip", "reject", {}), Case("zip", "recover", {"out"}), Case("nntp", "accept", {"out"})}
Tree(readable, files, forbidden) ==
    [readable |-> readable, entries |-> files # {}, files |-> files \ {"dir"}, forbidden |-> forbidden]
Trees == {Tree(FALSE, {}, FALSE), Tree(TRUE, {"out"}, TRUE)}
         \cup {Tree(TRUE, files, FALSE) : files \in {{}, {"dir"}, {"out"}, {"out", WeaverMarker}}}

\* An observation whose evidence establishes it, for attempt 1.
Established(case, outcome, external, statuses, usage, tree) ==
    LET ref(c) == <<"artifact", c>>
        says(c, status, used) == [run |-> "1", check |-> c, status |-> status, usage |-> used]
    IN  [case |-> case.id, outcome |-> outcome, external |-> external, directory |-> "out", tree |-> tree, usage |-> usage,
         resource |-> ref("resources"), checks |-> [c \in RequiredChecks |-> [status |-> statuses[c], evidence |-> ref(c)]],
         evidence |-> {[run |-> "1", stopped |-> TRUE, assigned |-> "out", scope |-> "client_process_tree", dropped |-> 0,
                        stage |-> "entry", responder |-> [run |-> "1", deliveries |-> 1, dropped |-> 0],
                        artifacts |-> [a \in {ref(c) : c \in {k \in RequiredChecks : statuses[k] # "unknown"}} \cup {ref("resources")} |->
                            IF a[2] = "resources" THEN says("resources", "", usage) ELSE says(a[2], statuses[a[2]], "none")]]}]
\* One thing wrong with it.
Flawed(o, flaw) ==
    LET evidence(change(_)) == [o EXCEPT !.evidence = {change(e) : e \in @}]
    IN  CASE flaw = "none" -> o
          [] flaw = "absent" -> [o EXCEPT !.evidence = {}]
          [] flaw = "replayed" -> evidence(LAMBDA e : [e EXCEPT !.run = "2"])
          [] flaw = "running" -> evidence(LAMBDA e : [e EXCEPT !.stopped = FALSE])
          [] flaw = "root" -> evidence(LAMBDA e : [e EXCEPT !.assigned = ""])
          [] flaw = "dropped" -> evidence(LAMBDA e : [e EXCEPT !.dropped = 1])
          [] flaw = "fault" -> evidence(LAMBDA e : [e EXCEPT !.responder.deliveries = 0])
          [] flaw = "disagrees" -> [o EXCEPT !.checks = [c \in DOMAIN @ |-> [@[c] EXCEPT !.status = "pass"]]]
          [] flaw = "shared" -> [o EXCEPT !.checks = [c \in DOMAIN @ |-> [@[c] EXCEPT !.evidence = o.resource]]]
          [] flaw = "unread" -> [o EXCEPT !.directory = ""]
          [] flaw = "other case" -> [o EXCEPT !.case = <<>>]
Flaws == {"none", "absent", "replayed", "running", "root", "dropped", "fault", "disagrees", "shared", "unread", "other case"}
AnyPass == {s \in [RequiredChecks -> {"pass", "fail", "unknown"}] : \E c \in RequiredChecks : s[c] = "pass"}
Observations ==
    UNION {{[case |-> case, o |-> Established(case, outcome, external, statuses, usage, tree)] :
               outcome \in GradedOutcomes, external \in BOOLEAN, usage \in {"none", "within", "over"}, tree \in Trees, statuses \in AnyPass}
             \cup {[case |-> case, o |-> Flawed(Established(case, outcome, FALSE, statuses, "within", tree), flaw)] :
               outcome \in GradedOutcomes, tree \in Trees, statuses \in AnyPass, flaw \in Flaws} :
           case \in GradedCases}
Endings == {[exit |-> exit, drained |-> TRUE, report |-> report] : exit \in {0, 1}, report \in {"complete", "none"}}
           \cup {[exit |-> -1, drained |-> TRUE, report |-> "none"], [exit |-> 0, drained |-> FALSE, report |-> "complete"]}
Leftovers == {{"job"}, {"job", "other-job"}, {"staging", "unpack-used"}}
SupervisedRuns ==
    UNION {{[case |-> case, run |-> [client |-> client, timedOut |-> timedOut, exit |-> ending.exit, drained |-> ending.drained,
                                     report |-> ending.report, inventoried |-> inventoried, canaries |-> canaries, left |-> left,
                                     tree |-> tree, unsupported |-> unsupported, stall |-> stall]] :
               client \in Clients, timedOut \in BOOLEAN, ending \in Endings, inventoried \in BOOLEAN, canaries \in BOOLEAN,
               unsupported \in BOOLEAN, stall \in {FALSE, case.expectation = "contain"}, tree \in Trees, left \in Leftovers} :
           case \in GradedCases}

(***************************************************************************)
(* The problems and their solutions.                                       *)
(***************************************************************************)
Alphabet == {"A", "1", "<", " ", "nl"}
Problem(k, inputs) == kind = k /\ input \in inputs
Init ==
    /\ answer = <<>>
    /\ \/ Problem("census", UNION {[1..n -> Alphabet] : n \in 0..MaxStream}
                                  \cup UNION {[1..n -> {"A", " ", "nl"}] : n \in 0..MaxPlainStream})
       \/ Problem("plan", InterleavedOptions \cup LabelledOptions)
       \/ \E classOf \in Classes : Problem("summary", {[root |-> r, classOf |-> classOf] : r \in Roots(classOf)})
       \/ Problem("pilot", Pilots)
       \/ Problem("verify", [m : Manifests, pins : {{}}, output : Outputs(Files, MaxOutput), regular : {TRUE}, client : Clients,
                             write : {"done"}])
       \/ Problem("verify", [m : {External}, output : Outputs(PinFiles, 3), regular : BOOLEAN, client : Clients, pins : {{}},
                             write : PinWrites])
       \/ Problem("verify", [m : {External}, output : Outputs(PinFiles, 3), regular : BOOLEAN, client : Clients, write : {"done"},
                             pins : {pinOutput(External, discoverFiles(o), write) : o \in Outputs(PinFiles, 3), write \in PinWrites}])
       \/ Problem("post", [m : Posts, raw : 1..MaxArticle])
       \/ Problem("chain", SettingChains \cup LinkChains \cup SpecChains)
       \/ Problem("shaper", Shapers)
       \/ Problem("attempt", Observations)
       \/ Problem("supervised", SupervisedRuns)

Solve(k, solution) == kind = k /\ answer = <<>> /\ answer' = <<solution>> /\ UNCHANGED <<kind, input>>
Observed == Solve("census", Census(input, {}).observed)
Built == Solve("plan", BuildPlan(input))
Declared == Solve("chain", Session(input.c, input.w))
Attested == Solve("shaper", LinkAttested(Snapshot(input.shaper, input.late), input.planned))
Summarized ==
    \E pair \in {{"weaver", "sabnzbd"}}, minimumBlocks \in 1..2 :
        Solve("summary", [pair |-> pair, minimumBlocks |-> minimumBlocks])
Sized == Solve("pilot", buildPilotSizing(input.jobs, input.payload, input.target, input.maximum))
Verified == Solve("verify", VerifyClientOutput(input.m, input.pins, input.output, input.regular, input.client, input.write))
Seeded == Solve("post", SeededNZB(input.m, input.raw))
Graded ==
    \E attempts \in {<<"1">>, <<"1", "2">>} :
        LET plan == [i \in DOMAIN attempts |-> [id |-> attempts[i], case |-> input.case]]
        IN  Solve("attempt", [plan |-> plan, records |-> RecordResult(plan[1], input.o)])
Supervised == Solve("supervised", runCase(input.case, input.run))
Next == Observed \/ Built \/ Declared \/ Attested \/ Summarized \/ Sized \/ Verified \/ Seeded \/ Graded \/ Supervised
Spec == Init /\ [][Next]_vars

Solved(k) == kind = k /\ answer # <<>>

(***************************************************************************)
(* Properties.                                                             *)
(***************************************************************************)
\* How a connection's bytes are cut into writes does not change its census.
FragmentationInvisible == Solved("census") => CutsInvisible(input)

\* Every plan BuildPlan makes: a monotone drift cancels over a pass and the next.
PassesBalanced == Solved("plan") => \A plan \in answer[1] : DriftCancels(plan)

\* Every run a plan holds is executed as its result will say, on whichever host; so
\* is every phase of a chain, and what the shaper attests is the link that applies.
LabelsTruthful ==
    /\ Solved("plan") /\ input.passes = 0 => \A plan \in answer[1], host \in Hosts :
          LabelTruthful(plan, input.profiles = <<>>, host) /\ StorageAsLabelled(plan, host)
    /\ Solved("chain") => \A session \in answer[1] : PhasesAsDeclared(session, input.w)
    /\ Solved("shaper") => RoundTripHonest(input.shaper, input.late, input.planned) /\ QueueHoldsRate(input.shaper)

\* A published figure hides no failure, and a recommended tier suffices.
FiguresSound ==
    /\ Solved("summary") => FiguresHideNothing(input.root, input.classOf, answer[1].pair, answer[1].minimumBlocks)
    /\ Solved("pilot") => PilotTierFits(input.jobs, input.payload, input.target, input.maximum)

\* Every report is made of a complete execution and accounts for each of its runs.
ReportsComplete == Solved("summary") => EveryRunAccounted(input.root, answer[1].pair, answer[1].minimumBlocks)

\* A verdict on an output means the members and nothing else, and a pin is an oracle of
\* its own run; a verdict on an adversarial case passes nothing that was not observed, and
\* the supervisor goes on past a finding only after a client that failed by itself, which
\* FindingStopsBatch is about.
VerdictsExact ==
    /\ Solved("verify") => /\ VerifiedIsExact(input.m, input.pins, input.output, input.regular, input.client)
                           /\ PinAcceptsItself(input.m, input.output, input.client, input.write)
    /\ Solved("attempt") => GradeHonest(answer[1].plan, answer[1].records)
    /\ Solved("supervised") => SupervisedHonest(input.case, input.run)

\* A changed canary stops the batch (ADVERSARIAL.md:204); not so after a nonzero exit.
FindingStopsBatch == Solved("supervised") => CanaryStops(input.case, input.run)

\* A seeded fixture's articles tile its files at the attested size and no other.
PostsAttested ==
    Solved("post") => /\ \A other \in 1..MaxArticle : ArticlesTile(input.m, input.raw, other)
                      /\ \A i \in DOMAIN input.m.archive : UUCutsAttested(input.m.archive[i].size, input.raw)
=============================================================================
