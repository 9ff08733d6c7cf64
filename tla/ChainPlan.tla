------------------------------ MODULE ChainPlan ------------------------------
(***************************************************************************)
(* cmd/nntpbench/chain.go and main.go, from a chain's configuration to     *)
(* what each phase executes: loading and validating the configuration,     *)
(* settling the target, building the plans, checking the fixtures, the     *)
(* command line of a phase and what the execute command refuses.           *)
(*                                                                         *)
(* A configuration holds the settings that are set at all in "given"; the  *)
(* values kept are the ones a plan or a label is made of.  A path is a     *)
(* name, already resolved.  What may be absent is a sequence of length at  *)
(* most one, or "".                                                        *)
(***************************************************************************)
EXTENDS LinkReport

(***************************************************************************)
(* Loading a configuration.                                                *)
(***************************************************************************)
Orelse(value, fallback) == IF value = "" THEN fallback ELSE value
DefaultList(values, fallback) == IF values = <<>> THEN fallback ELSE values

articleProfiles == [id \in {"750k", "384k", "700k"} |-> CASE id = "750k" -> 750 [] id = "384k" -> 384 [] id = "700k" -> 700]
ResolveArticleProfile(id) ==
    {[id |-> a, raw |-> articleProfiles[a]] : a \in {Orelse(id, "750k")} \cap DOMAIN articleProfiles}

\* The target a raw session records under; Linux has none.
rawExecutionTarget(os) ==
    CASE os = "darwin" -> {"macos-native"} [] os = "windows" -> {"windows-native"} [] OTHER -> {}
externalExecutionTarget(os) ==
    IF rawExecutionTarget(os) # {} THEN CHOOSE t \in rawExecutionTarget(os) : TRUE ELSE "docker-linux"

linkProfile(p) ==
    IF p.rtt < 0 THEN {} ELSE ResolveServerLinkProfile(Orelse(p.link, "unlimited"), p.egress, p.burst, p.rtt)

\* The defaults loadChainConfig fills in.
WithChainDefaults(c) ==
    LET stack == Orelse(c.stack, "docker")
        phase(p) == IF stack = "external" THEN [p EXCEPT !.link = Orelse(@, "external")] ELSE p
    IN  [c EXCEPT !.stack = stack, !.given = IF stack = "external" THEN @ \cup {"provider_env"} ELSE @,
                  !.phases = [i \in DOMAIN @ |-> phase(@[i])]]

\* Each named fixture set replaced by the fixtures it declares.
resolveChainFixtureSets(c) ==
    LET named(p) == p.spec # <<>> /\ p.spec[1].set # ""
        resolved(p) == IF named(p) THEN [p EXCEPT !.spec[1].fixtures = c.sets[p.spec[1].set]] ELSE p
    IN  IF \A i \in DOMAIN c.phases : LET p == c.phases[i] IN named(p) =>
              p.spec[1].fixtures = <<>> /\ p.spec[1].set \in DOMAIN c.sets /\ c.sets[p.spec[1].set] # <<>>
        THEN {[c EXCEPT !.phases = [i \in DOMAIN @ |-> resolved(@[i])]]}
        ELSE {}

\* Mutant: a connection limit is not taken for a setting of the server.
ConnectionsUnchecked(c) ==
    /\ {"raw", "compose_file", "password_file", "nntp_host", "nntp_port", "nntp_tls_port", "username", "ca_file",
        "shaper_control_url", "restore_server_link", "server_pipelining"} \cap c.given = {}
    /\ "provider_env" \in c.given

validateExternalChainStack(c) ==
    /\ {"raw", "compose_file", "password_file", "nntp_host", "nntp_port", "nntp_tls_port", "username", "ca_file",
        "shaper_control_url", "connections", "restore_server_link", "server_pipelining"} \cap c.given = {}
    /\ "provider_env" \in c.given

validateChainStack(c, os) ==
    \/ c.stack = "docker" /\ "compose_file" \in c.given /\ {"provider_env", "raw"} \cap c.given = {}
    \/ c.stack = "external" /\ validateExternalChainStack(c)
    \/ /\ c.stack = "raw"
       /\ {"provider_env", "compose_file", "client_version", "server_pipelining"} \cap c.given = {}
       /\ {"raw", "bin_dir", "data_dir"} \subseteq c.given
       /\ rawExecutionTarget(os) # {}

\* The part of validateChainConfig that is about one phase.
PhaseValid(c, p) ==
    LET spec == p.spec # <<>>
        external == c.stack = "external"
    IN  /\ p.name # "" /\ p.plan # "" /\ p.artifacts # ""
        /\ p.mode \in {"sequential", "queue", "queue-transition"}
        /\ linkProfile(p) # {} /\ ResolveArticleProfile(p.article) # {}
        /\ p.nfs # "unnamed" /\ (p.nfs # "" => c.stack = "docker")
        /\ p.link = "external" <=> external
        /\ spec /\ (p.spec[1].interleaved \/ p.spec[1].passes > 0) => external
        /\ p.interleavedSummary => spec /\ p.spec[1].interleaved
        /\ spec /\ p.spec[1].passes > 0 => p.spec[1].interleaved
        /\ external => p.mode # "queue-transition"
        /\ external /\ spec => ToSet(p.spec[1].transports) = {"tls"}
validateChainConfig(c, os) ==
    /\ c.phases # <<>> /\ validateChainStack(c, os) /\ "adapters" \in c.given
    /\ \A i, j \in DOMAIN c.phases :
          c.phases[i].name = c.phases[j].name \/ c.phases[i].artifacts = c.phases[j].artifacts => i = j
    /\ \A i \in DOMAIN c.phases : PhaseValid(c, c.phases[i])
    /\ "restore_server_link" \in c.given => linkProfile(c.restore) # {}

loadChainConfig(c, os) == {d \in resolveChainFixtureSets(WithChainDefaults(c)) : validateChainConfig(d, os)}

\* --only; a list without a name in it selects nothing.
selectChainPhases(phases, only) ==
    IF only = <<>> THEN {phases}
    ELSE IF only[1] \subseteq {phases[i].name : i \in DOMAIN phases}
         THEN {SelectSeq(phases, LAMBDA p : p.name \in only[1])} ELSE {}

\* What newChainStack settles: the target, and for a raw stack every endpoint.
newChainStack(c, os, provider) ==
    CASE c.stack = "external" -> IF provider.tls THEN {[c EXCEPT !.target = Orelse(@, externalExecutionTarget(os))]} ELSE {}
      [] c.stack = "raw" ->
            {[c EXCEPT !.target = Orelse(@, t),
                       !.given = @ \cup {"username", "nntp_host", "nntp_port", "nntp_tls_port", "ca_file", "shaper_control_url"}] :
                t \in rawExecutionTarget(os)}
      [] OTHER -> {c}

(***************************************************************************)
(* Plans.                                                                  *)
(***************************************************************************)
\* An id is dropped at its first place only.
excludeFixtures(ids, excluded) ==
    LET first(i) == \A j \in 1..(i - 1) : ids[j] # ids[i]
        kept == SelectSeq([i \in DOMAIN ids |-> <<i, ids[i]>>], LAMBDA x : ~(x[2] \in ToSet(excluded) /\ first(x[1])))
    IN  IF excluded = <<>> THEN {ids}
        ELSE IF ToSet(excluded) \subseteq ToSet(ids) /\ kept # <<>> THEN {[i \in DOMAIN kept |-> kept[i][2]]} ELSE {}

\* Mutant: a plan for several hosts need not include the one this chain runs.
AnyTargets(specified, target) ==
    LET named == DefaultList(specified, <<Orelse(target, "docker-linux")>>)
    IN  IF ToSet(named) \subseteq ExecutionTargets THEN {named} ELSE {}

chainPlanTargets(specified, target) ==
    LET named == DefaultList(specified, <<Orelse(target, "docker-linux")>>)
    IN  IF ToSet(named) \subseteq ExecutionTargets /\ (target = "" \/ target \in ToSet(named)) THEN {named} ELSE {}

\* BuildPlan's plans of the options, with the article size they are for.
PlanFrom(options, article) ==
    {[options |-> plan.options, runs |-> plan.runs, article |-> article] : plan \in BuildPlan(options)}

\* The plan command: a list or profile that is not given is its flag's default, and
\* passes are not its business.
PlanCommand(p) ==
    LET spec == p.spec[1]
        given(list, default) == IF list = <<>> THEN default ELSE list
        options(fixtures, link, storage) ==
            [fixtures |-> fixtures, clients |-> given(spec.clients, <<"weaver", "sabnzbd", "nzbget">>),
             toolchains |-> given(spec.toolchains, <<"vanilla">>),
             transports |-> given(spec.transports, <<"plaintext", "tls">>),
             targets |-> given(spec.targets, <<"docker-linux", "macos-native", "windows-native">>),
             repetitions |-> spec.repetitions, passes |-> 0, link |-> link, storage |-> storage,
             profiles |-> <<>>, exclusions |-> spec.exclusions]
    IN  IF ~spec.profile \/ p.plan = "" \/ ~(ToSet(spec.targets) \subseteq ExecutionTargets) THEN {}
        ELSE UNION {PlanFrom(options(fixtures, link, storage), article) :
                       fixtures \in excludeFixtures(given(spec.fixtures, spec.corpus), spec.exclude),
                       link \in linkProfile(p), article \in ResolveArticleProfile(p.article),
                       storage \in ResolveStorageProfile(IF spec.storage = "" THEN "local" ELSE spec.storage, spec.nfsLink)}

\* The same for a phase, with code of its own: its targets are the chain's and an
\* interleaved leg's passes are its repetitions.
DefaultInterleavedPasses == 3
buildChainPlan(p, target) ==
    LET spec == p.spec[1]
        passes == CASE ~spec.interleaved -> 0 [] spec.passes = 0 -> DefaultInterleavedPasses [] OTHER -> spec.passes
        repetitions == IF spec.interleaved THEN passes ELSE spec.repetitions
        options(fixtures, targets, link, storage) ==
            [fixtures |-> fixtures, clients |-> DefaultList(spec.clients, <<"weaver", "sabnzbd", "nzbget">>),
             toolchains |-> DefaultList(spec.toolchains, <<"vanilla">>),
             transports |-> DefaultList(spec.transports, <<"plaintext", "tls">>),
             targets |-> targets, repetitions |-> repetitions, passes |-> passes, link |-> link, storage |-> storage,
             profiles |-> <<>>, exclusions |-> spec.exclusions]
    IN  IF ~spec.profile \/ (spec.interleaved /\ spec.repetitions \notin {0, passes}) THEN {}
        ELSE UNION {PlanFrom(options(fixtures, targets, link, storage), article) :
                       fixtures \in excludeFixtures(DefaultList(spec.fixtures, spec.corpus), spec.exclude),
                       targets \in chainPlanTargets(spec.targets, target),
                       link \in linkProfile(p), article \in ResolveArticleProfile(p.article),
                       storage \in ResolveStorageProfile(Orelse(spec.storage, "local"), spec.nfsLink)}

\* The plans on disk after the phases have built theirs.  A plan that is there
\* is left as it is, whoever wrote it; a dry run writes none.
buildChainPlans(phases, target, dryRun, disk) ==
    FoldLeft(LAMBDA acc, p :
                LET plan == buildChainPlan(p, target)
                IN  IF ~acc.ok \/ p.spec = <<>> \/ p.plan \in DOMAIN acc.disk THEN acc
                    ELSE IF plan = {} THEN [acc EXCEPT !.ok = FALSE]
                    ELSE [acc EXCEPT !.built = @ @@ (p.name :> CHOOSE x \in plan : TRUE),
                                     !.disk = IF dryRun THEN @ ELSE @ @@ (p.plan :> CHOOSE x \in plan : TRUE)],
             [ok |-> TRUE, disk |-> disk, built |-> <<>>], phases)

PlanOf(b, p) == IF p.name \in DOMAIN b.built THEN b.built[p.name] ELSE b.disk[p.plan]

\* Every fixture a phase's plan names can give the result the phase is for.
FixtureUsable(f, p, plan) ==
    /\ f.manifest
    /\ f.external <=> plan.options.link.id = "external"
    /\ ~f.small
    /\ p.baselines => f.class
    /\ f.nzb \in {0, plan.article.raw}
checkChainPhaseFixtures(phases, b, fixtures) ==
    \A i \in DOMAIN phases :
        /\ phases[i].name \in DOMAIN b.built \/ phases[i].plan \in DOMAIN b.disk
        /\ \A id \in ToSet(PlanOf(b, phases[i]).options.fixtures) : FixtureUsable(fixtures[id], phases[i], PlanOf(b, phases[i]))

\* The environment file of a phase's link; two phases under the same conditions
\* share one, and a file that says something else is refused.
\* Mutant: a custom link's file is named after its rate only.
NameOfRate(p) == <<Orelse(p.link, "unlimited"), p.egress, 0, p.rtt>>

chainServerEnvName(p) ==
    LET link == Orelse(p.link, "unlimited")
    IN  IF link = "custom" THEN <<link, p.egress, p.burst, p.rtt>> ELSE <<link, 0, 0, p.rtt>>
ServerLinkEnvironment(link) == [egress |-> link.egress, burst |-> link.burst, rtt |-> link.rtt]

\* A chain up to its first phase: the set of sessions it may become.
Session(c, w) ==
    UNION {UNION {{[config |-> s, phases |-> phases, plans |-> b] :
                      b \in {x \in {buildChainPlans(phases, s.target, w.dryRun, w.disk)} :
                                x.ok /\ checkChainPhaseFixtures(phases, x, w.fixtures)}} :
                  s \in newChainStack(d, w.os, w.provider), phases \in selectChainPhases(d.phases, w.only)} :
           d \in loadChainConfig(c, w.os)}

(***************************************************************************)
(* The execute command of a phase.                                         *)
(***************************************************************************)
\* The settings of the configuration a phase passes on as flags.
chainPhaseArgs(c) ==
    c.given \cap {"nntp_host", "nntp_port", "nntp_tls_port", "shaper_control_url", "ca_file", "username", "password_file",
                  "provider_env", "connections"}

applyProviderEnv(flags) ==
    {"nntp_host", "nntp_port", "nntp_tls_port", "ca_file", "username", "password_file", "connections", "shaper_control_url"}
        \cap flags = {}
checkProviderPlan(plan, provider) ==
    /\ \A i \in DOMAIN plan.runs :
          /\ plan.runs[i].transport = (IF provider.tls THEN "tls" ELSE "plaintext")
          /\ plan.runs[i].transport = "tls" => plan.runs[i].tls = "public_roots"
    /\ plan.options.link.id = "external"

\* The target the phase runs at.
ExecutesAt(c, plan) ==
    IF c.target = "" /\ Len(plan.options.targets) = 1 THEN plan.options.targets[1] ELSE c.target

\* RunConfig.Validate: the plan's target, endpoint, attestation and storage.
RunConfigValid(c, p, plan) ==
    LET flags == chainPhaseArgs(c)
        provider == "provider_env" \in flags
        target == ExecutesAt(c, plan)
    IN  /\ target \in ToSet(plan.options.targets)
        /\ provider \/ {"nntp_host", "username", "password_file"} \subseteq flags
        /\ Shaped(plan.options.link) => "shaper_control_url" \in flags
        /\ \A i \in DOMAIN plan.runs : plan.runs[i].tls = "ca_verified" => "ca_file" \in flags
        /\ IF plan.options.storage.kind = "nfs" THEN target = "docker-linux" /\ p.nfs = "full" ELSE p.nfs = ""

ProviderAccepts(c, plan, provider) ==
    "provider_env" \in chainPhaseArgs(c) => applyProviderEnv(chainPhaseArgs(c)) /\ checkProviderPlan(plan, provider)

execute(c, p, plan, provider) == ProviderAccepts(c, plan, provider) /\ RunConfigValid(c, p, plan)

\* A shaped session's phase: the shaper is started for the link of the phase,
\* and where a control URL is known each run is attested for that of the plan.
MeasuredBy(c, plan, shaper) ==
    "shaper_control_url" \in chainPhaseArgs(c) => LinkAttested(Snapshot(shaper, 0), plan.options.link)

(***************************************************************************)
(* Properties.                                                             *)
(***************************************************************************)
\* A session that passes its preconditions: every plan it built is of the link,
\* article size and target its phase declares and is, unless interleaved, the one
\* the plan command makes of the same lists and targets, and no such phase is refused by
\* the provider's checks or for its target; phases that share an environment
\* file share a link; no fixture of such a phase was seeded at another article
\* size than the one it declares; and a measurement is of the link of its plan,
\* also when the plan was reused, unless nothing attests it: no control URL and
\* a plan without a link.
PhasesAsDeclared(s, w) ==
    LET c == s.config
    IN  \A i \in DOMAIN s.phases :
          LET p == s.phases[i]
              plan == PlanOf(s.plans, p)
              links == linkProfile(p)
          IN  /\ p.name \in DOMAIN s.plans.built =>
                    /\ plan.options.link \in links
                    /\ plan.article \in ResolveArticleProfile(p.article)
                    /\ c.target # "" \/ Len(plan.options.targets) = 1 => ExecutesAt(c, plan) \in ToSet(plan.options.targets)
                    /\ c.stack = "external" => ProviderAccepts(c, plan, w.provider)
                    /\ plan.options.passes > 0 => c.stack = "external"
                    /\ plan.options.passes = 0 => plan \in PlanCommand([p EXCEPT !.spec[1].targets = plan.options.targets])
                    /\ NoDuplicates(DefaultList(p.spec[1].fixtures, p.spec[1].corpus)) =>
                          ToSet(plan.options.fixtures) \cap ToSet(p.spec[1].exclude) = {}
                    /\ \A id \in ToSet(plan.options.fixtures) :
                          w.fixtures[id].nzb \in {0} \cup {a.raw : a \in ResolveArticleProfile(p.article)}
              /\ \A j \in DOMAIN s.phases : chainServerEnvName(p) = chainServerEnvName(s.phases[j]) =>
                    \A a \in links, b \in linkProfile(s.phases[j]) : ServerLinkEnvironment(a) = ServerLinkEnvironment(b)
              /\ c.stack # "external" /\ execute(c, p, plan, w.provider) =>
                    \A link \in links :
                        \A shaper \in StartShaper(link, IF c.stack = "raw" THEN "userspace-delay" ELSE "netem", w.ifb, 0) :
                            MeasuredBy(c, plan, shaper) =>
                                \/ ServerLinkEnvironment(plan.options.link) = ServerLinkEnvironment(link)
                                \/ ~Shaped(plan.options.link) /\ "shaper_control_url" \notin c.given
=============================================================================
