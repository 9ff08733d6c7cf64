--------------------------- MODULE BenchmarkPlan ---------------------------
(***************************************************************************)
(* internal/benchmark/plan.go with the profiles a plan names (link.go,     *)
(* storage.go, target.go): from the options of `nntpbench plan` to the     *)
(* runs, and what a saved plan must satisfy when it is loaded again.       *)
(*                                                                         *)
(* A resolver returns the set of what it resolves to: empty is its error.  *)
(* Rates are in units of 1 Gbit/s and bursts in units of 1 MiB, so that    *)
(* the named links are 1 and 10 units; delays are in half milliseconds.    *)
(***************************************************************************)
EXTENDS Integers, Sequences, SequencesExt, FiniteSets, FiniteSetsExt

KnownClients == {"weaver", "sabnzbd", "nzbget", "nzbfast"}
ExecutionTargets == {"docker-linux", "macos-native", "windows-native"}
ArchiveToolchains == {"vanilla", "rarpar"}
Millisecond == 2
MinServerRTT == Millisecond
MaxServerRTT == 5000 * Millisecond

(***************************************************************************)
(* Server links and storage profiles.                                      *)
(***************************************************************************)
LinkScope(id) == IF id = "external" THEN "external_provider" ELSE "server_aggregate_egress"
Link(id, egress, burst, rtt) ==
    [id |-> id, scope |-> LinkScope(id), egress |-> egress, burst |-> burst, rtt |-> rtt]
NamedRate == [n \in {"1gbit", "10gbit"} |-> IF n = "1gbit" THEN 1 ELSE 10]

resolveServerLinkRate(id, egress, burst) ==
    LET given == <<egress, burst>>
    IN  CASE id \in {"unlimited", "external"} -> IF given = <<0, 0>> THEN {Link(id, 0, 0, 0)} ELSE {}
          [] id \in DOMAIN NamedRate ->
                IF given \in {<<0, 0>>, <<NamedRate[id], 1>>} THEN {Link(id, NamedRate[id], 1, 0)} ELSE {}
          [] id = "custom" -> IF egress > 0 /\ burst > 0 THEN {Link(id, egress, burst, 0)} ELSE {}
          [] OTHER -> {}

ValidateServerRTT(rtt) == rtt = 0 \/ (rtt \in MinServerRTT..MaxServerRTT /\ rtt % Millisecond = 0)

ResolveServerLinkProfile(id, egress, burst, rtt) ==
    {[link EXCEPT !.rtt = rtt] :
        link \in {l \in resolveServerLinkRate(id, egress, burst) :
                      ValidateServerRTT(rtt) /\ (l.id = "external" => rtt = 0)}}

ServerLinkValid(p) ==
    LET custom == p.id = "custom"
    IN  p \in ResolveServerLinkProfile(p.id, IF custom THEN p.egress ELSE 0,
                                       IF custom THEN p.burst ELSE 0, p.rtt)
Shaped(link) == link.egress > 0 \/ link.rtt > 0

NamedNFSLinks == {"nas-100mbit", "nas-1gbit", "nas-2.5gbit"}
DefaultStorageProfile ==
    [id |-> "local", kind |-> "local", nfsLink |-> "none", intermediateOnNFS |-> FALSE, completeOnNFS |-> FALSE]
ResolveStorageProfile(id, nfsLink) ==
    CASE id = "local" -> IF nfsLink = "none" THEN {DefaultStorageProfile} ELSE {}
      [] id \in {"nfs-all", "nfs-complete"} /\ nfsLink \in NamedNFSLinks ->
            {[id |-> id, kind |-> "nfs", nfsLink |-> nfsLink,
              intermediateOnNFS |-> id = "nfs-all", completeOnNFS |-> TRUE]}
      [] OTHER -> {}
StorageValid(p) == p \in ResolveStorageProfile(p.id, p.nfsLink)
validateStorageProfileTargets(p, targets) ==
    StorageValid(p) /\ (p.kind = "nfs" => ToSet(targets) \subseteq {"docker-linux"})

(***************************************************************************)
(* Options.                                                                *)
(***************************************************************************)
archiveToolchainAllowed(client, toolchain, target) ==
    \/ toolchain = "vanilla"
    \/ toolchain = "rarpar" /\ target = "docker-linux" /\ client \in {"sabnzbd", "nzbget"}

\* The lanes of one target, clients in their declared order.
benchmarkLanes(clients, toolchains, target) ==
    FlattenSeq([i \in DOMAIN clients |->
        SelectSeq([j \in DOMAIN toolchains |-> [client |-> clients[i], toolchain |-> toolchains[j]]],
                  LAMBDA lane : archiveToolchainAllowed(lane.client, lane.toolchain, target))])

ValidForTLS == {"ca_verified", "disabled", "public_roots"}
DefaultClientProfiles(clients) ==
    [i \in DOMAIN clients |-> [client |-> clients[i],
        tls |-> IF clients[i] = "sabnzbd" THEN "disabled" ELSE "ca_verified"]]
PublicRootsClientProfiles(clients) ==
    [i \in DOMAIN clients |-> [client |-> clients[i], tls |-> "public_roots"]]

\* BuildPlan's defaults for the client profiles.
WithDefaults(o) ==
    IF o.profiles # <<>> THEN o
    ELSE [o EXCEPT !.profiles = IF o.link.id = "external" THEN PublicRootsClientProfiles(o.clients)
                                                          ELSE DefaultClientProfiles(o.clients)]

validateClientProfiles(clients, profiles) ==
    /\ Len(profiles) = Len(clients)
    /\ \A i, j \in DOMAIN profiles : profiles[i].client = profiles[j].client => i = j
    /\ \A i \in DOMAIN profiles : profiles[i].tls \in ValidForTLS
    /\ ToSet(clients) \subseteq {profiles[i].client : i \in DOMAIN profiles}

Excluded(o, client, fixture) ==
    \E i \in DOMAIN o.exclusions : o.exclusions[i].client = client /\ o.exclusions[i].fixture = fixture

validateClientExclusions(o) ==
    /\ \A i \in DOMAIN o.exclusions :
          o.exclusions[i].client \in ToSet(o.clients) /\ o.exclusions[i].fixture \in ToSet(o.fixtures)
    /\ \A i, j \in DOMAIN o.exclusions : o.exclusions[i] = o.exclusions[j] => i = j
    /\ \A fixture \in ToSet(o.fixtures) : \E client \in ToSet(o.clients) : ~Excluded(o, client, fixture)

NoDuplicates(s) == Cardinality(ToSet(s)) = Len(s)

validateOptions(o) ==
    /\ \A s \in {o.fixtures, o.clients, o.toolchains, o.transports, o.targets} : s # <<>> /\ NoDuplicates(s)
    /\ o.repetitions >= 1
    /\ o.passes > 0 => o.passes = o.repetitions /\ o.link.id = "external"
    /\ ServerLinkValid(o.link)
    /\ ToSet(o.targets) \subseteq ExecutionTargets
    /\ validateStorageProfileTargets(o.storage, o.targets)
    /\ validateClientProfiles(o.clients, o.profiles)
    /\ validateClientExclusions(o)
    /\ ToSet(o.clients) \subseteq KnownClients
    /\ "vanilla" \in ToSet(o.toolchains) /\ ToSet(o.toolchains) \subseteq ArchiveToolchains
    /\ ToSet(o.transports) \subseteq {"plaintext", "tls"}

(***************************************************************************)
(* Building a plan.                                                        *)
(***************************************************************************)
clientProfileFor(o, client) ==
    (CHOOSE i \in DOMAIN o.profiles : o.profiles[i].client = client)

Run(o, round, lane) ==
    [fixture |-> round.fixture, client |-> lane.client, toolchain |-> lane.toolchain,
     transport |-> round.transport, target |-> round.target, rep |-> round.rep,
     tls |-> IF round.transport = "tls" THEN o.profiles[clientProfileFor(o, lane.client)].tls
             ELSE "not_applicable",
     link |-> o.link, storage |-> o.storage]

\* The rounds in the order the loops produce them.  An interleaved plan sorts
\* them by pass; any other plan shuffles rounds and lanes with its seed, and
\* the order below is one of those it may come out in: nothing reads it back.
Rounds(o) ==
    LET round(p, f, t, g) == [rep |-> p, fixture |-> o.fixtures[f], transport |-> o.transports[t], target |-> o.targets[g]]
    IN  FlattenSeq([p \in 1..o.repetitions |->
            FlattenSeq([f \in DOMAIN o.fixtures |->
                FlattenSeq([t \in DOMAIN o.transports |->
                    [g \in DOMAIN o.targets |-> round(p, f, t, g)]])])])

\* Mutant: every pass runs the lanes in the declared order.
LanesForward(o, round) == benchmarkLanes(o.clients, o.toolchains, round.target)

\* Pass 1 forward, pass 2 reversed, pass 3 forward ...
LanesOf(o, round) ==
    LET lanes == benchmarkLanes(o.clients, o.toolchains, round.target)
    IN  IF o.passes > 0 /\ round.rep % 2 = 0 THEN Reverse(lanes) ELSE lanes

Schedule(o) ==
    LET rounds == Rounds(o)
        runs(round) ==
            LET lanes == SelectSeq(LanesOf(o, round), LAMBDA lane : ~Excluded(o, lane.client, round.fixture))
            IN  [i \in DOMAIN lanes |-> Run(o, round, lanes[i])]
    IN  FlattenSeq([i \in DOMAIN rounds |-> runs(rounds[i])])

\* validateInterleavedOrder and the rest of Plan.Validate for a plan that is
\* o with its runs: what LoadPlan accepts.
ExpectedRuns(o) ==
    LET lanes(target) == benchmarkLanes(o.clients, o.toolchains, target)
        planned(target) == {x \in (DOMAIN lanes(target)) \X ToSet(o.fixtures) :
                                ~Excluded(o, lanes(target)[x[1]].client, x[2])}
    IN  MapThenSumSet(LAMBDA target : Cardinality(planned(target)), ToSet(o.targets))
            * Len(o.transports) * o.repetitions
RunValid(o, run) ==
    /\ run.rep \in 1..o.repetitions /\ run.link = o.link /\ run.storage = o.storage
    /\ run.target \in ToSet(o.targets) /\ run.fixture \in ToSet(o.fixtures)
    /\ run.client \in ToSet(o.clients) /\ run.transport \in ToSet(o.transports)
    /\ ~Excluded(o, run.client, run.fixture)
    /\ archiveToolchainAllowed(run.client, run.toolchain, run.target)
    /\ run.toolchain \in ToSet(o.toolchains)
    /\ run.tls = IF run.transport = "plaintext" THEN "not_applicable"
                 ELSE o.profiles[clientProfileFor(o, run.client)].tls
    /\ run.transport = "tls" => (run.tls = "public_roots" <=> o.link.id = "external")
PlanValid(o, runs) ==
    /\ validateOptions(o)
    /\ Len(runs) = ExpectedRuns(o)
    /\ o.passes > 0 => runs = Schedule(o)
    /\ \A i \in DOMAIN runs : RunValid(o, runs[i])
    /\ NoDuplicates(runs)

\* The set of plans BuildPlan may return: empty when it reports an error.
BuildPlan(options) ==
    LET o == WithDefaults(options)
    IN  {[options |-> o, runs |-> runs] :
            runs \in {s \in (IF validateOptions(o) THEN {Schedule(o)} ELSE {}) : PlanValid(o, s)}}

(***************************************************************************)
(* Properties.                                                             *)
(***************************************************************************)
\* An interleaved plan cancels a monotone drift to first order: over a pass and
\* the reversed pass after it, every lane of a fixture has run as late in the
\* session, in sum, as every other lane of it that ran.
DriftCancels(plan) ==
    LET runs == plan.runs
        same(x, y) == [runs[x] EXCEPT !.rep = 0] = [runs[y] EXCEPT !.rep = 0]
        block(x) == <<runs[x].rep, runs[x].fixture, runs[x].transport, runs[x].target>>
        pairs == {<<a, b>> \in (DOMAIN runs) \X (DOMAIN runs) :
                    runs[a].rep % 2 = 1 /\ runs[b].rep = runs[a].rep + 1 /\ same(a, b)}
    IN  plan.options.passes > 0 =>
            \A p, q \in pairs : block(p[1]) = block(q[1]) => p[1] + p[2] = q[1] + q[2]
=============================================================================
