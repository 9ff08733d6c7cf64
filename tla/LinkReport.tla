----------------------------- MODULE LinkReport -----------------------------
(***************************************************************************)
(* The round trip of a link: how the shaper renders it (the container's    *)
(* entrypoint with tc, or delay.go in the proxy itself), the report it     *)
(* serves with (nntpshaper/link.go), what it reads back for each snapshot, *)
(* and how the controller checks the report against the plan               *)
(* (benchmark/shaper_attestation.go).                                      *)
(*                                                                         *)
(* Delays are in microseconds, queues in units of 1000 bytes, rates as in  *)
(* BenchmarkPlan.                                                          *)
(***************************************************************************)
EXTENDS BenchmarkPlan

Micros(rtt) == rtt * 500
larger(a, b) == IF a > b THEN a ELSE b

NoUserspace == [handshake |-> 0, egressQueue |-> 0, ingressQueue |-> 0, platform |-> FALSE]
NotLive == [egress |-> 0, ingress |-> 0, error |-> FALSE]

(***************************************************************************)
(* Rendering.                                                              *)
(***************************************************************************)
\* The entrypoint: half the round trip each way, or all of it on the way to the
\* client where the kernel has no ifb.
EntrypointReport(rtt, rate, ifb) ==
    [rtt |-> rtt,
     egressBy |-> "netem", ingressBy |-> IF ifb THEN "ifb-netem" ELSE "none",
     egress |-> IF ifb THEN rtt - rtt \div 2 ELSE rtt,
     ingress |-> IF ifb THEN rtt \div 2 ELSE 0,
     interface |-> TRUE, device |-> ifb, kernel |-> TRUE,
     limit |-> IF rate = 0 THEN 1000000 ELSE larger(20000, rate * 125 * (rtt \div 1000) * 4),
     userspace |-> NoUserspace, live |-> NotLive]

minDelayLineCapacity == 1048
maxDelayLineCapacity == 2147483
maxPacedChunk == 16

\* Twice what is in flight; empty is the error.
DelayLineCapacityBytes(rate, delay) ==
    LET product == (rate * delay) \div 4
    IN  IF delay <= 0 \/ rate = 0 \/ product > maxDelayLineCapacity THEN {}
        ELSE {larger(product, minDelayLineCapacity)}

\* Mutant: a queue may be of any size.
AnyQueueSustains(queue, delay, rate) == TRUE

\* DelayLineCeilingBitsPerSecond is not below the rate.
Sustains(queue, delay, rate) == queue * 8 >= rate * delay

resolveQueueBytes(explicit, rate, delay) ==
    IF explicit > 0 THEN {q \in {explicit} : q >= maxPacedChunk}
    ELSE DelayLineCapacityBytes(rate, delay)

\* The report checks its own shape before anything serves it: validateNetem,
\* validateUserspace and validateDeclared of the shaper.
validateNetem(r) ==
    /\ r.interface
    /\ \/ r.ingressBy = "ifb-netem" /\ r.device /\ r.ingress # 0
       \/ r.ingressBy = "none" /\ ~r.device /\ r.ingress = 0
    /\ r.limit # 0
    /\ r.userspace = NoUserspace
validateUserspace(r) ==
    /\ r.ingressBy = "userspace-delay"
    /\ ~r.interface /\ ~r.device
    /\ r.limit = 0 /\ ~r.kernel
    /\ r.ingress # 0
    /\ r.userspace.handshake = r.rtt
    /\ r.userspace.egressQueue # 0 /\ r.userspace.ingressQueue # 0
    /\ r.userspace.platform
validateDeclared(r, rtt) ==
    /\ r.rtt = rtt
    /\ \/ r.egressBy = "netem" /\ validateNetem(r)
       \/ r.egressBy = "userspace-delay" /\ validateUserspace(r)
    /\ r.egress # 0 /\ r.egress + r.ingress = r.rtt
    /\ r.live = NotLive

SplitRTT(rtt) == [egress |-> rtt - rtt \div 2, ingress |-> rtt \div 2]

NewUserspaceLink(rtt, rate, queueBytes) ==
    LET delay == SplitRTT(rtt)
    IN  {r \in {[rtt |-> rtt, egressBy |-> "userspace-delay", ingressBy |-> "userspace-delay",
                 egress |-> delay.egress, ingress |-> delay.ingress,
                 interface |-> FALSE, device |-> FALSE, kernel |-> FALSE, limit |-> 0,
                 userspace |-> [handshake |-> rtt, egressQueue |-> out, ingressQueue |-> in, platform |-> TRUE],
                 live |-> NotLive] :
                    out \in resolveQueueBytes(queueBytes, rate, delay.egress),
                    in \in resolveQueueBytes(queueBytes, rate, delay.ingress)} :
            /\ rtt > 0
            /\ rate > 0 => Sustains(r.userspace.egressQueue, delay.egress, rate)
            /\ validateDeclared(r, rtt)}

(***************************************************************************)
(* The shaper process.                                                     *)
(***************************************************************************)
\* What runs: the schema of its snapshots, the configured link, how its round trip is
\* rendered and the delays that really apply.  No report is an empty sequence.
Shaper(link, report, actual) ==
    [schema |-> 4, egress |-> link.egress, burst |-> link.burst, rtt |-> Micros(link.rtt), report |-> report, actual |-> actual]
\* An earlier build cannot add delay and says nothing of it.
EarlierShaper(link) ==
    [Shaper(link, <<>>, [egress |-> 0, ingress |-> 0]) EXCEPT !.schema = 3, !.rtt = 0]
Actual(r) == [egress |-> r.egress, ingress |-> r.ingress]

\* main of nntpshaper, started for link: the set of processes it may become,
\* empty when it refuses to serve.  LoadLinkShapingReport reads what the
\* entrypoint wrote.
StartShaper(link, mechanism, ifb, queueBytes) ==
    IF link.rtt = 0 THEN {Shaper(link, <<>>, [egress |-> 0, ingress |-> 0])}
    ELSE {Shaper(link, <<r>>, Actual(r)) :
            r \in IF mechanism = "netem"
                  THEN {e \in {EntrypointReport(Micros(link.rtt), link.egress, ifb)} : validateDeclared(e, Micros(link.rtt))}
                  ELSE NewUserspaceLink(Micros(link.rtt), link.egress, queueBytes)}

\* tc prints three significant digits in the largest unit that fits.
Rounded(t, unit) == ((t + unit \div 2) \div unit) * unit
TCPrints(t) ==
    IF t < 1000 THEN t
    ELSE LET scale == IF t >= 1000000 THEN t \div 1000000 ELSE t \div 1000
             whole == IF t >= 1000000 THEN 1000000 ELSE 1000
         IN  Rounded(t, CASE scale >= 100 -> whole [] scale \in 10..99 -> whole \div 10 [] OTHER -> whole \div 100)

\* LiveDelays: netem is read back with tc; the proxy's own lines have seen no
\* byte yet, or report the smallest residency, which late timers only increase.
netemDelayMicros(t) == IF t = 0 THEN [error |-> TRUE, micros |-> 0] ELSE [error |-> FALSE, micros |-> TCPrints(t)]
TCLiveDelays(r, actual) ==
    LET egress == netemDelayMicros(actual.egress)
        ingress == IF r.ingressBy = "ifb-netem" THEN netemDelayMicros(actual.ingress)
                   ELSE [error |-> FALSE, micros |-> 0]
    IN  IF egress.error \/ ingress.error THEN [NotLive EXCEPT !.error = TRUE]
        ELSE [egress |-> egress.micros, ingress |-> ingress.micros, error |-> FALSE]
LiveDelays(r, actual, late) ==
    [egress |-> actual.egress + late, ingress |-> actual.ingress + late, error |-> FALSE]

Snapshot(shaper, late) ==
    [schema |-> shaper.schema, egress |-> shaper.egress, burst |-> shaper.burst, rtt |-> shaper.rtt,
     report |-> IF shaper.report = <<>> THEN <<>>
                ELSE LET r == shaper.report[1]
                     IN  <<[r EXCEPT !.live = IF r.egressBy = "netem" THEN TCLiveDelays(r, shaper.actual)
                                              ELSE LiveDelays(r, shaper.actual, late)]>>]
Degraded(snapshot) == snapshot.report # <<>> /\ snapshot.report[1].live.error

(***************************************************************************)
(* The controller.                                                         *)
(***************************************************************************)
clockSlopMicros == 100
maxResidencyOvershootMicros == 5000

delayWithinTolerance(observed, declared) ==
    LET tolerance == larger(declared \div 100, 100)
    IN  observed \in (declared - tolerance)..(declared + tolerance)
residencyWithinTolerance(observed, declared) ==
    observed \in (declared - clockSlopMicros)..(declared + larger(declared \div 20, maxResidencyOvershootMicros))

\* validateFor of the controller's mirror of the report, its own validateNetem and
\* validateUserspace included.
ReportValidFor(r, rtt) ==
    /\ r.rtt = rtt
    /\ \/ /\ r.egressBy = "netem" /\ r.interface
          /\ r.ingressBy = "ifb-netem" => r.device /\ r.ingress # 0
          /\ r.ingressBy = "none" => ~r.device /\ r.ingress = 0
          /\ r.ingressBy \in {"ifb-netem", "none"}
          /\ r.limit # 0 /\ r.userspace = NoUserspace
       \/ /\ r.egressBy = "userspace-delay" /\ r.ingressBy = "userspace-delay"
          /\ ~(r.interface \/ r.device \/ r.kernel) /\ r.limit = 0
          /\ r.ingress # 0 /\ r.userspace.handshake = r.rtt
          /\ r.userspace.egressQueue # 0 /\ r.userspace.ingressQueue # 0 /\ r.userspace.platform
    /\ r.egress # 0 /\ r.egress + r.ingress = r.rtt
    /\ ~r.live.error
    /\ IF r.egressBy = "userspace-delay"
       THEN residencyWithinTolerance(r.live.egress, r.egress) /\ residencyWithinTolerance(r.live.ingress, r.ingress)
       ELSE delayWithinTolerance(r.live.egress, r.egress) /\ delayWithinTolerance(r.live.ingress, r.ingress)

\* Mutant: a round trip of zero needs no look at the report.
RoundTripUnchecked(s, link) == link.rtt = 0 \/ (s.report # <<>> /\ ReportValidFor(s.report[1], Micros(link.rtt)))

validateRoundTripFor(s, link) ==
    IF s.schema < 4 THEN link.rtt = 0
    ELSE /\ s.rtt = Micros(link.rtt)
         /\ IF link.rtt = 0 THEN s.report = <<>>
            ELSE s.report # <<>> /\ ReportValidFor(s.report[1], Micros(link.rtt))

\* The part of ShaperSnapshot.ValidateFor that is about the link.
LinkAttested(s, link) ==
    /\ s.schema \in 2..4 /\ ~Degraded(s)
    /\ s.egress = link.egress /\ s.burst = link.burst
    /\ validateRoundTripFor(s, link)

(***************************************************************************)
(* Properties.                                                             *)
(***************************************************************************)
\* A snapshot is accepted for a plan only if the process was started for the
\* plan's conditions and the round trip that really applies is the declared one
\* within the tolerances and tc's precision; and a shaper whose delays are what
\* it declares is accepted, although it is read back through tc.
RoundTripHonest(shaper, late, link) ==
    LET s == Snapshot(shaper, late)
        intact == shaper.report = <<>> \/ shaper.actual = Actual(shaper.report[1])
        total == shaper.actual.egress + shaper.actual.ingress
        rtt == Micros(link.rtt)
    IN  /\ LinkAttested(s, link) =>
              /\ <<shaper.egress, shaper.burst, shaper.rtt>> = <<link.egress, link.burst, rtt>>
              /\ total >= rtt - larger(rtt \div 50, 200) - 1
              /\ total <= rtt + larger(rtt \div 10, 10000)
              /\ rtt = 0 => total = 0
        /\ <<shaper.egress, shaper.burst, shaper.rtt>> = <<link.egress, link.burst, rtt>> /\ intact
              /\ (late <= maxResidencyOvershootMicros \/ rtt = 0) => LinkAttested(s, link)

\* A userspace link that serves a declared rate has room for what is in flight
\* at that rate in the direction that is paced.
QueueHoldsRate(shaper) ==
    shaper.report # <<>> /\ shaper.report[1].egressBy = "userspace-delay" /\ shaper.egress > 0 =>
        shaper.report[1].userspace.egressQueue * 8 >= shaper.egress * shaper.actual.egress
=============================================================================
