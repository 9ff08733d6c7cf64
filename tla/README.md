# A TLA+ verification of usenet-bench

usenet-bench measures how fast Usenet clients download, decode and unpack a
corpus. A controller (`nntpbench`) starts a client under test through an
adapter, all of the client's NNTP traffic crosses a shaper (`nntpshaper`) that
emulates a link and counts what crosses it, the output is verified byte for
byte and the result is written as an artifact. What is hard is not the
measuring but knowing that a number belongs to one run on the declared link:
that is what the shaper's execution lease, its attestation snapshots, the
storage session and the chain's link handling are for, and what this project
is about.

## 1. Inventory

| Part | Source | State | Operations | Talks to |
|---|---|---|---|---|
| Attestation | `internal/nntpshaper/attestation.go` | lease, per-source counters, active count, command census | acquire/release lease, open/close downstream, add bytes, observe command, snapshot | proxy connections, control HTTP |
| Limiter | `internal/nntpshaper/limiter.go` | next free instant of the link | `WaitN` | every proxied connection |
| Delay line | `internal/nntpshaper/delay.go` | queue, byte count, closed, failed | Write, CloseWrite, Abort, Deliver | one producer and one consumer goroutine per direction |
| Census parser | `internal/nntpshaper/census.go` | pending prefix of a line | feed a read | upstream copy |
| Proxy | `cmd/nntpshaper/main.go` | per-connection goroutines | accept, two copies, teardown | the three above |
| Measured run | `internal/benchmark/shaper_attestation.go`, `runner.go`, `queue.go` | held flag, before and after snapshot | acquire with retries, hand back, fetch, validate the pair, release | shaper control over HTTP |
| Suite execution | `internal/benchmark/queue.go`, `storage_session.go`, `docker/nfs-server/control.sh` | what the suite holds, the artifact | open, measure, verify, delete, deferred releases, persist | docker, NFS container |
| Chain | `cmd/nntpbench/chain.go`, `internal/rawstack/stack.go` | lock, applied link, record | load, plan, check fixtures, apply, phase, record, restore, summarize | docker compose, phases as child processes |
| Link report | `internal/nntpshaper/link.go`, `docker/nntp-shaper/entrypoint.sh`, `benchmark/link.go` | none | render a link, report it, read it back, check it | `tc`, the control HTTP, the controller |
| Verification | `internal/benchmark/verify.go` | pins | match files to members, pin an external output | file system |
| Adapters | `internal/clientadapter`, `internal/nativeadapter` | container or process group, perf, registrations channel, tracked jobs | start, submit, register, poll, time out, report, stop | client APIs, docker, the kernel |
| Plan, summary | `internal/benchmark/plan.go`, `cmd/nntpbench/summarize*.go`, `pilot.go` | none | build, load, compare, aggregate, size | artifacts |
| Corpus | `internal/fixture`, `generator`, `nntp`, `uucodec`, `seedimage`, `cmd/nntpbench/attest.go` | case directories, NZBs, attestations, the server's articles, images | generate, seed, backfill, capture, restore | archivers, NNTP server, docker |
| Adversarial suite | `internal/adversarial`, `cmd/adversarial*`, `cmd/sabnzbd-case-client` | test server sessions, evidence, recorded attempts | serve, supervise, inspect, grade, compare | client under test |

The hard behaviours: connection goroutines against lease calls (attestation);
a snapshot assembled in five separate reads; clock samples taken before a lock
(limiter); two parked goroutines and one condition variable each (delay line);
HTTP calls that are lost, or executed after the caller gave up (measured run);
commands that fail after taking effect and controllers killed anywhere (suite,
chain); a record rewritten in place; a submitter and a monitor that may outlive
each other, and polls made of several requests while the client moves on
(adapter); clients, helpers and containers that outlive the adapter that
started them; a corpus assembled by commands that can each be killed half way
and repeated at another size (seeding); verdicts that have to hold whatever
part of the evidence is missing (summaries, grading). `PROJECT.json` lists every hazard at its
line with the properties that would catch it.

## 2. Modules

| Module | Models | State and actions |
|---|---|---|
| `Attestation` | the shaper's accounting | Each variable is a field of `Attestation`; each action is one critical section or one atomic operation, so `OpenDownstream`, `AddDownstreamBytes` and `Snapshot` are several actions each. `conn` is the program counter of a proxied connection. `baseline` is history: the counters when the lease was taken. |
| `AggregateLimiter` | `WaitN` | `Sampled` (clock read, no lock), `reserveChunkAt` (under the lock), `waitChunk` (timer). `granted` and `total` are history. Time is an integer clock; `durationFor` truncates as the code does. |
| `DelayLine` | one direction of a connection | Producer and consumer program counters, the queue, both condition variables (a parked goroutine is woken only by the code's Signal or Broadcast). |
| `LosslessPipe` | what a delay line promises | An unbounded FIFO that may break; `held` is what it accepted and has not delivered. `DelayLine` implements it (`PipeSpec`). |
| `Proxy` | one proxied connection | Extends `DelayLine`, which is the downstream direction; the upstream direction, an instance of the same code, is its two goroutines (relay and Deliver) without a clock: an Abort drops what is queued, not a chunk that Deliver already holds, which is still written and counted by the census. `session` is the proxy goroutine up to its deferred release. |
| `MeasuredRun` | controllers against one shaper | Extends `Attestation`; a call is executed, refused, lost, or late (`late` holds requests that their sender gave up on). |
| `Chain` | chain sessions on a host | Sessions with program counters, the lock files, the link in force, processes, the record on disk; `Kill` and a later session. |
| `SuiteRun` | `executeQueuePlan` and `executeQueueSuite` | Controllers with program counters, the NFS lease, what is left outside the controllers (`leftover`), the artifacts. |
| `QueueMonitor` | the container adapter's queue | The submitting and the monitoring goroutine with program counters, the registrations channel, one action per request and per answer of a poll; `phase` and `ended` are what the client really did and when. `ValidateFor` is the controller's check of the result. |
| `ClientLifetime` | both adapters around a client | One adapter per run with its program counter and deferred calls; per run the client's leader, helper, job, report, perf; the harness that kills an adapter anywhere and goes on to the next run. |
| `Articles` | articles, NZBs, order, faults, attestation | Operators: sizes and counts, the uuencoded cut, posting order, withheld and spliced files, the attestation and its check. |
| `Corpus` | the life of a corpus | Extends `Articles`; one command at a time (`cmd` with its program counter) over case directories, NZBs, attestations, the article store and images; kills, lost articles and the operator's repairs in between. |
| `CommandCensus` | the line parser | The incremental parser over reads of any split, against a definition over the whole stream. |
| `LinkReport` | the link of a shaper and its report | Operators: rendering by `tc` or in the proxy, queue sizes, the declared report, what is read back (as `tc` rounds it), the controller's tolerances. |
| `ChainPlan` | a chain's configuration down to what a phase executes | Operators: defaults, validation, targets, plan building and reuse, fixture checks, a phase's arguments, what `execute` refuses. |
| `BenchmarkPlan`, `ClientConfig` | from options to runs, from a run to a client's settings | Operators named after the code's functions. A resolver returns a set; empty is its error. |
| `Summaries` | artifacts to reports | Loading, evidence, strata, pairing, withholding, aggregates, the three kinds of report, pilot sizing. |
| `OutputVerification` | `verify.go` | Discovery, matching, pins, verdicts. |
| `Grading` | adversarial verdicts and the supervisor's classification | Evidence, output inspection, `Evaluate`, recorded attempts, `ComparePlan`, `runCase`. |

The last seven rows are functions of their input. `MCAlgorithms` checks them:
a state is a problem and, after one step, its answer, so that TLC's
initial states are the bounded inputs.

`AggregateLimiterProofs`, `ProxyProofs`, `MeasuredRunProofs`, `ChainProofs`,
`SuiteRunProofs`, `QueueMonitorProofs` and `ClientLifetimeProofs` extend the
module they are named after; `MeasuredRunProofs` also holds the proofs about
`Attestation`, which `MeasuredRun` extends. `Sums` has the lemmas about sums that
the first three use (section 4).

The other `MC*` modules only add symmetry and small definitions for TLC.

Data that no property tells apart is abstracted: payloads are sizes and
identities, links are names, error texts are absent, and a snapshot keeps the
fields the validators compare.

## 3. Runs

| Run | Question |
|---|---|
| `attestation` | Do admission, lease and counters agree under every interleaving, and what can a snapshot read piece by piece show? A snapshot that balances is the state of one moment. |
| `limiter` | Is the rate kept with stale clock samples and truncation? |
| `proxy` | Is a delay line a lossless pipe that delivers no byte early and parks nobody for ever, under aborts and cancellation? Does a connection count as active exactly while it can move a byte: nothing counted after its release, and a release whenever the client has ended (unless a write to a client that stopped reading blocks for ever)? |
| `measured_runs` | Is a run credited an acquisition of its own that no other run is credited, except after an eviction by a late hand-back; and is a lease stranded only where a lost or late call explains it? |
| `measured_live` | Does every run end, and is a stranded lease freed? |
| `adapter` | Does the interval recorded for a job contain the moment the client finished it; are timeouts honest; is every result one the controller accepts; does the adapter always return? |
| `client_lifetime` | What is left of a client after its run, whom does a run talk to, is the recorded outcome the client's, does a bounded lane end? |
| `chain` | Is each phase measured on its own link, is nothing left running, is the link restored, is the exit status true? |
| `suite_run` | Can a suite that left something behind be recorded as passed; is storage exclusive; is the exit status what the artifacts say? |
| `corpus` | Is what a phase accepts what was seeded and is on the server, whatever failed or was killed before; does a generation end and make what it reports? |
| `algorithms` | Is the cut of a stream invisible to the census; do interleaved passes cancel a drift; are runs executed as labelled; does a figure hide a failure and a report miss a run; is a verdict on an output or on an adversarial case exact; do articles tile their files at one size? |
| `supervised_finding` | A statement of `ADVERSARIAL.md` that the code does not keep: a changed canary stops the batch. The entry is under `findings`. |

Every property of a passing run has a mutant of the code's model that breaks
it (`mutants` in `PROJECT.json`); the mutated definitions stand before the
originals, marked "Mutant".

### Bounds

Two of everything that can conflict (leases, sources, connections, sessions,
controllers, jobs) is what every hazard listed needs; third parties only repeat
the second one's moves. `attestation`: `MaxAcquired` 2 lets a lease change
hands, `MaxOpened` 3 lets a slot be reused, `MaxBytes` and `MaxRequests` 2 make
sums and distinct counts differ, beside one snapshot reader. The limiter's
numbers are chosen so that `Rate` does not divide `Second` times a chunk, which
makes the truncation visible, and so that one write needs several chunks and
idle time exceeds the burst. `proxy`: two chunks of one or two bytes through
two bytes of queue, so that both fit or the second parks, beside one chunk of
commands upstream, queued or held by Deliver when the client fails. `chain`: one session has the
phases slow, slow, fast (keep a link, change it), the other one fast phase.
`suite_run`: two controllers with one NFS suite each, one of them with the
intermediate files on NFS too; or a plan of two NFS suites beside a local one.
`adapter`: every product, two jobs where they meet in a queue or follow each
other after a refusal; the clock is bounded by `Horizon`, which always leaves
an accepted job its timeout, and one tick of `Slack` lets a job finish before
its acceptance is read. A poll may start at any moment, so the ticker's
interval is not a parameter. `client_lifetime`: two consecutive runs, so that
the second meets what the first left, on each of the six lanes. `corpus`: a
yEnc fixture with a withheld article, which only the scattered size fits, and a
uuencoded one whose counts are equal at both sizes; every command may happen
once (a seed twice, the operator twice), which is what the cases above need:
seed, lose or reset, seed again at the other size, backfill, capture, restore.

`algorithms`: every stream of up to five bytes over five classes of bytes, and of
up to seven over a letter, a blank and a newline, cut at every place (the line
limit is three, so that an oversized line fits with a whole line before or after
it); plans of up to
four clients, two toolchains and several passes and targets; chains of two
phases whose plan paths, links, stacks and fixtures may coincide, with plans
already on disk; shapers of every rendering, round trip, rate and queue size
where the rounding, a limit or a tolerance changes the answer, under the present schema
and an earlier one; executions of one and two
repetitions with every outcome of every run and one kind of damage each, a measurement too
uncertain to compare among them; output
trees of up to three files, empty ones included, whose names and contents may
coincide, and every pin those trees can leave, whole or cut short; posts whose sizes meet, miss and exceed a whole number
of articles; observations with every outcome, check status and kind of output
tree and one flaw of the evidence each; supervised runs with every ending,
leftover and declaration. Two required checks stand for the eight.

### Fairness

`Proxy`: weak fairness of both goroutines of the delay line, of the proxy and
the upstream goroutine, and of time: goroutines that can run do run, timers
fire. Of the server (external) two things are assumed: with commands waiting it
takes one or sends something, and it hangs up after a half-close. Otherwise a
read of either socket may block for ever. Of the client nothing is assumed: there
is no write deadline, so one that keeps its socket and stops reading may hold its
connection for ever, and the properties name that case (`Stuck` in `PumpReturns`
and `PipeSpec`, `WritingToClient` in `ActiveWhileUsed`). `MeasuredRun`: the shaper assembles its answers, released
connections close (which `proxy` shows of the code), and every loop reaches its deadline. The last is strong
fairness of giving up, because the loops look at their deadline between
attempts and so are only intermittently able to end; a clock that advances
justifies it. Background release is retried, which needs weak fairness only.
No fairness is assumed of clients that keep connecting. `QueueMonitor`: both
goroutines run, calls return (the HTTP client has a timeout) and time passes;
nothing is assumed of the client, which may never finish a job.
`ClientLifetime`: the adapter's steps are taken (every wait of a bounded lane
has a deadline) and a killed perf exits; nothing of clients, of the harness or of a
failing request. `Corpus`: the generator's pool runs; the other commands are
straight-line and wait only for external programs, so nothing is claimed of
their end. `Chain`, `SuiteRun` and the algorithms have safety properties only.

## 4. Proofs

`Sums`. The byte properties are sums over sources, connections or chunks
(`SumFunction`, a fold). A fold is a `CHOOSE` of a function that satisfies a recursion on
the subsets of the domain, so nothing follows from its definition until
such a function is shown to exist. `SumExists` does that by induction on the size of the
subsets; the induction is over a set of numbers (`AllNumbers`, a least
counterexample) or of subsets (`BySize`), because an induction scheme that takes
an operator cannot be used here. From the equations follow that any element may be
taken first, that one changed value changes the sum by as much (`SumChange`), that
sums are monotone, and that the sum of differences is the difference of sums.

`MeasuredRunProofs`, part 1, proves of the shaper, for every finite set of
connections and of sources and any leases, articles and bounds: `TypeOK`,
`ActiveCountsOpen`, `LeaseCoversConnections`, `OneSourcePerLease`,
`BytesConserved`, `BalancedSnapshotIsACut`, and the action properties
`LeaseHandover` and `CountedUnderLease`. The invariant people care about,
`LeaseCoversConnections`, is not inductive: a release tests the active counter
and the source lock, not the connections. `IInv` therefore carries
`ActiveCountsOpen` (the counter is the cardinality of the open connections;
the finite-set theorems of the library give the arithmetic) and
`PendingOnOpen` (bytes are owed only on open connections). `QuietMeansFree` is
the heart: source lock free and counter zero means that nobody is connected or
half admitted. `BytesConserved` is kept step by step by `SumChange`: a delivery
adds to the total and to a connection's debt, an attribution moves it to a source.
`BalancedSnapshotIsACut` needs `CutInv`: what a reader copied of the sources sums to
no more than the total of that moment, and no total loaded later is smaller; equality
leaves room for nothing in between. Assumptions: `ConnsAssumption` and
`SourcesAssumption` (a process has finitely many sockets, and a map of client
addresses finitely many keys) and that the null values are not elements.

Part 2 is about measured runs. `UsesTheShaper` is a
refinement: every step of the composition is a step of the shaper or leaves
it alone, so all of part 1 holds of measured runs. `KInv` says who still
answers for a lease that a run has (the run, its background goroutine, or a
loss that was recorded) and gives `LeaseStrandedOnlyByLoss`; it needs the late
requests, which can take or release a lease for a run that is over. `OInv` says
that every stamp (lease, acquisition) that was ever copied, into a snapshot in
the making, a run's pair or a credit, names the lease that made that
acquisition; the witness is the list of owners so far. That alone does not make a
credit the run's own, since the code never compares the lease in a snapshot with
the one it asked for. `EInv` does: a run that was not evicted (no late hand-back
released its lease before it had its answer) has only ever copied
snapshots that name its own lease, because nobody else can take the lease from it.
It gives `CreditOwn`, and with `OInv` `CreditExclusive`: no byte for two runs
unless one of them was evicted. `LInv` is the ledger of bytes: there is a list of the
totals at which the acquisitions began, and whatever was copied under an acquisition lies
between its total and that plus what was served under it. A pair that the harness
accepts (same acquisition, balanced) therefore differs by no more than was served
(`CreditServed`); the three together are `CreditSound`.

`AggregateLimiterProofs` proves, for every rate, burst, chunk bound and clock
resolution: `TypeOK`, `Disjoint`, `PacedBetween`, `RateContract` and
`BytesPacedUpToTruncation`. The strengthening `Paced` ties the limiter's only field to
history: `next` is never behind the total reserved less one burst, and has moved on
from each earlier reservation by at least the work reserved since. In bytes,
`Truncated` adds that a chunk's duration falls short of its bytes by less than one
unit; any set of released chunks is then bounded by the send time up to its
last one (`PrefixPaced`, by induction on that last one), whatever order the callers woke
in. Assumption: `RateAssumption` (positive rate, natural sizes).

`ProxyProofs`, for any delay, capacity and chunk sizes: `FloorNotEarly`;
`LineIsLossless`, that every step of the connection is a step of `LosslessPipe`
or a stutter (the safety half of `PipeSpec`); `LineCountsBytes`, that the line's
byte counter is exact and never leaves 0..`capacityBytes`; and `QuietOnceReleased` (the
safety half of `ActiveWhileUsed`). The refinement needs `InOrder`: what is
accepted and not delivered is the chunk in flight followed by the queue, which
fails once a Deliver has returned after an Abort, so the invariant speaks of a
Deliver that still runs. The count needs `BInv`: `queued` is what was accepted
less what was delivered, plus a chunk delivered and not yet settled, and what
was delivered is the beginning of what was accepted. Both survive an Abort, after which the
dropped chunks stay counted and nothing more is accepted. `UInv` is the upstream direction's: its goroutine ends
only when its Deliver has returned, Abort or not, and the proxy joins both
directions before its release, so no chunk in hand is counted after it.

`SuiteRunProofs`, for any controllers and plans: `TypeOK`, `LeakIsFailure`,
`StorageExclusive`, `ExitTruthful`. The properties speak of artifacts on disk;
the invariant says what a suite may have left at every point before: as long as
nothing failed, whatever exists outside the controller is recorded in the suite
and a deferred call that is still to run gives it back.

`ChainProofs`, for any sessions, phases and stack: `TypeOK`,
`NothingLeftRunning`, `ExitTruthful`, and for sessions that share a log
directory (`OneLogDir`) `LinkInEffect` and `RestoredOnExit`. Without that
hypothesis the two are false: the lock is per log directory, and two sessions
with different ones change the link under each other (section 7, lock scope).
`IInv` says that a process of the raw stack runs only for a session that has it
or lost it (`Owned`, in which a server or a shaper that survived the kill after
a failed start, and was forgotten, is the session's `forgot`), that there is one
verdict per phase done (`Progress`), that only a launched stack is started, and
that a session at work has its lock. `LInv` follows the link: what the
session believes applied is in force (`LinkKnown`).

`ClientLifetimeProofs`, for any number of runs and any lane: `NothingLeftBehind`,
`OwnClient`, `RecordedOutcome`. They lean on one another: what a run may leave
decides what the next run's port check can meet, and whom a run talks to
decides whose outcome it records. A client may be left by a killed adapter, by one
that could not kill it, or by a docker command that failed; `client[q].excuse` says
which, and the invariant that a later run meets a stranger only if it was still
starting then (`LateStarter`).

`QueueMonitorProofs`, for every product, both modes, any number of runs and any
timeout: `TerminalBracketed`, `TimeoutHonest` and `ResultAccepted`. `BInv`
carries the bracket from the submission through the channel and the requests of
a poll while client and clock go on: every time noted as "still pending" is one
the client had not finished by, every outcome noted is final, and a poll about
to be applied has seen whatever was finished before it began. `RInv` says where
every run submitted so far is (with the monitor, in the channel, among the jobs
to be written), that the count is exact, and that each of those jobs is
consistent in itself. That the window's `Min` and `Max` exist is proved from the
well-foundedness of the naturals.

`ActiveCountsOpen`, `CountedUnderLease`, `Disjoint` and `ByteCountExact` are proved and
not also runs: TLC checked them while the invariants were being found, and the theorems
are stronger. All other inductive invariants were checked with TLC on the
bounds of the component's run before they were proved.

Only model-checked:

- liveness (`PumpReturns`, the second half of `ActiveWhileUsed`, the fairness of
  `PipeSpec`, `RunsEnd`, `BackgroundFrees`, `Ends`, `RunEnds`,
  `GenerationEnds`), which needs fairness and `ENABLED`;
- the properties of `algorithms`: each says what a function of its input computes
  (a parser, a plan, a report, a verdict), built from folds and sorted sequences
  over that input. That is induction over data for each of them, and `Sums`
  shows what it costs for a single fold;
- `CorpusSound`: what a seeded document contains is a fold over the files and the
  faults of a manifest, flattened and sorted, so the same holds of it, in a module
  that has as many commands as all others together.

## 5. Plan

1. Done: the shaper with the proxied connection, the measured run, the chain
   with its configuration and link reports, the suite, both adapters' queue and
   process lifetime, the corpus from generation to image, the pure algorithms
   from plan to summary and grading; eight modules of theorems, in which every safety
   property of a component with state is a theorem but for the corpus.
2. Next proofs: `GeneratedAll` and the poster's half of `AcceptedAsSeeded`, which
   need the corpus' control and no fold.
3. Left to model, if it earns its place: the raw stack's preflight and health
   polling, the adversarial responder's session, the sabnzbd case client's
   restart loop, the narrowing of an observation by the client's own log.

## 6. Not modelled, and why

Archive formats, video and repair data, recipes of adversarial cases and the
text of client configurations are data without control; where a label, a
count or a verdict depends on them, that dependence is modelled.
Floating-point statistics (bootstrap intervals) are out of TLC's reach: a
figure is modelled by the runs it is made of. The rules of `fixture/spec.go`
are checks of static records. TLS, TCP and docker are external: a call
succeeds, fails, or fails after taking effect. Host probes only copy facts into
artifacts. The sabnzbd case client drives one process sequentially and shares
no state with the rest. Clocks never step back: a run rejected because a
stepped wall clock contradicts its durations (`benchmark/queue.go:797`) is not
in the models. Nor is a raw stack whose health probe is answered by a process of
another session or one that was forgotten, which needs the ports the preflight
leaves out here. `producer` in `Corpus` stands for who wrote an attestation:
`attest` takes any `--producer`, and one that is blank is written and then
refused at every use. A data race was looked for and none found: every shared field is
under a lock or atomic.

## 7. Known deviations that no run keeps

While the models were written these statements of the repository were found
not to hold of the code. The behaviour is in the models (a late hand-back, the
torn record, the stale lease, the lost grant and so on are actions); the properties that hold
are stated so that they allow for it.

- Lost grant. `AcquireShaperExecutionLeaseForRun` says "On failure no lease is
  held" (`shaper_attestation.go:288`). `held` is set only by an acquire whose
  answer arrived (`:302`), so a grant whose answer is lost is never handed back
  when the call gives up. `LeaseStrandedOnlyByLoss` names the case.
- Late release. `AcquireShaperExecutionLeaseForRun` says "On success the lease
  is held" (`shaper_attestation.go:288`). A hand-back of an earlier attempt that
  the shaper executes after its caller gave up on it releases the lease again
  after success was reported (`:306`), and another run can take it.
  The answer to the first run's acquire may then describe the second's
  acquisition, and nothing refuses it: `mutateShaperExecutionLease` (`:415`-`:448`)
  and `ValidateFor` (`:568`) check that a lease is named, not that it is the run's
  own. The run is credited bytes that the other run is credited too. `CreditSound` names the
  eviction, and says that there is no other way.
- Census race. `shaper_attestation.go:525` reads repeats and bytes as the same
  run's; a snapshot copies the census before sources and totals
  (`attestation.go:233`), so the two differ by what crossed in between.
- Torn record. `chain.go:442` and `README.md:1594` say that an interrupted
  session leaves an accurate record; `writeChainResult` (`chain.go:1975`) truncates before it
  writes.
- Stale lease. `chain.go:1506` says that the lease a killed phase never
  returned is dropped; `releaseShaperLease` (`:1509`) makes one attempt, and its
  outcome is only logged.
- Lock scope. `chain.go:1954` keeps "two sessions from sharing one benchmark host"; the lock is per log
  directory (`:1957`).
- Discarded stop. A raw stack that fails to start is to leave nothing running, but
  `stack.go:180` and `:385` discard the error of stopping a process and forget
  it, and `rawChainStack.stop` (`chain.go:1133`) returns early. A server that
  survives its kill stays up, and no line reports it. `NothingLeftRunning` names it.
- Unkillable client. `nativeadapter/run.go:484` ignores the error of the last kill. On
  Windows, interrupt and kill are the same `taskkill` with 15 seconds
  (`process_windows.go:59`-`:78`), so what failed once may fail again; the client
  survives the adapter. `NothingLeftBehind` and `OwnClient` name the case.
- Pin. `verify.go:298`-`:301` says of small files that recording them "costs nothing".
  An empty one is pinned with its size, and `loadPinnedOutput` (`:244`) refuses a pin
  with an entry of size 0, so every later run fails, of the same output
  too. A write cut short (`:329`) leaves a torn pin that `O_EXCL` keeps, with
  the same effect. `PinAcceptsItself` states both.
- Capability gap. `ADVERSARIAL.md:193` says that a declared gap "never suppresses
  canary, inventory, escape or other review failures"; after a nonzero exit, `unsupported`
  replaces the classification and its demand for a review
  (`adversarial-supervise/main.go:540`). `SupervisedHonest` excepts it; the batch that
  goes on is the finding.
- Storage lease. `storage_session.go:169` says "Every failure path releases
  whatever it already acquired"; a lease-acquire that took effect and reported an error (`:183`) is
  never released. `LeakIsFailure` allows for it.
- Left link. `chain.go:114` says "a finished chain never leaves a rate limit or
  a latency injection behind"; the deferred restore (`:477`) is skipped while
  `applied` is empty, and an apply whose compose up succeeded and whose
  certificate copy failed leaves it empty. `RestoredOnExit` allows for it.
- Image and article size. `cmd/nntpbench/seedimage.go:71` says that an image seeded
  at 384 KiB and one seeded at 750 KiB hold different articles under different
  message ids; the template (`nyuu.go:310`) has no size in it.
- Image contents. `seedimage/fingerprint.go:4` says "A cache hit must mean the server holds
  exactly the articles"; `Capture` copies whatever the store holds, also after
  a loss, and a later capture of the intact store is a hit and does nothing.
- Backfill. `cmd/nntpbench/attest.go:25` says that the article size is proven by checking
  every posted file's segment count. Two sizes with equal counts are
  indistinguishable, and the whole NZB of a seed that failed after its poster
  (a scattered fixture at another size, whose faults were never withheld) is
  accepted. `CorpusSound` states both exceptions.
- Aggregates. A fixture excluded for both clients of a pair leaves the aggregates
  (`plan.go:107`, `summarize.go:955`) without a mark. `FiguresSound` states it.
- Canaries. `ADVERSARIAL.md:200` says the supervisor creates the fixed canary before every
  case; it is created once per batch (`adversarial-supervise/main.go:139`).
- Plan and phase. `chain.go:235` says that a plan records the link, so that "the two
  can never disagree". A plan that already exists, or that another phase wrote to
  the same path (`validateChainConfig` wants artifacts and names unique, not
  plans), is reused as it is (`:1620`); without a shaper control URL and with an
  unlimited plan nothing compares it with the phase's link. `LabelsTruthful`
  states the case.
- Article size of a phase. A phase record's article size is the phase's setting,
  while `checkChainPhaseFixtures` (`chain.go:1787`) checks the plan's.
