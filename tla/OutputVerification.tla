------------------------- MODULE OutputVerification -------------------------
(***************************************************************************)
(* internal/benchmark/verify.go: a client's output tree against a          *)
(* fixture's oracle, and the pin that the first finished run of an         *)
(* external post leaves for the later ones.                                *)
(*                                                                         *)
(* A file is [path, size, digest], its path a sequence of components;      *)
(* components are numbers, so that paths sort as the code sorts them, and  *)
(* those below 10 begin with a dot.  A digest names a file's bytes.        *)
(***************************************************************************)
EXTENDS Integers, Sequences, SequencesExt, FiniteSets, FiniteSetsExt

minimumPinnedFileBytes == 2
Hidden(component) == component < 10
weaverOutputMarker == 1
nzbFastManifest == 2
Bookkeeping == [weaver |-> weaverOutputMarker, nzbfast |-> nzbFastManifest]

Base(file) == Last(file.path)
PathLess(p, q) ==
    \E n \in 0..Len(q) : /\ n <= Len(p) /\ SubSeq(p, 1, n) = SubSeq(q, 1, n) /\ n < Len(q)
                         /\ n = Len(p) \/ p[n + 1] < q[n + 1]
discoverFiles(output) == SetToSortSeq(output, LAMBDA a, b : PathLess(a.path, b.path))

\* Mutant: a file may satisfy any number of members.
verifyExpectedReused(expected, candidates, used) ==
    LET hits == {i \in DOMAIN candidates : candidates[i].size = expected.size
                    /\ candidates[i].digest = expected.digest}
    IN  IF hits = {} THEN {} ELSE {candidates[Min(hits)]}

\* The first unused candidate with the expected bytes.
verifyExpectedFile(expected, candidates, used) ==
    LET hits == {i \in DOMAIN candidates : /\ candidates[i].path \notin used
                    /\ candidates[i].size = expected.size /\ candidates[i].digest = expected.digest}
    IN  IF hits = {} THEN {} ELSE {candidates[Min(hits)]}

(***************************************************************************)
(* Members of the oracle.                                                  *)
(***************************************************************************)
Start == [ok |-> TRUE, used |-> {}, sidecars |-> {}, small |-> {}, repair |-> {}]
Fail(state) == [state EXCEPT !.ok = FALSE]

\* Exact base name first, then any file; a nested member keeps its topology
\* below the client's own directory unless the oracle is a pin.
MatchExpected(all, pinned, state, expected) ==
    LET named == verifyExpectedFile(expected, SelectSeq(all, LAMBDA f : Base(f) = Base(expected)), state.used)
        found == IF named # {} THEN named ELSE verifyExpectedFile(expected, all, state.used)
        placed(f) == pinned \/ Len(expected.path) = 1 \/ IsSuffix(expected.path, f.path)
    IN  IF state.ok /\ \E f \in found : placed(f)
        THEN [state EXCEPT !.used = @ \cup {f.path : f \in found}] ELSE Fail(state)

(***************************************************************************)
(* What may be left besides them.                                          *)
(***************************************************************************)
\* A client's own file, in its exact form, in the root or a job directory.
isClientBookkeeping(client, f) ==
    /\ client \in DOMAIN Bookkeeping /\ Base(f) = Bookkeeping[client]
    /\ Len(f.path) <= 2 /\ f.digest = client

allowedRetainedSidecars(m) == SelectSeq(m.archive, LAMBDA f : f.path \in m.sidecars)
allowedRetainedRepairMaterial(m) ==
    IF m.source = {} THEN <<>> ELSE SelectSeq(m.archive, LAMBDA f : f.path \notin m.source)

SameBytes(f, g) == f.size = g.size /\ f.digest = g.digest
\* The first allowed file, not yet taken, that the candidate may stand for.
FirstOf(allowed, taken, f, byName) ==
    LET hits == {i \in DOMAIN allowed : /\ allowed[i].path \notin taken /\ SameBytes(allowed[i], f)
                                        /\ byName => Base(allowed[i]) = Base(f)}
    IN  IF hits = {} THEN {} ELSE {allowed[Min(hits)].path}

MatchRetained(m, client, small, state, f) ==
    LET sidecar == FirstOf(allowedRetainedSidecars(m), {}, f, TRUE)
        member == FirstOf(small, state.small, f, FALSE)
        posted == FirstOf(allowedRetainedRepairMaterial(m), state.repair, f, TRUE)
        used == [state EXCEPT !.used = @ \cup {f.path}]
    IN  IF ~state.ok \/ f.path \in state.used THEN state
        ELSE IF isClientBookkeeping(client, f) THEN used
        ELSE IF sidecar # {}
             THEN IF sidecar \cap state.sidecars # {} THEN Fail(state)
                  ELSE [used EXCEPT !.sidecars = @ \cup sidecar]
        ELSE IF member # {} THEN [used EXCEPT !.small = @ \cup member]
        ELSE IF posted # {} THEN [used EXCEPT !.repair = @ \cup posted]
        ELSE Fail(state)

(***************************************************************************)
(* Pinning.  A pin is [files, small]; the set of pins is empty or one.  A  *)
(* pin whose write was cut short decodes to nothing.                       *)
(***************************************************************************)
TornPin == [files |-> <<>>, small |-> <<>>]

\* How far writing the pin gets: not as far as creating it, not all of it, not the close, done.
PinWrites == {"none", "torn", "unclosed", "done"}

\* Mutant: whatever the pin's file decodes to is taken for an oracle.
AnyPinLoads(pin) == TRUE

\* loadPinnedOutput refuses a pin without files, or with an empty one.
PinLoads(pin) == pin.files # <<>> /\ \A f \in ToSet(pin.files \o pin.small) : f.size > 0

pinOutput(m, all, write) ==
    LET extracted == SelectSeq(all, LAMBDA f :
                        /\ Base(f) \notin {Base(p) : p \in ToSet(m.archive)} /\ ~Hidden(Base(f)))
        big == SelectSeq(extracted, LAMBDA f : f.size >= minimumPinnedFileBytes)
    IN  IF big = <<>> \/ write = "none" THEN {}
        ELSE IF write = "torn" THEN {TornPin}
        ELSE {[files |-> big, small |-> SelectSeq(extracted, LAMBDA f : f.size < minimumPinnedFileBytes)]}

\* The verdict and the pins after it.
VerifyClientOutput(m, pins, output, regular, client, write) ==
    LET all == discoverFiles(output)
        external == m.expected = <<>> /\ m.external
        pin == CHOOSE p \in pins : TRUE
        oracle == IF external THEN pin.files ELSE m.expected
        small == IF external THEN pin.small ELSE <<>>
        matched == FoldLeft(LAMBDA s, e : MatchExpected(all, external, s, e), Start, oracle)
        final == FoldLeft(LAMBDA s, f : MatchRetained(m, client, small, s, f), matched, all)
    IN  IF ~regular THEN [ok |-> FALSE, pins |-> pins]
        ELSE IF external /\ pins = {}
             THEN LET pinned == pinOutput(m, all, write)
                  IN  [ok |-> pinned # {} /\ write = "done", pins |-> pinned]
        ELSE IF external /\ ~PinLoads(pin) THEN [ok |-> FALSE, pins |-> pins]
        ELSE [ok |-> final.ok, pins |-> pins]

(***************************************************************************)
(* Properties.                                                             *)
(***************************************************************************)
\* How many of the files have the bytes of f.
Copies(files, f) == Cardinality({g \in files : SameBytes(f, g)})
TimesIn(s, f) == Cardinality({i \in DOMAIN s : SameBytes(f, s[i])})

\* An accepted output holds every member of the oracle as often as the oracle names
\* it, and nothing else but posted sidecars, recovery files, small members and the
\* client's own file, each at most once for each time it was posted; a nested
\* member is where it belongs, and a pin cut short vouches for nothing.  A client that
\* writes exactly the members, in the root or in one directory, is accepted, in
\* whatever order the oracle names them, unless the pin recorded an empty file.
VerifiedIsExact(m, pins, output, regular, client) ==
    LET verdict == VerifyClientOutput(m, pins, output, regular, client, "done")
        pinned == m.expected = <<>> /\ m.external
        oracle == IF pinned THEN UNION {ToSet(p.files) : p \in pins} ELSE ToSet(m.expected)
        names == IF pinned THEN FlattenSeq(SetToSeq({p.files : p \in pins})) ELSE m.expected
        extra == allowedRetainedSidecars(m) \o allowedRetainedRepairMaterial(m)
                    \o FlattenSeq(SetToSeq({p.small : p \in pins}))
        own == {f \in output : isClientBookkeeping(client, f)}
        nest(d) == {[f EXCEPT !.path = d \o @] : f \in oracle}
    IN  /\ verdict.ok /\ ~(pinned /\ pins = {}) =>
             /\ oracle # {}
             /\ \A e \in oracle : Copies(output, e) >= TimesIn(names, e)
             /\ \A f \in output \ own : Copies(output \ own, f) <= TimesIn(names, f) + TimesIn(extra, f)
             /\ ~pinned => \A e \in oracle : Len(e.path) > 1 =>
                   \E f \in output : SameBytes(e, f) /\ IsSuffix(e.path, f.path)
        /\ /\ regular /\ oracle # {} /\ output \in {nest(<<>>), nest(<<50>>)}
           /\ \A p \in pins : \A f \in ToSet(p.small) : f.size > 0
           => verdict.ok

\* The first finished run's output (pinOutput) is an oracle it satisfies itself.  Not so if the
\* client kept a posted file or a hidden one, which are no part of a pin and fail every later
\* run, so that the verdict depends on who finished first; nor if it wrote an empty file, which
\* the pin records (verify.go:300-311) and its loader refuses (verify.go:244).  A first
\* run that could not finish the write is refused, and a write cut short accepts nothing.
PinAcceptsItself(m, output, client, write) ==
    LET first == VerifyClientOutput(m, {}, output, TRUE, client, write)
        again == VerifyClientOutput(m, first.pins, output, TRUE, client, "done")
        plain == \A f \in output : /\ Base(f) \notin {Base(p) : p \in ToSet(m.archive)}
                                  /\ ~Hidden(Base(f)) /\ f.size > 0
    IN  m.external => /\ first.ok => write = "done" /\ (plain => again.ok)
                      /\ write = "torn" => ~again.ok
=============================================================================
