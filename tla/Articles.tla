------------------------------ MODULE Articles ------------------------------
(***************************************************************************)
(* How a fixture becomes articles and an NZB: internal/nntp (article.go,   *)
(* attestation.go, order.go, external.go, uuseed.go), internal/fixture     *)
(* (order.go, manifest.go) and the faults of internal/generator            *)
(* (repair.go, scattered.go).                                              *)
(*                                                                         *)
(* A manifest is [encoding, archive, withheld, order, faults]: files with  *)
(* a path and a size, the paths in posting order, and the withheld         *)
(* articles as <<path, offset>>.  An NZB is the sequence of its files; a   *)
(* message id is a kind ("posted", "withheld" or "missing") with the       *)
(* file's number and the part, the run and fixture it names being implied. *)
(* A resolver returns the set of what it resolves to: empty is its error.  *)
(***************************************************************************)
EXTENDS Integers, Sequences, SequencesExt, FiniteSets, FiniteSetsExt

CONSTANTS
    UUBytesPerLine,         \* payload bytes of a full uuencoded line
    ScatteredArticleBytes   \* the article size withheld articles are chosen for

ASSUME ArticlesAssumption == {UUBytesPerLine, ScatteredArticleBytes} \subseteq Nat \ {0}

(***************************************************************************)
(* Sizes.                                                                  *)
(***************************************************************************)
ArticlePayloadBytes(encoding, raw) ==
    LET carried == IF encoding = "uuencode" THEN (raw \div UUBytesPerLine) * UUBytesPerLine ELSE raw
    IN  IF carried > 0 THEN {carried} ELSE {}

\* Mutant: a file that fills its last article is given another one.
SegmentCountOverfull(size, payload) == IF size <= 0 \/ payload <= 0 THEN 0 ELSE 1 + (size \div payload)

ExpectedSegmentCount(size, payload) ==
    IF size <= 0 \/ payload <= 0 THEN 0 ELSE 1 + ((size - 1) \div payload)
RawBytes(size, payload, number) ==
    LET left == size - (number - 1) * payload IN IF left < payload THEN left ELSE payload

\* splitUUArticles: lines gathered until an article is full, the last with the rest.
splitUUArticles(size, linesPerArticle) ==
    LET starts == {n \in 0..(size - 1) : n % UUBytesPerLine = 0}
        cut(parts, offset) ==
            LET bytes == IF offset + UUBytesPerLine > size THEN size - offset ELSE UUBytesPerLine
                open == parts[Len(parts)]
                grown == [parts EXCEPT ![Len(parts)] = [open EXCEPT !.raw = @ + bytes, !.lines = @ + 1]]
            IN  IF open.lines + 1 = linesPerArticle /\ offset + bytes < size
                THEN Append(grown, [offset |-> offset + bytes, raw |-> 0, lines |-> 0]) ELSE grown
    IN  FoldLeft(cut, <<[offset |-> 0, raw |-> 0, lines |-> 0]>>, SetToSortSeq(starts, <))

(***************************************************************************)
(* Posting order and posting plan.                                         *)
(***************************************************************************)
PostedFiles(m) == m.archive \o m.withheld
Paths(files) == {files[i].path : i \in DOMAIN files}
SizeOf(m, path) == (CHOOSE f \in ToSet(PostedFiles(m)) : f.path = path).size

\* Any order passes a sequential fixture's check by being the sorted one; a
\* scattered one must not lead with the first volume nor end with all repair files.
scatteredEnough(sorted, candidate, repair) ==
    LET repairs == {i \in DOMAIN candidate : candidate[i] \in repair}
        volumes == DOMAIN candidate \ repairs
    IN  /\ Len(candidate) >= 2 /\ candidate[1] # sorted[1] /\ candidate # sorted
        /\ repairs = {} \/ volumes = {} \/ Min(repairs) < Max(volumes)
OrderedNZBFiles(order, sorted, repair) ==
    IF order = "sequential" THEN {sorted}
    ELSE {c \in SetToSeqs(ToSet(sorted)) : scatteredEnough(sorted, c, repair)}

validateNZBFileOrder(m) ==
    /\ Len(m.order) = Len(PostedFiles(m))
    /\ \A p \in ToSet(m.order) \cup Paths(PostedFiles(m)) :
          Cardinality({i \in DOMAIN m.order : m.order[i] = p})
            <= Cardinality({i \in DOMAIN PostedFiles(m) : PostedFiles(m)[i].path = p})

newPostingPlan(m) ==
    IF /\ Paths(m.archive) \cap Paths(m.withheld) = {}
       /\ Len(m.order) = Cardinality(Paths(m.archive)) + Cardinality(Paths(m.withheld))
       /\ Cardinality(ToSet(m.order)) = Len(m.order)
       /\ ToSet(m.order) \subseteq Paths(m.archive) \cup Paths(m.withheld)
       /\ m.archive # <<>>
    THEN {[order |-> m.order, posted |-> SelectSeq(m.order, LAMBDA p : p \in Paths(m.archive)),
           withheld |-> Paths(m.withheld)]}
    ELSE {}

(***************************************************************************)
(* The NZB.                                                                *)
(***************************************************************************)
Segments(kind, file, count) ==
    [part \in 1..count |-> [number |-> part, id |-> <<kind, file, part>>]]

\* External: what the posters report, one file per posted path in that order.
PostedNZB(m, plan, payload) ==
    [i \in DOMAIN plan.posted |->
        [name |-> plan.posted[i], counter |-> <<i, Len(plan.posted)>>,
         segments |-> Segments("posted", i, ExpectedSegmentCount(SizeOf(m, plan.posted[i]), payload))]]

assertNZBFileOrder(nzb, expected) ==
    Len(nzb) = Len(expected) /\ \A i \in DOMAIN nzb : nzb[i].name = expected[i]

\* The withheld volumes take their declared places and every counter is renumbered.
spliceWithheldFiles(m, nzb, plan, raw) ==
    IF plan.withheld = {} THEN nzb
    ELSE [i \in DOMAIN plan.order |->
            LET path == plan.order[i]
                before == Cardinality({j \in 1..i : plan.order[j] \notin plan.withheld})
                parts == (SizeOf(m, path) + raw - 1) \div raw
            IN  [name |-> path, counter |-> <<i, Len(plan.order)>>,
                 segments |-> IF path \notin plan.withheld THEN nzb[before].segments
                              ELSE Segments("withheld", i, IF parts < 1 THEN 1 ELSE parts)]]

\* One fault: the segment at its offset is pointed at an id nobody posted.
FaultPart(fault, raw) == (fault[2] \div raw) + 1
FaultApplies(nzb, plan, fault, raw) ==
    /\ raw = ScatteredArticleBytes /\ Len(nzb) = Len(plan.order)
    /\ fault[1] \in ToSet(plan.order) \ plan.withheld
    /\ fault[2] % raw = 0
    /\ \E i \in DOMAIN nzb : nzb[i].name = fault[1] /\ \E s \in DOMAIN nzb[i].segments :
          nzb[i].segments[s].number = FaultPart(fault, raw) /\ nzb[i].segments[s].id[1] # "missing"
withholdArticles(nzb, plan, faults, raw) ==
    LET withhold(documents, fault) ==
            {[i \in DOMAIN d |->
                IF d[i].name # fault[1] THEN d[i]
                ELSE [d[i] EXCEPT !.segments = [s \in DOMAIN @ |->
                        IF @[s].number # FaultPart(fault, raw) THEN @[s]
                        ELSE [@[s] EXCEPT !.id = <<"missing", i, FaultPart(fault, raw)>>]]]] :
                d \in {n \in documents : FaultApplies(n, plan, fault, raw)}}
    IN  FoldLeft(withhold, {nzb}, faults)

(***************************************************************************)
(* Attestation of an NZB's article boundaries.                             *)
(***************************************************************************)
AssertNZBSegmentCount(nzb, m, raw) ==
    \E payload \in ArticlePayloadBytes(m.encoding, raw) :
        /\ Paths(m.archive) \subseteq {nzb[i].name : i \in DOMAIN nzb}
        /\ \A i \in DOMAIN nzb : nzb[i].name \in Paths(m.archive) =>
              Len(nzb[i].segments) = ExpectedSegmentCount(SizeOf(m, nzb[i].name), payload)

Boundaries(nzb, m, payload) ==
    FlattenSeq([i \in DOMAIN nzb |-> [s \in DOMAIN nzb[i].segments |->
        LET segment == nzb[i].segments[s] IN
        [file |-> nzb[i].name, number |-> segment.number, id |-> segment.id,
         offset |-> (segment.number - 1) * payload,
         raw |-> RawBytes(SizeOf(m, nzb[i].name), payload, segment.number)]]])
articleAttestation(nzb, m, raw, producer) ==
    {[raw |-> raw, payload |-> payload, producer |-> producer, manifest |-> m, nzb |-> nzb,
      segments |-> Boundaries(nzb, m, payload)] :
        payload \in {p \in ArticlePayloadBytes(m.encoding, raw) :
            /\ {nzb[i].name : i \in DOMAIN nzb} \subseteq Paths(PostedFiles(m))
            /\ \A i \in DOMAIN nzb : \A s \in DOMAIN nzb[i].segments :
                  LET n == nzb[i].segments[s].number
                  IN  n >= 1 /\ (n - 1) * p < SizeOf(m, nzb[i].name)}}

ValidateFor(a, m, raw, nzb) ==
    LET files == PostedFiles(m)
        count(f) == ExpectedSegmentCount(f.size, a.payload)
    IN  /\ a.payload \in ArticlePayloadBytes(m.encoding, raw)
        /\ a.raw = raw /\ a.manifest = m /\ a.nzb = nzb
        /\ Cardinality(Paths(files)) = Len(files) /\ \A i \in DOMAIN files : files[i].size > 0
        /\ Len(a.segments) = FoldLeft(LAMBDA n, f : n + count(f), 0, files)
        /\ \A i \in DOMAIN a.segments :
              LET s == a.segments[i]
              IN  /\ s.file \in Paths(files)
                  /\ s.number \in 1..ExpectedSegmentCount(SizeOf(m, s.file), a.payload)
                  /\ s.offset = (s.number - 1) * a.payload
                  /\ s.raw = RawBytes(SizeOf(m, s.file), a.payload, s.number)
        /\ \A i, j \in DOMAIN a.segments :
              a.segments[i].file = a.segments[j].file /\ a.segments[i].number = a.segments[j].number => i = j

\* What a phase requires of a fixture; attestation is a set, empty when the file is missing.
AssertNZBArticleSize(nzb, attestation, m, raw) ==
    /\ AssertNZBSegmentCount(nzb, m, raw)
    /\ \E a \in attestation :
          a \in articleAttestation(nzb, m, raw, a.producer) /\ ValidateFor(a, m, raw, nzb)

(***************************************************************************)
(* An imported post: its files read back out of the NZB.                   *)
(***************************************************************************)
externalPostedFiles(nzb, sizes, raw) ==
    IF /\ nzb # <<>>
       /\ \A i, j \in DOMAIN nzb : nzb[i].name = nzb[j].name => i = j
       /\ \A i \in DOMAIN nzb :
             /\ sizes[i] > 0
             /\ {nzb[i].segments[s].number : s \in DOMAIN nzb[i].segments} = 1..Len(nzb[i].segments)
             /\ Len(nzb[i].segments) = ExpectedSegmentCount(sizes[i], raw)
    THEN {[i \in DOMAIN nzb |-> [path |-> nzb[i].name, size |-> sizes[i]]]} ELSE {}

(***************************************************************************)
(* The generator's faults.                                                 *)
(***************************************************************************)
\* The articles a scattered profile may withhold: full ones, never the first.
scatteredCandidates(sources) ==
    LET full == FlattenSeq([i \in DOMAIN sources |->
                    [n \in 1..(sources[i].size \div ScatteredArticleBytes) |->
                        <<sources[i].path, (n - 1) * ScatteredArticleBytes>>]])
    IN  IF full = <<>> THEN <<>> ELSE Tail(full)
\* One from each of count equal runs, wherever the draw falls in the run.
scatteredArticles(sources, perMille) ==
    LET candidates == scatteredCandidates(sources)
        count == (Len(candidates) * perMille + 999) \div 1000
        low(run) == (run * Len(candidates)) \div count
        runs == [run \in 1..count |-> (low(run - 1) + 1)..low(run)]
    IN  IF count < 1 \/ count > Len(candidates) THEN {}
        ELSE {[run \in 1..count |-> candidates[draw[run]]] :
                draw \in {d \in [1..count -> 1..Len(candidates)] : \A run \in 1..count : d[run] \in runs[run]}}

\* The volumes a heavy profile removes or withholds: from the middle, never the first.
repairTargets(sources, count) ==
    LET middle == Len(sources) \div 2
        late == IF middle + count > Len(sources) THEN Len(sources) - count ELSE middle
        start == IF late = 0 THEN 1 ELSE late
    IN  IF count < 1 \/ Len(sources) < count + 1 THEN {} ELSE {SubSeq(sources, start + 1, start + count)}

\* What the fault leaves: the posted files, the withheld ones, and the withheld
\* articles.  A light profile flips bytes, which changes no size.
applyRepairProfile(profile, missing, sources, recovery) ==
    LET without(targets) == SelectSeq(sources, LAMBDA f : f \notin ToSet(targets)) \o recovery
        post(archive, withheld, faults) == [archive |-> archive, withheld |-> withheld, faults |-> faults]
    IN  CASE profile = "clean" -> {post(sources, <<>>, <<>>)}
          [] profile = "light" -> {post(sources \o recovery, <<>>, <<>>) : t \in repairTargets(sources, 1)}
          [] profile = "heavy" -> {post(without(t), <<>>, <<>>) : t \in repairTargets(sources, missing)}
          [] profile = "heavy-withheld" -> {post(without(t), t, <<>>) : t \in repairTargets(sources, missing)}
          [] profile = "scattered" ->
                {post(sources \o recovery, <<>>, faults) : faults \in scatteredArticles(sources, missing)}

\* The manifests a case may be generated with: paths are numbers, sorted as names.
generateCase(encoding, order, profile, missing, sources, recovery) ==
    UNION {{[encoding |-> encoding, archive |-> post.archive, withheld |-> post.withheld,
             faults |-> post.faults, order |-> o] :
                o \in OrderedNZBFiles(order, SetToSortSeq(Paths(post.archive \o post.withheld), <), Paths(recovery))} :
           post \in applyRepairProfile(profile, missing, sources, recovery)}

(***************************************************************************)
(* Seeding as one step: Nyuu's NZB with the withheld files and articles.   *)
(***************************************************************************)
SeededNZB(m, raw) ==
    UNION {withholdArticles(spliceWithheldFiles(m, PostedNZB(m, plan, payload), plan, raw), plan, m.faults, raw) :
            plan \in {p \in newPostingPlan(m) : validateNZBFileOrder(m)
                          /\ (m.encoding = "uuencode" => p.withheld = {})},
            payload \in ArticlePayloadBytes(m.encoding, raw)}

(***************************************************************************)
(* Properties.                                                             *)
(***************************************************************************)
\* A fixture that a phase accepts was cut at the phase's article size and no other:
\* the boundaries it attests cover every byte of every posted and withheld file
\* once, none of them can be mistaken for another size's, an NZB with a
\* volume missing is refused, and what is refused to the client is exactly
\* the withheld files and articles the manifest declares.  A yEnc post that is
\* imported from its NZB reads back as the files it was made of.
ArticlesTile(m, raw, other) ==
    \A nzb \in SeededNZB(m, raw) : \A a \in articleAttestation(nzb, m, raw, "poster") :
        LET refused(n) == {<<n[i].name, n[i].segments[s].number>> :
                <<i, s>> \in {x \in (DOMAIN n) \X (1..20) : x[2] \in DOMAIN n[x[1]].segments
                                 /\ n[x[1]].segments[x[2]].id[1] # "posted"}}
        IN  /\ AssertNZBArticleSize(nzb, {a}, m, raw)
            /\ assertNZBFileOrder(nzb, m.order)
            /\ m.encoding = "yenc" =>
                  externalPostedFiles(nzb, [i \in DOMAIN nzb |-> SizeOf(m, m.order[i])], raw)
                    = {[i \in DOMAIN nzb |-> [path |-> m.order[i], size |-> SizeOf(m, m.order[i])]]}
            /\ other # raw => ~AssertNZBArticleSize(nzb, {a}, m, other)
            /\ ~AssertNZBArticleSize(Front(nzb), articleAttestation(Front(nzb), m, raw, "poster"), m, raw)
            /\ \A f \in ToSet(PostedFiles(m)) : \A byte \in 0..(f.size - 1) :
                  Cardinality({i \in DOMAIN a.segments : a.segments[i].file = f.path
                      /\ byte \in a.segments[i].offset..(a.segments[i].offset + a.segments[i].raw - 1)}) = 1
            /\ refused(nzb) = {<<fault[1], fault[2] \div raw + 1>> : fault \in ToSet(m.faults)}
                  \cup {<<a.segments[i].file, a.segments[i].number>> :
                            i \in {k \in DOMAIN a.segments : a.segments[k].file \in Paths(m.withheld)}}

\* The uuencode poster cuts a file where the attestation says its articles begin,
\* although it counts lines and the attestation divides sizes.
UUCutsAttested(size, raw) ==
    \A payload \in ArticlePayloadBytes("uuencode", raw) :
        LET parts == splitUUArticles(size, payload \div UUBytesPerLine)
        IN  size > 0 =>
              /\ Len(parts) = ExpectedSegmentCount(size, payload)
              /\ \A n \in DOMAIN parts : /\ parts[n].offset = (n - 1) * payload
                                         /\ parts[n].raw = RawBytes(size, payload, n)
=============================================================================
