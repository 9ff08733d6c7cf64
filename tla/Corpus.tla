------------------------------- MODULE Corpus -------------------------------
(***************************************************************************)
(* The life of a corpus: fixturegen generates the cases, nntpbench seed    *)
(* posts them and writes their NZB and its attestation, nntpbench attest   *)
(* backfills attestations, and nntpbench seed-image captures and restores  *)
(* the seeded server.  A phase trusts what AssertNZBArticleSize accepts.   *)
(*                                                                         *)
(* One command runs at a time.  It may fail wherever its code can return   *)
(* an error, and be killed anywhere; what it wrote stays.  Between         *)
(* commands the operator removes files, resets the server or serves an     *)
(* image, and at any time the server may lose an article.                  *)
(*                                                                         *)
(* A message id names the run, the fixture, the file and the part, never   *)
(* the article size: two seeds of a run collide.  An NZB carries its       *)
(* seed's posting date, here the seed's number, so that no two seeds write *)
(* equal documents; a torn document has no files.                          *)
(***************************************************************************)
EXTENDS Articles

CONSTANTS
    Fixtures,       \* the sequence of the corpus' fixtures
    Manifest,       \* the manifest a fixture is generated with
    RunIDs, Sizes,  \* what seeds and backfills are asked for
    ImageSizes,     \* what captures and restores are asked for
    MaxWorkers,     \* the most workers the generator is asked for
    Limit           \* bounds: how often each command is started, the operator
                    \* steps in and the server loses an article

Cases == ToSet(Fixtures)
ASSUME CorpusAssumption ==
    /\ Cardinality(Cases) = Len(Fixtures) /\ Fixtures # <<>> /\ MaxWorkers \in Nat \ {0}
    /\ \A f \in Cases : newPostingPlan(Manifest[f]) # {} /\ validateNZBFileOrder(Manifest[f])
    /\ Limit \in [{"generate", "seed", "attest", "capture", "restore", "operator", "loss"} -> Nat]

VARIABLES
    dir,        \* per fixture "absent", "partial" or "complete": with its manifest
    nzb,        \* per fixture the NZB beside the manifest, a set of at most one
    attested,   \* per fixture the readable .articles.json, a set of at most one
    store,      \* the server's articles: id, and the payload size they were cut at
    images,     \* the captured images
    cmd,        \* the running command
    left,       \* what is left of each bound
    seeds,      \* history: what each seed was asked for
    finished,   \* history: the seeds that posted everything and wrote their whole NZB
    upset       \* history: the seeds whose articles were lost, reset or replaced

disk == <<dir, nzb, attested>>
ghosts == <<seeds, finished, upset>>
vars == <<disk, store, images, cmd, left, ghosts>>

Idle == [kind |-> "idle", made |-> {}]
Plan(f) == CHOOSE p \in newPostingPlan(Manifest[f]) : TRUE
Complete == {f \in Cases : dir[f] = "complete"}

Init ==
    /\ dir \in [Cases -> {"absent", "partial"}]    \* an earlier generation may have failed
    /\ nzb = [f \in Cases |-> {}] /\ attested = [f \in Cases |-> {}]
    /\ images = {} /\ store = {} /\ cmd = Idle /\ left = Limit
    /\ seeds = <<>> /\ finished = {} /\ upset = {}

Spend(kind) == left[kind] > 0 /\ left' = [left EXCEPT ![kind] = @ - 1]
Start(command) == cmd.kind = "idle" /\ Spend(command.kind) /\ cmd' = command
Operator == cmd.kind = "idle" /\ Spend("operator") /\ cmd' = Idle
Goto(label) == cmd' = [cmd EXCEPT !.at = label]
Return == cmd' = Idle

(***************************************************************************)
(* fixturegen: a pool of workers fed through an unbuffered queue.          *)
(***************************************************************************)
Generate ==
    /\ \E chosen \in {s \in SUBSET Cases : s # {}} :
          LET jobs == SelectSeq(Fixtures, LAMBDA f : f \in chosen)
          IN  \E workers \in 1..MaxWorkers :
                Start([kind |-> "generate", jobs |-> jobs, chosen |-> chosen, open |-> TRUE,
                       worker |-> [w \in 1..Min({workers, Len(jobs)}) |-> <<"ready">>],
                       err |-> FALSE, cancelled |-> FALSE])
    /\ UNCHANGED <<disk, store, images, ghosts>>

EndsQueue == cmd' = [cmd EXCEPT !.open = FALSE]

\* Mutant: the sender waits for a worker even when the pool was cancelled.
EnqueueStubborn ==
    /\ cmd.kind = "generate" /\ cmd.open
    /\ \/ \E w \in DOMAIN cmd.worker :
             /\ cmd.jobs # <<>> /\ cmd.worker[w] = <<"ready">>
             /\ cmd' = [cmd EXCEPT !.jobs = Tail(@), !.worker[w] = <<"given", Head(cmd.jobs)>>]
       \/ cmd.jobs = <<>> /\ EndsQueue
    /\ UNCHANGED <<disk, store, images, left, ghosts>>

Enqueue ==
    /\ cmd.kind = "generate" /\ cmd.open
    /\ \/ \E w \in DOMAIN cmd.worker :
             /\ cmd.jobs # <<>> /\ cmd.worker[w] = <<"ready">>
             /\ cmd' = [cmd EXCEPT !.jobs = Tail(@), !.worker[w] = <<"given", Head(cmd.jobs)>>]
       \/ cmd.jobs # <<>> /\ cmd.cancelled /\ EndsQueue
       \/ cmd.jobs = <<>> /\ EndsQueue
    /\ UNCHANGED <<disk, store, images, left, ghosts>>

\* The first error cancels the pool; every error ends its worker.
WorkerFails(w) == cmd' = [cmd EXCEPT !.worker[w] = <<"gone">>, !.err = TRUE, !.cancelled = TRUE]

GenerateCase ==
    /\ cmd.kind = "generate"
    /\ \E w \in DOMAIN cmd.worker :
       \/ /\ cmd.worker[w][1] = "given" /\ dir[cmd.worker[w][2]] # "absent"
          /\ WorkerFails(w) /\ UNCHANGED dir
       \/ /\ cmd.worker[w][1] = "given" /\ dir[cmd.worker[w][2]] = "absent"
          /\ dir' = [dir EXCEPT ![cmd.worker[w][2]] = "partial"]
          /\ cmd' = [cmd EXCEPT !.worker[w] = <<"busy", cmd.worker[w][2]>>]
       \* A tool or check fails, or removing the input fails once the manifest is written.
       \/ /\ cmd.worker[w][1] = "busy" /\ WorkerFails(w)
          /\ \E result \in {"partial", "complete"} : dir' = [dir EXCEPT ![cmd.worker[w][2]] = result]
       \/ /\ cmd.worker[w][1] = "busy"
          /\ dir' = [dir EXCEPT ![cmd.worker[w][2]] = "complete"]
          /\ cmd' = [cmd EXCEPT !.worker[w] = <<"ready">>]
       \/ /\ cmd.worker[w] = <<"ready">> /\ ~cmd.open
          /\ cmd' = [cmd EXCEPT !.worker[w] = <<"gone">>] /\ UNCHANGED dir
    /\ UNCHANGED <<nzb, attested, store, images, left, ghosts>>

GenerateReturns ==
    /\ cmd.kind = "generate" /\ ~cmd.open /\ \A w \in DOMAIN cmd.worker : cmd.worker[w] = <<"gone">>
    /\ cmd' = [Idle EXCEPT !.made = IF cmd.err THEN {} ELSE cmd.chosen]
    /\ UNCHANGED <<disk, store, images, left, ghosts>>

(***************************************************************************)
(* nntpbench seed.                                                         *)
(***************************************************************************)
PayloadOf(f, raw) == CHOOSE p \in ArticlePayloadBytes(Manifest[f].encoding, raw) : TRUE
ArticlesOf(f, run, document, payload) ==
    {[run |-> run, fixture |-> f, id |-> id, payload |-> payload] :
        id \in {i \in UNION {{document[d].segments[s].id : s \in DOMAIN document[d].segments} :
                                d \in DOMAIN document} : i[1] = "posted"}}
Posts == {<<f, raw>> \in Cases \X Sizes : ArticlePayloadBytes(Manifest[f].encoding, raw) # {}}
PostedDocument == [p \in Posts |-> PostedNZB(Manifest[p[1]], Plan(p[1]), PayloadOf(p[1], p[2]))]
Document == PostedDocument[cmd.fixture, cmd.raw]
NewNZB(document) == {[stamp |-> Len(seeds), run |-> cmd.run, document |-> document]}
SetNZB(value) == nzb' = [nzb EXCEPT ![cmd.fixture] = value]

\* A manifest is needed, and an NZB that is already there is never replaced.
Seed(f, run, raw) ==
    /\ Start([kind |-> "seed", fixture |-> f, run |-> run, raw |-> raw, at |-> "post"])
    /\ dir[f] = "complete" /\ nzb[f] = {}
    /\ ArticlePayloadBytes(Manifest[f].encoding, raw) # {}
    /\ Manifest[f].encoding = "uuencode" => Manifest[f].withheld = <<>>
    /\ seeds' = Append(seeds, [fixture |-> f, run |-> run, raw |-> raw])
    /\ UNCHANGED <<disk, store, images, finished, upset>>

\* External: articles reach the server.  One that is there is replaced, or its post is
\* refused and the poster fails; the earlier seeds that posted it otherwise are upset.
Posted(articles) ==
    /\ store' = {a \in store : \A b \in articles : <<a.run, a.fixture, a.id>> # <<b.run, b.fixture, b.id>>}
                  \cup articles
    /\ upset' = upset \cup {s \in DOMAIN seeds : \E b \in articles :
                   /\ seeds[s].run = b.run /\ seeds[s].fixture = b.fixture
                   /\ PayloadOf(b.fixture, seeds[s].raw) # b.payload}

\* Nyuu posts and writes the NZB.  When it fails some articles are posted, and the NZB
\* may be missing, torn or whole.
AllArticles == ArticlesOf(cmd.fixture, cmd.run, Document, PayloadOf(cmd.fixture, cmd.raw))
First(n) == LET before(a, b) == a.id[2] < b.id[2] \/ (a.id[2] = b.id[2] /\ a.id[3] < b.id[3])
            IN  ToSet(SubSeq(SetToSortSeq(AllArticles, before), 1, n))
\* Mutant: the poster's exit status is not looked at.
PostUnchecked ==
    /\ cmd.kind = "seed" /\ cmd.at = "post" /\ Manifest[cmd.fixture].encoding = "yenc"
    /\ \E n \in 0..Cardinality(AllArticles) : Posted(First(n))
    /\ SetNZB(NewNZB(Document)) /\ Goto("rewrite")
    /\ UNCHANGED <<dir, attested, images, left, seeds, finished>>

NyuuPosts ==
    /\ cmd.kind = "seed" /\ cmd.at = "post" /\ Manifest[cmd.fixture].encoding = "yenc"
    /\ \/ Posted(AllArticles) /\ SetNZB(NewNZB(Document)) /\ Goto("rewrite")
       \/ /\ \E n \in 0..Cardinality(AllArticles) : Posted(First(n))
          /\ \E remains \in {{}, NewNZB(<<>>), NewNZB(Document)} : SetNZB(remains)
          /\ Return
    /\ UNCHANGED <<dir, attested, images, left, seeds, finished>>

RewrittenDocument ==
    [p \in Posts |-> LET m == Manifest[p[1]]
                     IN  withholdArticles(spliceWithheldFiles(m, PostedDocument[p], Plan(p[1]), p[2]),
                                          Plan(p[1]), m.faults, p[2])]
\* Withheld volumes and articles are described by rewriting the NZB in place: first
\* truncated, then written.  A fault at another article size is an error.
Rewrite ==
    LET m == Manifest[cmd.fixture]
        rewritten == RewrittenDocument[cmd.fixture, cmd.raw]
    IN  /\ cmd.kind = "seed"
        /\ \/ /\ cmd.at = "rewrite" /\ m.withheld = <<>> /\ m.faults = <<>>
              /\ finished' = finished \cup {Len(seeds)} /\ Goto("attest") /\ UNCHANGED nzb
           \/ /\ cmd.at = "rewrite" /\ rewritten = {}
              /\ Return /\ UNCHANGED <<nzb, finished>>
           \/ /\ cmd.at = "rewrite" /\ (m.withheld # <<>> \/ m.faults # <<>>) /\ rewritten # {}
              /\ SetNZB(NewNZB(<<>>)) /\ Goto("truncated") /\ UNCHANGED finished
           \/ /\ cmd.at = "truncated" /\ \E document \in rewritten : SetNZB(NewNZB(document))
              /\ finished' = finished \cup {Len(seeds)} /\ Goto("attest")
           \/ /\ cmd.at = "truncated" /\ Return /\ UNCHANGED <<nzb, finished>>
        /\ UNCHANGED <<dir, attested, store, images, left, seeds, upset>>

\* The uuencode lane: post, read every article back, and only then write the NZB.
UUPosts ==
    /\ cmd.kind = "seed" /\ cmd.at = "post" /\ Manifest[cmd.fixture].encoding = "uuencode"
    /\ \/ Posted(AllArticles) /\ Goto("prove")
       \/ (\E n \in 0..Cardinality(AllArticles) : Posted(First(n))) /\ Return
    /\ UNCHANGED <<disk, images, left, seeds, finished>>
ProveUUPost ==
    /\ cmd.kind = "seed" /\ cmd.at = "prove"
    /\ IF AllArticles \subseteq store THEN Goto("nzb") \/ Return ELSE Return
    /\ UNCHANGED <<disk, store, images, left, ghosts>>
UUWritesNZB ==
    /\ cmd.kind = "seed" /\ cmd.at = "nzb"
    /\ \/ SetNZB(NewNZB(Document)) /\ finished' = finished \cup {Len(seeds)} /\ Goto("attest")
       \/ SetNZB(NewNZB(<<>>)) /\ Return /\ UNCHANGED finished
    /\ UNCHANGED <<dir, attested, store, images, left, seeds, upset>>

\* WriteArticleAttestation reads the NZB back; its file is truncated, then written.
WriteArticleAttestation(f, raw, producer) ==
    attested' \in {[attested EXCEPT ![f] = value] :
        value \in {{}} \cup {{[stamp |-> n.stamp, run |-> n.run, boundaries |-> a]} :
                        <<n, a>> \in UNION {{<<d, b>> : b \in articleAttestation(d.document, Manifest[f], raw, producer)} :
                                                d \in nzb[f]}}}
SeedAttests ==
    /\ cmd.kind = "seed" /\ cmd.at = "attest" /\ WriteArticleAttestation(cmd.fixture, cmd.raw, "poster")
    /\ Return /\ UNCHANGED <<dir, nzb, store, images, left, ghosts>>

(***************************************************************************)
(* nntpbench attest: the backfill.                                         *)
(***************************************************************************)
\* A manifest without its NZB stops the whole command before anything is written.
Attest(raw, force) ==
    /\ Complete # {} /\ \A f \in Complete : nzb[f] # {}
    /\ Start([kind |-> "attest", todo |-> SelectSeq(Fixtures, LAMBDA f : f \in Complete), raw |-> raw, force |-> force])
    /\ UNCHANGED <<disk, store, images, ghosts>>

\* The producer recorded is the operator's (--producer) and is only ever looked at for being
\* blank; here it says who wrote the attestation.
AttestStep ==
    /\ cmd.kind = "attest" /\ cmd.todo # <<>>
    /\ LET f == Head(cmd.todo)
           document == (CHOOSE n \in nzb[f] : TRUE).document
           kept == ~cmd.force /\ attested[f] # {}
       IN  IF kept \/ ~AssertNZBSegmentCount(document, Manifest[f], cmd.raw)
           THEN UNCHANGED attested
           ELSE IF articleAttestation(document, Manifest[f], cmd.raw, "backfill") = {}
           THEN UNCHANGED attested
           ELSE WriteArticleAttestation(f, cmd.raw, "backfill")
    /\ cmd' = [cmd EXCEPT !.todo = Tail(@)]
    /\ UNCHANGED <<dir, nzb, store, images, left, ghosts>>
AttestReturns ==
    /\ cmd.kind = "attest" /\ cmd.todo = <<>> /\ Return
    /\ UNCHANGED <<disk, store, images, left, ghosts>>

(***************************************************************************)
(* nntpbench seed-image.                                                   *)
(***************************************************************************)
\* The fingerprint covers the manifests, the run and the size; an image hits when it
\* carries the fingerprint's tag and labels, and only an older harness' would differ in those.
Computable == Complete = Cases
Hits(key) == {i \in images : i.key = key}

\* A hit is left as it is.
Capture(run, raw) ==
    /\ Computable /\ Hits([run |-> run, raw |-> raw]) = {}
    /\ Start([kind |-> "capture", key |-> [run |-> run, raw |-> raw], at |-> "articles", store |-> {}, upset |-> {}])
    /\ UNCHANGED <<disk, store, images, ghosts>>
\* The articles are staged, then the NZBs; a missing NZB or a failed build leaves no image.
CaptureStep ==
    /\ cmd.kind = "capture"
    /\ \/ /\ cmd.at = "articles" /\ UNCHANGED images
          /\ cmd' = [cmd EXCEPT !.at = "nzbs", !.store = store, !.upset = upset]
       \/ /\ cmd.at = "nzbs" /\ Return
          /\ \/ UNCHANGED images
             \/ /\ \A f \in Cases : nzb[f] # {}
                /\ images' = images \cup {[key |-> cmd.key, store |-> cmd.store,
                                           nzbs |-> nzb, upset |-> cmd.upset]}
    /\ UNCHANGED <<disk, store, left, ghosts>>

\* Only a hit is restored; an NZB that differs stops the command, and those already
\* written stay.  No attestation comes with them.
Restore(run, raw) ==
    /\ Computable
    /\ \E image \in Hits([run |-> run, raw |-> raw]) : Start([kind |-> "restore", todo |-> Fixtures, image |-> image])
    /\ UNCHANGED <<disk, store, images, ghosts>>
RestoreStep ==
    /\ cmd.kind = "restore" /\ cmd.todo # <<>>
    /\ LET f == Head(cmd.todo)
           next == cmd' = [cmd EXCEPT !.todo = Tail(@)]
       IN  \/ nzb[f] = cmd.image.nzbs[f] /\ next /\ UNCHANGED nzb
           \/ nzb[f] \notin {{}, cmd.image.nzbs[f]} /\ Return /\ UNCHANGED nzb
           \/ nzb[f] = {} /\ next /\ nzb' = [nzb EXCEPT ![f] = cmd.image.nzbs[f]]
           \/ nzb[f] = {} /\ Return
              /\ nzb' = [nzb EXCEPT ![f] = {[n EXCEPT !.document = <<>>] : n \in cmd.image.nzbs[f]}]
    /\ UNCHANGED <<dir, attested, store, images, left, ghosts>>
RestoreReturns ==
    /\ cmd.kind = "restore" /\ cmd.todo = <<>> /\ Return
    /\ UNCHANGED <<disk, store, images, left, ghosts>>

(***************************************************************************)
(* The operator, the server and a kill.                                    *)
(***************************************************************************)
RemoveNZB(f) ==
    /\ Operator /\ nzb[f] # {}
    /\ nzb' = [nzb EXCEPT ![f] = {}]
    /\ attested' \in {attested, [attested EXCEPT ![f] = {}]}
    /\ UNCHANGED <<dir, store, images, ghosts>>
RemoveCase(f) ==
    /\ Operator /\ dir[f] = "partial"
    /\ dir' = [dir EXCEPT ![f] = "absent"]
    /\ UNCHANGED <<nzb, attested, store, images, ghosts>>
\* The stack comes up with an empty store, or with an image's.
ResetServer ==
    /\ Operator /\ store # {} /\ store' = {} /\ upset' = DOMAIN seeds
    /\ UNCHANGED <<disk, images, seeds, finished>>
ServeImage(image) ==
    /\ Operator /\ store' = image.store
    /\ upset' = DOMAIN seeds \ ({n.stamp : n \in UNION {image.nzbs[f] : f \in Cases}} \ image.upset)
    /\ UNCHANGED <<disk, images, seeds, finished>>

\* The server drops an article.  A uuencoded post that is not yet proved still finds out.
Loss ==
    /\ Spend("loss")
    /\ \E a \in store :
          /\ store' = store \ {a}
          /\ upset' = upset \cup ({s \in DOMAIN seeds : seeds[s].run = a.run /\ seeds[s].fixture = a.fixture}
                                    \ IF cmd.kind = "seed" /\ cmd.at = "prove" THEN {Len(seeds)} ELSE {})
    /\ UNCHANGED <<disk, images, cmd, seeds, finished>>

Kill == cmd.kind # "idle" /\ Return /\ UNCHANGED <<disk, store, images, left, ghosts>>

Pool == Enqueue \/ GenerateCase \/ GenerateReturns
CommandStep ==
    \/ Pool
    \/ NyuuPosts \/ Rewrite \/ UUPosts \/ ProveUUPost \/ UUWritesNZB \/ SeedAttests
    \/ AttestStep \/ AttestReturns
    \/ CaptureStep \/ RestoreStep \/ RestoreReturns
Next ==
    \/ Generate \/ CommandStep
    \/ \E f \in Cases, run \in RunIDs, raw \in Sizes : Seed(f, run, raw)
    \/ \E raw \in Sizes, force \in BOOLEAN : Attest(raw, force)
    \/ \E run \in RunIDs, raw \in ImageSizes : Capture(run, raw) \/ Restore(run, raw)
    \/ \E f \in Cases : RemoveNZB(f) \/ RemoveCase(f)
    \/ ResetServer \/ (\E image \in images : ServeImage(image)) \/ Loss \/ Kill

\* The generator's goroutines run and the programs its cases start return: the other
\* commands wait for nobody but such a program, and nothing else is fair.
Spec == Init /\ [][Next]_vars /\ WF_vars(Pool)

(***************************************************************************)
(* Properties.                                                             *)
(***************************************************************************)
Accepted(f, raw) ==
    attested[f] # {} /\ \E n \in nzb[f] : AssertNZBArticleSize(n.document,
        {a.boundaries : a \in {b \in attested[f] : b.stamp = n.stamp /\ b.run = n.run}}, Manifest[f], raw)

Seeded == [p \in Posts |-> SeededNZB(Manifest[p[1]], p[2])]

\* What a phase accepts at a size (AssertNZBArticleSize) is what was seeded: the poster's
\* attestation is only found beside the NZB of a seed that finished at that size, and a
\* finished seed's NZB - attested by the poster or backfilled, kept or restored
\* from an image - withholds exactly what the manifest declares and names no article that the
\* server does not hold, cut at the size it was seeded at, unless the server lost, was
\* reset or was posted over since.  The backfill alone also accepts what a failed
\* seed left, and a size whose segment counts are those of the size seeded.
AcceptedAsSeeded ==
    \A f \in Complete, raw \in Sizes : Accepted(f, raw) =>
        \A n \in nzb[f], a \in attested[f] :
            /\ a.boundaries.producer = "poster" => n.stamp \in finished /\ seeds[n.stamp].raw = raw
            /\ n.stamp \in finished =>
                  LET seeded == seeds[n.stamp].raw
                  IN  /\ n.document \in Seeded[f, seeded]
                      /\ \A file \in ToSet(Manifest[f].archive) :
                            ExpectedSegmentCount(file.size, PayloadOf(f, raw))
                              = ExpectedSegmentCount(file.size, PayloadOf(f, seeded))
                      /\ n.stamp \notin upset =>
                            ArticlesOf(f, n.run, n.document, PayloadOf(f, seeded)) \subseteq store

\* A generation that reports no error made every case it was asked for (Generate's pool
\* drops no job unless it reports an error).
GeneratedAll == cmd.kind = "idle" => \A f \in cmd.made : dir[f] = "complete"

CorpusSound == AcceptedAsSeeded /\ GeneratedAll

\* A generation returns: its sender, its queue and its workers never wait for one another
\* for ever, whichever case fails first (Generate's select on the cancelled pool).
GenerationEnds == cmd.kind = "generate" ~> cmd.kind = "idle"
=============================================================================
