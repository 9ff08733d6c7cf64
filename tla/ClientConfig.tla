---------------------------- MODULE ClientConfig ----------------------------
(***************************************************************************)
(* From a planned run to the configuration its client starts with:         *)
(* runner.go builds the adapter's environment, clientadapter/config.go     *)
(* and nativeadapter/config.go load and validate it, and the renderers     *)
(* (config.go, docker.go, nativeadapter/render.go) write what the client   *)
(* reads.  Of the rendered text the model keeps what a result is labelled  *)
(* with: how the server's certificate is checked, where the client's two   *)
(* directories are, and which archive tools it runs.                       *)
(***************************************************************************)
EXTENDS BenchmarkPlan

(***************************************************************************)
(* The adapter's input.                                                    *)
(***************************************************************************)
\* The volumes a storage session hands the adapter.
StorageEnvironment(storage) ==
    [complete |-> storage.kind = "nfs", incomplete |-> storage.intermediateOnNFS]

\* adapterEnvironment and LoadConfig: host says what the machine has, the
\* shape of the queue is the suite's.
Config(run, host) ==
    [client |-> run.client, toolchain |-> run.toolchain, target |-> run.target,
     transport |-> run.transport, useTLS |-> run.transport = "tls", tls |-> run.tls,
     link |-> run.link, storage |-> run.storage,
     volumes |-> StorageEnvironment(run.storage),
     caFile |-> host.caFile, certStore |-> host.certStore, rarpar |-> host.rarpar,
     os |-> host.os, mode |-> host.mode, jobs |-> host.jobs]

TLSValid(c) ==
    /\ c.useTLS <=> c.transport = "tls"
    /\ c.transport = "plaintext" => c.tls = "not_applicable"
    /\ c.transport = "tls" =>
          /\ c.tls \in ValidForTLS
          /\ c.tls = "public_roots" <=> c.link.id = "external"
          /\ c.tls = "disabled" => c.client = "sabnzbd"
          /\ c.tls = "ca_verified" => c.caFile

validateStorage(c) ==
    /\ StorageValid(c.storage)
    /\ c.storage.kind = "local" => ~c.volumes.complete /\ ~c.volumes.incomplete
    /\ c.storage.kind = "nfs" => c.volumes.complete /\ (c.storage.intermediateOnNFS <=> c.volumes.incomplete)

\* clientadapter: Config.Validate.
DockerValid(c) ==
    /\ c.client \in KnownClients
    /\ c.toolchain \in ArchiveToolchains
    /\ c.toolchain = "rarpar" => c.client \in {"sabnzbd", "nzbget"} /\ c.rarpar
    /\ c.target = "docker-linux"
    /\ TLSValid(c)
    /\ ServerLinkValid(c.link)
    /\ validateStorage(c)

\* nativeadapter: Config.Validate.
NativeValid(c) ==
    /\ c.client \in KnownClients \ {"nzbfast"}
    /\ c.toolchain = "vanilla"
    /\ \/ c.target = "macos-native" /\ c.os = "darwin"
       \/ c.target = "windows-native" /\ c.os = "windows"
    /\ TLSValid(c)
    /\ ServerLinkValid(c.link)
    /\ StorageValid(c.storage) /\ c.storage.kind = "local"
    /\ c.client = "nzbget" /\ c.transport = "tls" /\ c.tls = "public_roots" => c.certStore
    /\ c.mode = "sequential" /\ c.jobs = 1

Accepted(c) == IF c.target = "docker-linux" THEN DockerValid(c) ELSE NativeValid(c)

(***************************************************************************)
(* Rendering.                                                              *)
(***************************************************************************)
\* Weaver and nzbfast verify against the roots they ship unless they are
\* handed a CA certificate, which NeedsCAMount puts in their container.
NeedsCAMount(c) == c.transport = "tls" /\ c.tls = "ca_verified"
renderWeaver(c) ==
    [encrypt |-> c.useTLS,
     trust |-> IF ~c.useTLS THEN "nothing" ELSE IF NeedsCAMount(c) THEN "lab_ca" ELSE "public_roots",
     unrar |-> "own", par2 |-> "own"]

\* Mutant: verification stays off whatever the plan says.
sabnzbdNeverVerifies(validation) == 0

sabnzbdSSLVerify(validation) == IF validation = "public_roots" THEN 3 ELSE 0
renderSABnzbd(c) ==
    [encrypt |-> c.useTLS,
     trust |-> IF c.useTLS /\ sabnzbdSSLVerify(c.tls) = 3 THEN "public_roots" ELSE "nothing",
     \* the toolchain directory comes first on PATH
     unrar |-> c.toolchain, par2 |-> c.toolchain]

renderNZBGet(c) ==
    [encrypt |-> c.useTLS,
     trust |-> CASE c.useTLS /\ c.tls = "ca_verified" -> "lab_ca"
                 [] c.useTLS /\ c.tls = "public_roots" -> "public_roots"
                 [] OTHER -> "nothing",
     \* PAR2 is built in; only UnrarCmd can be replaced
     unrar |-> c.toolchain, par2 |-> "own"]

renderNZBFast(c) == renderWeaver(c)

RenderProductConfig(c) ==
    CASE c.client = "weaver" -> renderWeaver(c)
      [] c.client = "sabnzbd" -> renderSABnzbd(c)
      [] c.client = "nzbget" -> renderNZBGet(c)
      [] c.client = "nzbfast" -> renderNZBFast(c)

\* The tools the result says Rarpar stands in for.
archiveToolchainIdentity(c) ==
    IF c.toolchain # "rarpar" THEN {} ELSE IF c.client = "nzbget" THEN {"unrar"} ELSE {"unrar", "par2"}

\* Where each directory of the client is, as <<filesystem, mount>>: one bind of
\* the host's downloads directory, or a mount for each.
downloadMounts(c) ==
    IF ~c.volumes.incomplete /\ ~c.volumes.complete
    THEN [incomplete |-> <<"host", "downloads">>, complete |-> <<"host", "downloads">>]
    ELSE [incomplete |-> <<IF c.volumes.incomplete THEN "nfs" ELSE "host", "incomplete">>,
          complete |-> <<IF c.volumes.complete THEN "nfs" ELSE "host", "complete">>]
\* nzbfast writes into the completion directory from the start.
DirectoriesOf(c) == IF c.client = "nzbfast" THEN {"complete"} ELSE {"incomplete", "complete"}
\* A final move inside one mount is a rename; across two it is a copy.
FinalMove(c) ==
    IF DirectoriesOf(c) = {"complete"} \/ downloadMounts(c).incomplete = downloadMounts(c).complete
    THEN "rename" ELSE "copy"

(***************************************************************************)
(* Properties.                                                             *)
(***************************************************************************)
\* A result says how the server's certificate was checked, and the client it
\* started checks it exactly so; the archive tools it names are those it runs.  A saved plan can name a policy SABnzbd does
\* not render (ca_verified); BuildPlan never does, so its plans have no
\* exception, and each of their runs that a machine of its target with the
\* trust files in place is asked to execute is accepted, but nzbfast's native ones.
LabelTruthful(plan, default, host) ==
    \A i \in DOMAIN plan.runs :
        LET run == plan.runs[i]
            c == Config(run, host)
            rendered == RenderProductConfig(c)
            label == CASE run.transport = "plaintext" -> "plaintext"
                       [] run.tls = "disabled" -> "nothing"
                       [] run.tls = "ca_verified" -> "lab_ca"
                       [] run.tls = "public_roots" -> "public_roots"
        IN  /\ default /\ host.caFile /\ host.certStore /\ host.rarpar /\ host.mode = "sequential"
               /\ host.os = (CASE run.target = "docker-linux" -> "linux"
                               [] run.target = "macos-native" -> "darwin"
                               [] run.target = "windows-native" -> "windows")
               => Accepted(c) \/ (run.client = "nzbfast" /\ run.target # "docker-linux")
            /\ Accepted(c) =>
                 \/ label = "plaintext" /\ ~rendered.encrypt
                 \/ rendered.encrypt /\ rendered.trust = label
                 \/ ~default /\ run.client = "sabnzbd" /\ run.tls = "ca_verified"
            /\ Accepted(c) => archiveToolchainIdentity(c) = {t \in {"unrar", "par2"} : rendered[t] = "rarpar"}

\* A client's directories lie on the NFS export exactly as the storage profile of
\* its result says, and on local disk every client's final move is a rename.
StorageAsLabelled(plan, host) ==
    \A i \in DOMAIN plan.runs :
        LET c == Config(plan.runs[i], host)
        IN  Accepted(c) /\ c.target = "docker-linux" =>
              /\ "incomplete" \in DirectoriesOf(c) =>
                    (downloadMounts(c).incomplete[1] = "nfs" <=> c.storage.intermediateOnNFS)
              /\ downloadMounts(c).complete[1] = "nfs" <=> c.storage.completeOnNFS
              /\ c.storage.kind = "local" => FinalMove(c) = "rename"
=============================================================================
