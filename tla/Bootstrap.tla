----------------------------- MODULE Bootstrap ------------------------------
(***************************************************************************)
(* sqsh-bootstrap installs sqshd on a host over ssh (bootstrap/mod.rs), a  *)
(* sequence of commands any one of which may fail, with or without its     *)
(* effect; then it can be run again, perhaps with another port. On the     *)
(* host, the service manager starts the service that bootstrap installs,   *)
(* and starts it again when it fails; the service and the                  *)
(* --emit-fingerprint of bootstrap share the files of HostIdentity. On the *)
(* client, bootstrap and sqsh share the file of KnownHosts.                *)
(***************************************************************************)
EXTENDS Naturals

CONSTANTS
    Logins,      \* the ssh user of bootstrap: "root" or "other", who has sudo
    Ports,       \* the ports sqshd may be set up on
    Ids, Absent, Empty, NoPort,
    MaxRuns,     \* bounds: how often bootstrap is run,
    MaxReleases, \* how many releases are published
    MaxCrashes,  \* how often the service is killed
    Failing      \* whether commands of bootstrap may fail

ASSUME BootstrapAssumption ==
    /\ Logins \subseteq {"root", "other"} /\ NoPort \notin Ports
    /\ MaxRuns \in Nat /\ MaxReleases \in Nat /\ MaxCrashes \in Nat
    /\ Failing \in BOOLEAN

VARIABLES
    \* the host
    binary,    \* /usr/local/bin/sqshd: a release, or 0
    conf,      \* the port in /etc/sqsh/sqshd.toml, or NoPort
    unit,      \* the unit of the service is installed
    wanted,    \* the service manager keeps the service up
    listed,    \* authorized_keys has the key of the client
    bound,     \* the port the service read from its configuration
    crashes,
    \* the releases
    latest, fetched,  \* the last release; what bootstrap downloaded, and keeps
    \* the client
    login, seed, run, port, pc,  \* run: runs so far; port, pc: of this run
    missed,    \* this run took a service that runs for one that does not
    \* HostIdentity and KnownHosts
    cert, key, step, keyOf, certOf, made, served, emitted,
    pins, at, copy

H == INSTANCE HostIdentity WITH Servers <- {"service"}, Emitters <- {"emit"}
K == INSTANCE KnownHosts WITH Users <- {"bootstrap", "sqsh"}, Names <- Ports,
                              Prints <- Ids, NoPin <- Absent

ASSUME IdentitiesAssumption == H!IdentityAssumption

host == <<binary, conf, unit, wanted, listed>>
service == <<bound, crashes>>
release == <<latest, fetched>>
client == <<login, seed, run, port, missed>>
identity == <<cert, key, step, keyOf, certOf, made, served, emitted>>
pinning == <<pins, at, copy>>
vars == <<host, service, release, client, pc, identity, pinning>>

Parts == {"archive", "sums", "signature"}
Releases == 1 .. MaxReleases
Forged == MaxReleases + 1  \* what is downloaded, and belongs to no release
NothingFetched == [a \in Parts |-> 0]

Init ==
    /\ binary = 0 /\ conf = NoPort /\ unit = FALSE /\ wanted = FALSE /\ listed = FALSE
    /\ bound = NoPort /\ crashes = 0
    /\ latest = 1 /\ fetched = NothingFetched
    /\ login \in Logins /\ seed = "absent" /\ run = 0 /\ port = NoPort /\ pc = "idle"
    /\ missed = FALSE
    /\ H!Init /\ K!Init

Goto(l) == pc' = l
AtRest == pc \in {"idle", "failed", "done"}

(***************************************************************************)
(* The run of bootstrap.                                                   *)
(***************************************************************************)
Begin ==
    /\ AtRest /\ run < MaxRuns
    /\ run' = run + 1
    /\ \E p \in Ports : port' = p
    /\ missed' = FALSE
    /\ Goto("detect")
    /\ UNCHANGED <<host, service, release, login, seed, identity, pinning>>

\* A release that is there already is not replaced; if the command that looks
\* for it fails, it is taken to be missing.
Detect ==
    /\ pc = "detect"
    /\ \/ binary # 0 /\ Goto("conf")
       \/ (binary = 0 \/ Failing) /\ Goto("archive")
    /\ UNCHANGED <<host, service, release, client, identity, pinning>>

\* The three assets are downloaded one after the other, each from the release
\* that is the latest at that time; a download may be forged.
Download(a, next) ==
    /\ pc = a
    /\ \/ fetched' = [fetched EXCEPT ![a] = latest]
       \/ Failing /\ fetched' = [fetched EXCEPT ![a] = Forged]
    /\ Goto(next)
    /\ UNCHANGED <<host, service, latest, client, identity, pinning>>

Downloads ==
    Download("archive", "sums") \/ Download("sums", "signature")
        \/ Download("signature", "verify")

\* Faulty variant: the archive is not compared with its checksum.
VerifiedSumsOnly ==
    fetched["signature"] = fetched["sums"] /\ fetched["signature"] # Forged

\* The signature is that of the checksums, and the archive has the checksum
\* that they list. Nobody forges a signature of the release key.
Verified ==
    /\ fetched["signature"] = fetched["sums"] /\ fetched["signature"] # Forged
    /\ fetched["archive"] = fetched["sums"]

InstallBinary ==
    /\ pc = "verify" /\ Verified
    /\ binary' = fetched["archive"] /\ fetched' = NothingFetched
    /\ Goto("conf")
    /\ UNCHANGED <<conf, unit, wanted, listed, service, latest, client, identity, pinning>>

\* /etc/sqsh belongs to root, and to nobody else (chmod 700).
WriteConf ==
    /\ pc = "conf"
    /\ conf' = port
    /\ Goto("seed")
    /\ UNCHANGED <<binary, unit, wanted, listed, service, release, client, identity, pinning>>

\* The key of the client is read, or made in a new file.
EnsureSeed ==
    /\ pc = "seed"
    /\ \/ seed = "absent" /\ seed' = "empty" /\ Goto("writeSeed")
       \/ seed = "empty" /\ Goto("failed") /\ UNCHANGED seed
       \/ seed = "whole" /\ Goto("list") /\ UNCHANGED seed
    /\ UNCHANGED <<host, service, release, login, run, port, missed, identity, pinning>>

WriteSeed ==
    /\ pc = "writeSeed"
    /\ seed' = "whole"
    /\ Goto("list")
    /\ UNCHANGED <<host, service, release, login, run, port, missed, identity, pinning>>

InstallKey ==
    /\ pc = "list"
    /\ listed' = TRUE
    /\ Goto("running")
    /\ UNCHANGED <<binary, conf, unit, wanted, service, release, client, identity, pinning>>

\* pgrep -x sqshd: the service, or an --emit-fingerprint of an earlier run. If
\* the command fails, nothing is taken to run.
Running == \E p \in H!Procs : step[p] # "idle"

CheckRunning ==
    /\ pc = "running"
    /\ \/ Running /\ Goto("restart") /\ UNCHANGED missed
       \/ ~Running /\ Goto("unit") /\ UNCHANGED missed
       \/ Running /\ Failing /\ Goto("unit") /\ missed' = TRUE
    /\ UNCHANGED <<host, service, release, login, seed, run, port, identity, pinning>>

InstallUnit ==
    /\ pc = "unit"
    /\ unit' = TRUE
    /\ Goto("enable")
    /\ UNCHANGED <<binary, conf, wanted, listed, service, release, client, identity, pinning>>

\* Faulty variant: systemctl enable, without --now.
EnableOnly ==
    /\ pc = "enable"
    /\ Goto("fetch")
    /\ UNCHANGED <<host, service, release, client, identity, pinning>>

\* systemctl enable --now: the service will be started. One that runs is left
\* alone.
Enable ==
    /\ pc = "enable"
    /\ wanted' = TRUE
    /\ Goto("fetch")
    /\ UNCHANGED <<binary, conf, unit, listed, service, release, client, identity, pinning>>

\* Faulty variant: a service that runs is left alone.
RestartNot ==
    /\ pc = "restart"
    /\ Goto("fetch")
    /\ UNCHANGED <<host, service, release, client, identity, pinning>>

\* systemctl restart: a service that runs is stopped, and then started. (Here
\* an sqshd runs only where the unit is installed.)
Restart ==
    /\ pc = "restart"
    /\ wanted' = TRUE
    /\ H!Stop("service") \/ (step["service"] = "idle" /\ UNCHANGED identity)
    /\ Goto("fetch")
    /\ UNCHANGED <<binary, conf, unit, listed, service, release, client, pinning>>

\* sqshd --emit-fingerprint runs as the ssh user, who must be able to read
\* the configuration. (One that an earlier run left behind ends first.)
Fetch ==
    /\ pc = "fetch" /\ step["emit"] = "idle"
    /\ IF login = "root"
       THEN H!Start("emit") /\ Goto("wait")
       ELSE Goto("failed") /\ UNCHANGED identity
    /\ UNCHANGED <<host, service, release, client, pinning>>

Fetched ==
    /\ pc = "wait"
    /\ \/ /\ step["emit"] = "up" /\ H!Stop("emit")
          /\ K!Pin("bootstrap", port, certOf["emit"])
          /\ Goto("pin")
       \/ step["emit"] = "idle" /\ Goto("failed") /\ UNCHANGED <<identity, pinning>>
    /\ UNCHANGED <<host, service, release, client>>

Pinned ==
    /\ pc = "pin"
    /\ \/ K!Save("bootstrap") /\ UNCHANGED pc
       \/ at["bootstrap"] = "trusting" /\ K!Leave("bootstrap") /\ Goto("done")
    /\ UNCHANGED <<host, service, release, client, identity>>

Bootstrap ==
    \/ Detect \/ Downloads \/ InstallBinary \/ WriteConf \/ EnsureSeed \/ WriteSeed
    \/ InstallKey \/ CheckRunning \/ InstallUnit \/ Enable \/ Restart
    \/ Fetch \/ Fetched \/ Pinned

\* A command fails, or bootstrap is killed. What it ran on the host goes on.
Fails ==
    /\ Failing /\ ~AtRest
    /\ Goto("failed")
    /\ fetched' = NothingFetched
    /\ K!Leave("bootstrap") \/ (at["bootstrap"] = "idle" /\ UNCHANGED pinning)
    /\ UNCHANGED <<host, service, latest, client, identity>>

\* The archive, the checksums and the signature do not belong together.
Unverified ==
    /\ pc = "verify" /\ ~Verified
    /\ Goto("failed") /\ fetched' = NothingFetched
    /\ UNCHANGED <<host, service, latest, client, identity, pinning>>

(***************************************************************************)
(* The host, the client and the releases.                                  *)
(***************************************************************************)

\* The service manager starts the service; it reads the configuration first.
ServiceStarts ==
    /\ wanted /\ H!Start("service")
    /\ bound' = conf
    /\ UNCHANGED <<host, crashes, release, client, pc, pinning>>

HostWorks(p) ==
    /\ H!Work(p)
    /\ UNCHANGED <<host, service, release, client, pc, pinning>>

ProcessDies ==
    /\ crashes < MaxCrashes /\ \E p \in H!Procs : H!Stop(p)
    /\ crashes' = crashes + 1
    /\ UNCHANGED <<host, bound, release, client, pc, pinning>>

\* An --emit-fingerprint that bootstrap no longer waits for.
EmitEnds ==
    /\ pc # "wait" /\ step["emit"] = "up" /\ H!Stop("emit")
    /\ UNCHANGED <<host, service, release, client, pc, pinning>>

\* sqsh connects, and compares the fingerprint with the pin.
Connects ==
    /\ step["service"] = "up"
    /\ K!Verify("sqsh", bound, certOf["service"])
    /\ UNCHANGED <<host, service, release, client, pc, identity>>

ClientWorks ==
    /\ K!Save("sqsh") \/ K!Leave("sqsh")
    /\ UNCHANGED <<host, service, release, client, pc, identity>>

NewRelease ==
    /\ latest < MaxReleases
    /\ latest' = latest + 1
    /\ UNCHANGED <<host, service, fetched, client, pc, identity, pinning>>

Next ==
    \/ Begin \/ Bootstrap \/ Fails \/ Unverified
    \/ ServiceStarts \/ (\E p \in H!Procs : HostWorks(p)) \/ ProcessDies \/ EmitEnds
    \/ Connects \/ ClientWorks \/ NewRelease

Spec == Init /\ [][Next]_vars

\* The host runs its processes, and the service manager starts the service
\* again (Restart=on-failure, KeepAlive). Bootstrap and sqsh may stop.
FairSpec ==
    Spec /\ WF_vars(ServiceStarts) /\ \A p \in H!Procs : WF_vars(HostWorks(p))

-----------------------------------------------------------------------------
\* A host is never seen with two identities (HostIdentity).
OneIdentity == H!OneIdentity

\* "later access can use sqsh directly over QUIC" (docs/tooling.md): sqsh does
\* not refuse the host, whichever runs of bootstrap pinned its fingerprint
\* under whichever port, and whatever failed; unless the first start of the
\* service raced an --emit-fingerprint, and lost its certificate to it.
RefusedOnlyIfBroken == at["sqsh"] = "refusing" => H!Broken

\* However many runs it took, and whatever they skipped because it was there
\* already: when bootstrap is done, a verified release is installed, the
\* configuration and the service that runs are those of the last run, and
\* the client's key is whole and listed. (Where the command failed that looks
\* for a running service, one goes on with the configuration it had.)
DoneMeansReady ==
    pc = "done" =>
        /\ binary \in Releases /\ unit /\ wanted
        /\ conf = port /\ (step["service"] # "idle" /\ ~missed => bound = port)
        /\ seed = "whole" /\ listed

\* After bootstrap is done the service comes up, unless the files of its
\* identity were broken by a race.
ServiceComesUp ==
    pc = "done" ~> (step["service"] = "up" \/ H!Broken)

\* "For a target host, bootstrap performs the following sequence: ... emits
\* the server certificate fingerprint, pins that fingerprint"
\* (docs/tooling.md): it does so when all its commands work and nothing dies.
UndisturbedRunFinishes == (~Failing /\ crashes = 0) => pc # "failed"
=============================================================================
