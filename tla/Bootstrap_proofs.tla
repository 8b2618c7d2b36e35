-------------------------- MODULE Bootstrap_proofs --------------------------
(***************************************************************************)
(* Theorems about a host that is set up, for any number of runs, ports,    *)
(* releases and crashes.                                                   *)
(*                                                                         *)
(* Whatever bootstrap, the service manager and sqsh do to a host, and      *)
(* however often they fail, the files of its identity go through nothing   *)
(* but the steps of HostIdentity (StepIdentity); so what is proved of that *)
(* module holds of the host. A run finds done what the steps before it do, *)
(* in this run or in an earlier one (InOrder), and a service that runs has *)
(* read a configuration that was written (Supervised). A program that pins *)
(* a fingerprint got it from the host (PinsKnown); where sqsh refuses the  *)
(* host, what was printed there and what clients were shown differ         *)
(* (Differ), which HostIdentity allows only after a race.                  *)
(***************************************************************************)
EXTENDS Bootstrap, TLAPS

HP == INSTANCE HostIdentity_proofs WITH Servers <- {"service"}, Emitters <- {"emit"}

\* A step of the host, of bootstrap or of a client is a step of HostIdentity,
\* or leaves the identity alone.
LEMMA StepIdentity == [Next]_vars => [HP!Next]_(HP!vars)
<1> SUFFICES ASSUME [Next]_vars PROVE [HP!Next]_(HP!vars)
    OBVIOUS
<1>1. HP!Procs = H!Procs /\ "service" \in H!Procs /\ "emit" \in H!Procs
    BY DEF HP!Procs, H!Procs
<1>2. ASSUME NEW p \in H!Procs, H!Start(p) \/ H!Work(p) \/ H!Stop(p)
      PROVE  HP!Next
    <2>1. H!Start(p) => HP!Start(p)
        BY DEF H!Start, HP!Start, H!Goto, HP!Goto, H!held, HP!held, H!files, HP!files, H!shown, HP!shown
    <2>2. H!Stop(p) => HP!Stop(p)
        BY DEF H!Stop, HP!Stop, H!Goto, HP!Goto, H!held, HP!held, H!files, HP!files, H!shown, HP!shown
    <2>3. H!Work(p) => HP!Work(p)
        BY DEF H!Work, HP!Work, H!ReadKey, HP!ReadKey, H!ReadCert, HP!ReadCert, H!OpenCert, HP!OpenCert,
               H!FillCert, HP!FillCert, H!CreateKey, HP!CreateKey, H!FillKey, HP!FillKey,
               H!Usable, HP!Usable, H!Up, HP!Up, H!Goto, HP!Goto, H!held, HP!held, H!files, HP!files,
               H!shown, HP!shown
    <2> QED
        BY <1>1, <1>2, <2>1, <2>2, <2>3 DEF HP!Next
<1>3. ASSUME UNCHANGED identity PROVE UNCHANGED HP!vars
    BY <1>3 DEF identity, HP!vars, HP!files, HP!held, HP!shown
<1>4. ASSUME Bootstrap
      PROVE  \/ UNCHANGED identity
             \/ \E p \in H!Procs : H!Start(p) \/ H!Stop(p)
    BY <1>1, <1>4
        DEF Bootstrap, Detect, Downloads, Download, InstallBinary, WriteConf, EnsureSeed, WriteSeed,
            InstallKey, CheckRunning, InstallUnit, Enable, Restart, Fetch, Fetched, Pinned
<1>5. ASSUME ServiceStarts \/ ProcessDies \/ EmitEnds \/ \E p \in H!Procs : HostWorks(p)
      PROVE  \E p \in H!Procs : H!Start(p) \/ H!Work(p) \/ H!Stop(p)
    BY <1>1, <1>5 DEF ServiceStarts, ProcessDies, EmitEnds, HostWorks
<1>6. ASSUME Begin \/ Fails \/ Unverified \/ Connects \/ ClientWorks \/ NewRelease \/ UNCHANGED vars
      PROVE  UNCHANGED identity
    BY <1>6 DEF Begin, Fails, Unverified, Connects, ClientWorks, NewRelease, vars
<1> QED
    BY <1>2, <1>3, <1>4, <1>5, <1>6 DEF Next

LEMMA InitIdentity == Init => HP!Init
BY DEF Init, H!Init, HP!Init, H!Procs, HP!Procs

\* The host that bootstrap sets up is a host of HostIdentity.
THEOREM IdentityRefined == Spec => HP!Spec
BY InitIdentity, StepIdentity, PTL DEF Spec, HP!Spec

\* Clients are never shown two identities of a host, however often it is set
\* up, whatever fails on the way, and whatever races a start of its service.
THEOREM IdentityIsUnique == Spec => []OneIdentity
<1>1. HP!IdentityAssumption
    BY IdentitiesAssumption DEF H!IdentityAssumption, HP!IdentityAssumption
<1>2. HP!Spec => []HP!OneIdentity
    BY <1>1, HP!IdentityIsUnique
<1>3. HP!OneIdentity => OneIdentity
    BY DEF OneIdentity, H!OneIdentity, HP!OneIdentity
<1> QED
    BY <1>2, <1>3, IdentityRefined, PTL

(***************************************************************************)
(* What a finished run of bootstrap leaves behind. The labels of a run,    *)
(* from the last to the first: those that come after a step has its effect. *)
(***************************************************************************)
Fetching == {"fetch", "wait", "pin", "done"}
Starting == {"unit", "enable"} \cup Fetching
KeyListed == {"running", "restart"} \cup Starting
Seeded == {"list"} \cup KeyListed
Configured == {"seed", "writeSeed"} \cup Seeded
Downloaded == {"conf"} \cup Configured

Typed ==
    /\ step = [p \in H!Procs |-> step[p]]
    /\ binary \in {0} \cup Releases /\ latest \in 1 .. Forged
    /\ fetched = [a \in Parts |-> fetched[a]] /\ fetched["archive"] \in 0 .. Forged
    /\ port \in Ports \cup {NoPort} /\ (pc # "idle" => port \in Ports)

\* What each step of a run finds done by the steps before it, in this run or
\* in an earlier one.
InOrder ==
    /\ pc \in {"sums", "signature", "verify"} => fetched["archive"] # 0
    /\ pc \in Downloaded => binary \in Releases
    /\ pc \in Configured => conf = port
    /\ pc \in Seeded => seed = "whole"
    /\ pc \in KeyListed => listed
    /\ pc \in {"restart", "enable"} \cup Fetching => unit
    /\ pc \in Fetching => wanted

\* A service, or an --emit-fingerprint, runs only where the service was wanted,
\* and that is after the configuration was written. A run that goes on to the
\* unit found no service, or one that reads the configuration of this run.
Supervised ==
    /\ wanted => unit /\ conf \in Ports
    /\ \A p \in H!Procs : step[p] # "idle" => wanted
    /\ step["service"] # "idle" => bound \in Ports
    /\ step["service"] # "idle" /\ ~missed /\ pc \in Starting => bound = port

Ready == Typed /\ InOrder /\ Supervised

LEMMA InitReady == Init => Ready
<1> SUFFICES ASSUME Init PROVE Ready
    OBVIOUS
<1>1. 1 \in 1 .. Forged /\ 0 \in 0 .. Forged
    BY BootstrapAssumption DEF Forged
<1>2. /\ pc = "idle" /\ binary = 0 /\ latest = 1 /\ fetched = [a \in Parts |-> 0]
      /\ ~wanted /\ port = NoPort /\ step = [p \in H!Procs |-> "idle"]
    BY DEF Init, H!Init, NothingFetched
<1>3. "service" \in H!Procs
    BY DEF H!Procs
<1>4. Typed
    BY <1>1, <1>2 DEF Typed, Parts
<1>5. InOrder
    BY <1>2 DEF InOrder, Downloaded, Configured, Seeded, KeyListed, Starting, Fetching
<1>6. Supervised
    BY <1>2, <1>3 DEF Supervised
<1> QED
    BY <1>4, <1>5, <1>6 DEF Ready

\* A run downloads a release, or something forged.
LEMMA StepDownload ==
    ASSUME Ready, Detect \/ Downloads \/ InstallBinary
    PROVE  Ready'
<1> USE DEF Ready, host, service, release, client, identity, pinning, Goto,
            Downloaded, Configured, Seeded, KeyListed, Starting, Fetching
<1>0. Forged \in Nat \ {0} /\ Releases \cup {Forged} = 1 .. Forged
    BY BootstrapAssumption DEF Forged, Releases
<1>1. CASE Detect
    BY <1>1 DEF Detect, Typed, InOrder, Supervised
<1>2. CASE Downloads
    <2>1. PICK a \in Parts, l \in {"sums", "signature", "verify"} :
            /\ pc' = l /\ pc = a
            /\ \E r \in 1 .. Forged : fetched' = [fetched EXCEPT ![a] = r]
            /\ UNCHANGED <<host, service, latest, client, identity, pinning>>
        <3>1. ASSUME NEW a \in Parts, NEW l, Download(a, l)
              PROVE  /\ pc' = l /\ pc = a
                     /\ \E r \in 1 .. Forged : fetched' = [fetched EXCEPT ![a] = r]
                     /\ UNCHANGED <<host, service, latest, client, identity, pinning>>
            BY <1>0, <3>1 DEF Download, Typed
        <3> QED
            BY <1>2, <3>1 DEF Downloads, Parts
    <2>2. fetched'["archive"] \in 1 .. Forged
        BY <1>0, <2>1 DEF Typed, InOrder, Parts
    <2>3. fetched' = [x \in Parts |-> fetched'[x]]
        BY <2>1 DEF Typed
    <2>4. Typed'
        <3>1. fetched'["archive"] \in 0 .. Forged /\ pc # "idle"
            BY <1>0, <2>1, <2>2 DEF Parts
        <3> QED
            BY <2>1, <2>3, <3>1 DEF Typed
    <2>5. InOrder' /\ Supervised'
        <3>1. fetched'["archive"] # 0
            BY <1>0, <2>2
        <3> QED
            BY <2>1, <3>1 DEF InOrder, Supervised
    <2> QED
        BY <2>4, <2>5
<1>3. CASE InstallBinary
    <2>1. fetched["archive"] \in Releases
        BY <1>0, <1>3 DEF InstallBinary, Verified, Typed, InOrder
    <2> QED
        BY <1>0, <1>3, <2>1 DEF InstallBinary, NothingFetched, Typed, InOrder, Supervised, Parts
<1> QED
    BY <1>1, <1>2, <1>3

\* The other commands that leave the processes of the host alone.
LEMMA StepCommand ==
    ASSUME Ready,
           WriteConf \/ EnsureSeed \/ WriteSeed \/ InstallKey \/ CheckRunning \/ InstallUnit
               \/ Enable \/ Pinned
    PROVE  Ready'
<1> USE DEF Ready, host, service, release, client, identity, pinning, Goto,
            Downloaded, Configured, Seeded, KeyListed, Starting, Fetching
<1>1. CASE WriteConf
    BY <1>1 DEF WriteConf, Typed, InOrder, Supervised
<1>2. CASE EnsureSeed \/ WriteSeed \/ InstallKey
    BY <1>2 DEF EnsureSeed, WriteSeed, InstallKey, Typed, InOrder, Supervised
<1>3. CASE CheckRunning
    <2>1. "service" \in H!Procs
        BY DEF H!Procs
    <2>2. Running => unit
        BY DEF Running, Supervised
    <2>3. pc' = "unit" => missed' \/ step["service"] = "idle"
        BY <1>3, <2>1 DEF CheckRunning, Running
    <2> QED
        BY <1>3, <2>2, <2>3 DEF CheckRunning, Typed, InOrder, Supervised
<1>4. CASE InstallUnit \/ Enable
    BY <1>4 DEF InstallUnit, Enable, Typed, InOrder, Supervised
<1>5. CASE Pinned
    BY <1>5 DEF Pinned, Typed, InOrder, Supervised
<1> QED
    BY <1>1, <1>2, <1>3, <1>4, <1>5

LEMMA StepAside ==
    ASSUME Ready, Begin \/ Fails \/ Unverified \/ Connects \/ ClientWorks \/ NewRelease \/ UNCHANGED vars
    PROVE  Ready'
<1> USE DEF Ready, host, service, release, client, identity, pinning, Goto,
            Downloaded, Configured, Seeded, KeyListed, Starting, Fetching
<1>1. CASE Begin
    BY <1>1 DEF Begin, Typed, InOrder, Supervised
<1>2. CASE Fails \/ Unverified
    <2>1. fetched'["archive"] \in 0 .. Forged /\ fetched' = [a \in Parts |-> fetched'[a]]
        BY <1>2, BootstrapAssumption DEF Fails, Unverified, NothingFetched, Parts, Forged
    <2> QED
        BY <1>2, <2>1 DEF Fails, Unverified, AtRest, Typed, InOrder, Supervised
<1>3. CASE NewRelease
    <2>1. latest' \in 1 .. Forged
        BY <1>3, BootstrapAssumption DEF NewRelease, Typed, Forged
    <2> QED
        BY <1>3, <2>1 DEF NewRelease, Typed, InOrder, Supervised
<1>4. CASE Connects \/ ClientWorks \/ UNCHANGED vars
    BY <1>4 DEF Connects, ClientWorks, vars, Typed, InOrder, Supervised
<1> QED
    BY <1>1, <1>2, <1>3, <1>4

\* What a process of the host does to where it is.
LEMMA StepOfProcess ==
    ASSUME Typed, NEW p \in H!Procs
    PROVE  /\ H!Start(p) \/ H!Work(p) => \E l : step' = [step EXCEPT ![p] = l]
           /\ H!Work(p) \/ H!Stop(p) => step[p] # "idle"
           /\ H!Stop(p) => step' = [step EXCEPT ![p] = "idle"]
BY DEF H!Start, H!Stop, H!Work, H!ReadKey, H!ReadCert, H!OpenCert, H!FillCert, H!CreateKey, H!FillKey,
       H!Up, H!Goto

\* The steps of the host's processes, and the commands that start or end one.
LEMMA StepProcess ==
    ASSUME Ready,
           Restart \/ Fetch \/ Fetched \/ ServiceStarts \/ ProcessDies \/ EmitEnds
               \/ \E p \in H!Procs : HostWorks(p)
    PROVE  Ready'
<1> USE DEF Ready, host, service, release, client, identity, pinning, Goto,
            Downloaded, Configured, Seeded, KeyListed, Starting, Fetching
<1>0. /\ "service" \in H!Procs /\ "emit" \in H!Procs
      /\ \A p \in H!Procs : p = "service" \/ p = "emit"
    BY DEF H!Procs
<1>1. CASE Restart
    <2>1. step' = [step EXCEPT !["service"] = "idle"]
        BY <1>0, <1>1, StepOfProcess DEF Restart, Typed
    <2> QED
        BY <1>0, <1>1, <2>1 DEF Restart, Typed, InOrder, Supervised
<1>2. CASE Fetch
    <2>1. step' = step \/ \E l : step' = [step EXCEPT !["emit"] = l]
        BY <1>0, <1>2, StepOfProcess DEF Fetch
    <2>2. step'["service"] = step["service"] /\ step' = [p \in H!Procs |-> step'[p]]
        BY <1>0, <2>1 DEF Typed
    <2> QED
        BY <1>0, <1>2, <2>2 DEF Fetch, Typed, InOrder, Supervised
<1>3. CASE Fetched
    <2>1. step' = step \/ step' = [step EXCEPT !["emit"] = "idle"]
        BY <1>0, <1>3, StepOfProcess DEF Fetched
    <2> QED
        BY <1>0, <1>3, <2>1 DEF Fetched, Typed, InOrder, Supervised
<1>4. CASE ServiceStarts
    <2>1. \E l : step' = [step EXCEPT !["service"] = l]
        BY <1>0, <1>4, StepOfProcess DEF ServiceStarts
    <2> QED
        BY <1>0, <1>4, <2>1 DEF ServiceStarts, Typed, InOrder, Supervised
<1>5. ASSUME NEW p \in H!Procs, HostWorks(p) PROVE Ready'
    <2>1. step[p] # "idle" /\ \E l : step' = [step EXCEPT ![p] = l]
        BY <1>5, StepOfProcess DEF HostWorks
    <2> QED
        BY <1>0, <1>5, <2>1 DEF HostWorks, Typed, InOrder, Supervised
<1>6. CASE ProcessDies \/ EmitEnds
    <2>1. PICK p \in H!Procs : step' = [step EXCEPT ![p] = "idle"]
        BY <1>0, <1>6, StepOfProcess DEF ProcessDies, EmitEnds
    <2>2. UNCHANGED <<host, bound, release, client, pc, pinning>>
        BY <1>6 DEF ProcessDies, EmitEnds
    <2> QED
        BY <1>0, <2>1, <2>2 DEF Typed, InOrder, Supervised
<1> QED
    BY <1>1, <1>2, <1>3, <1>4, <1>5, <1>6

LEMMA Readiness == Spec => []Ready
<1>1. Ready /\ [Next]_vars => Ready'
    BY StepDownload, StepCommand, StepAside, StepProcess DEF Next, Bootstrap
<1> QED
    BY <1>1, InitReady, PTL DEF Spec

\* Whatever failed and was skipped in however many runs: when bootstrap is
\* done, the host is set up as the last run wanted it.
THEOREM DoneIsReady == Spec => []DoneMeansReady
<1>1. Ready => DoneMeansReady
    BY DEF Ready, InOrder, Supervised, DoneMeansReady, Downloaded, Configured, Seeded, KeyListed, Starting,
           Fetching
<1> QED
    BY <1>1, Readiness, PTL

(***************************************************************************)
(* What sqsh makes of the host.                                            *)
(***************************************************************************)
Known == {Absent} \cup served \cup emitted
Programs == {"bootstrap", "sqsh"}

\* Every fingerprint in the file of known hosts, or about to be written to it,
\* is one that clients were shown or that was printed on the host.
PinsKnown ==
    /\ pins \in [Ports -> Known] /\ copy \in [Programs -> [Ports -> Known]]
    /\ at = [u \in Programs |-> at[u]]

\* Where sqsh refused the host, the two differ.
Differ == at["sqsh"] = "refusing" => \E e \in emitted, s \in served : e # s

\* The identities that were shown and printed stay known.
LEMMA KnownGrows == [Next]_vars => served \subseteq served' /\ emitted \subseteq emitted'
<1> SUFFICES ASSUME [HP!Next]_(HP!vars) PROVE served \subseteq served' /\ emitted \subseteq emitted'
    BY StepIdentity
<1>1. ASSUME NEW p \in HP!Procs, HP!Start(p) \/ HP!Work(p) \/ HP!Stop(p)
      PROVE  served \subseteq served' /\ emitted \subseteq emitted'
    BY <1>1 DEF HP!Start, HP!Stop, HP!Work, HP!ReadKey, HP!ReadCert, HP!OpenCert, HP!FillCert,
                HP!CreateKey, HP!FillKey, HP!Up, HP!shown
<1> QED
    BY <1>1 DEF HP!Next, HP!vars, HP!shown

\* A file of known hosts with what a program that knows nothing else does to it.
LEMMA PinsStay ==
    ASSUME PinsKnown, Differ, served \subseteq served', emitted \subseteq emitted',
           NEW u \in Programs,
           \/ UNCHANGED pinning
           \/ K!Save(u)
           \/ K!Leave(u)
    PROVE  PinsKnown' /\ Differ'
<1>1. Known \subseteq Known' /\ Absent \in Known'
    BY DEF Known
<1>2. K!Nothing \in [Ports -> Known'] /\ "sqsh" \in Programs
    BY <1>1 DEF K!Nothing, Programs
<1>3. pins \in [Ports -> Known'] /\ copy \in [Programs -> [Ports -> Known']]
    BY <1>1 DEF PinsKnown
<1>4. (at'["sqsh"] = "refusing" => at["sqsh"] = "refusing") => Differ'
    BY DEF Differ
<1>5. CASE UNCHANGED pinning
    BY <1>3, <1>4, <1>5 DEF pinning, PinsKnown
<1>6. CASE K!Truncate(u)
    BY <1>2, <1>3, <1>4, <1>6 DEF K!Truncate, K!Goto, PinsKnown
<1>7. CASE K!Write(u)
    BY <1>2, <1>3, <1>4, <1>7 DEF K!Write, K!Goto, PinsKnown
<1>8. CASE K!Leave(u)
    BY <1>2, <1>3, <1>4, <1>8 DEF K!Leave, K!Goto, PinsKnown
<1> QED
    BY <1>5, <1>6, <1>7, <1>8 DEF K!Save

LEMMA StepPins ==
    ASSUME Ready, HP!Current, OneIdentity, PinsKnown, Differ, [Next]_vars
    PROVE  PinsKnown' /\ Differ'
<1>0. /\ served \subseteq served' /\ emitted \subseteq emitted'
      /\ "sqsh" \in Programs /\ "bootstrap" \in Programs /\ Known \subseteq Known'
    BY KnownGrows DEF Programs, Known
<1>1. /\ step["service"] = "up" => certOf["service"] \in served
      /\ step["emit"] = "up" => certOf["emit"] \in emitted
    BY DEF HP!Current, HP!Procs
<1>2. CASE Fetched
    <2>1. CASE UNCHANGED pinning
        BY <1>0, <2>1, PinsStay
    <2>2. CASE step["emit"] = "up" /\ K!Pin("bootstrap", port, certOf["emit"])
        <3>1. certOf["emit"] \in Known'
            BY <1>0, <1>1, <2>2 DEF Known
        <3>2. K!Entries("bootstrap", port, certOf["emit"]) \in [Ports -> Known']
            BY <1>0, <3>1 DEF K!Entries, PinsKnown
        <3>3. PinsKnown'
            BY <1>0, <2>2, <3>2 DEF K!Pin, K!Goto, PinsKnown
        <3>4. at'["sqsh"] = at["sqsh"]
            BY <1>0, <2>2 DEF K!Pin, K!Goto, PinsKnown
        <3> QED
            BY <1>0, <3>3, <3>4 DEF Differ
    <2> QED
        BY <1>2, <2>1, <2>2 DEF Fetched, pinning
<1>3. CASE Connects
    <2> DEFINE f == certOf["service"]
    <2>1. K!Verify("sqsh", bound, f) /\ f \in served /\ bound \in Ports /\ UNCHANGED identity
        <3>1. "service" \in H!Procs
            BY DEF H!Procs
        <3> QED
            BY <1>1, <1>3, <3>1 DEF Connects, Ready, Supervised
    <2> HIDE DEF f
    <2>2. Known' = Known /\ Absent \in Known /\ f \in Known
        BY <2>1 DEF identity, Known
    <2>3. K!Entries("sqsh", bound, f) \in [Ports -> Known] /\ K!Nothing \in [Ports -> Known]
        BY <2>2 DEF K!Entries, K!Nothing, PinsKnown
    <2>4. PinsKnown'
        BY <2>1, <2>2, <2>3 DEF K!Verify, K!Goto, PinsKnown
    <2>5. ASSUME at'["sqsh"] = "refusing" PROVE pins[bound] \in Known \ {Absent, f}
        BY <1>0, <2>1, <2>5 DEF K!Verify, K!Goto, PinsKnown
    <2>6. ASSUME at'["sqsh"] = "refusing" PROVE pins[bound] \in emitted
        BY <2>1, <2>5, <2>6 DEF Known, OneIdentity, H!OneIdentity
    <2> QED
        BY <1>0, <2>1, <2>4, <2>5, <2>6 DEF Differ
<1>4. CASE ClientWorks \/ Pinned \/ Fails
    BY <1>0, <1>4, PinsStay DEF ClientWorks, Pinned, Fails
<1>5. ASSUME ~Fetched, ~Connects, ~ClientWorks, ~Pinned, ~Fails PROVE UNCHANGED pinning
    BY <1>5
        DEF Next, vars, Bootstrap, Begin, Detect, Downloads, Download, InstallBinary, WriteConf, EnsureSeed,
            WriteSeed, InstallKey, CheckRunning, InstallUnit, Enable, Restart, Fetch, Unverified,
            ServiceStarts, HostWorks, ProcessDies, EmitEnds, NewRelease
<1> QED
    BY <1>0, <1>2, <1>3, <1>4, <1>5, PinsStay

\* Whatever runs of bootstrap pinned under whichever port, and whatever
\* failed: sqsh refuses the host only if two first starts have raced, and left
\* a certificate that is not that of the key.
THEOREM RefusalMeansBroken == Spec => []RefusedOnlyIfBroken
<1>1. HP!IdentityAssumption
    BY IdentitiesAssumption DEF H!IdentityAssumption, HP!IdentityAssumption
<1>2. (HP!Spec => []HP!Current) /\ (HP!Spec => []HP!EmittedUnlessBroken)
    BY <1>1, HP!UpIsShown, HP!EmittedIsServed
<1>3. Init => PinsKnown /\ Differ
    BY DEF Init, K!Init, K!Nothing, PinsKnown, Differ, Known, Programs
<1>4. Ready /\ HP!Current /\ OneIdentity /\ PinsKnown /\ Differ /\ [Next]_vars => (PinsKnown /\ Differ)'
    BY StepPins
<1>5. Differ /\ HP!EmittedUnlessBroken => RefusedOnlyIfBroken
    BY DEF Differ, HP!EmittedUnlessBroken, HP!Broken, RefusedOnlyIfBroken, H!Broken
<1> QED
    BY <1>2, <1>3, <1>4, <1>5, Readiness, IdentityRefined, IdentityIsUnique, PTL DEF Spec
=============================================================================
