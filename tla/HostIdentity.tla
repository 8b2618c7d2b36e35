---------------------------- MODULE HostIdentity ----------------------------
(***************************************************************************)
(* The identity of an sqshd host: a private key and a certificate in two   *)
(* files that load_or_generate_tls_identity (keys.rs) reads or makes. It   *)
(* is called by the service and by `sqshd --emit-fingerprint`, which may   *)
(* run at the same time, and every one of which may be stopped or fail     *)
(* between two of its accesses to the files. The key file is created and   *)
(* never overwritten; the certificate is written without a look at what is *)
(* there. An identity is a key with the certificate that was made for it.  *)
(***************************************************************************)
CONSTANTS
    Servers,   \* processes that serve with the identity
    Emitters,  \* processes that print the fingerprint of its certificate
    Ids,       \* the identities that can be made (a bound)
    Absent,    \* there is no file
    Empty      \* the file was opened for writing, and nothing is in it

Procs == Servers \cup Emitters

IdentityAssumption ==
    /\ Absent # Empty
    /\ Absent \notin Ids /\ Empty \notin Ids
    /\ Servers \cap Emitters = {}

VARIABLES
    cert,      \* the certificate file
    key,       \* the key file
    step,      \* step[p]: where process p is
    keyOf,     \* keyOf[p]: the key that p read or made
    certOf,    \* certOf[p]: the certificate that p read or made
    made,      \* the identities made so far
    served,    \* the identities clients were shown
    emitted    \* the identities whose fingerprint was printed

files == <<cert, key>>
held == <<keyOf, certOf>>
shown == <<served, emitted>>
vars == <<files, step, held, made, shown>>

Init ==
    /\ cert = Absent /\ key = Absent
    /\ step = [p \in Procs |-> "idle"]
    /\ keyOf = [p \in Procs |-> Absent] /\ certOf = [p \in Procs |-> Absent]
    /\ made = {} /\ served = {} /\ emitted = {}

Goto(p, s) == step' = [step EXCEPT ![p] = s]

\* p has an identity: it serves with it, or prints its fingerprint.
Up(p, c) ==
    /\ Goto(p, "up")
    /\ served' = IF p \in Servers THEN served \cup {c} ELSE served
    /\ emitted' = IF p \in Emitters THEN emitted \cup {c} ELSE emitted

\* Both files exist, and are read; or both are made. (The certificate is
\* always there before the key, and neither is removed: the two exists()
\* are one step.) It does not matter which new identity is made.
Start(p) ==
    /\ step[p] = "idle"
    /\ IF key # Absent /\ cert # Absent
       THEN Goto(p, "readKey") /\ UNCHANGED <<held, made>>
       ELSE LET i == CHOOSE i \in Ids : i \notin made IN
                /\ i \in Ids \ made /\ made' = made \cup {i}
                /\ keyOf' = [keyOf EXCEPT ![p] = i]
                /\ certOf' = [certOf EXCEPT ![p] = i]
                /\ Goto(p, "openCert")
    /\ UNCHANGED <<files, shown>>

ReadKey(p) ==
    /\ step[p] = "readKey"
    /\ keyOf' = [keyOf EXCEPT ![p] = key]
    /\ Goto(p, "readCert")
    /\ UNCHANGED <<files, certOf, made, shown>>

\* Faulty variant: a certificate is served with any key.
UsableTogether(p) == keyOf[p] # Empty /\ cert # Empty

\* Whether what p read can be used: both files have something in them, and
\* rustls gives a server the certificate only if the key is its own.
Usable(p) ==
    /\ keyOf[p] # Empty /\ cert # Empty
    /\ p \in Servers => keyOf[p] = cert

ReadCert(p) ==
    /\ step[p] = "readCert"
    /\ certOf' = [certOf EXCEPT ![p] = cert]
    /\ IF Usable(p) THEN Up(p, cert) ELSE Goto(p, "idle") /\ UNCHANGED shown
    /\ UNCHANGED <<files, keyOf, made>>

\* std::fs::write truncates the file and writes it. The certificates are of
\* one length: the last to write wins.
OpenCert(p) ==
    /\ step[p] = "openCert"
    /\ cert' = Empty
    /\ Goto(p, "fillCert")
    /\ UNCHANGED <<key, held, made, shown>>

FillCert(p) ==
    /\ step[p] = "fillCert"
    /\ cert' = certOf[p]
    /\ Goto(p, "createKey")
    /\ UNCHANGED <<key, held, made, shown>>

\* Faulty variant: the file is opened whether it exists or not.
CreateKeyAnyway(p) ==
    /\ step[p] = "createKey"
    /\ key' = Empty /\ Goto(p, "fillKey")
    /\ UNCHANGED <<cert, held, made, shown>>

\* create_new: fails if the file exists.
CreateKey(p) ==
    /\ step[p] = "createKey"
    /\ \/ key = Absent /\ key' = Empty /\ Goto(p, "fillKey")
       \/ key # Absent /\ key' = key /\ Goto(p, "idle")
    /\ UNCHANGED <<cert, held, made, shown>>

FillKey(p) ==
    /\ step[p] = "fillKey"
    /\ key' = keyOf[p]
    /\ Up(p, certOf[p])
    /\ UNCHANGED <<cert, held, made>>

Work(p) ==
    ReadKey(p) \/ ReadCert(p) \/ OpenCert(p) \/ FillCert(p) \/ CreateKey(p) \/ FillKey(p)

\* The process ends, is killed, fails in a call, or the host goes down.
Stop(p) ==
    /\ step[p] # "idle"
    /\ Goto(p, "idle")
    /\ UNCHANGED <<files, held, made, shown>>

Next == \E p \in Procs : Start(p) \/ Work(p) \/ Stop(p)

Spec == Init /\ [][Next]_vars

-----------------------------------------------------------------------------
Making == {"openCert", "fillCert", "createKey", "fillKey"}
Steps == {"idle", "readKey", "readCert", "up"} \cup Making
Files == Ids \cup {Absent, Empty}

TypeOK ==
    /\ cert \in Files /\ key \in Files
    /\ step \in [Procs -> Steps]
    /\ keyOf \in [Procs -> Files] /\ certOf \in [Procs -> Files]
    /\ made \subseteq Ids /\ served \subseteq Ids /\ emitted \subseteq Ids

\* A host is never seen with two identities, whatever starts, fails and
\* races: no client that trusts what it was first shown is refused later.
OneIdentity == \A i, j \in served : i = j

\* The certificate on the disk is not that of the key on the disk.
Broken == key \in Ids /\ cert # key

\* A fingerprint that was printed is that of the identity clients are shown,
\* unless two processes raced for the first start and left a certificate
\* that is not that of the key: then no service can start any more.
EmittedUnlessBroken == \A e \in emitted, s \in served : e = s \/ Broken
=============================================================================
