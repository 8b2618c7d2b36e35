------------------------ MODULE HostIdentity_proofs ------------------------
(***************************************************************************)
(* Theorems about the identity of a host, for any number of processes that *)
(* serve with it or print its fingerprint and any number of identities.    *)
(*                                                                         *)
(* Both rest on the same facts. Every process that makes an identity makes *)
(* one of its own (Makers), only the one that created the key file fills   *)
(* it (OneFiller), a process that reads finds both files and reads the key *)
(* that stays (Readers), and what clients were shown is that key (Shown).  *)
(* A fingerprint that was printed may be that of another certificate: but  *)
(* then a second process wrote the certificate, and what it left there is  *)
(* not that of the key, now or later (Printed). What a process shows while *)
(* it is up is what it was shown to be (Current).                          *)
(***************************************************************************)
EXTENDS HostIdentity, TLAPS

Makers ==
    \A p \in Procs : step[p] \in Making =>
        /\ keyOf[p] \in made /\ certOf[p] = keyOf[p] /\ keyOf[p] # key
        /\ \A q \in Procs \ {p} : step[q] \in Making => keyOf[q] # keyOf[p]

OneFiller ==
    \A p \in Procs : step[p] = "fillKey" =>
        /\ key = Empty
        /\ \A q \in Procs \ {p} : step[q] # "fillKey"

Filed ==
    /\ key \in Ids => key \in made
    /\ key # Absent => cert # Absent
    /\ \A p \in Procs : step[p] \in {"createKey", "fillKey"} => cert # Absent

Readers ==
    \A p \in Procs :
        /\ step[p] \in {"readKey", "readCert"} => key # Absent /\ cert # Absent
        /\ step[p] = "readCert" => keyOf[p] \in {Empty, key}

Shown == \A s \in served : s = key

Printed == \A e \in emitted : key \in Ids /\ (e = key \/ cert # key)

IInv == TypeOK /\ Makers /\ OneFiller /\ Filed /\ Readers /\ Shown /\ Printed

LEMMA InitInv ==
    ASSUME IdentityAssumption
    PROVE  Init => IInv
BY DEF IdentityAssumption, Init, IInv, TypeOK, Files, Steps, Making, Makers, OneFiller, Filed,
       Readers, Shown, Printed

\* A new identity is none that was made before.
LEMMA StepStart ==
    ASSUME IdentityAssumption, IInv, NEW p \in Procs, Start(p)
    PROVE  IInv'
<1> USE DEF IInv, Making, Steps, Files
<1>1. CASE key # Absent /\ cert # Absent
    <2>1. /\ step' = [step EXCEPT ![p] = "readKey"]
          /\ UNCHANGED <<cert, key, keyOf, certOf, made, served, emitted>>
        BY <1>1 DEF Start, Goto, held, files, shown
    <2> QED
        BY <1>1, <2>1 DEF TypeOK, Makers, OneFiller, Filed, Readers, Shown, Printed
<1>2. CASE ~(key # Absent /\ cert # Absent)
    <2>1. PICK i \in Ids \ made :
            /\ step' = [step EXCEPT ![p] = "openCert"]
            /\ made' = made \cup {i}
            /\ keyOf' = [keyOf EXCEPT ![p] = i] /\ certOf' = [certOf EXCEPT ![p] = i]
            /\ UNCHANGED <<cert, key, served, emitted>>
        BY <1>2 DEF Start, Goto, files, shown
    <2>2. TypeOK'
        BY <2>1 DEF TypeOK
    <2>3. i # key
        BY <2>1 DEF Filed
    <2>4. Makers'
        BY <2>1, <2>3 DEF TypeOK, Makers
    <2> QED
        BY <2>1, <2>2, <2>4 DEF TypeOK, OneFiller, Filed, Readers, Shown, Printed
<1> QED
    BY <1>1, <1>2

\* The key that is read stays; the certificate that is shown is that key's.
LEMMA StepRead ==
    ASSUME IdentityAssumption, IInv, NEW p \in Procs, ReadKey(p) \/ ReadCert(p)
    PROVE  IInv'
<1> USE DEF IInv, IdentityAssumption, Making, Steps, Files
<1>1. CASE ReadKey(p)
    BY <1>1 DEF ReadKey, Goto, files, shown, TypeOK, Makers, OneFiller, Filed, Readers, Shown, Printed
<1>2. CASE ReadCert(p)
    <2>1. /\ step[p] = "readCert" /\ key # Absent /\ cert # Absent /\ keyOf[p] \in {Empty, key}
          /\ certOf' = [certOf EXCEPT ![p] = cert]
          /\ UNCHANGED <<cert, key, keyOf, made>>
        BY <1>2 DEF ReadCert, Readers, files
    <2>2. CASE ~Usable(p)
        BY <1>2, <2>1, <2>2
            DEF ReadCert, Goto, shown, TypeOK, Makers, OneFiller, Filed, Readers, Shown, Printed
    <2>3. CASE Usable(p)
        <3>1. /\ key \in Ids /\ cert \in Ids
              /\ step' = [step EXCEPT ![p] = "up"]
              /\ p \in Servers => cert = key
              /\ served' = IF p \in Servers THEN served \cup {cert} ELSE served
              /\ emitted' = IF p \in Emitters THEN emitted \cup {cert} ELSE emitted
            BY <1>2, <2>1, <2>3 DEF ReadCert, Usable, Up, Goto, TypeOK
        <3>2. TypeOK' /\ Makers' /\ OneFiller' /\ Filed' /\ Readers'
            BY <2>1, <3>1 DEF TypeOK, Makers, OneFiller, Filed, Readers
        <3> QED
            BY <2>1, <3>1, <3>2 DEF Shown, Printed
    <2> QED
        BY <2>2, <2>3
<1> QED
    BY <1>1, <1>2

\* A certificate that replaces another one is not that of the key.
LEMMA StepCert ==
    ASSUME IdentityAssumption, IInv, NEW p \in Procs, OpenCert(p) \/ FillCert(p)
    PROVE  IInv'
<1> USE DEF IInv, IdentityAssumption, Making, Steps, Files
<1>1. CASE OpenCert(p)
    BY <1>1
        DEF OpenCert, Goto, held, shown, TypeOK, Makers, OneFiller, Filed, Readers, Shown, Printed
<1>2. CASE FillCert(p)
    <2>1. /\ step[p] = "fillCert" /\ step' = [step EXCEPT ![p] = "createKey"]
          /\ cert' = certOf[p] /\ certOf[p] \in made /\ certOf[p] # key
          /\ UNCHANGED <<key, keyOf, certOf, made, served, emitted>>
        BY <1>2 DEF FillCert, Goto, held, shown, Makers
    <2> QED
        BY <2>1 DEF TypeOK, Makers, OneFiller, Filed, Readers, Shown, Printed
<1> QED
    BY <1>1, <1>2

\* The key file is created by one process, and filled by that one.
LEMMA StepKey ==
    ASSUME IdentityAssumption, IInv, NEW p \in Procs, CreateKey(p) \/ FillKey(p)
    PROVE  IInv'
<1> USE DEF IInv, IdentityAssumption, Making, Steps, Files
<1>1. CASE CreateKey(p)
    <2>1. /\ step[p] = "createKey" /\ cert # Absent
          /\ UNCHANGED <<cert, keyOf, certOf, made, served, emitted>>
        BY <1>1 DEF CreateKey, held, shown, Filed
    <2>2. CASE key = Absent /\ key' = Empty /\ step' = [step EXCEPT ![p] = "fillKey"]
        <3>1. \A q \in Procs : step[q] \notin {"fillKey", "readKey", "readCert"}
            BY <2>2 DEF OneFiller, Readers
        <3>2. served = {} /\ emitted = {}
            BY <2>2 DEF Shown, Printed, TypeOK
        <3>3. Makers'
            BY <2>1, <2>2 DEF TypeOK, Makers
        <3> QED
            BY <2>1, <2>2, <3>1, <3>2, <3>3 DEF TypeOK, OneFiller, Filed, Readers, Shown, Printed
    <2>3. CASE key # Absent /\ key' = key /\ step' = [step EXCEPT ![p] = "idle"]
        BY <2>1, <2>3 DEF TypeOK, Makers, OneFiller, Filed, Readers, Shown, Printed
    <2> QED
        BY <1>1, <2>2, <2>3 DEF CreateKey, Goto
<1>2. CASE FillKey(p)
    <2>1. /\ step[p] = "fillKey" /\ step' = [step EXCEPT ![p] = "up"]
          /\ key = Empty /\ key' = keyOf[p] /\ keyOf[p] \in made
          /\ \A q \in Procs \ {p} : step[q] # "fillKey"
          /\ cert # Absent /\ certOf[p] = keyOf[p]
          /\ UNCHANGED <<cert, keyOf, certOf, made>>
        BY <1>2 DEF FillKey, Up, Goto, held, Makers, OneFiller, Filed
    <2>2. /\ served = {} /\ emitted = {}
          /\ served' \subseteq {keyOf[p]} /\ emitted' \subseteq {keyOf[p]}
        BY <1>2, <2>1 DEF FillKey, Up, Shown, Printed, TypeOK
    <2>3. TypeOK'
        BY <2>1, <2>2 DEF TypeOK
    <2>4. Makers'
        BY <2>1 DEF TypeOK, Makers
    <2>5. OneFiller' /\ Filed'
        BY <2>1 DEF TypeOK, OneFiller, Filed
    <2>6. Readers'
        BY <2>1 DEF TypeOK, Readers
    <2>7. Shown' /\ Printed'
        BY <2>1, <2>2 DEF TypeOK, Shown, Printed
    <2> QED
        BY <2>3, <2>4, <2>5, <2>6, <2>7
<1> QED
    BY <1>1, <1>2

LEMMA StepInv ==
    ASSUME IdentityAssumption
    PROVE  IInv /\ [Next]_vars => IInv'
<1> SUFFICES ASSUME IInv, [Next]_vars PROVE IInv'
    OBVIOUS
<1>1. ASSUME NEW p \in Procs, Stop(p) PROVE IInv'
    BY <1>1
        DEF IInv, IdentityAssumption, Stop, Goto, files, held, shown, TypeOK, Files, Steps, Making,
            Makers, OneFiller, Filed, Readers, Shown, Printed
<1>2. CASE UNCHANGED vars
    BY <1>2
        DEF IInv, vars, files, held, shown, TypeOK, Makers, OneFiller, Filed, Readers, Shown, Printed
<1> QED
    BY <1>1, <1>2, StepStart, StepRead, StepCert, StepKey DEF Next, Work

LEMMA Invariance ==
    ASSUME IdentityAssumption
    PROVE  Spec => []IInv
BY InitInv, StepInv, PTL DEF Spec

\* A process that is up shows a certificate that clients were shown, or whose
\* fingerprint was printed.
Current ==
    \A p \in Procs : step[p] = "up" =>
        /\ p \in Servers => certOf[p] \in served
        /\ p \in Emitters => certOf[p] \in emitted

LEMMA StepCurrent == TypeOK /\ Current /\ [Next]_vars => Current'
<1> SUFFICES ASSUME TypeOK, Current, [Next]_vars PROVE Current'
    OBVIOUS
<1>1. ASSUME NEW p \in Procs, Start(p) PROVE Current'
    <2>1. CASE key # Absent /\ cert # Absent
        BY <1>1, <2>1 DEF Start, Goto, held, shown, TypeOK, Current
    <2>2. CASE ~(key # Absent /\ cert # Absent)
        <3>1. /\ \E i : certOf' = [certOf EXCEPT ![p] = i]
              /\ step' = [step EXCEPT ![p] = "openCert"]
              /\ UNCHANGED shown
            BY <1>1, <2>2 DEF Start, Goto
        <3> QED
            BY <3>1 DEF shown, TypeOK, Current
    <2> QED
        BY <2>1, <2>2
<1>2. ASSUME NEW p \in Procs, Work(p) PROVE Current'
    <2>1. CASE ReadKey(p) \/ OpenCert(p) \/ FillCert(p) \/ CreateKey(p)
        <3>1. /\ step'[p] # "up" /\ \A q \in Procs \ {p} : step'[q] = step[q]
              /\ UNCHANGED <<certOf, served, emitted>>
            BY <2>1 DEF ReadKey, OpenCert, FillCert, CreateKey, Goto, held, shown, TypeOK
        <3> QED
            BY <3>1 DEF Current
    <2>2. CASE ReadCert(p)
        BY <2>2 DEF ReadCert, Up, Goto, shown, TypeOK, Current
    <2>3. CASE FillKey(p)
        BY <2>3 DEF FillKey, Up, Goto, held, TypeOK, Current
    <2> QED
        BY <1>2, <2>1, <2>2, <2>3 DEF Work
<1>3. ASSUME NEW p \in Procs, Stop(p) PROVE Current'
    BY <1>3 DEF Stop, Goto, held, shown, TypeOK, Current
<1>4. CASE UNCHANGED vars
    BY <1>4 DEF vars, held, shown, Current
<1> QED
    BY <1>1, <1>2, <1>3, <1>4 DEF Next

LEMMA UpIsShown ==
    ASSUME IdentityAssumption
    PROVE  Spec => []Current
<1>1. Init => Current
    BY DEF Init, Current
<1>2. IInv => TypeOK
    BY DEF IInv
<1> QED
    BY <1>1, <1>2, StepCurrent, Invariance, PTL DEF Spec

\* However many processes start, race, fail and are stopped at any point
\* between their accesses to the two files, clients are never shown two
\* identities of the host: create_new lets one key in, and a server that does
\* not have the certificate of that key does not start.
THEOREM IdentityIsUnique ==
    ASSUME IdentityAssumption
    PROVE  Spec => []OneIdentity
<1>1. IInv => OneIdentity
    BY DEF IInv, Shown, OneIdentity
<1> QED
    BY <1>1, Invariance, PTL

\* A fingerprint that --emit-fingerprint printed is the one clients are shown,
\* or the certificate on the disk is not that of the key: the race that makes
\* a pinned fingerprint wrong also keeps every later server from starting.
THEOREM EmittedIsServed ==
    ASSUME IdentityAssumption
    PROVE  Spec => []EmittedUnlessBroken
<1>1. IInv => EmittedUnlessBroken
    BY DEF IInv, Shown, Printed, EmittedUnlessBroken, Broken
<1> QED
    BY <1>1, Invariance, PTL
=============================================================================
