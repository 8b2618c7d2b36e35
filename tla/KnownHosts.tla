----------------------------- MODULE KnownHosts -----------------------------
(***************************************************************************)
(* The file of known hosts (known_hosts.rs). A program of the user loads   *)
(* it, compares the fingerprint that a server showed with the pin of its   *)
(* host and port, and if there is none, adds one and writes the whole file *)
(* again. Nothing keeps programs that do so at the same time apart, and    *)
(* one may be killed between truncating the file and writing it.           *)
(***************************************************************************)
CONSTANTS
    Users,   \* the programs
    Names,   \* host:port
    Prints,  \* fingerprints
    NoPin

VARIABLES
    pins,      \* what is in the file
    at,        \* at[u]: where program u is
    copy       \* copy[u]: what u loaded, with what it adds

vars == <<pins, at, copy>>

Nothing == [n \in Names |-> NoPin]

Init ==
    /\ pins = Nothing
    /\ at = [u \in Users |-> "idle"]
    /\ copy = [u \in Users |-> Nothing]

Goto(u, s) == at' = [at EXCEPT ![u] = s]

\* The entries that u writes: those it loaded, and the one it adds.
Entries(u, n, f) == [pins EXCEPT ![n] = f]

\* load and verify: an unknown host is trusted, and its entry is saved.
Verify(u, n, f) ==
    /\ at[u] = "idle"
    /\ IF pins[n] = NoPin
       THEN copy' = [copy EXCEPT ![u] = Entries(u, n, f)] /\ Goto(u, "open")
       ELSE /\ copy' = [copy EXCEPT ![u] = Nothing]
            /\ Goto(u, IF pins[n] = f THEN "trusting" ELSE "refusing")
    /\ UNCHANGED pins

\* load and pin: the entry is set, and saved.
Pin(u, n, f) ==
    /\ at[u] = "idle"
    /\ copy' = [copy EXCEPT ![u] = Entries(u, n, f)]
    /\ Goto(u, "open")
    /\ UNCHANGED pins

Truncate(u) ==
    /\ at[u] = "open"
    /\ pins' = Nothing
    /\ Goto(u, "write")
    /\ UNCHANGED copy

Write(u) ==
    /\ at[u] = "write"
    /\ pins' = copy[u]
    /\ copy' = [copy EXCEPT ![u] = Nothing]
    /\ Goto(u, "trusting")

Save(u) == Truncate(u) \/ Write(u)

\* The program ends, or is killed.
Leave(u) ==
    /\ at[u] # "idle"
    /\ Goto(u, "idle")
    /\ copy' = [copy EXCEPT ![u] = Nothing]
    /\ UNCHANGED pins
=============================================================================
