------------------------------- MODULE Relay -------------------------------
(***************************************************************************)
(* What a forwarded TCP connection promises the two applications it        *)
(* connects: a pipe in each direction, which delivers what was written and *)
(* nothing else, and ends only after an application has closed its side or *)
(* something has failed ("relays data until either side closes",           *)
(* docs/server.md). How much of what was under way still arrives at the    *)
(* end is left open: each side learns of the end when it has read what     *)
(* reached it.                                                             *)
(***************************************************************************)
EXTENDS Naturals

CONSTANT Ends  \* the two applications

VARIABLES
    sent,    \* sent[a]: the number of chunks application a wrote
    got,     \* got[a]: the number of chunks application a has read
    shut,    \* shut[a]: a closed its side
    told,    \* told[a]: a was told that the connection is over
    failed   \* a failure the relay cannot prevent

vars == <<sent, got, shut, told, failed>>

Init ==
    /\ sent = [a \in Ends |-> 0]
    /\ got = [a \in Ends |-> 0]
    /\ shut = [a \in Ends |-> FALSE]
    /\ told = [a \in Ends |-> FALSE]
    /\ failed = FALSE

Write(a) ==
    /\ ~shut[a]
    /\ sent' = [sent EXCEPT ![a] = @ + 1]
    /\ UNCHANGED <<got, shut, told, failed>>

Deliver(a) ==
    /\ ~told[a]
    /\ \E b \in Ends \ {a} : got[a] < sent[b]
    /\ got' = [got EXCEPT ![a] = @ + 1]
    /\ UNCHANGED <<sent, shut, told, failed>>

Shut(a) ==
    /\ shut' = [shut EXCEPT ![a] = TRUE]
    /\ UNCHANGED <<sent, got, told, failed>>

Fail ==
    /\ failed' = TRUE
    /\ UNCHANGED <<sent, got, shut, told>>

Tell(a) ==
    /\ failed \/ \E b \in Ends : shut[b]
    /\ told' = [told EXCEPT ![a] = TRUE]
    /\ UNCHANGED <<sent, got, shut, failed>>

Next ==
    \/ \E a \in Ends : Write(a) \/ Deliver(a) \/ Shut(a) \/ Tell(a)
    \/ Fail

Spec == Init /\ [][Next]_vars
=============================================================================
