---------------------------- MODULE MCConnection ----------------------------
(***************************************************************************)
(* Small instances of Connection: a connection with three binds, two of    *)
(* them names of one socket, and a connection with more streams than       *)
(* permits, a forward and a bind that is not allowed, or one stream and a  *)
(* relay.                                                                  *)
(***************************************************************************)
EXTENDS Connection

CONSTANTS localhost, loopback, wildcard, private, port, public

\* "localhost:p" and "127.0.0.1:p" name the same socket. All but "0.0.0.0:p2"
\* (private) are allowed.
AllBinds == {localhost, loopback, wildcard, private}
OneBind == {loopback}
AllowedBinds == Binds \ {private}
SocketsOfBinds == [b \in Binds |-> IF b \in {wildcard, private} THEN public ELSE port]

BindsInUse(c) ==
    Mapped(c) \cup {m.bind : m \in {ctl[c][n] : n \in DOMAIN ctl[c]} \ {[op |-> "keepalive"]}}

\* The peer uses many forwards, or many streams next to a forward and a relay.
ManyForwards(c) ==
    relay[c] = 0 /\ private \notin BindsInUse(c) /\ \A s \in Streams : chan[c][s].st = "none"
ManyStreams(c) ==
    /\ BindsInUse(c) \subseteq {loopback, private} /\ Len(ctl[c]) <= 1
    /\ relay[c] > 0 => \A s \in Streams \ {1} : chan[c][s].st = "none"
    /\ \A i \in Slots : task[c][i] = NoTask \/ (i = 1 /\ task[c][i].bind = loopback)

\* Connection, with a peer that does either. (No step of the server leaves
\* what the peer chose, but the start of a listener while an aborted one has
\* not ended, which fairness then ends.)
EitherNext == Next /\ \A c \in Conns : (ManyForwards(c) \/ ManyStreams(c))'
EitherSpec == Init /\ [][EitherNext]_vars /\ Fairness
=============================================================================
