---------------------------- MODULE MCHandshake ----------------------------
(***************************************************************************)
(* Small instances of Handshake: clients and a stranger compete for a      *)
(* single permit.                                                          *)
(***************************************************************************)
EXTENDS Handshake

CONSTANTS c1, c2, c3, s1, alice, nobody, key1, key2

OneClient == {c1}
ThreeClients == {c1, c2, c3}
OneStranger == {s1}

\* Everybody claims the account alice: c1 and c2 with their own keys, c3 and the
\* stranger with the key of c1 (whoever holds a listed key is let in).
LoginAlice == [p \in Peers |-> alice]
IdentityOf == [p \in Peers |-> IF p = c2 THEN key2 ELSE key1]
OutdatedClient == {c3} \cap Clients

FirstAttempts == Peers \X {1}
OneLossy == {<<c1, 1>>}
=============================================================================
