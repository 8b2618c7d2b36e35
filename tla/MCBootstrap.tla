---------------------------- MODULE MCBootstrap ----------------------------
(***************************************************************************)
(* Small instances of Bootstrap: root sets up a host twice, on two ports,  *)
(* and anything may fail; another user sets it up once, and nothing does.  *)
(***************************************************************************)
EXTENDS Bootstrap

CONSTANTS p1, p2, i1, i2, i3, i4, i5

TwoPorts == {p1, p2}
OnePort == {p1}
Identities == {i1, i2, i3, i4, i5}
Root == {"root"}
Other == {"other"}
=============================================================================
