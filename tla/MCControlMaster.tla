-------------------------- MODULE MCControlMaster --------------------------
(***************************************************************************)
(* Small instances of ControlMaster: two runs, a master that one starts,   *)
(* and one started by hand at the same path.                               *)
(***************************************************************************)
EXTENDS ControlMaster, TLC

CONSTANTS s1, s2, m1, b1, b2

\* s1 may start a master that idles out, s2 starts none, and m1 stays.
Mixed == [m \in Masters |-> IF m = s1 THEN "timeout" ELSE "no"]

\* Both may start one that idles out.
Idling == [m \in Masters |-> "timeout"]

OneShares == (s1 :> {b1}) @@ (s2 :> {b1, b2, NoBind})
NoForwards == [s \in Slaves |-> {NoBind}]
=============================================================================
