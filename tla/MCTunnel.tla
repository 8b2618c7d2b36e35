------------------------------ MODULE MCTunnel ------------------------------
(***************************************************************************)
(* Small instances of Tunnel: three remote forwards, two of them with one  *)
(* port on different addresses, and two with one address.                  *)
(***************************************************************************)
EXTENDS Tunnel

ThreeForwards == << [addr |-> "lo", port |-> 1], [addr |-> "lo", port |-> 2],
                    [addr |-> "any", port |-> 1] >>
OneForward == << [addr |-> "lo", port |-> 1] >>

Load(n, f) == [near |-> n, far |-> f]

\* One side may fill the stream, while the other one writes a little.
Uploads == { Load(3, 1) }

\* A chunk each way.
Exchange == { Load(1, 1) }
=============================================================================
