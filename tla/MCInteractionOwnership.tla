------------------------ MODULE MCInteractionOwnership ------------------------
(* Instances of InteractionOwnership for the model checker.                *)
EXTENDS InteractionOwnership, TLC

Synchronised == {0}

OneTickApart == {0, 1}

PeerSymmetry == Permutations(Peers)

(* Bounds that keep the instance small.  At most three packets of a peer   *)
(* and four of any two are in flight, and a client, whose packets arrive   *)
(* in any order, sees one press where a server sees MaxPresses of them.    *)
FewInFlight ==
  /\ \A p, q \in Peers :
       /\ Len(wire[p]) <= 3
       /\ p # q => Len(wire[p]) + Len(wire[q]) <= 4
  /\ role = "client" => presses <= 1
=============================================================================
