---------------------------- MODULE MCFederation -----------------------------
(* Two peers, registered with their own endpoints or both with one. *)
EXTENDS Federation, TLC

CONSTANTS p1, p2

TwoPeers == {p1, p2}
OwnOrShared == {[p \in Peers |-> p], [p \in Peers |-> p1]}
=============================================================================
