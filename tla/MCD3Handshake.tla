---------------------------- MODULE MCD3Handshake ----------------------------
(* Two clients, one of which dials twice, the other of which the ACL does not *)
(* admit; a server that answers twice, and another server.                  *)
EXTENDS D3Handshake, TLC

CONSTANTS i1, i2, i3, r1, r2, r3, alice, bob, carol

ThreeKeys == {alice, bob, carol}
Dials == {i1, i2, i3}
Answers == {r1, r2, r3}
DialKey == [i \in IRuns |-> IF i = i3 THEN carol ELSE alice]
DialPeer == [i \in IRuns |-> bob]
AnswerKey == [r \in RRuns |-> IF r = r2 THEN carol ELSE bob]
OnlyAlice == {alice}
BothDomains == {"LinkData", "ControlPlane"}
=============================================================================
