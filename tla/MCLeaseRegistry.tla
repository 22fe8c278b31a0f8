--------------------------- MODULE MCLeaseRegistry ---------------------------
(* Small instances of the lease registry for TLC. *)
EXTENDS LeaseRegistry, TLC

CONSTANTS l1, l2, w1

TwoLeases == {l1, l2}
OneWavelength == {w1}
JustOne == {1}
NoFaults == {{}}
FaultChoices == {{"write"}, {"write", "crash"}, {"audit"}, {"list"}}

\* Lease ids are interchangeable.
LeaseSymmetry == Permutations(LeaseIds)
=============================================================================
