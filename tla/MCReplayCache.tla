---------------------------- MODULE MCReplayCache ----------------------------
(* Small instances of the replay cache for TLC. *)
EXTENDS ReplayCache, TLC

CONSTANTS h1, h2, h3, h4

FourHashes == {h1, h2, h3, h4}
FaultChoices == {{}, {"restart"}, {"write"}, {"restart", "crash", "write"}}
RestartOnly == {{"restart"}}

HashSymmetry == Permutations(Hashes)
=============================================================================
