SPECIFICATION Spec
CONSTANTS
  RobDepth = 2
  SidMod = 4
  MaxPackets = 11
INVARIANTS MatchIsUnique NeverGoesBack
