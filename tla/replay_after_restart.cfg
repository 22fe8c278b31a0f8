SPECIFICATION CacheSpec
CONSTANTS
  h1 = h1  h2 = h2  h3 = h3  h4 = h4
  Hashes <- FourHashes
  Capacity = 3
  FaultSets <- RestartOnly
  MaxInserts = 6
SYMMETRY HashSymmetry
CHECK_DEADLOCK FALSE
INVARIANTS RecentRejected
