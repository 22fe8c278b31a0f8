SPECIFICATION Spec
CONSTANTS
  l1 = l1  l2 = l2  w1 = w1
  LeaseIds <- TwoLeases
  Wavelengths <- OneWavelength
  Durations <- JustOne
  FaultSets <- NoFaults
  MaxTime = 2
  MaxEnd = 3
  MaxHeight = 2
INVARIANTS NoDoubleAllocation
