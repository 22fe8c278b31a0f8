SPECIFICATION Spec
CONSTANTS
  l1 = l1  l2 = l2  w1 = w1
  LeaseIds <- TwoLeases
  Wavelengths <- OneWavelength
  Durations <- JustOne
  FaultSets <- FaultChoices
  MaxTime = 2
  MaxEnd = 2
  MaxHeight = 2
SYMMETRY LeaseSymmetry
INVARIANTS TypeOK DoubleAllocationOnlyByLateRenewal VerifiedTokensExclusive SupersededTokenRejected AuditNeverAhead AuditReconstructs
