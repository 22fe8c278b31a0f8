SPECIFICATION Spec
CONSTANTS
  Settings <- HostSettings
  Requests <- TwoRequests
  Fibers <- FiveFibers
  HmacTrajectory <- Derive
  SendCapacity = 2
  CqCapacity = 2
  SequenceMod = 2
  MaxPosts = 3
  MaxRefreshes = 2
INVARIANTS CompletedInOrder AuthVouches SequenceCountsLosses LossIsOverflow DecodesFieldwise TopologicalSurvivesS3
PROPERTIES ImplementsLink
CHECK_DEADLOCK FALSE
