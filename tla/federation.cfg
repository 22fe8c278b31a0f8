SPECIFICATION FedSpec
CONSTANTS
  p1 = p1  p2 = p2
  Peers <- TwoPeers
  EndpointMaps <- OwnOrShared
  MaxHeight = 1
  MaxGen = 1
INVARIANTS QuietAfterStop ConflictReported
PROPERTIES LatestMonotonic RemovedNotRevived StopReturns
