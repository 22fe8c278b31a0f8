SPECIFICATION FairSpec
CONSTANTS
  Depth = 2
  SidMod = 4
  Modes <- AllModes
  MaxSubmits = 6
  MaxRestarts = 1
INVARIANTS TypeOK ReadyIsCoherent CompletionsInOrder
PROPERTIES FifoSpec SubmitEndsOrFull PublishedIsCompleted
CHECK_DEADLOCK FALSE
