SPECIFICATION Spec
CONSTANTS
  MaxHeight = 2
  NoFile = NoFile
  Torn = Torn
  CheckpointInterval = 2
  WindowSize = 2
  TxsPerBlock = 2
  Adapters = {"local", "remote"}
  AppFaults = {"FinalizeBlock", "Commit"}
  StoreFaults = TRUE
  MaxBlocks = 3
  MaxView = 1
  MaxCrashes = 2
CHECK_DEADLOCK FALSE
INVARIANTS TypeOK NothingPointsAhead NoBlockForgotten AppAgrees SavedStateIsPast
