SPECIFICATION RoundsSpec
CONSTANTS
  n0 = n0
  n1 = n1
  n2 = n2
  n3 = n3
  Node <- MCNode
  Validators <- MCValidators
  NoVote = NoVote
  NoState = NoState
  NoTimeout = NoTimeout
  Txs = {t1}
  CheckpointInterval = 1
  WindowSize = 2
  AppFaults = {"FinalizeBlock", "PrepareProposal"}
  Down = {}
  MaxSeq = 4
  MaxView = 0
  MaxProposals = 4
  MaxViewChanges = 1
CHECK_DEADLOCK FALSE
INVARIANT CheckpointWindow
PROPERTY ImplementsLedger
