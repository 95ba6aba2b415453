SPECIFICATION RoundsSpec
CONSTANTS
  n0 = n0
  n1 = n1
  n2 = n2
  n3 = n3
  Node <- MCNode
  Validators <- MCValidators
  NoVote = NoVote
  NoState = NoState
  NoTimeout = NoTimeout
  Txs = {t1}
  CheckpointInterval = 2
  WindowSize = 2
  AppFaults = {"ProcessProposal"}
  Down = {}
  MaxSeq = 1
  MaxView = 1
  MaxProposals = 2
  MaxViewChanges = 1
CHECK_DEADLOCK FALSE
INVARIANTS Agreement
