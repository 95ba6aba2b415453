SPECIFICATION LiveSpec
CONSTANTS
  n0 = n0
  n1 = n1
  Node <- MCNode
  Validators <- MCValidators
  t1 = t1
  t2 = t2
  Txs = {t1, t2}
  Submissions <- MCSubmissions
  Restless = {n1}
  Perishable <- MCPerishable
  MaxBatchTxs = 2
  RequestSize = 1
  QueueSize = 1
  BroadcastSize = 2
  MaxView = 1
CHECK_DEADLOCK FALSE
INVARIANTS TypeOK NothingLost GossipFromOrigin
PROPERTIES  GossipReaches
