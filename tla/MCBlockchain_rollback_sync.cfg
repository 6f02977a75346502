SPECIFICATION OperatorSyncSpec
CONSTANTS
  Genesis = "g"
  Parent <- SyncParent
  Heavy = {}
  HeavyDifficulty = 3
  Blocks <- TreeBlocks
  Path <- TreePath
  Work <- TreeWork
  Txs = {"t1", "t2"}
  TxsOf <- SyncTxs
  Images <- SyncImages
  BadHeader = {}
  MergeMined = {}
  WeakWork = {}
  BadBody = {}
  Oversize = {}
  Throws = {}
  Checkpoints = {}
  UnlockWindow = 10
PROPERTIES SyncResumes
