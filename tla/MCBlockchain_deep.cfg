SPECIFICATION OperatorSpec
CONSTANTS
  Genesis = "g"
  Parent <- DeepParent
  Heavy = {"c6", "x1", "e6"}
  HeavyDifficulty = 5
  Blocks <- TreeBlocks
  Path <- TreePath
  Work <- TreeWork
  Txs = {"t1", "t2", "t3"}
  TxsOf <- DeepTxs
  Images <- DeepImages
  BadHeader = {}
  MergeMined = {"a6"}
  WeakWork = {}
  BadBody = {}
  Oversize = {"d5"}
  Throws = {"e5"}
  Checkpoints = {"p2"}
  UnlockWindow = 3
INVARIANTS NoDoubleSpend PoolDisjoint NoCheckpointUndone
PROPERTY ReorgDepthBounded
