SPECIFICATION Spec
CONSTANTS
  Genesis = "g"
  Parent <- LeakParent
  Heavy = {"b2"}
  HeavyDifficulty = 9
  Blocks <- TreeBlocks
  Path <- TreePath
  Work <- TreeWork
  Txs = {"t1", "t2", "t3"}
  TxsOf <- LeakTxs
  Images <- LeakImages
  BadHeader = {}
  MergeMined = {}
  WeakWork = {}
  BadBody = {}
  Oversize = {"b1"}
  Throws = {}
  Checkpoints = {}
  UnlockWindow = 10
INVARIANT NotInPoolAndChain
