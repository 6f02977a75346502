SPECIFICATION StoredSpec
CONSTANTS
  Genesis = "g"
  Parent <- ForkParent
  Heavy = {"c2", "e3"}
  HeavyDifficulty = 5
  Blocks <- TreeBlocks
  Path <- TreePath
  Work <- TreeWork
  Txs = {"t1", "t2", "t3", "t4"}
  TxsOf <- ForkTxs
  Images <- ForkImages
  BadHeader = {}
  MergeMined = {}
  WeakWork = {}
  BadBody = {"d3"}
  Oversize = {}
  Throws = {}
  Checkpoints = {}
  UnlockWindow = 10
  b = b
  c = c
  Items <- MCItems
  Size <- MCSize
  Rebuilt <- MCRebuilt
  Garbage = Garbage
  PoolSize = 2
  MaxBytes = 4
INVARIANTS AltDisjoint RollbackCanRestore NoNestedSwitch
PROPERTIES SwitchAllOrNothing SwitchKeepsWork NoConfirmedTxLost SwitchTerminates ImplementsVector
