CONSTANTS
  Workers = {w1}
  Node = node
  Console = console
  NoTemplate = none
  MaxTip = 1
  MaxCommands = 2
  Consumers <- MCConsumers
  NodeChains <- MCNodeChains
  Work <- MCWork
  PoolIds = {"x"}
  MaxBatch = 2
  MaxNodeChanges = 2
  MaxErrors = 1
  MaxStarts = 1
  MaxTasks = 1
SPECIFICATION ThreadsSpec
INVARIANTS
  ConsumersAgree
  WaitingMeansSynced
PROPERTIES
  TipMined
  StopReturns
  TasksTaken
  SyncRests
CHECK_DEADLOCK FALSE
