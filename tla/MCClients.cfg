CONSTANTS
  Requests = {"w1", "w2", "s"}
  WalletRequests = {"w1", "w2"}
  Following <- MCFollowing
  Tips = {"a", "b"}
  PoolTxs = {"x"}
  NoTip = "none"
  MaxInits = 1
  MaxNodeChanges = 1
  MaxFailures = 1
  Workers = {"u1", "u2"}
  QueueSize = 4
  Batch <- MCBatch
  d1 = d1
  d2 = d2
  w1 = w1
  w2 = w2
  w3 = w3
  Txs <- MCTxs
  Ins <- MCIns
  Outs <- MCOuts
  UnlockTime <- MCUnlockTime
  Candidates <- MCCandidates
  Amounts <- MCAmounts
  MinerOuts <- MCMinerOuts
  UnlockWindow = 1
  DeltaBlocks = 1
  Interest <- MCInterest
  Int64Max = 100
  MaxBlocks = 6
  MaxDepositBlocks = 6
SPECIFICATION ClientsSpec
INVARIANTS AnsweredOnce RebuildAgrees WithdrawnOnceAfterTerm
PROPERTIES ProxyStops ViewCatchesUp BatchCompletes
CHECK_DEADLOCK FALSE
