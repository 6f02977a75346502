CONSTANTS
  Amounts <- MCAmounts
  Interests <- MCInterests
  Int64Max = 3
  MaxBlocks = 4
  Targets = {2, 3}
  UpgradeHeight <- MCUpgradeHeight
  UNDEF_HEIGHT = 99
  VotingWindow = 3
  VotingThreshold = 60
  UpgradeWindow = 1
  MaxVersions = 10
  IndexedBlocks = {"a", "b", "c", "d", "g"}
  GenesisBlock = "g"
  TxsIn <- MCTxsIn
  Timestamp <- MCTimestamp
  PaymentIdOf <- MCPaymentIdOf
  NoPaymentId = "none"
  MaxIndexed = 4
  PoolTxs = {"t1", "t2", "t3", "t4"}
  KeyImagesOf <- MCKeyImagesOf
  DepositsOf <- MCDepositsOf
  Needs <- MCNeeds
  TtlOf <- MCTtlOf
  FeeOf <- MCFeeOf
  SizeOf <- MCSizeOf
  LiveTime = 0
  AltLiveTime = 0
  ForgetPeriods = 1
  FutureLimit = 1
  MedianSize = 2
  MaxTotalSize = 2
  MaxHeight = 2
  Outputs = {"o1", "d1", "o3", "o4"}
  Term <- MCTerm
  UnlockTime <- MCUnlockTime
  Txs = {"t1", "t2", "t3", "t4"}
  Creates <- MCCreates
  Spends <- MCSpends
  SpendableAge = 1
  MaxProcessed = 4
  MaxBlocksAtOnce = 2
  Unconfirmed = 99
  OwnTxs = {"t2", "t4"}
  MaxSpawned = 2
  MaxReorg = 1
  MaxEvents = 2
SPECIFICATION ObserversSpec
INVARIANTS
  VotingCompleteExact
  CanRestart
  ExplorerIndicesExact
  PoolIndicesExact
  TemplateValid
  ContainerIsScan
  UnlockReported
  HistorySettles
  BalancesSettle
PROPERTIES
  ImplementsLedger
CHECK_DEADLOCK FALSE
