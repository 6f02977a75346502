CONSTANTS
  Workers = {"u1", "u2"}
  QueueSize = 4
  Batch <- MCBatch
SPECIFICATION ConsumerSpec
PROPERTY BatchReturns
CHECK_DEADLOCK FALSE
