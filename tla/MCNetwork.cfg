CONSTANTS
  Peers = {p1, p2}
  FullBlockPeers = {p1}
  Blocks <- MCBlocks
  Genesis = "g"
  Parent <- MCParent
  Work <- MCWork
  TxsOf <- MCTxsOf
  PeerStarts <- MCPeerStarts
  MaxObjects = 2
  MaxIds = 4
  MaxPeerBlocks = 1
  MaxRelays = 1
  MaxBreaks = 1
SPECIFICATION ProtocolSpec
INVARIANTS
  SyncDriven
  HandlerAssertions
PROPERTIES
  CatchesUp
