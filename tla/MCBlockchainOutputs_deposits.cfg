CONSTANTS
    d1 = d1
    d2 = d2
    w1 = w1
    w2 = w2
    w3 = w3
    Txs <- MCTxs
    Ins <- MCIns
    Outs <- MCOuts
    UnlockTime <- MCUnlockTime
    Candidates <- MCCandidates
    Amounts <- MCAmounts
    MinerOuts <- MCMinerOuts
    UnlockWindow = 1
    DeltaBlocks = 1
    Interest <- MCInterest
    Int64Max = 100
    MaxBlocks = 7
    MaxDepositBlocks = 8
SPECIFICATION Spec
INVARIANT DepositNeverNegative
