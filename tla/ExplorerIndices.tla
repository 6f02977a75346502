--------------------------- MODULE ExplorerIndices ---------------------------
(***************************************************************************)
(* The indices a node keeps for the blockchain explorer                    *)
(* (BlockchainIndices.cpp): transactions by payment id, blocks by          *)
(* timestamp, and the number of transactions generated up to each height.  *)
(* They follow the chain block by block, are saved by an orderly stop with *)
(* the hash of the last block, and are rebuilt from the chain when the     *)
(* file is of another chain or cannot be read.  Only a node started with   *)
(* the indices enabled loads, rebuilds and saves them; the others go       *)
(* through the same updates on what they have.                             *)
(***************************************************************************)
EXTENDS Integers, Sequences, FiniteSets, Functions, Bags, BagsExt

CONSTANTS IndexedBlocks,   \* ids of blocks
          GenesisBlock,
          TxsIn,           \* TxsIn[b]: the transactions of block b, without the miner's
          Timestamp,       \* Timestamp[b]
          PaymentIdOf,     \* PaymentIdOf[t]: the payment id of t, or NoPaymentId
          NoPaymentId,
          MaxIndexed       \* bound on the number of blocks

ASSUME ExplorerAssumption ==
    GenesisBlock \in IndexedBlocks /\ \A b \in IndexedBlocks : IsFiniteSet(TxsIn[b])

VARIABLES main,            \* m_blocks
          enabled,         \* m_blockchainIndexesEnabled
          paymentIdIndex,  \* multimap: payment id -> transaction
          timestampIndex,  \* multimap: timestamp -> block
          generated,       \* GeneratedTransactionsIndex::index, heights 0, 1, ...
          lastGenerated,   \* lastGeneratedTxNumber
          indicesFile,     \* blockchainindices.dat: NoFile or a record
          left             \* transactions that oversized blocks left in the indices

explorerVars == <<main, enabled, paymentIdIndex, timestampIndex, generated, lastGenerated,
                  indicesFile, left>>

(* No file, or one whose write was cut short.  The hash of a block covers   *)
(* all blocks before it: a file is of the chain it names by its last block. *)
NoFile == [chain |-> <<>>]

AddPaymentIds(B, txs) ==
    B (+) SetToBag({<<PaymentIdOf[t], t>> : t \in {x \in txs : PaymentIdOf[x] # NoPaymentId}})

RemovePaymentIds(B, txs) ==
    B (-) SetToBag({<<PaymentIdOf[t], t>> : t \in {x \in txs : PaymentIdOf[x] # NoPaymentId}})

AddTimestamp(B, b) == BagAdd(B, <<Timestamp[b], b>>)

RemoveTimestamp(B, b) == BagRemove(B, <<Timestamp[b], b>>)

(* GeneratedTransactionsIndex::add refuses a block that is not next.       *)
AddGenerated(gen, last, b, height) ==
    IF Len(gen) # height THEN [gen |-> gen, last |-> last]
    ELSE LET n == last + Cardinality(TxsIn[b]) + 1 IN [gen |-> Append(gen, n), last |-> n]

(* GeneratedTransactionsIndex::remove; the size of an empty index minus one *)
(* is no height.                                                            *)
RemoveGenerated(gen, last, height) ==
    IF Len(gen) # height + 1 THEN [gen |-> gen, last |-> last]
    ELSE [gen |-> SubSeq(gen, 1, height), last |-> IF height = 0 THEN 0 ELSE gen[height]]

Known(c) == UNION {TxsIn[c[i]] : i \in DOMAIN c}

-----------------------------------------------------------------------------
(* loadBlockchainIndices: the loop over all blocks after clear(), which     *)
(* does not reset lastGeneratedTxNumber.                                    *)
RebuiltGenerated(c) ==
    LET r[n \in 0 .. Len(c)] ==
            IF n = 0 THEN [gen |-> <<>>, last |-> 0]
            ELSE AddGenerated(r[n - 1].gen, r[n - 1].last, c[n], n - 1)
    IN r[Len(c)]

RebuiltPaymentIds(c) == AddPaymentIds(EmptyBag, Known(c))

RebuiltTimestamps(c) == SetToBag({<<Timestamp[c[i]], c[i]>> : i \in DOMAIN c})

ExplorerInit ==
    /\ main = <<GenesisBlock>>
    /\ enabled \in BOOLEAN
    /\ paymentIdIndex = AddPaymentIds(EmptyBag, TxsIn[GenesisBlock])
    /\ timestampIndex = AddTimestamp(EmptyBag, GenesisBlock)
    /\ generated = AddGenerated(<<>>, 0, GenesisBlock, 0).gen
    /\ lastGenerated = AddGenerated(<<>>, 0, GenesisBlock, 0).last
    /\ indicesFile = NoFile
    /\ left = {}

(* A block is pushed: pushTransaction for each transaction, then pushBlock. *)
pushIndexed(b) ==
    /\ Len(main) < MaxIndexed
    /\ b \notin Range(main)
    /\ TxsIn[b] \cap (Known(main) \cup left) = {}
    /\ main' = Append(main, b)
    /\ paymentIdIndex' = AddPaymentIds(paymentIdIndex, TxsIn[b])
    /\ timestampIndex' = AddTimestamp(timestampIndex, b)
    /\ LET r == AddGenerated(generated, lastGenerated, b, Len(main))
       IN generated' = r.gen /\ lastGenerated' = r.last
    /\ UNCHANGED <<enabled, indicesFile, left>>

(* A block is refused after some of its transactions were pushed: they are  *)
(* popped, except when the whole block is too big.                          *)
refuseIndexed(b, oversize) ==
    /\ b \notin Range(main)
    /\ TxsIn[b] \cap (Known(main) \cup left) = {}
    /\ \E pushed \in SUBSET TxsIn[b] :
         LET after == AddPaymentIds(paymentIdIndex, pushed)
         IN IF oversize
            THEN /\ pushed = TxsIn[b] /\ pushed # {}
                 /\ paymentIdIndex' = after
                 /\ left' = left \cup pushed
            ELSE /\ paymentIdIndex' = RemovePaymentIds(after, pushed)
                 /\ UNCHANGED left
    /\ UNCHANGED <<main, enabled, timestampIndex, generated, lastGenerated, indicesFile>>

(* popBlock and removeLastBlock treat these indices alike.                  *)
popIndexed ==
    /\ Len(main) > 1
    /\ LET height == Len(main) - 1
           b == main[Len(main)]
           r == RemoveGenerated(generated, lastGenerated, height)
       IN /\ main' = SubSeq(main, 1, height)
          /\ paymentIdIndex' = RemovePaymentIds(paymentIdIndex, TxsIn[b])
          /\ timestampIndex' = RemoveTimestamp(timestampIndex, b)
          /\ generated' = r.gen /\ lastGenerated' = r.last
    /\ UNCHANGED <<enabled, indicesFile, left>>

(* deinit, which the end of the process can cut short.                      *)
storeBlockchainIndices ==
    /\ enabled
    /\ indicesFile' \in {[chain |-> main, pids |-> paymentIdIndex, times |-> timestampIndex,
                          gen |-> generated, last |-> lastGenerated, left |-> left],
                         NoFile}
    /\ UNCHANGED <<main, enabled, paymentIdIndex, timestampIndex, generated, lastGenerated, left>>

startIndexedAnyFile(on) ==
    /\ on /\ indicesFile # NoFile
    /\ enabled' = on
    /\ paymentIdIndex' = indicesFile.pids /\ timestampIndex' = indicesFile.times
    /\ generated' = indicesFile.gen /\ lastGenerated' = indicesFile.last
    /\ left' = indicesFile.left
    /\ UNCHANGED <<main, indicesFile>>

(* The node starts, with or without the indices.  The file is used if it is  *)
(* of the last block.                                                        *)
startIndexed(on) ==
    /\ enabled' = on
    /\ IF ~on
       THEN /\ paymentIdIndex' = EmptyBag /\ timestampIndex' = EmptyBag
            /\ generated' = <<>> /\ lastGenerated' = 0 /\ left' = {}
       ELSE IF indicesFile.chain = main
       THEN /\ paymentIdIndex' = indicesFile.pids /\ timestampIndex' = indicesFile.times
            /\ generated' = indicesFile.gen /\ lastGenerated' = indicesFile.last
            /\ left' = indicesFile.left
       ELSE /\ paymentIdIndex' = RebuiltPaymentIds(main) /\ timestampIndex' = RebuiltTimestamps(main)
            /\ generated' = RebuiltGenerated(main).gen /\ lastGenerated' = RebuiltGenerated(main).last
            /\ left' = {}
    /\ UNCHANGED <<main, indicesFile>>

ExplorerNext ==
    \/ \E b \in IndexedBlocks : pushIndexed(b)
    \/ \E b \in IndexedBlocks, oversize \in BOOLEAN : refuseIndexed(b, oversize)
    \/ popIndexed
    \/ storeBlockchainIndices
    \/ \E on \in BOOLEAN : startIndexed(on)

ExplorerSpec == ExplorerInit /\ [][ExplorerNext]_explorerVars

-----------------------------------------------------------------------------
(* The explorer finds a transaction by its payment id exactly when the chain *)
(* holds it, up to what blocks refused for their size have left behind; the  *)
(* number of generated transactions at each height, and the one a new block  *)
(* starts from, and the blocks found by timestamp are those of the chain.    *)
(* This survives pops, refused blocks, a stop, a crash and a run without     *)
(* the indices.                                                              *)
ExplorerIndicesExact ==
    enabled => /\ paymentIdIndex = AddPaymentIds(RebuiltPaymentIds(main), left)
               /\ generated = [i \in DOMAIN main |-> i + Cardinality(Known(SubSeq(main, 1, i)))]
               /\ lastGenerated = generated[Len(generated)]
               /\ timestampIndex = RebuiltTimestamps(main)
=============================================================================
