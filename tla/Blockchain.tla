----------------------------- MODULE Blockchain -----------------------------
(***************************************************************************)
(* cn::Blockchain: the main chain, the alternative chains, the indices of  *)
(* spent key images and of confirmed transactions, and the exchange of     *)
(* transactions with the memory pool when blocks are added and removed.    *)
(*                                                                         *)
(* Blocks and transactions are fixed values; what varies is which of them  *)
(* the node has and where.  A block names its ancestors by hash, so every  *)
(* check that only depends on its ancestry (version, timestamp, proof of   *)
(* work, miner transaction) has one answer per block.                      *)
(*                                                                         *)
(* addNewBlock runs under the locks of the pool and of the blockchain.     *)
(* Without a chain switch it is one step.  A switch is one step per call   *)
(* of popBlock, pushBlock and handle_alternative_block, because m_blocks   *)
(* is stored at each of them; op is where the switch is, and its other     *)
(* local variables are altChain, disconnected, discard and pos.  A call    *)
(* that returns without changing anything is a stuttering step.            *)
(***************************************************************************)
EXTENDS Integers, Sequences, FiniteSets

CONSTANTS
    Blocks,        \* block hashes
    Genesis,       \* m_currency.genesisBlockHash()
    Path,          \* Path[b]: the blocks from Genesis to b, by previousBlockHash
    Work,          \* Work[b]: cumulative difficulty of Path[b]
    Txs,           \* transaction hashes (miner transactions are left out)
    TxsOf,         \* TxsOf[b]: the transactions of block b
    Images,        \* Images[t]: key images spent by transaction t
    BadHeader,     \* blocks refused by pushBlock and by handle_alternative_block
    MergeMined,    \* blocks from UPGRADE_HEIGHT_V6 on with a merge mining tag
    WeakWork,      \* blocks that fail checkProofOfWork
    BadBody,       \* blocks refused by pushBlock only, for a transaction or the reward
    Oversize,      \* blocks that fail checkCumulativeBlockSize with all their transactions
    Throws,        \* blocks with a transaction that spends an output of the same block
    Checkpoints,   \* m_points, as a set of blocks
    UnlockWindow   \* CRYPTONOTE_MINED_MONEY_UNLOCK_WINDOW

Height(b) == Len(Path[b]) - 1
Prev(b) == Path[b][Len(Path[b]) - 1]

ASSUME PathAssumption ==
    /\ Genesis \in Blocks
    /\ Path \in [Blocks -> Seq(Blocks)]
    /\ Path[Genesis] = <<Genesis>>
    /\ \A b \in Blocks : /\ Len(Path[b]) >= 1
                         /\ Path[b][1] = Genesis
                         /\ Path[b][Len(Path[b])] = b
                         /\ \A k \in 1 .. Len(Path[b]) :
                               Path[Path[b][k]] = SubSeq(Path[b], 1, k)

ASSUME WorkAssumption ==
    /\ Work \in [Blocks -> Nat]
    /\ \A b \in Blocks \ {Genesis} : Work[Prev(b)] < Work[b]

ASSUME TxAssumption ==
    /\ TxsOf \in [Blocks -> SUBSET Txs]
    /\ TxsOf[Genesis] = {}
    /\ \A t \in Txs : Images[t] # {}          \* check_tx_semantic: no empty inputs

ASSUME CheckAssumption ==
    /\ BadHeader \cup MergeMined \cup WeakWork \cup Checkpoints \subseteq Blocks
    /\ BadBody \cup Oversize \cup Throws \subseteq Blocks
    /\ BadBody \cap (Oversize \cup Throws) = {} /\ Oversize \cap Throws = {}
    /\ \A b, c \in Checkpoints : Height(b) = Height(c) => b = c
    /\ UnlockWindow \in Nat

VARIABLES
    blocks,         \* m_blocks and m_blockIndex
    alternatives,   \* m_alternative_chains
    txMap,          \* m_transactionMap
    spentKeys,      \* m_spent_keys
    pool,           \* m_tx_pool
    op,             \* "idle" or the loop the switch is in
    altChain,       \* alt_chain
    disconnected,   \* disconnected_chain
    discard,        \* discard_disconnected_chain
    pos             \* next block to demote, or the first of altChain to erase

chain == <<blocks, txMap, spentKeys, pool>>
locals == <<op, altChain, disconnected, discard, pos>>
vars == <<blocks, alternatives, txMap, spentKeys, pool, op, altChain, disconnected, discard, pos>>

Ops == {"idle", "disconnect", "connect", "demote", "rollback", "restore"}

Init == /\ blocks = <<Genesis>>
        /\ alternatives = {}
        /\ txMap = {} /\ spentKeys = {} /\ pool = {}
        /\ op = "idle" /\ altChain = <<>> /\ disconnected = <<>>
        /\ discard = FALSE /\ pos = 1

-----------------------------------------------------------------------------
Elements(s) == {s[i] : i \in 1 .. Len(s)}
TxsIn(S) == UNION {TxsOf[b] : b \in S}
ImagesIn(T) == UNION {Images[t] : t \in T}

tail == blocks[Len(blocks)]
hasBlock(b) == b \in Elements(blocks)
haveBlock(b) == hasBlock(b) \/ b \in alternatives
haveTransaction(t) == t \in txMap

check_block(b) == \A c \in Checkpoints : Height(c) = Height(b) => c = b

is_in_checkpoint_zone(h) == \E c \in Checkpoints : h <= Height(c)

(* Mutants of is_alternative_block_allowed: without the unlock window, and *)
(* without the checkpoints.                                                *)
allowedAtAnyDepth(size, h) ==
    /\ h # 0
    /\ \A c \in Checkpoints : Height(c) <= size => Height(c) < h
allowedBelowCheckpoint(size, h) ==
    /\ h # 0
    /\ size >= UnlockWindow /\ h < size - UnlockWindow => is_in_checkpoint_zone(h)

(* size is getCurrentBlockchainHeight(), the number of blocks.             *)
is_alternative_block_allowed(size, h) ==
    /\ h # 0
    /\ size >= UnlockWindow /\ h < size - UnlockWindow => is_in_checkpoint_zone(h)
    /\ \A c \in Checkpoints : Height(c) <= size => Height(c) < h

inputsDiffer(T) == \A t, u \in T : t # u => Images[t] \cap Images[u] = {}

(* No transaction of T spends a key image that is spent already.           *)
checkTransactionInputs(T) ==
    /\ ImagesIn(T) \cap spentKeys = {}
    /\ \A t, u \in T : t # u => Images[t] \cap Images[u] = {}

(* The transactions are in the pool (loadTransactions), and the checks of  *)
(* pushBlock before its loop over the transactions pass.                   *)
headerAccepted(b) ==
    /\ TxsOf[b] \subseteq pool
    /\ ~hasBlock(b)
    /\ b \notin BadHeader
    /\ hasBlock(b) => b \notin MergeMined     \* looks up the height of b, before b is pushed
    /\ Prev(b) = tail
    /\ IF is_in_checkpoint_zone(Len(blocks)) THEN check_block(b) ELSE b \notin WeakWork

(* What pushTransaction adds, and popTransaction removes, for each of T.   *)
pushTransactions(T) == /\ txMap' = txMap \cup T
                       /\ spentKeys' = spentKeys \cup ImagesIn(T)

popTransactions(T) == /\ txMap' = txMap \ T
                      /\ spentKeys' = spentKeys \ ImagesIn(T)

blockAccepted(b) ==
    /\ headerAccepted(b)
    /\ checkTransactionInputs(TxsOf[b])
    /\ b \notin BadBody \cup Oversize \cup Throws

pushBlock(b) ==
    /\ blockAccepted(b)
    /\ blocks' = Append(blocks, b)
    /\ pushTransactions(TxsOf[b])
    /\ pool' = pool \ TxsOf[b]

(* pushBlock returns false.  The transactions pushed are popped and those  *)
(* taken from the pool go back, except that a block that is too big leaves *)
(* its transactions pushed, and an exception leaves the transactions       *)
(* before it pushed and the pool without any of them.                      *)
pushBlockFails(b) ==
    /\ UNCHANGED blocks
    /\ \/ /\ \/ ~headerAccepted(b)
             \/ ~checkTransactionInputs(TxsOf[b])
             \/ b \in BadBody
          /\ UNCHANGED <<txMap, spentKeys, pool>>
       \/ /\ headerAccepted(b) /\ checkTransactionInputs(TxsOf[b])
          /\ b \in Oversize
          /\ pushTransactions(TxsOf[b])
          /\ UNCHANGED pool
       \/ /\ headerAccepted(b)
          /\ b \in Throws
          /\ \E T \in SUBSET TxsOf[b] : /\ T # TxsOf[b]
                                       /\ checkTransactionInputs(T)
                                       /\ pushTransactions(T)
          /\ pool' = pool \ TxsOf[b]

(* Mutant of popBlock: the transactions do not go back to the pool.        *)
popBlockForgets ==
    /\ TxsOf[tail] \cap pool = {}
    /\ blocks' = SubSeq(blocks, 1, Len(blocks) - 1)
    /\ popTransactions(TxsOf[tail])
    /\ UNCHANGED pool

(* saveTransactions throws when a transaction is in the pool already.      *)
(* Without restarts that never happens (PoolDisjoint); BlockchainStorage   *)
(* models what follows when it does.                                       *)
popBlock ==
    /\ TxsOf[tail] \cap pool = {}
    /\ blocks' = SubSeq(blocks, 1, Len(blocks) - 1)
    /\ popTransactions(TxsOf[tail])
    /\ pool' = pool \cup TxsOf[tail]

-----------------------------------------------------------------------------
(* Position in Path[b] of the front of the alternative chain that b ends:  *)
(* the walk along previousBlockHash through m_alternative_chains.          *)
IsAltFront(b, k) ==
    /\ k \in 2 .. Len(Path[b])
    /\ \A j \in k .. Len(Path[b]) - 1 : Path[b][j] \in alternatives
    /\ Path[b][k - 1] \notin alternatives

altFront(b) == CHOOSE k \in 2 .. Len(Path[b]) : IsAltFront(b, k)

altChainOf(b) == SubSeq(Path[b], altFront(b), Len(Path[b]))

(* A transaction that is pushed but belongs to no block of the chain.      *)
leaked == txMap \ TxsIn(Elements(blocks))

(* The size check of handle_alternative_block counts the transactions the  *)
(* node has.  Looking up a leaked one reads a block that does not hold it, *)
(* or throws and leaves the size that is compared uninitialised.           *)
maySizePass(b) == \/ b \notin Oversize
                  \/ TxsOf[b] \cap leaked # {}
                  \/ ~(TxsOf[b] \subseteq txMap \cup pool)
maySizeFail(b) == \/ b \in Oversize
                  \/ TxsOf[b] \cap leaked # {}

connects(b) ==
    LET k == altFront(b)
    IN  IF k < Len(Path[b])
        THEN Len(blocks) >= k /\ blocks[k - 1] = Path[b][k - 1]
        ELSE hasBlock(Prev(b))

(* handle_alternative_block, up to the insertion.                          *)
alternativeAccepted(b) ==
    /\ is_alternative_block_allowed(Len(blocks), Height(b))
    /\ b \notin BadHeader \cup MergeMined \cup WeakWork
    /\ maySizePass(b)
    /\ Prev(b) \in alternatives \/ hasBlock(Prev(b))
    /\ connects(b)
    /\ check_block(b)
    /\ b \notin alternatives

(* Mutants of reorganizes: equal work is enough, and the longest chain     *)
(* wins.                                                                   *)
reorganizesOnTie(b) == b \in Checkpoints \/ Work[tail] <= Work[b]
reorganizesByHeight(b) == b \in Checkpoints \/ Len(blocks) < Len(Path[b])

reorganizes(b) == b \in Checkpoints \/ Work[tail] < Work[b]

(* Mutants of switchAccepted: the transactions are not compared, and the   *)
(* size is off by one.                                                     *)
switchAnyTransactions(alt) == Len(blocks) > Height(alt[1])
switchTooStrict(alt) ==
    LET split == Height(alt[1])
    IN  /\ Len(blocks) > split + 1
        /\ \A i \in split + 1 .. Len(blocks) : TxsOf[blocks[i]] \subseteq TxsIn(Elements(alt))

(* switch_to_alternative_blockchain, up to the first popBlock.             *)
switchAccepted(alt) ==
    LET split == Height(alt[1])
    IN  /\ Len(blocks) > split
        /\ \A i \in split + 1 .. Len(blocks) : TxsOf[blocks[i]] \subseteq TxsIn(Elements(alt))

splitHeight == Height(altChain[1])

-----------------------------------------------------------------------------
(* addNewBlock, when the block refers to the tail.                         *)
addToMainChain(b) ==
    /\ op = "idle" /\ ~haveBlock(b)
    /\ Prev(b) = tail
    /\ pushBlock(b) \/ pushBlockFails(b)
    /\ UNCHANGED <<alternatives, locals>>

(* addNewBlock, when the block goes to the alternative chains only: it has *)
(* no more work than the main chain, or the switch is refused.             *)
addAlternative(b) ==
    /\ op = "idle" /\ ~haveBlock(b)
    /\ Prev(b) # tail
    /\ alternativeAccepted(b)
    /\ ~(reorganizes(b) /\ switchAccepted(altChainOf(b)))
    /\ alternatives' = alternatives \cup {b}
    /\ UNCHANGED <<chain, locals>>

startSwitch(b) ==
    /\ op = "idle" /\ ~haveBlock(b)
    /\ Prev(b) # tail
    /\ alternativeAccepted(b)
    /\ reorganizes(b) /\ switchAccepted(altChainOf(b))
    /\ alternatives' = alternatives \cup {b}
    /\ op' = "disconnect"
    /\ altChain' = altChainOf(b)
    /\ disconnected' = <<>>
    /\ discard' = (b \in Checkpoints)
    /\ pos' = 1
    /\ UNCHANGED chain

disconnect ==
    /\ op = "disconnect"
    /\ popBlock
    /\ disconnected' = <<tail>> \o disconnected
    /\ op' = IF Len(blocks) - 1 > splitHeight THEN "disconnect" ELSE "connect"
    /\ UNCHANGED <<alternatives, altChain, discard, pos>>

(* The block of altChain, or of disconnected, that the main chain gets next. *)
next == Len(blocks) - splitHeight + 1

connect ==
    /\ op = "connect"
    /\ pushBlock(altChain[next])
    /\ op' = IF next = Len(altChain) THEN "demote" ELSE "connect"
    /\ UNCHANGED <<alternatives, altChain, disconnected, discard, pos>>

(* Mutant of connectFails: the failed subchain is not removed.             *)
connectFailsNoRollback ==
    /\ op = "connect"
    /\ pushBlockFails(altChain[next])
    /\ pos' = next
    /\ op' = "restore"
    /\ UNCHANGED <<alternatives, altChain, disconnected, discard>>

connectFails ==
    /\ op = "connect"
    /\ pushBlockFails(altChain[next])
    /\ pos' = next
    /\ op' = IF Len(blocks) > splitHeight THEN "rollback" ELSE "restore"
    /\ UNCHANGED <<alternatives, altChain, disconnected, discard>>

(* The old chain goes to the alternative chains, block by block.           *)
demote ==
    /\ op = "demote" /\ ~discard /\ pos <= Len(disconnected)
    /\ alternativeAccepted(disconnected[pos])
    /\ ~reorganizes(disconnected[pos])
    /\ alternatives' = alternatives \cup {disconnected[pos]}
    /\ pos' = pos + 1
    /\ UNCHANGED <<chain, op, altChain, disconnected, discard>>

demoteFails ==
    /\ op = "demote" /\ ~discard /\ pos <= Len(disconnected)
    /\ ~alternativeAccepted(disconnected[pos]) \/ maySizeFail(disconnected[pos])
    /\ op' = "rollback"
    /\ pos' = Len(altChain) + 1
    /\ UNCHANGED <<chain, alternatives, altChain, disconnected, discard>>

(* Mutant of endSwitch: nothing is erased.                                 *)
endSwitchKeeps(first) ==
    /\ UNCHANGED alternatives
    /\ op' = "idle" /\ altChain' = <<>> /\ disconnected' = <<>>
    /\ discard' = FALSE /\ pos' = 1

(* switch_to_alternative_blockchain returns; the blocks of altChain from   *)
(* first on are erased from m_alternative_chains.                          *)
endSwitch(first) ==
    /\ alternatives' = alternatives \ {altChain[i] : i \in first .. Len(altChain)}
    /\ op' = "idle" /\ altChain' = <<>> /\ disconnected' = <<>>
    /\ discard' = FALSE /\ pos' = 1

switched ==
    /\ op = "demote" /\ (discard \/ pos > Len(disconnected))
    /\ endSwitch(1)
    /\ UNCHANGED chain

(* rollback_blockchain_switching: remove the failed subchain ...           *)
rollback ==
    /\ op = "rollback"
    /\ popBlock
    /\ op' = IF Len(blocks) - 1 > splitHeight THEN "rollback" ELSE "restore"
    /\ UNCHANGED <<alternatives, altChain, disconnected, discard, pos>>

(* ... and return back the original chain.                                 *)
restore ==
    /\ op = "restore" /\ next <= Len(disconnected)
    /\ pushBlock(disconnected[next])
    /\ UNCHANGED <<alternatives, locals>>

restoreFails ==
    /\ op = "restore" /\ next <= Len(disconnected)
    /\ pushBlockFails(disconnected[next])
    /\ endSwitch(pos)

(* Mutant of restored: the rollback starts again.                          *)
restoredAgain ==
    /\ op = "restore" /\ next > Len(disconnected)
    /\ op' = "rollback"
    /\ UNCHANGED <<chain, alternatives, altChain, disconnected, discard, pos>>

restored ==
    /\ op = "restore" /\ next > Len(disconnected)
    /\ endSwitch(pos)
    /\ UNCHANGED chain

-----------------------------------------------------------------------------
(* Mutant of add_new_tx: without haveTransaction.                          *)
add_new_tx_unchecked(t, keptByBlock) ==
    /\ op = "idle"
    /\ t \notin pool
    /\ keptByBlock \/ Images[t] \cap (spentKeys \cup ImagesIn(pool)) = {}
    /\ pool' = pool \cup {t}
    /\ UNCHANGED <<blocks, txMap, spentKeys, alternatives, locals>>

(* core::add_new_tx, which holds both locks.                               *)
add_new_tx(t, keptByBlock) ==
    /\ op = "idle"
    /\ ~haveTransaction(t) /\ t \notin pool
    /\ keptByBlock \/ Images[t] \cap (spentKeys \cup ImagesIn(pool)) = {}
    /\ pool' = pool \cup {t}
    /\ UNCHANGED <<blocks, txMap, spentKeys, alternatives, locals>>

(* tx_memory_pool::removeExpiredTransactions                               *)
removeExpiredTransaction(t) ==
    /\ op = "idle" /\ t \in pool
    /\ pool' = pool \ {t}
    /\ UNCHANGED <<blocks, txMap, spentKeys, alternatives, locals>>

(* rollbackBlockchainTo, from the console command rollback_chain: neither  *)
(* the pool nor the alternative chains are told.                           *)
rollbackBlockchainTo(height) ==
    /\ op = "idle" /\ Len(blocks) > height + 1
    /\ blocks' = SubSeq(blocks, 1, height + 1)
    /\ popTransactions(TxsIn({blocks[i] : i \in height + 2 .. Len(blocks)}))
    /\ UNCHANGED <<pool, alternatives, locals>>

addNewBlock(b) == addToMainChain(b) \/ addAlternative(b) \/ startSwitch(b)

switchStep == \/ disconnect \/ connect \/ connectFails
              \/ demote \/ demoteFails \/ switched
              \/ rollback \/ restore \/ restoreFails \/ restored

poolStep == \/ \E t \in Txs, keptByBlock \in BOOLEAN : add_new_tx(t, keptByBlock)
            \/ \E t \in Txs : removeExpiredTransaction(t)

(* The genesis block is in the chain from the start.                       *)
Next == \/ \E b \in Blocks \ {Genesis} : addNewBlock(b)
        \/ switchStep
        \/ poolStep

Spec == Init /\ [][Next]_vars

(* The thread that holds the two locks goes on to release them.            *)
FairSpec == Spec /\ WF_vars(switchStep)

(* With the operator's console.                                            *)
operatorStep == \E height \in 0 .. Len(blocks) : rollbackBlockchainTo(height)

OperatorNext == Next \/ operatorStep

OperatorSpec == Init /\ [][OperatorNext]_vars

(* Peers on the heaviest chain send its blocks, each with its transactions, *)
(* for as long as this node does not have them.                            *)
heaviest(b) == \A c \in Blocks : Work[c] <= Work[b]

PeersSend ==
    /\ WF_vars(switchStep)
    /\ \A b \in Blocks : heaviest(b) =>
          /\ \A c \in Elements(Path[b]) \ {Genesis} : SF_vars(addNewBlock(c))
          /\ \A t \in TxsIn(Elements(Path[b])) : SF_vars(add_new_tx(t, TRUE))

OperatorSyncSpec == OperatorSpec /\ PeersSend

-----------------------------------------------------------------------------
ChainTxs == TxsIn(Elements(blocks))
lastOf(s) == s[Len(s)]

(* The types of the containers of Blockchain and of the locals of a switch. *)
TypeOK ==
    /\ blocks \in Seq(Blocks) /\ blocks # <<>>
    /\ alternatives \subseteq Blocks
    /\ txMap \subseteq Txs /\ pool \subseteq Txs
    /\ spentKeys \subseteq ImagesIn(Txs)
    /\ op \in Ops
    /\ altChain \in Seq(Blocks) /\ disconnected \in Seq(Blocks)
    /\ discard \in BOOLEAN /\ pos \in Nat

(* No key image is spent twice on the main chain: not by two transactions, *)
(* and not by one transaction confirmed in two blocks, however many        *)
(* switches and rollbacks built the chain.                                 *)
NoDoubleSpend ==
    \A i, j \in 1 .. Len(blocks) :
        \A t \in TxsOf[blocks[i]], u \in TxsOf[blocks[j]] :
            Images[t] \cap Images[u] # {} => i = j /\ t = u

(* A transaction of the main chain is not in the pool, in the middle of a  *)
(* switch included, so popBlock's saveTransactions never throws.           *)
PoolDisjoint == pool \cap ChainTxs = {}

(* When no block fails half way through pushBlock, m_transactionMap and    *)
(* m_spent_keys hold what the blocks of the main chain hold and no more.   *)
IndicesExact ==
    Oversize \cup Throws = {} =>
        /\ txMap = ChainTxs
        /\ spentKeys = ImagesIn(ChainTxs)

(* A block is on the main chain or in m_alternative_chains, never in both, *)
(* whenever no switch is under way, if what pushBlock accepts is accepted  *)
(* as an alternative too.                                                  *)
AltDisjoint ==
    MergeMined \cup WeakWork = {} /\ op = "idle" => alternatives \cap Elements(blocks) = {}

(* rollback_blockchain_switching never reaches its "PANIC!!!": each block  *)
(* of the original chain can be pushed again, if no block is in Oversize   *)
(* or Throws.  Such a block leaves entries in the indices when pushBlock   *)
(* fails half way through it, and the old chain may then be refused.       *)
RollbackCanRestore ==
    op = "restore" /\ next <= Len(disconnected) => blockAccepted(disconnected[next])

(* While the old chain is demoted, handle_alternative_block does not start *)
(* a second switch inside the first.                                       *)
NoNestedSwitch ==
    op = "demote" /\ ~discard =>
        \A i \in pos .. Len(disconnected) : ~reorganizes(disconnected[i])

(* A checkpointed block of the main chain is never disconnected.           *)
NoCheckpointUndone == Checkpoints \cap Elements(disconnected) = {}

SwitchEnds == op # "idle" /\ op' = "idle"

(* A switch ends on the whole alternative chain or on the whole chain it   *)
(* started from.                                                           *)
SwitchAllOrNothing ==
    [][SwitchEnds => blocks' \in {Path[lastOf(altChain)], Path[lastOf(disconnected)]}]_vars

(* Unless a checkpoint asked for it, a switch does not lose work.          *)
SwitchKeepsWork ==
    [][SwitchEnds /\ ~discard => Work[lastOf(blocks')] >= Work[lastOf(disconnected)]]_vars

(* A transaction confirmed before a switch is confirmed after it.          *)
NoConfirmedTxLost ==
    [][SwitchEnds => TxsIn(Elements(disconnected)) \subseteq TxsIn(Elements(blocks'))]_vars

(* Outside the checkpoint zone, a switch that completes replaced only      *)
(* blocks within the unlock window of the new tail.                        *)
ReorgDepthBounded ==
    [][op = "demote" /\ SwitchEnds /\ ~discard =>
          \/ Height(disconnected[1]) >= Len(blocks') - UnlockWindow
          \/ is_in_checkpoint_zone(Height(disconnected[1]))]_vars

(* A transaction is not in the pool and in m_transactionMap at once.       *)
NotInPoolAndChain == pool \cap txMap = {}

(* Once the operator no longer rolls the chain back, the node comes to the *)
(* heaviest chain its peers send and stays there.                          *)
SyncResumes == <>[]heaviest(tail) \/ []<><<operatorStep>>_vars

(* addNewBlock returns, whatever fails on the way.                         *)
SwitchTerminates == op # "idle" ~> op = "idle"
=============================================================================
