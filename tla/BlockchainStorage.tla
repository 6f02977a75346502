-------------------------- MODULE BlockchainStorage --------------------------
(***************************************************************************)
(* What core::init and core::deinit keep across a restart, and what a      *)
(* crash leaves.  m_blocks is a SwappedVector: its files follow every      *)
(* push_back and pop_back (their buffers are in module SwappedVector), so  *)
(* the chain on disk is the chain in memory at each step of a switch.  The *)
(* block cache (m_transactionMap,                                          *)
(* m_spent_keys and the output indices) is stored by deinit and every      *)
(* AutosaveInterval blocks, the pool by deinit only.                       *)
(* m_alternative_chains is not stored.                                     *)
(***************************************************************************)
EXTENDS Blockchain

CONSTANT AutosaveInterval     \* 720 in addNewBlock

ASSUME AutosaveAssumption == AutosaveInterval \in Nat \ {0}

VARIABLES
    cache,      \* blockscache.dat, transactionsmap.dat and spentkeys.dat
    poolFile    \* poolstate.bin

storageVars == <<vars, cache, poolFile>>

NoCache == [last |-> Genesis, txMap |-> {}, spentKeys |-> {}]

StorageInit == Init /\ cache = NoCache /\ poolFile = {}

(* storeCache: the indices, with the hash of the last block.               *)
stored == [last |-> tail, txMap |-> txMap, spentKeys |-> spentKeys]

-----------------------------------------------------------------------------
(* addNewBlock, with the autosave that follows a block pushed on the tail. *)
addAndSave(b) ==
    /\ addNewBlock(b)
    /\ cache' = IF Len(blocks') > Len(blocks) /\ Len(blocks') % AutosaveInterval = 0
                THEN stored' ELSE cache
    /\ UNCHANGED poolFile

(* Mutant of loadCache: any cache is loaded.                               *)
loadAnyCache(c) == txMap' = c.txMap /\ spentKeys' = c.spentKeys

(* Blockchain::init loads a cache with the hash of the last block of       *)
(* m_blocks, and rebuilds the indices from m_blocks otherwise.             *)
loadCache(c) ==
    IF c.last = tail
    THEN txMap' = c.txMap /\ spentKeys' = c.spentKeys
    ELSE txMap' = ChainTxs /\ spentKeys' = ImagesIn(ChainTxs)

(* core::init.  The pool is read from its file, whatever the chain holds,  *)
(* and the transactions that have expired are removed.                     *)
init(c, file) ==
    /\ pool' \in SUBSET file
    /\ loadCache(c)
    /\ alternatives' = {}
    /\ op' = "idle" /\ altChain' = <<>> /\ disconnected' = <<>>
    /\ discard' = FALSE /\ pos' = 1
    /\ UNCHANGED blocks

(* core::deinit, then init.                                                *)
restart ==
    /\ op = "idle"
    /\ cache' = stored
    /\ poolFile' = pool
    /\ init(stored, pool)

(* The process dies, then init.  A crash in storeCache leaves no cache;    *)
(* one in deinit may leave a new pool file, or none that can be read.      *)
crash ==
    \E c \in {cache, NoCache},
       file \in {poolFile} \cup (IF op = "idle" THEN {pool, {}} ELSE {}) :
        /\ cache' = c
        /\ poolFile' = file
        /\ init(c, file)

popThrows == op \in {"disconnect", "rollback"} /\ TxsOf[tail] \cap pool # {}

(* saveTransactions throws in popBlock, with a part of the transactions    *)
(* added to the pool.  switch_to_alternative_blockchain catches and        *)
(* returns; rollback_blockchain_switching catches, and the switch goes on  *)
(* to erase.                                                               *)
switchThrows ==
    /\ popThrows
    /\ \E T \in SUBSET TxsOf[tail] : pool' = pool \cup T
    /\ endSwitch(IF op = "disconnect" THEN Len(altChain) + 1 ELSE pos)
    /\ UNCHANGED <<blocks, txMap, spentKeys, cache, poolFile>>

switchUnsaved == switchStep /\ UNCHANGED <<cache, poolFile>>
poolUnsaved == poolStep /\ UNCHANGED <<cache, poolFile>>

StorageNext ==
    \/ \E b \in Blocks \ {Genesis} : addAndSave(b)
    \/ switchUnsaved
    \/ switchThrows
    \/ poolUnsaved
    \/ restart
    \/ crash

StorageSpec == StorageInit /\ [][StorageNext]_storageVars

(* The peers send, and a switch ends.                                      *)
StorageSyncSpec == StorageSpec /\ PeersSend /\ WF_storageVars(switchThrows)

-----------------------------------------------------------------------------
(* Once the node no longer restarts, it comes to the heaviest chain its    *)
(* peers send and stays there, whatever a crash in the middle of a switch  *)
(* left on the disk and whatever the pool lost; unless an exception of     *)
(* saveTransactions ends a switch, which then waits for the next block.    *)
SyncResumesAfterCrash ==
    \/ <>[]heaviest(tail)
    \/ []<><<restart \/ crash>>_storageVars
    \/ <>popThrows
=============================================================================
