---------------------------- MODULE WalletGreen ----------------------------
(***************************************************************************)
(* cn::WalletGreen with one address.  The synchronizer's thread changes    *)
(* the container and leaves a procedure for each change with the           *)
(* dispatcher (remoteSpawn).  The dispatcher runs them in order and later: *)
(* each has the height its transaction had when it was notified, and reads *)
(* the container as it is by then.  m_readyEvent keeps them out while the  *)
(* wallet sends, commits or rolls back a transaction of its own, but not   *)
(* while it withdraws a deposit.                                           *)
(*                                                                         *)
(* A cached balance is the set of the outputs it counts.                   *)
(***************************************************************************)
EXTENDS TransfersContainer

CONSTANTS OwnTxs,           \* the transactions that the user makes here
          MaxSpawned,       \* bound on the procedures that wait
          MaxReorg,         \* bound on the blocks of a detach, less than any Term
          MaxEvents         \* bound on detaches, pool updates and what the user does

VARIABLES
    m_state,                    \* whether a wallet is open
    remoteSpawningProcedures,
    m_transactions,             \* of each transaction known, its state and height
    m_uncommitedTransactions,
    m_deposits,                 \* of each transaction that creates one, its height and spender
    m_unlockTransactionsJob,
    balances,                   \* the cached balances
    m_blockchain,               \* how many blocks are known
    operation,                  \* of the user
    events,                     \* how many there were, see MaxEvents
    relocked,                   \* history: outputs that a detach has locked again
    missed                      \* history: a notification was dropped or overwritten, or an input not found

walletVars == <<m_state, remoteSpawningProcedures, m_transactions, m_uncommitedTransactions,
                m_deposits, m_unlockTransactionsJob, balances, m_blockchain, operation, events,
                relocked, missed>>

NoOperation == [kind |-> "none", step |-> "none", tx |-> "none"]

WalletInit ==
    /\ TransferInit
    /\ m_state \in {"NOT_INITIALIZED", "INITIALIZED"}
    /\ remoteSpawningProcedures = <<>>
    /\ m_transactions = <<>> /\ m_uncommitedTransactions = {} /\ m_deposits = <<>>
    /\ m_unlockTransactionsJob = {}
    /\ balances = [unlocked |-> {}, locked |-> {}]
    /\ m_blockchain = 0 /\ operation = NoOperation
    /\ events = 0 /\ relocked = {} /\ missed = FALSE

(* A detach, a pool update, or something the user does.                     *)
event == events < MaxEvents /\ events' = events + 1

-----------------------------------------------------------------------------
(* The handlers that the dispatcher runs.                                   *)
updateBalance(c) ==
    LET unlocked == {o \in DOMAIN c.available : isUnlocked(c, o)}
    IN [unlocked |-> unlocked, locked |-> (DOMAIN c.available \cup c.unconfirmed) \ unlocked]

DueJobs(jobs, height) == {job \in jobs : job.height <= height}

unlockBalances(height) ==
    LET due == DueJobs(m_unlockTransactionsJob, height)
    IN /\ m_unlockTransactionsJob' = m_unlockTransactionsJob \ due
       /\ balances' = IF due = {} THEN balances ELSE updateBalance(container)

(* A transaction that was deleted may be added again, and one that is       *)
(* confirmed has been sent.                                                 *)
updateWalletTransactionInfo(tx, height) ==
    [state |-> IF tx.state \notin {"CREATED", "FAILED"} \/ height # Unconfirmed
               THEN "SUCCEEDED" ELSE tx.state,
     blockHeight |-> height]

insertBlockchainTransaction(height) == [state |-> "SUCCEEDED", blockHeight |-> height]

(* The deposits that t creates, as long as the container has them.          *)
NewDeposits(t) ==
    {o \in Creates[t] : Term[o] # 0 /\ o \in container.unconfirmed \cup DOMAIN container.available
                                              \cup DOMAIN container.spent}

SpentDeposits(t) == {o \in DOMAIN container.spent : Term[o] # 0 /\ container.spent[o].by = t}

CreatorOf(o) == CHOOSE t \in Txs : o \in Creates[t]

(* m_deposits has one entry for a transaction: a second one is not added.   *)
insertNewDeposits(t, height) ==
    IF height = Unconfirmed \/ NewDeposits(t) = {} \/ t \in DOMAIN m_deposits THEN m_deposits
    ELSE With(m_deposits, {t}, [x \in {t} |-> [height |-> height, spender |-> "none"]])

(* Mutant of depositJobs: only the transaction's own unlock time and soft   *)
(* lock.                                                                    *)
noDepositJobs(t, height) == {}

depositJobs(t, height) ==
    {[tx |-> t, height |-> height + Term[o]] : o \in NewDeposits(t)}

(* A withdrawal of a deposit the wallet does not know is an exception, that *)
(* leaves the rest undone.                                                  *)
transactionUpdated(t, height) ==
    LET deposits == insertNewDeposits(t, height)
        creators == {CreatorOf(o) : o \in SpentDeposits(t)}
        known == creators \subseteq DOMAIN deposits
        confirmed == height # Unconfirmed
        transactionJob == [tx |-> t, height |->
                              Max({height + SpendableAge} \cup {UnlockTime[o] : o \in Creates[t]})]
    IN /\ m_transactions' =
              With(m_transactions, {t},
                   [x \in {t} |-> IF t \in DOMAIN m_transactions
                                  THEN updateWalletTransactionInfo(m_transactions[t], height)
                                  ELSE insertBlockchainTransaction(height)])
       /\ m_deposits' = [u \in DOMAIN deposits |->
                            IF known /\ u \in creators THEN [deposits[u] EXCEPT !.spender = t] ELSE deposits[u]]
       /\ m_uncommitedTransactions' = m_uncommitedTransactions \ (IF known /\ confirmed THEN {t} ELSE {})
       /\ balances' = IF known THEN updateBalance(container) ELSE balances
       /\ m_unlockTransactionsJob' = m_unlockTransactionsJob
              \cup (IF confirmed THEN depositJobs(t, height) ELSE {})
              \cup (IF known /\ confirmed THEN {transactionJob} ELSE {})
       /\ UNCHANGED m_blockchain

(* Mutant of cancelled: the height stays.                                   *)
cancelledKeepsHeight(tx) ==
    [tx EXCEPT !.state = IF @ \in {"CREATED", "SUCCEEDED"} THEN "CANCELLED" ELSE @]

cancelled(tx) ==
    [state |-> IF tx.state \in {"CREATED", "SUCCEEDED"} THEN "CANCELLED" ELSE tx.state,
     blockHeight |-> Unconfirmed]

transactionDeleted(t) ==
    /\ IF t \notin DOMAIN m_transactions
       THEN UNCHANGED <<m_transactions, balances, m_unlockTransactionsJob>>
       ELSE /\ balances' = updateBalance(container)
            /\ m_unlockTransactionsJob' = {job \in m_unlockTransactionsJob : job.tx # t}
            /\ m_transactions' = [m_transactions EXCEPT ![t] = cancelled(@)]
    /\ UNCHANGED <<m_uncommitedTransactions, m_deposits, m_blockchain>>

blocksAdded(count) ==
    /\ m_blockchain' = m_blockchain + count
    /\ UNCHANGED <<m_transactions, m_uncommitedTransactions, m_deposits,
                   m_unlockTransactionsJob, balances>>

blocksRollback(height) ==
    /\ m_blockchain' = height - 1
    /\ UNCHANGED <<m_transactions, m_uncommitedTransactions, m_deposits,
                   m_unlockTransactionsJob, balances>>

onSynchronizationProgressUpdated(height) ==
    /\ unlockBalances(height)
    /\ UNCHANGED <<m_transactions, m_uncommitedTransactions, m_deposits, m_blockchain>>

(* withdrawDeposit does not take m_readyEvent, and while it removes its     *)
(* transaction the dispatcher goes on.                                      *)
m_readyEvent ==
    \/ operation = NoOperation
    \/ operation.kind = "withdraw" /\ operation.step \in {"removing", "removed"}

dispatch ==
    /\ remoteSpawningProcedures # <<>> /\ m_readyEvent
    /\ remoteSpawningProcedures' = Tail(remoteSpawningProcedures)
    /\ LET p == Head(remoteSpawningProcedures)
       IN \/ p.handler = "transactionUpdated" /\ transactionUpdated(p.tx, p.height)
          \/ p.handler = "transactionDeleted" /\ transactionDeleted(p.tx)
          \/ p.handler = "blocksAdded" /\ blocksAdded(p.height)
          \/ p.handler = "blocksRollback" /\ blocksRollback(p.height)
          \/ p.handler = "progress" /\ onSynchronizationProgressUpdated(p.height)
    /\ UNCHANGED <<transferVars, operation, events, relocked, missed>>

-----------------------------------------------------------------------------
(* The synchronizer's thread.                                               *)
Call(handler, tx, height) == [handler |-> handler, tx |-> tx, height |-> height]

(* What the container tells of a step: the transactions it has added or     *)
(* confirmed, by height, and those it has deleted, the last ones first.     *)
Notifications ==
    LET before == container.transactions
        after == container'.transactions
        updated == {t \in DOMAIN after : t \notin DOMAIN before \/ before[t] # after[t]}
        deleted == DOMAIN before \ DOMAIN after
        UpdatedInOrder == SetToSortSeq(updated, LAMBDA t, u : after[t] < after[u])
        DeletedInOrder == SetToSortSeq(deleted, LAMBDA t, u : before[t] > before[u])
    IN [i \in DOMAIN UpdatedInOrder |->
            Call("transactionUpdated", UpdatedInOrder[i], after[UpdatedInOrder[i]])]
       \o [i \in DOMAIN DeletedInOrder |-> Call("transactionDeleted", DeletedInOrder[i], 0)]

remoteSpawn(procedures) == remoteSpawningProcedures' = remoteSpawningProcedures \o procedures

syncBlocks(new) ==
    /\ onNewBlocks(new)
    /\ remoteSpawn(<<Call("blocksAdded", "none", Len(new))>> \o Notifications
                   \o <<Call("progress", "none", Height + Len(new))>>)
    /\ UNCHANGED <<events, relocked>>

(* The wallet has no job any more for an output that a detach locks again,  *)
(* spent or not.                                                            *)
Relocked(before, after) ==
    {o \in DOMAIN after.available \cup DOMAIN after.spent :
        LET created == IF o \in DOMAIN after.available THEN after.available[o] ELSE after.spent[o].height
            job == makeTransferUnlockJob(o, created)
        IN o \in relocked \/ (job > after.height + 1 /\ job <= before.height + 1)}

syncDetach(height) ==
    /\ event
    /\ Height + 1 - height \in 1..MaxReorg
    /\ onBlockchainDetach(height)
    /\ remoteSpawn(<<Call("blocksRollback", "none", height)>> \o Notifications)
    /\ relocked' = Relocked(container, container')

syncPool(new, deleted) ==
    /\ event
    /\ new # <<>> \/ deleted # {}
    /\ onPoolUpdated(new, deleted)
    /\ remoteSpawn(Notifications)
    /\ UNCHANGED relocked

synchronize ==
    /\ Len(remoteSpawningProcedures) < MaxSpawned
    /\ \/ \E new \in NewBlocks : Height + Len(new) <= MaxProcessed /\ syncBlocks(new)
       \/ \E height \in 1..Height : syncDetach(height)
       \/ \E new \in PoolNews, deleted \in SUBSET m_poolTxs : syncPool(new, deleted)
    /\ UNCHANGED <<m_transactions, m_uncommitedTransactions, m_deposits, m_unlockTransactionsJob,
                   balances, m_blockchain, operation, missed>>

-----------------------------------------------------------------------------
(* The user.                                                                *)
unchangedByUser == UNCHANGED <<m_deposits, m_unlockTransactionsJob, balances, m_blockchain, relocked>>

Withdraws(t) == \E o \in Spends[t] : Term[o] # 0

(* withdrawDeposit compares the height in m_deposits with the blocks known, *)
(* and asks the container for the state of the deposit; of one that it does *)
(* not have getTransfer leaves the state unset, which may read as available.*)
Prepared(t) ==
    /\ t \notin DOMAIN m_transactions /\ Spends[t] # {}
    /\ \A o \in Spends[t] :
          \/ o \in DOMAIN container.available /\ isUnlocked(container, o)
          \/ Term[o] # 0 /\ o \notin container.unconfirmed \cup DOMAIN container.available
                                      \cup DOMAIN container.spent
    /\ \A o \in {x \in Spends[t] : Term[x] # 0} :
          LET u == CreatorOf(o)
          IN u \in DOMAIN m_deposits /\ m_deposits[u].height + Term[o] <= m_blockchain + 1

(* validateSaveAndSendTransaction, up to addUnconfirmedTransaction.         *)
insertOutgoingTransaction(kind, t) ==
    /\ event
    /\ operation = NoOperation /\ Prepared(t)
    /\ kind = "withdraw" <=> Withdraws(t)
    /\ m_transactions' = With(m_transactions, {t},
                              [x \in {t} |-> [state |-> "CREATED", blockHeight |-> Unconfirmed]])
    /\ operation' = [kind |-> kind, step |-> "adding", tx |-> t]
    /\ unchangedByUser
    /\ UNCHANGED <<transferVars, remoteSpawningProcedures, m_uncommitedTransactions, missed>>

(* The synchronizer's thread adds it, while the wallet's thread waits.  An  *)
(* input that a detach has taken away since is not marked as spent, which   *)
(* is no error; with no input and no output the container does not hold it. *)
addUnconfirmedTransaction ==
    /\ operation.step = "adding"
    /\ addUnconfirmed(operation.tx)
    /\ remoteSpawn(Notifications)
    /\ IF damaged'
       THEN /\ m_transactions' = [m_transactions EXCEPT ![operation.tx].state = "FAILED"]
            /\ operation' = NoOperation /\ UNCHANGED m_uncommitedTransactions
       ELSE IF operation.kind = "make"
       THEN /\ m_uncommitedTransactions' = m_uncommitedTransactions \cup {operation.tx}
            /\ operation' = NoOperation /\ UNCHANGED m_transactions
       ELSE /\ operation' = [operation EXCEPT !.step = "relaying"]
            /\ UNCHANGED <<m_transactions, m_uncommitedTransactions>>
    /\ missed' = ~(Spends[operation.tx] \subseteq DOMAIN container'.spent)
    /\ unchangedByUser /\ UNCHANGED events

Uncommited(t) == t \in m_uncommitedTransactions /\ m_transactions[t].state = "CREATED"

commitTransaction(t) ==
    /\ event
    /\ operation = NoOperation /\ Uncommited(t)
    /\ operation' = [kind |-> "commit", step |-> "relaying", tx |-> t]
    /\ unchangedByUser
    /\ UNCHANGED <<transferVars, remoteSpawningProcedures, m_transactions, m_uncommitedTransactions, missed>>

rollbackUncommitedTransaction(t) ==
    /\ event
    /\ operation = NoOperation /\ Uncommited(t)
    /\ operation' = [kind |-> "rollback", step |-> "removing", tx |-> t]
    /\ unchangedByUser
    /\ UNCHANGED <<transferVars, remoteSpawningProcedures, m_transactions, m_uncommitedTransactions, missed>>

relayTransaction ==
    /\ operation.step = "relaying"
    /\ m_transactions' = [m_transactions EXCEPT ![operation.tx].state = "SUCCEEDED"]
    /\ m_uncommitedTransactions' = m_uncommitedTransactions \ {operation.tx}
    /\ operation' = NoOperation
    /\ unchangedByUser
    /\ UNCHANGED <<transferVars, remoteSpawningProcedures, events, missed>>

(* A commit that fails can be tried again.                                  *)
relayTransactionFails ==
    /\ operation.step = "relaying"
    /\ operation' = IF operation.kind = "commit" THEN NoOperation
                    ELSE [operation EXCEPT !.step = "removing"]
    /\ unchangedByUser
    /\ UNCHANGED <<transferVars, remoteSpawningProcedures, m_transactions, m_uncommitedTransactions, events, missed>>

removeUnconfirmedTransaction ==
    /\ operation.step = "removing"
    /\ removeUnconfirmed(operation.tx)
    /\ remoteSpawn(Notifications)
    /\ operation' = [operation EXCEPT !.step = "removed"]
    /\ unchangedByUser
    /\ UNCHANGED <<m_transactions, m_uncommitedTransactions, events, missed>>

(* A withdrawal whose relay failed is marked as failed even if the          *)
(* dispatcher has handled its confirmation in between.                      *)
removed ==
    /\ operation.step = "removed"
    /\ IF operation.kind = "rollback"
       THEN /\ m_uncommitedTransactions' = m_uncommitedTransactions \ {operation.tx}
            /\ UNCHANGED <<m_transactions, missed>>
       ELSE /\ missed' = (m_transactions[operation.tx].state = "SUCCEEDED")
            /\ m_transactions' = [m_transactions EXCEPT ![operation.tx].state = "FAILED"]
            /\ UNCHANGED m_uncommitedTransactions
    /\ operation' = NoOperation
    /\ unchangedByUser
    /\ UNCHANGED <<transferVars, remoteSpawningProcedures, events>>

scheduleDepositUnlockJobs(height) ==
    LET unspent == {t \in DOMAIN m_deposits : m_deposits[t].spender = "none"}
        jobs == m_unlockTransactionsJob
                    \cup UNION {{[tx |-> t, height |-> m_deposits[t].height + Term[o]] :
                                    o \in {x \in Creates[t] : Term[x] # 0}} : t \in unspent}
        due == DueJobs(jobs, height)
    IN /\ m_unlockTransactionsJob' = jobs \ due
       /\ balances' = IF due = {} THEN balances ELSE updateBalance(container)

(* save, shutdown and load.  shutdown runs what waits with no effect, after *)
(* the file has been written.                                               *)
reopen ==
    /\ event
    /\ operation = NoOperation
    /\ missed' = (remoteSpawningProcedures # <<>>)
    /\ remoteSpawningProcedures' = <<>>
    /\ m_poolTxs' = HeldUnconfirmed \ m_uncommitedTransactions
    /\ m_blockchain' = Height
    /\ scheduleDepositUnlockJobs(Height)
    /\ UNCHANGED <<processed, container, damaged, m_transactions, m_uncommitedTransactions,
                   m_deposits, operation, relocked>>

userStep ==
    \/ \E t \in OwnTxs, kind \in {"send", "make", "withdraw"} : insertOutgoingTransaction(kind, t)
    \/ \E t \in m_uncommitedTransactions : commitTransaction(t) \/ rollbackUncommitedTransaction(t)
    \/ addUnconfirmedTransaction \/ relayTransaction \/ relayTransactionFails
    \/ removeUnconfirmedTransaction \/ removed \/ reopen

WalletNext ==
    /\ m_state = "INITIALIZED" /\ ~damaged /\ ~missed
    /\ dispatch \/ synchronize \/ userStep
    /\ UNCHANGED m_state

WalletSpec == WalletInit /\ [][WalletNext]_<<transferVars, walletVars>>

-----------------------------------------------------------------------------
settled ==
    /\ m_state = "INITIALIZED" /\ remoteSpawningProcedures = <<>> /\ operation = NoOperation
    /\ ~damaged /\ ~missed

(* When every notification has been handled the wallet has the history that *)
(* the container has, though each was handled late and in the meantime the  *)
(* user sent, committed and rolled back: the blocks, the height of every    *)
(* transaction, one that is confirmed has succeeded, and one that is gone   *)
(* has failed or is cancelled.                                              *)
HistorySettles ==
    settled =>
        /\ m_blockchain = Height
        /\ DOMAIN container.transactions \subseteq DOMAIN m_transactions
        /\ \A t \in DOMAIN m_transactions :
              IF t \in DOMAIN container.transactions
              THEN /\ m_transactions[t].blockHeight = container.transactions[t]
                   /\ \/ m_transactions[t].state = "SUCCEEDED"
                      \/ t \in HeldUnconfirmed /\ (m_transactions[t].state = "FAILED" \/ Uncommited(t))
              ELSE m_transactions[t].blockHeight = Unconfirmed /\ m_transactions[t].state \in {"FAILED", "CANCELLED"}

(* When every notification has been handled the cached balances count each  *)
(* output the container has, and an output as unlocked only if it is, and   *)
(* at the latest a block after it has unlocked; unless a detach has locked  *)
(* the output again.                                                        *)
BalancesSettle ==
    settled =>
        /\ balances.unlocked \cup balances.locked = DOMAIN container.available \cup container.unconfirmed
        /\ \A o \in DOMAIN container.available \ relocked :
              /\ o \in balances.unlocked => isUnlocked(container, o)
              /\ isUnlocked([container EXCEPT !.height = @ - 1], o) => o \in balances.unlocked
=============================================================================
