------------------------- MODULE TransfersContainer -------------------------
(***************************************************************************)
(* The transfers of one account: TransfersContainer, with the              *)
(* TransfersSubscription and the TransfersConsumer that feed it with       *)
(* blocks, reorganisations, pool updates and the wallet's own transactions *)
(* (src/src/Transfers).  The container keeps each output of the account as *)
(* unconfirmed, available or spent, and a job for each available one that  *)
(* tells when it unlocks.                                                  *)
(*                                                                         *)
(* Outputs have different keys, so every transfer is visible.              *)
(***************************************************************************)
EXTENDS Integers, Sequences, FiniteSets, SequencesExt

CONSTANTS Outputs,                  \* the account's outputs
          Term,                     \* Term[o] # 0: o is a deposit
          UnlockTime,               \* of the transaction that creates o
          Txs, Creates, Spends,     \* transactions and the account's outputs in them
          SpendableAge, MaxProcessed, MaxBlocksAtOnce,
          Unconfirmed               \* WALLET_UNCONFIRMED_TRANSACTION_HEIGHT

VARIABLES processed,    \* the blocks processed, each a sequence of transactions
          container,
          m_poolTxs,
          damaged       \* an exception has left an operation half done

transferVars == <<processed, container, m_poolTxs, damaged>>

Height == Len(processed)

Without(f, S) == [x \in DOMAIN f \ S |-> f[x]]
With(f, S, e) == [x \in DOMAIN f \cup S |-> IF x \in S THEN e[x] ELSE f[x]]

makeTransferUnlockJob(o, h) ==
    Max({IF UnlockTime[o] = 0 THEN h ELSE UnlockTime[o], h + Term[o], h + SpendableAge + 1})

addUnlockJob(c, o, h) == [c EXCEPT !.jobs = With(@, {o}, [x \in {o} |-> makeTransferUnlockJob(o, h)])]
deleteUnlockJob(c, o) == [c EXCEPT !.jobs = Without(@, {o})]

(* reported: the outputs of which the last report is that they unlocked;    *)
(* unheard: history, the deposits that unlocked unreported while spent.     *)
EmptyContainer ==
    [transactions |-> <<>>, unconfirmed |-> {}, available |-> <<>>, spent |-> <<>>, jobs |-> <<>>,
     height |-> 0, reported |-> {}, unheard |-> {}, exception |-> FALSE]

TransferInit ==
    /\ processed = <<>> /\ container = EmptyContainer
    /\ m_poolTxs = {} /\ damaged = FALSE

-----------------------------------------------------------------------------
(* The container.  After an exception nothing more is done.                 *)
addTransactionOutputs(c, h, t) ==
    IF h = Unconfirmed THEN [c EXCEPT !.unconfirmed = @ \cup Creates[t]]
    ELSE FoldLeft(LAMBDA d, o :
                      IF d.exception THEN d
                      ELSE IF Term[o] # 0 /\ o \in DOMAIN d.available \cup DOMAIN d.spent
                      THEN [d EXCEPT !.exception = TRUE]
                      ELSE [addUnlockJob(d, o, h) EXCEPT !.available = With(@, {o}, [x \in {o} |-> h])],
                  c, SetToSeq(Creates[t]))

copyToSpent(c, t, o) ==
    [deleteUnlockJob(c, o) EXCEPT
        !.spent = With(@, {o}, [x \in {o} |-> [height |-> c.available[o], by |-> t]]),
        !.available = Without(@, {o})]

(* A key input whose output is spent, or not confirmed, is an exception; a  *)
(* deposit that is not available is skipped.                                *)
addTransactionInputs(c, t) ==
    FoldLeft(LAMBDA d, o :
                 IF d.exception THEN d
                 ELSE IF o \in DOMAIN d.available THEN copyToSpent(d, t, o)
                 ELSE IF Term[o] = 0 /\ o \in DOMAIN d.spent \cup d.unconfirmed
                 THEN [d EXCEPT !.exception = TRUE]
                 ELSE d,
             c, SetToSeq(Spends[t]))

getUnlockingTransfersLate(c, prevHeight, currentHeight) ==
    {o \in DOMAIN c.jobs : (prevHeight = 0 \/ c.jobs[o] > prevHeight) /\ c.jobs[o] <= currentHeight}

getUnlockingTransfers(c, prevHeight, currentHeight) ==
    {o \in DOMAIN c.jobs : (prevHeight = 0 \/ c.jobs[o] > prevHeight + 1) /\ c.jobs[o] <= currentHeight + 1}

(* There is no job for an output that is spent, so that nothing tells when  *)
(* it unlocks; it may become available again later.                         *)
UnlockingWhileSpent(c, prevHeight, currentHeight) ==
    {o \in DOMAIN c.spent :
        Term[o] # 0 /\ makeTransferUnlockJob(o, c.spent[o].height) \in prevHeight + 2..currentHeight + 1}

doAdvanceHeight(c, h) ==
    IF h < c.height THEN [c EXCEPT !.exception = TRUE]
    ELSE LET reported == c.reported \cup getUnlockingTransfers(c, c.height, h)
         IN [c EXCEPT !.height = h, !.reported = reported,
                      !.unheard = (@ \cup UnlockingWhileSpent(c, c.height, h)) \ reported]

addTransaction(c, h, t) ==
    IF h < c.height \/ t \in DOMAIN c.transactions THEN [c EXCEPT !.exception = TRUE]
    ELSE LET d == addTransactionInputs(addTransactionOutputs(c, h, t), t)
             added == Creates[t] # {} \/ d.spent # c.spent
             e == IF added THEN [d EXCEPT !.transactions = With(@, {t}, [x \in {t} |-> h])] ELSE d
         IN IF d.exception THEN d
            ELSE IF h = Unconfirmed THEN e ELSE doAdvanceHeight(e, h)

(* The outputs of the transaction move from unconfirmed to available.       *)
markTransactionConfirmed(c, h, t) ==
    LET moved == Creates[t] \cap c.unconfirmed
        exists == \E o \in moved : Term[o] # 0 /\ o \in DOMAIN c.available \cup DOMAIN c.spent
    IN [c EXCEPT !.transactions[t] = h,
                 !.unconfirmed = @ \ moved,
                 !.available = With(@, moved, [o \in moved |-> h]),
                 !.jobs = With(@, moved, [o \in moved |-> makeTransferUnlockJob(o, h)]),
                 !.exception = exists]

(* What t spends becomes available again; its outputs go.                   *)
deleteTransactionTransfers(c, t) ==
    LET unspent == {o \in DOMAIN c.spent : c.spent[o].by = t}
        available == With(c.available, unspent, [o \in unspent |-> c.spent[o].height])
        jobs == With(c.jobs, unspent, [o \in unspent |->
                         makeTransferUnlockJob(o, c.spent[o].height)])
    IN [c EXCEPT !.spent = Without(@, unspent),
                 !.unconfirmed = @ \ Creates[t],
                 !.available = Without(available, Creates[t]),
                 !.jobs = Without(jobs, Creates[t] \cap DOMAIN available)]

deleteUnconfirmedTransaction(c, t) ==
    IF t \in DOMAIN c.transactions /\ c.transactions[t] = Unconfirmed
    THEN [deleteTransactionTransfers(c, t) EXCEPT !.transactions = Without(@, {t})]
    ELSE c

(* From the greatest height down: unconfirmed transactions that spend a     *)
(* transfer of a detached block, then the transactions of these blocks.     *)
DetachedTxs(c, height) ==
    {t \in DOMAIN c.transactions :
        IF c.transactions[t] = Unconfirmed
        THEN \E o \in DOMAIN c.spent : c.spent[o].by = t /\ c.spent[o].height >= height
        ELSE c.transactions[t] >= height}

getLockingTransfers(c, prevHeight, currentHeight) ==
    {o \in DOMAIN c.jobs : c.jobs[o] > currentHeight + 1 /\ c.jobs[o] <= prevHeight + 1}

Deleted(c, T) ==
    FoldLeft(LAMBDA d, t : [deleteTransactionTransfers(d, t) EXCEPT !.transactions = Without(@, {t})],
             c, SetToSortSeq(T, LAMBDA t, u : c.transactions[t] > c.transactions[u]))

detachKeepsUnconfirmed(c, height) ==
    LET d == Deleted(c, {t \in DetachedTxs(c, height) : c.transactions[t] # Unconfirmed})
        currentHeight == IF height = 0 THEN 0 ELSE height - 1
        locking == getLockingTransfers(d, c.height, currentHeight)
    IN [d EXCEPT !.height = currentHeight, !.reported = @ \ locking, !.unheard = @ \ locking]

detach(c, height) ==
    LET d == Deleted(c, DetachedTxs(c, height))
        currentHeight == IF height = 0 THEN 0 ELSE height - 1
        locking == getLockingTransfers(d, c.height, currentHeight)
    IN [d EXCEPT !.height = currentHeight, !.reported = @ \ locking, !.unheard = @ \ locking]

(* isIncluded with IncludeStateUnlocked; lockedTxAllowedDeltaBlocks is 1.   *)
isUnlocked(c, o) ==
    /\ c.height + 1 >= UnlockTime[o]
    /\ Term[o] # 0 => c.height + 1 >= c.available[o] + Term[o]
    /\ c.height >= c.available[o] + SpendableAge

-----------------------------------------------------------------------------
(* The consumer.                                                            *)
processOutputs(c, h, t) ==
    IF t \notin DOMAIN c.transactions THEN addTransaction(c, h, t)
    ELSE IF c.transactions[t] = Unconfirmed /\ h # Unconfirmed THEN markTransactionConfirmed(c, h, t)
    ELSE c

processTransactions(c, h, txs) ==
    FoldLeft(LAMBDA d, t : IF d.exception THEN d ELSE processOutputs(d, h, t), c, txs)

(* The first transaction of every block is its coinbase; here it pays       *)
(* somebody else.                                                           *)
processBlock(c, h, txs) ==
    IF c.exception THEN c ELSE processTransactions(doAdvanceHeight(c, h), h, txs)

(* The container with the exception handled.                                *)
Installed(c) ==
    /\ container' = [c EXCEPT !.exception = FALSE]
    /\ damaged' = (damaged \/ c.exception)

(* updateConsumers: onNewBlocks with the transactions in order, then the    *)
(* height of the last block.  An exception leaves what came before it.      *)
onNewBlocks(new) ==
    LET c == FoldLeft(LAMBDA d, i : processBlock(d, Height + i, new[i]),
                      container, [i \in DOMAIN new |-> i])
    IN /\ Installed(IF c.exception THEN c ELSE doAdvanceHeight(c, Height + Len(new)))
       /\ processed' = IF c.exception THEN processed ELSE processed \o new
       /\ UNCHANGED m_poolTxs

(* onBlockchainDetach; and onError, with the height of the first block of   *)
(* the batch, when preprocessOutputs fails.                                 *)
onBlockchainDetach(height) ==
    /\ Installed(detach(container, height))
    /\ processed' = SubSeq(processed, 1, height - 1)
    /\ UNCHANGED m_poolTxs

(* The new transactions in order, then the deleted ones.                    *)
onPoolUpdated(new, deleted) ==
    LET c == processTransactions(container, Unconfirmed, new)
    IN /\ Installed(IF c.exception THEN c
                    ELSE FoldLeft(deleteUnconfirmedTransaction, c, SetToSeq(deleted)))
       /\ m_poolTxs' = (m_poolTxs \cup Range(new)) \ (IF c.exception THEN {} ELSE deleted)
       /\ UNCHANGED processed

addUnconfirmed(t) ==
    /\ Installed(processOutputs(container, Unconfirmed, t))
    /\ UNCHANGED <<processed, m_poolTxs>>

removeUnconfirmed(t) ==
    /\ Installed(deleteUnconfirmedTransaction(container, t))
    /\ UNCHANGED <<processed, m_poolTxs>>

(* The container is saved and loaded; initTransactionPool.                  *)
initTransactionPool ==
    /\ m_poolTxs' = {t \in DOMAIN container.transactions : container.transactions[t] = Unconfirmed}
    /\ UNCHANGED <<processed, container, damaged>>

-----------------------------------------------------------------------------
(* What a node can have: transactions that spend outputs of earlier blocks, *)
(* once, and deposits only after their term.                                *)
InChain(chain) == UNION {{chain[i][j] : j \in DOMAIN chain[i]} : i \in DOMAIN chain}

HeightOf(chain, t) == CHOOSE i \in DOMAIN chain : \E j \in DOMAIN chain[i] : chain[i][j] = t

Spendable(chain, t) ==
    /\ t \notin InChain(chain)
    /\ \A o \in Spends[t] :
          /\ \E u \in InChain(chain) : o \in Creates[u] /\ Len(chain) + 1 >= HeightOf(chain, u) + Term[o]
          /\ \A u \in InChain(chain) : o \notin Spends[u]

ValidBlocks(chain) ==
    LET next == {u \in Txs : Spendable(chain, u)}
    IN {<<>>} \cup {<<t>> : t \in next}
       \cup {b \in next \X next : Spends[b[1]] \cap Spends[b[2]] = {} /\ b[1] # b[2]}

NewBlocks ==
    LET next == ValidBlocks(processed)
    IN {<<b>> : b \in next}
       \cup IF MaxBlocksAtOnce = 1 \/ Height + 2 > MaxProcessed THEN {}
            ELSE UNION {{<<b, d>> : d \in ValidBlocks(Append(processed, b))} : b \in next}

PoolNews ==
    {<<t>> : t \in {u \in Txs : Spendable(processed, u)} \ m_poolTxs} \cup {<<>>}

TransferNext ==
    /\ ~damaged
    /\ \/ \E new \in NewBlocks : Height + Len(new) <= MaxProcessed /\ onNewBlocks(new)
       \/ \E height \in 1..Height + 1 : onBlockchainDetach(height)
       \/ \E new \in PoolNews, deleted \in SUBSET m_poolTxs :
             (new # <<>> \/ deleted # {}) /\ onPoolUpdated(new, deleted)
       \/ \E t \in Txs : /\ Spendable(processed, t) /\ t \notin DOMAIN container.transactions
                         /\ addUnconfirmed(t)
       \/ \E t \in Txs \ m_poolTxs : removeUnconfirmed(t)
       \/ initTransactionPool

TransferSpec == TransferInit /\ [][TransferNext]_transferVars
-----------------------------------------------------------------------------
HeldUnconfirmed == {t \in DOMAIN container.transactions : container.transactions[t] = Unconfirmed}

(* The container is what a scan of the chain and of the unconfirmed         *)
(* transactions it holds gives, whatever reorganisations, pool updates and  *)
(* restarts it went through: the transactions of the chain with their       *)
(* heights; available is what they create and no transaction it holds       *)
(* spends; spent is the rest, with its spender.                             *)
ContainerIsScan ==
    damaged \/
    LET c == container
        confirmed == {t \in InChain(processed) : Creates[t] # {} \/ Spends[t] # {}}
        created == UNION {Creates[t] : t \in confirmed}
        held == confirmed \cup HeldUnconfirmed
        spent == {o \in created : \E t \in held : o \in Spends[t]}
        CreatedAt(o) == HeightOf(processed, CHOOSE t \in confirmed : o \in Creates[t])
    IN /\ DOMAIN c.transactions = held
       /\ \A t \in confirmed : c.transactions[t] = HeightOf(processed, t)
       /\ c.available = [o \in created \ spent |-> CreatedAt(o)]
       /\ DOMAIN c.spent = spent
       /\ \A o \in spent : c.spent[o].height = CreatedAt(o) /\ o \in Spends[c.spent[o].by]
       /\ c.unconfirmed = UNION {Creates[t] : t \in HeldUnconfirmed}
       /\ c.height = Height

(* An available deposit that can be withdrawn has been reported unlocked    *)
(* since it was last reported locked: the jobs and isIncluded, which        *)
(* compute it apart, agree through reorganisations.  The exception is a     *)
(* deposit that unlocked while an unconfirmed transaction spent it: when    *)
(* that transaction is deleted, deleteTransactionTransfers reports nothing. *)
UnlockReported ==
    damaged \/ \A o \in DOMAIN container.available :
                   Term[o] # 0 /\ isUnlocked(container, o) => o \in container.reported \cup container.unheard

=============================================================================
