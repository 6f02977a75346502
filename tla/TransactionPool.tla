--------------------------- MODULE TransactionPool ---------------------------
(***************************************************************************)
(* tx_memory_pool (TransactionPool.cpp) with the calls that core and       *)
(* Blockchain make of it: transactions arrive from peers or with the       *)
(* blocks that hold them, leave with the blocks that confirm them, come    *)
(* back when those are popped, expire, and fill the blocks a miner works   *)
(* on.  Every call holds the pool lock, and the ones that change the chain *)
(* hold the blockchain lock too, so that each is one step.                 *)
(***************************************************************************)
EXTENDS Integers, Sequences, FiniteSets, Functions, TLC

CONSTANTS PoolTxs,
          KeyImagesOf,     \* KeyImagesOf[t]: the key images that t spends
          DepositsOf,      \* DepositsOf[t]: the multisignature outputs that t spends
          Needs,           \* Needs[t]: the transactions whose outputs the inputs of t refer to
          TtlOf,           \* TtlOf[t]: time after which t is void, 0 for never
          FeeOf, SizeOf,
          LiveTime,        \* mempoolTxLiveTime
          AltLiveTime,     \* mempoolTxFromAltBlockLiveTime
          ForgetPeriods,   \* numberOfPeriodsToForgetTxDeletedFromPool
          FutureLimit,     \* blockFutureTimeLimit
          MedianSize, MaxTotalSize,
          MaxHeight        \* bound on the number of blocks

ASSUME PoolAssumption ==
    /\ KeyImagesOf \in [PoolTxs -> SUBSET UNION Range(KeyImagesOf)]
    /\ DepositsOf \in [PoolTxs -> SUBSET UNION Range(DepositsOf)]
    /\ \A t \in PoolTxs : TtlOf[t] # 0 => FeeOf[t] = 0

(* median_size is at least blockGrantedFullRewardZone, of which a quarter   *)
(* is more than minerTxBlobReservedSize, and no larger than the largest     *)
(* block: transactions without a fee do not take a block over its limit.    *)
ASSUME SizeAssumption ==
    /\ SizeOf \in [PoolTxs -> Nat] /\ MedianSize \in Nat /\ MaxTotalSize \in Nat
    /\ MedianSize <= MaxTotalSize

VARIABLES pool,             \* m_transactions: transaction -> [kept, age, used]
          spentKeyImages,   \* m_spent_key_images
          spentDeposits,    \* m_spentOutputs
          ttlIndex,         \* the keys of m_ttlIndex
          deleted,          \* m_recentlyDeletedTransactions: transaction -> age
          chain,            \* the blocks above the genesis block: sets of transactions
          clock             \* the time, up to the last TTL

poolVars == <<pool, spentKeyImages, spentDeposits, ttlIndex, deleted, chain, clock>>

KeyImages == UNION Range(KeyImagesOf)

LastTtl == CHOOSE n \in Range(TtlOf) : \A m \in Range(TtlOf) : m <= n

Confirmed(c) == UNION Range(c)

Conflict(t, u) == t # u /\ (KeyImagesOf[t] \cap KeyImagesOf[u]) \cup (DepositsOf[t] \cap DepositsOf[u]) # {}

(* Blockchain's checkTransactionInputs on a chain c: the outputs exist and   *)
(* nothing in the chain has spent them.                                     *)
checkTransactionInputs(t, c) ==
    /\ t \notin Confirmed(c)
    /\ Needs[t] \subseteq Confirmed(c)
    /\ \A u \in Confirmed(c) : ~Conflict(t, u)

haveSpentKeyImages(t) == \E u \in Confirmed(chain) : KeyImagesOf[t] \cap KeyImagesOf[u] # {}

(* The blocks with the genesis block: a block is identified by the ones up  *)
(* to it.                                                                   *)
Blocks(c) == <<{}>> \o c

(* maxUsedBlock: the last block that a key input refers to, when the inputs *)
(* were found valid; for inputs of deposits no block is noted, so that it   *)
(* stays the genesis block.  An empty sequence is an empty BlockInfo.       *)
maxUsedBlock(t, c) ==
    LET heights == {i \in DOMAIN c : KeyImagesOf[t] # {} /\ c[i] \cap Needs[t] # {}}
        last == CHOOSE i \in heights \cup {0} : \A j \in heights : j <= i
    IN IF checkTransactionInputs(t, c) THEN SubSeq(Blocks(c), 1, last + 1) ELSE <<>>

-----------------------------------------------------------------------------
haveSpentInputs(t) ==
    \/ \E k \in KeyImagesOf[t] : spentKeyImages[k] # {}
    \/ DepositsOf[t] \cap spentDeposits # {}

(* The containers of the pool as one record, after the transactions of S    *)
(* were inserted on a chain c (add_tx, addTransactionInputs) or removed     *)
(* (removeTransaction).                                                     *)
Pool == [txs |-> pool, ki |-> spentKeyImages, dep |-> spentDeposits, ttl |-> ttlIndex]

DepositsOfAll(S) == UNION {DepositsOf[t] : t \in S}

insertedAll(p, S, kept, c) ==
    [txs |-> [t \in S \cup DOMAIN p.txs |->
                 IF t \in S THEN [kept |-> kept, age |-> 0, used |-> maxUsedBlock(t, c)]
                 ELSE p.txs[t]],
     ki  |-> [k \in KeyImages |-> p.ki[k] \cup {t \in S : k \in KeyImagesOf[t]}],
     dep |-> IF kept THEN p.dep ELSE p.dep \cup DepositsOfAll(S),
     ttl |-> p.ttl \cup {t \in S : TtlOf[t] # 0}]

removedAllAsUnkept(p, S) ==
    [txs |-> Restrict(p.txs, DOMAIN p.txs \ S),
     ki  |-> [k \in KeyImages |-> p.ki[k] \ S],
     dep |-> p.dep \ DepositsOfAll(S),
     ttl |-> p.ttl \ S]

removedAll(p, S) ==
    [txs |-> Restrict(p.txs, DOMAIN p.txs \ S),
     ki  |-> [k \in KeyImages |-> p.ki[k] \ S],
     dep |-> p.dep \ DepositsOfAll({t \in S : ~p.txs[t].kept}),
     ttl |-> p.ttl \ S]

SetPool(p) ==
    /\ pool' = p.txs /\ spentKeyImages' = p.ki
    /\ spentDeposits' = p.dep /\ ttlIndex' = p.ttl

-----------------------------------------------------------------------------
(* The fee index: most fee for a byte, then smallest, then oldest; equal    *)
(* ones are in the order of their insertion, which the model leaves open.   *)
Before(t, u) ==
    LET a == FeeOf[t] * SizeOf[u]
        b == FeeOf[u] * SizeOf[t]
    IN \/ a > b
       \/ a = b /\ SizeOf[t] < SizeOf[u]
       \/ a = b /\ SizeOf[t] = SizeOf[u] /\ pool[t].age > pool[u].age

FeeOrders ==
    LET D == DOMAIN pool
    IN {o \in UNION {Bijection(1..n, D) : n \in 0..Cardinality(D)} :
           \A i, j \in DOMAIN o : Before(o[i], o[j]) => i < j}

SizeLimit(t) == IF FeeOf[t] = 0 THEN MedianSize ELSE MaxTotalSize

fits(t, size) == SizeLimit(t) >= size + SizeOf[t]

readyAtHeight(t) ==
    /\ t \notin ttlIndex
    /\ ~haveSpentKeyImages(t)
    /\ LET used == pool[t].used
       IN IF used = <<>> THEN checkTransactionInputs(t, chain)
          ELSE Len(used) <= Len(Blocks(chain))

(* fill_block_template leaves out transactions with a TTL.  For the others  *)
(* is_transaction_ready_to_go asks for the inputs, which are checked again  *)
(* only when the last block they refer to is not in the chain any more;     *)
(* what the check finds is not kept.                                        *)
ready(t) ==
    /\ t \notin ttlIndex
    /\ ~haveSpentKeyImages(t)
    /\ LET used == pool[t].used
       IN IF used = <<>> THEN checkTransactionInputs(t, chain)
          ELSE /\ Len(used) <= Len(Blocks(chain))
               /\ \/ SubSeq(Blocks(chain), 1, Len(used)) = used
                  \/ checkTransactionInputs(t, chain)

(* BlockTemplate::addTransaction takes a transaction if it spends nothing   *)
(* that one before it spends.                                               *)
fill_block_template(order) ==
    LET f[i \in 0..Len(order)] ==
            IF i = 0 THEN [txs |-> {}, size |-> 0]
            ELSE LET t == order[i]
                     r == f[i - 1]
                 IN IF ready(t) /\ fits(t, r.size) /\ \A u \in r.txs : ~Conflict(t, u)
                    THEN [txs |-> r.txs \cup {t}, size |-> r.size + SizeOf[t]]
                    ELSE r
    IN f[Len(order)]

-----------------------------------------------------------------------------
PoolInit ==
    /\ pool = <<>> /\ deleted = <<>>
    /\ spentKeyImages = [k \in KeyImages |-> {}]
    /\ spentDeposits = {} /\ ttlIndex = {}
    /\ chain = <<>> /\ clock = 0

(* core::add_new_tx and add_tx: a transaction of a peer or of this node's   *)
(* wallets passes every check, one that came with a block is spared those   *)
(* on inputs, TTL and recent deletion.                                      *)
add_tx(t, kept) ==
    /\ t \notin Confirmed(chain) /\ t \notin DOMAIN pool
    /\ \/ kept
       \/ /\ TtlOf[t] # 0 => TtlOf[t] > clock /\ TtlOf[t] - clock <= LiveTime + FutureLimit
          /\ ~haveSpentInputs(t)
          /\ checkTransactionInputs(t, chain)
          /\ t \notin DOMAIN deleted
    /\ SetPool(insertedAll(Pool, {t}, kept, chain))
    /\ UNCHANGED <<deleted, chain, clock>>

(* A set of transactions that Blockchain accepts as the next block of c; no *)
(* block here spends its own outputs.                                       *)
ValidBlock(S, c) ==
    /\ \A t \in S : checkTransactionInputs(t, c)
    /\ \A t, u \in S : ~Conflict(t, u)
    /\ S \cap Confirmed(c) = {}

(* loadTransactions takes the transactions of a block from the pool.        *)
pushBlockOf(S) ==
    /\ Len(chain) < MaxHeight
    /\ S \subseteq DOMAIN pool /\ ValidBlock(S, chain)
    /\ SetPool(removedAll(Pool, S))
    /\ chain' = Append(chain, S)
    /\ UNCHANGED <<deleted, clock>>

(* A block that is refused, for whatever reason or because a transaction of *)
(* it is missing: loadTransactions has taken those of S, and they come back *)
(* as transactions of a block.                                              *)
refuseBlockOf(S) ==
    /\ S # {} /\ S \subseteq DOMAIN pool
    /\ SetPool(insertedAll(removedAll(Pool, S), S, TRUE, chain))
    /\ UNCHANGED <<deleted, chain, clock>>

(* A switch to a longer chain that forks below the tip: popBlock saves the  *)
(* transactions of the last block, and two blocks are pushed.               *)
reorganise ==
    LET n == Len(chain)
        below == SubSeq(chain, 1, n - 1)
        popped == insertedAll(Pool, chain[n], TRUE, chain)
    IN /\ n > 0 /\ n < MaxHeight
       /\ \E S \in SUBSET DOMAIN popped.txs : \E T \in SUBSET (DOMAIN popped.txs \ S) :
             /\ S # chain[n]
             /\ ValidBlock(S, below) /\ ValidBlock(T, Append(below, S))
             /\ SetPool(removedAll(popped, S \cup T))
             /\ chain' = below \o <<S, T>>
       /\ UNCHANGED <<deleted, clock>>

-----------------------------------------------------------------------------
ageLimit(entry) == IF entry.kept THEN AltLiveTime ELSE LiveTime

Expired(p) ==
    {t \in DOMAIN p.txs : p.txs[t].age > ageLimit(p.txs[t])
                          \/ (t \in p.ttl /\ TtlOf[t] <= clock)}

(* emplace leaves the time of an earlier deletion.                          *)
removeExpiredTransactions(p) ==
    LET old == {t \in DOMAIN deleted : deleted[t] > ForgetPeriods * LiveTime}
        remembered == Restrict(deleted, DOMAIN deleted \ old)
    IN /\ SetPool(removedAll(p, Expired(p)))
       /\ deleted' = remembered @@ [t \in Expired(p) |-> 0]

on_idle ==
    /\ removeExpiredTransactions(Pool)
    /\ UNCHANGED <<chain, clock>>

(* deinit and init: the indices that are not in the file are built again.   *)
buildIndices(p) == [p EXCEPT !.ttl = {t \in DOMAIN p.txs : TtlOf[t] # 0}]

restartPool ==
    /\ removeExpiredTransactions(buildIndices(Pool))
    /\ UNCHANGED <<chain, clock>>

Capped(n, bound) == IF n > bound THEN bound ELSE n

(* Time passes.  Ages count up to one more than the longest life, the clock *)
(* up to the last TTL: after that time changes nothing.                     *)
tick ==
    /\ pool' = [t \in DOMAIN pool |-> [pool[t] EXCEPT !.age = Capped(@ + 1, AltLiveTime + 1)]]
    /\ deleted' = [t \in DOMAIN deleted |-> Capped(deleted[t] + 1, ForgetPeriods * LiveTime + 1)]
    /\ clock' = Capped(clock + 1, LastTtl)
    /\ UNCHANGED <<spentKeyImages, spentDeposits, ttlIndex, chain>>

PoolNext ==
    \/ \E t \in PoolTxs, kept \in BOOLEAN : add_tx(t, kept)
    \/ \E S \in SUBSET DOMAIN pool : pushBlockOf(S)
    \/ \E S \in SUBSET DOMAIN pool : refuseBlockOf(S)
    \/ reorganise
    \/ on_idle
    \/ restartPool
    \/ tick

PoolSpec == PoolInit /\ [][PoolNext]_poolVars

-----------------------------------------------------------------------------
(* The indices by which add_tx sees a double spend and on_idle a TTL are    *)
(* those of the transactions of the pool, after any order of arrivals,      *)
(* blocks, refused blocks, switches, expiries and restarts.                 *)
PoolIndicesExact ==
    /\ \A k \in KeyImages : spentKeyImages[k] = {t \in DOMAIN pool : k \in KeyImagesOf[t]}
    /\ spentDeposits = DepositsOfAll({t \in DOMAIN pool : ~pool[t].kept})
    /\ ttlIndex = {t \in DOMAIN pool : TtlOf[t] # 0}

(* What fill_block_template makes of any pool spends no key image twice or  *)
(* again and refers only to outputs of the chain: with the conflicting      *)
(* transactions that blocks and switches leave in the pool, with those      *)
(* whose inputs a switch took away, and though inputs are not checked again *)
(* on every new tail.  Nothing is said of deposits that the chain has spent *)
(* since, which only a check of the inputs would see.                       *)
TemplateValid ==
    \A order \in FeeOrders :
        LET r == fill_block_template(order)
        IN /\ \A t, u \in r.txs : ~Conflict(t, u)
           /\ \A t \in r.txs :
                 /\ \A u \in Confirmed(chain) : KeyImagesOf[t] \cap KeyImagesOf[u] = {}
                 /\ KeyImagesOf[t] # {} => Needs[t] \subseteq Confirmed(chain)
           /\ r.size <= MaxTotalSize

=============================================================================
