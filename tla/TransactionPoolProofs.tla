------------------------ MODULE TransactionPoolProofs ------------------------
(***************************************************************************)
(* The indices of the transaction pool are exact for any transactions, key *)
(* images, deposits and life times.                                        *)
(*                                                                         *)
(* Two facts make removal from m_spentOutputs right, and neither is said   *)
(* by the indices alone: no two transactions that entered through the      *)
(* checks spend the same deposit, and no transaction is in the pool and in *)
(* the chain at once, so that a popped block brings back transactions that *)
(* the pool does not hold under another entry.                             *)
(***************************************************************************)
EXTENDS TransactionPool, WellFoundedInduction, TLAPS

Unkept(p) == {t \in DOMAIN p.txs : ~p.txs[t].kept}

(* The containers of a pool agree with its transactions, and no two of     *)
(* those that passed the checks of inputs spend the same deposit.          *)
ExactPool(p) ==
    /\ DOMAIN p.txs \subseteq PoolTxs
    /\ \A t \in DOMAIN p.txs : DOMAIN p.txs[t] = {"kept", "age", "used"}
    /\ \A k \in KeyImages : p.ki[k] = {t \in DOMAIN p.txs : k \in KeyImagesOf[t]}
    /\ p.dep = DepositsOfAll(Unkept(p))
    /\ p.ttl = {t \in DOMAIN p.txs : TtlOf[t] # 0}
    /\ \A t, u \in Unkept(p) : t # u => DepositsOf[t] \cap DepositsOf[u] = {}

(* No transaction is in two blocks.                                        *)
BlocksApart(c) == \A i, j \in DOMAIN c : i # j => c[i] \cap c[j] = {}

PoolInv ==
    /\ ExactPool(Pool)
    /\ chain \in Seq(SUBSET PoolTxs)
    /\ BlocksApart(chain)
    /\ DOMAIN pool \cap Confirmed(chain) = {}

-----------------------------------------------------------------------------
(* add_tx and addTransactionInputs: transactions that are not in the pool  *)
(* leave its indices exact, if they come with a block or spend deposits    *)
(* that nothing in m_spentOutputs and no other of them spends.             *)
LEMMA InsertExact ==
    ASSUME NEW p, NEW S \in SUBSET PoolTxs, NEW kept \in BOOLEAN, NEW c,
           ExactPool(p), S \cap DOMAIN p.txs = {},
           ~kept => \A t \in S : /\ DepositsOf[t] \cap p.dep = {}
                                 /\ \A u \in S : t # u => DepositsOf[t] \cap DepositsOf[u] = {}
    PROVE  /\ ExactPool(insertedAll(p, S, kept, c))
           /\ DOMAIN insertedAll(p, S, kept, c).txs = S \cup DOMAIN p.txs
<1> DEFINE q == insertedAll(p, S, kept, c)
<1>1. /\ DOMAIN q.txs = S \cup DOMAIN p.txs
      /\ \A t \in S : q.txs[t].kept = kept /\ DOMAIN q.txs[t] = {"kept", "age", "used"}
      /\ \A t \in DOMAIN p.txs : q.txs[t] = p.txs[t]
      /\ \A k \in KeyImages : q.ki[k] = p.ki[k] \cup {t \in S : k \in KeyImagesOf[t]}
      /\ q.dep = IF kept THEN p.dep ELSE p.dep \cup DepositsOfAll(S)
      /\ q.ttl = p.ttl \cup {t \in S : TtlOf[t] # 0}
  BY DEF insertedAll
<1> HIDE DEF q
<1>2. Unkept(q) = IF kept THEN Unkept(p) ELSE Unkept(p) \cup S
  BY <1>1 DEF Unkept
<1>3. q.dep = DepositsOfAll(Unkept(q))
  BY <1>1, <1>2 DEF ExactPool, DepositsOfAll
<1>4. \A t \in DOMAIN q.txs : DOMAIN q.txs[t] = {"kept", "age", "used"}
  BY <1>1 DEF ExactPool
<1>5. \A k \in KeyImages : q.ki[k] = {t \in DOMAIN q.txs : k \in KeyImagesOf[t]}
  BY <1>1 DEF ExactPool
<1>6. \A t, u \in Unkept(q) : t # u => DepositsOf[t] \cap DepositsOf[u] = {}
  <2>1. \A u \in Unkept(p) : DepositsOf[u] \subseteq p.dep
    BY DEF ExactPool, DepositsOfAll
  <2>2. QED
    BY <1>2, <2>1 DEF ExactPool
<1>7. q.ttl = {t \in DOMAIN q.txs : TtlOf[t] # 0}
  BY <1>1 DEF ExactPool
<1>8. DOMAIN q.txs \subseteq PoolTxs
  BY <1>1 DEF ExactPool
<1>9. QED
  BY <1>1, <1>3, <1>4, <1>5, <1>6, <1>7, <1>8 DEF ExactPool, q

(* removeTransaction: taking transactions out of the pool leaves its       *)
(* indices exact, as no other transaction holds an entry of m_spentOutputs *)
(* that is taken out with them.                                            *)
LEMMA RemoveExact ==
    ASSUME NEW p, NEW S \in SUBSET DOMAIN p.txs, ExactPool(p)
    PROVE  /\ ExactPool(removedAll(p, S))
           /\ DOMAIN removedAll(p, S).txs = DOMAIN p.txs \ S
<1> DEFINE q == removedAll(p, S)
<1>1. /\ DOMAIN q.txs = DOMAIN p.txs \ S
      /\ \A t \in DOMAIN q.txs : q.txs[t] = p.txs[t]
      /\ \A k \in KeyImages : q.ki[k] = p.ki[k] \ S
      /\ q.dep = p.dep \ DepositsOfAll({t \in S : ~p.txs[t].kept})
      /\ q.ttl = p.ttl \ S
  BY DEF removedAll, Restrict
<1> HIDE DEF q
<1>2. /\ Unkept(q) = Unkept(p) \ S
      /\ {t \in S : ~p.txs[t].kept} = Unkept(p) \cap S
  BY <1>1 DEF Unkept
<1>3. q.dep = DepositsOfAll(Unkept(q))
  <2>1. q.dep = DepositsOfAll(Unkept(p)) \ DepositsOfAll(Unkept(p) \cap S)
    BY <1>1, <1>2 DEF ExactPool
  <2>2. \A t, u \in Unkept(p) : t # u => DepositsOf[t] \cap DepositsOf[u] = {}
    BY DEF ExactPool
  <2>3. QED
    BY <1>2, <2>1, <2>2 DEF DepositsOfAll
<1>4. \A t \in DOMAIN q.txs : DOMAIN q.txs[t] = {"kept", "age", "used"}
  BY <1>1 DEF ExactPool
<1>5. \A k \in KeyImages : q.ki[k] = {t \in DOMAIN q.txs : k \in KeyImagesOf[t]}
  BY <1>1 DEF ExactPool
<1>6. \A t, u \in Unkept(q) : t # u => DepositsOf[t] \cap DepositsOf[u] = {}
  BY <1>2 DEF ExactPool
<1>7. q.ttl = {t \in DOMAIN q.txs : TtlOf[t] # 0}
  BY <1>1 DEF ExactPool
<1>8. DOMAIN q.txs \subseteq PoolTxs
  BY <1>1 DEF ExactPool
<1>9. QED
  BY <1>1, <1>3, <1>4, <1>5, <1>6, <1>7, <1>8 DEF ExactPool, q

-----------------------------------------------------------------------------
(* What a chain confirms, one block at a time.                             *)
LEMMA ConfirmedBy ==
    ASSUME NEW c \in Seq(SUBSET PoolTxs)
    PROVE  \A t : t \in Confirmed(c) <=> \E i \in 1..Len(c) : t \in c[i]
BY DEF Confirmed, Range

(* pushBlock: a block whose transactions are not in the chain leaves the   *)
(* blocks apart.                                                           *)
LEMMA PushApart ==
    ASSUME NEW c \in Seq(SUBSET PoolTxs), NEW S \in SUBSET PoolTxs,
           BlocksApart(c), S \cap Confirmed(c) = {}
    PROVE  /\ Append(c, S) \in Seq(SUBSET PoolTxs)
           /\ BlocksApart(Append(c, S))
           /\ Confirmed(Append(c, S)) = Confirmed(c) \cup S
<1> DEFINE d == Append(c, S)
<1>1. /\ d \in Seq(SUBSET PoolTxs)
      /\ Len(d) = Len(c) + 1 /\ Len(c) \in Nat
      /\ \A i \in 1..Len(c) : d[i] = c[i]
      /\ d[Len(c) + 1] = S
  OBVIOUS
<1> HIDE DEF d
<1>2. \A t : t \in Confirmed(c) <=> \E i \in 1..Len(c) : t \in c[i]
  BY ConfirmedBy
<1>3. \A t : t \in Confirmed(d) <=> \E i \in 1..Len(d) : t \in d[i]
  BY <1>1, ConfirmedBy
<1>4. DOMAIN c = 1..Len(c) /\ DOMAIN d = 1..Len(d)
  BY <1>1
<1>5. \A i \in 1..Len(c) : c[i] \cap S = {}
  BY <1>2
<1>6. BlocksApart(d)
  <2> SUFFICES ASSUME NEW i \in 1..Len(d), NEW j \in 1..Len(d), i # j
               PROVE  d[i] \cap d[j] = {}
    BY <1>4 DEF BlocksApart
  <2>1. i \in 1..Len(c) \/ i = Len(c) + 1
    BY <1>1
  <2>2. j \in 1..Len(c) \/ j = Len(c) + 1
    BY <1>1
  <2>3. QED
    BY <1>1, <1>4, <1>5, <2>1, <2>2 DEF BlocksApart
<1>7. Confirmed(d) = Confirmed(c) \cup S
  <2>1. \A i \in 1..Len(d) : i \in 1..Len(c) \/ i = Len(c) + 1
    BY <1>1
  <2>2. \A i \in 1..Len(c) : i \in 1..Len(d)
    BY <1>1
  <2>3. Len(c) + 1 \in 1..Len(d)
    BY <1>1
  <2>4. ASSUME NEW t PROVE t \in Confirmed(d) <=> t \in Confirmed(c) \cup S
    BY ONLY <1>1, <1>2, <1>3, <2>1, <2>2, <2>3
  <2>5. QED
    BY <2>4
<1>8. QED
  BY <1>1, <1>6, <1>7 DEF d

(* popBlock: the chain below its last block, and what that block held.     *)
LEMMA PopApart ==
    ASSUME NEW c \in Seq(SUBSET PoolTxs), BlocksApart(c), Len(c) > 0
    PROVE  LET below == SubSeq(c, 1, Len(c) - 1)
           IN /\ below \in Seq(SUBSET PoolTxs)
              /\ BlocksApart(below)
              /\ Confirmed(c) = Confirmed(below) \cup c[Len(c)]
              /\ Confirmed(below) \cap c[Len(c)] = {}
<1> DEFINE below == SubSeq(c, 1, Len(c) - 1)
<1>1. /\ below \in Seq(SUBSET PoolTxs)
      /\ Len(below) = Len(c) - 1 /\ Len(c) \in Nat
      /\ \A i \in 1..Len(below) : below[i] = c[i]
  <2>1. Len(c) \in Nat /\ Len(c) - 1 \in Nat
    OBVIOUS
  <2>2. \A i \in 1..(Len(c) - 1) : c[i] \in SUBSET PoolTxs
    BY <2>1
  <2>3. /\ below \in Seq(SUBSET PoolTxs)
        /\ Len(below) = IF 1 <= Len(c) - 1 THEN Len(c) - 1 - 1 + 1 ELSE 0
        /\ \A i \in 1..(Len(c) - 1 - 1 + 1) : below[i] = c[1 + i - 1]
    BY <2>1, <2>2
  <2> HIDE DEF below
  <2>4. Len(below) = Len(c) - 1 /\ Len(c) - 1 - 1 + 1 = Len(c) - 1
    <3>1. Len(below) = IF 1 <= Len(c) - 1 THEN Len(c) - 1 - 1 + 1 ELSE 0
      BY <2>3
    <3>2. \A m \in Nat : m - 1 + 1 = m /\ (IF 1 <= m THEN m - 1 + 1 ELSE 0) = m
      OBVIOUS
    <3>3. QED
      BY ONLY <2>1, <3>1, <3>2, Zenon
  <2>5. ASSUME NEW i \in 1..Len(below) PROVE below[i] = c[i]
    <3>1. i \in 1..(Len(c) - 1 - 1 + 1) /\ 1 + i - 1 = i
      BY <2>1, <2>4
    <3>2. QED
      BY ONLY <2>3, <3>1
  <2>6. QED
    BY <2>1, <2>3, <2>4, <2>5
<1> HIDE DEF below
<1>2. \A t : t \in Confirmed(c) <=> \E i \in 1..Len(c) : t \in c[i]
  BY ConfirmedBy
<1>3. \A t : t \in Confirmed(below) <=> \E i \in 1..Len(below) : t \in below[i]
  BY <1>1, ConfirmedBy
<1>4. DOMAIN c = 1..Len(c) /\ DOMAIN below = 1..Len(below)
  BY <1>1
<1>5. /\ \A i \in 1..Len(c) : i \in 1..Len(below) \/ i = Len(c)
      /\ \A i \in 1..Len(below) : i \in 1..Len(c) /\ i # Len(c)
      /\ Len(c) \in 1..Len(c)
  BY <1>1
<1>6. BlocksApart(below)
  BY ONLY <1>1, <1>4, <1>5, BlocksApart(c), Zenon DEF BlocksApart
<1>7. \A i \in 1..Len(below) : below[i] \cap c[Len(c)] = {}
  BY <1>1, <1>4, <1>5, Zenon DEF BlocksApart
<1>8. ASSUME NEW t
      PROVE  /\ t \in Confirmed(c) <=> t \in Confirmed(below) \cup c[Len(c)]
             /\ ~(t \in Confirmed(below) /\ t \in c[Len(c)])
  BY ONLY <1>1, <1>2, <1>3, <1>5, <1>7, Zenon
<1>9. QED
  BY <1>1, <1>6, <1>8 DEF below

-----------------------------------------------------------------------------
(* The containers after SetPool are those of the record it was given.      *)
LEMMA PoolAfter ==
    ASSUME NEW q, SetPool(q), ExactPool(q)
    PROVE  ExactPool(Pool)' /\ DOMAIN pool' = DOMAIN q.txs
<1>1. /\ Pool' = [txs |-> q.txs, ki |-> q.ki, dep |-> q.dep, ttl |-> q.ttl]
      /\ DOMAIN pool' = DOMAIN q.txs
  BY DEF SetPool, Pool
<1>2. QED
  BY <1>1 DEF ExactPool, Unkept

(* Every step of PoolNext keeps the invariant.                             *)
LEMMA PoolNextInv ==
    ASSUME PoolInv, [PoolNext]_poolVars
    PROVE  PoolInv'
<1> USE DEF PoolInv
<1>0. /\ Pool.txs = pool /\ Pool.ki = spentKeyImages
      /\ Pool.dep = spentDeposits /\ Pool.ttl = ttlIndex
  BY DEF Pool
<1>1. ASSUME NEW t \in PoolTxs, NEW kept \in BOOLEAN, add_tx(t, kept)
      PROVE  PoolInv'
  <2> DEFINE q == insertedAll(Pool, {t}, kept, chain)
  <2>1. SetPool(q) /\ chain' = chain /\ t \notin Confirmed(chain) /\ t \notin DOMAIN pool
    BY <1>1 DEF add_tx
  <2>2. ~kept => DepositsOf[t] \cap spentDeposits = {}
    BY <1>1 DEF add_tx, haveSpentInputs
  <2>3. {t} \in SUBSET PoolTxs /\ {t} \cap DOMAIN Pool.txs = {}
    BY <1>0, <2>1
  <2>4. ~kept => \A x \in {t} : /\ DepositsOf[x] \cap Pool.dep = {}
                                /\ \A u \in {t} : x # u => DepositsOf[x] \cap DepositsOf[u] = {}
    BY <1>0, <2>2
  <2>5. ExactPool(q) /\ DOMAIN q.txs = {t} \cup DOMAIN Pool.txs
    BY <2>3, <2>4, InsertExact, Zenon
  <2> HIDE DEF q
  <2>6. ExactPool(Pool)' /\ DOMAIN pool' = {t} \cup DOMAIN pool
    BY <1>0, <2>1, <2>5, PoolAfter, Zenon
  <2>7. QED
    BY <2>1, <2>6
<1>2. ASSUME NEW S \in SUBSET DOMAIN pool, pushBlockOf(S)
      PROVE  PoolInv'
  <2> DEFINE q == removedAll(Pool, S)
  <2>1. SetPool(q) /\ chain' = Append(chain, S) /\ S \cap Confirmed(chain) = {}
    BY <1>2 DEF pushBlockOf, ValidBlock
  <2>2. ExactPool(q) /\ DOMAIN q.txs = DOMAIN pool \ S
    BY <1>0, RemoveExact
  <2> HIDE DEF q
  <2>3. ExactPool(Pool)' /\ DOMAIN pool' = DOMAIN pool \ S
    BY <2>1, <2>2, PoolAfter, Zenon
  <2>4. S \in SUBSET PoolTxs
    BY <1>0 DEF ExactPool
  <2>5. /\ chain' \in Seq(SUBSET PoolTxs) /\ BlocksApart(chain')
        /\ Confirmed(chain') = Confirmed(chain) \cup S
    BY <2>1, <2>4, PushApart
  <2>6. QED
    BY <2>3, <2>5
<1>3. ASSUME NEW S \in SUBSET DOMAIN pool, refuseBlockOf(S)
      PROVE  PoolInv'
  <2> DEFINE r == removedAll(Pool, S)
             q == insertedAll(r, S, TRUE, chain)
  <2>1. SetPool(q) /\ chain' = chain
    BY <1>3, Zenon DEF refuseBlockOf
  <2>2. S \in SUBSET PoolTxs
    BY <1>0 DEF ExactPool
  <2>3. ExactPool(r) /\ DOMAIN r.txs = DOMAIN pool \ S
    BY <1>0, RemoveExact
  <2>7. S \cap DOMAIN r.txs = {}
    BY <2>3, Zenon
  <2> HIDE DEF r
  <2>4. ExactPool(q) /\ DOMAIN q.txs = S \cup DOMAIN r.txs
    BY <2>2, <2>3, <2>7, InsertExact, Zenon
  <2> HIDE DEF q
  <2>5. ExactPool(Pool)' /\ DOMAIN pool' = DOMAIN pool
    BY <2>1, <2>3, <2>4, PoolAfter, Zenon
  <2>6. QED
    BY <2>1, <2>5
<1>4. ASSUME reorganise
      PROVE  PoolInv'
  <2> DEFINE n == Len(chain)
             last == chain[n]
             below == SubSeq(chain, 1, n - 1)
             popped == insertedAll(Pool, last, TRUE, chain)
  <2>0. PICK S \in SUBSET DOMAIN popped.txs : \E T \in SUBSET (DOMAIN popped.txs \ S) :
             /\ ValidBlock(S, below) /\ ValidBlock(T, Append(below, S))
             /\ SetPool(removedAll(popped, S \cup T)) /\ chain' = below \o <<S, T>>
    BY <1>4, Zenon DEF reorganise
  <2>00. PICK T \in SUBSET (DOMAIN popped.txs \ S) :
             /\ ValidBlock(S, below) /\ ValidBlock(T, Append(below, S))
             /\ SetPool(removedAll(popped, S \cup T)) /\ chain' = below \o <<S, T>>
    BY <2>0, Zenon
  <2> DEFINE q == removedAll(popped, S \cup T)
  <2>1. /\ n > 0 /\ S \cup T \subseteq DOMAIN popped.txs /\ S \cap T = {}
        /\ ValidBlock(S, below) /\ ValidBlock(T, Append(below, S))
        /\ SetPool(q) /\ chain' = below \o <<S, T>>
    <3>1. n > 0
      BY <1>4, Zenon DEF reorganise
    <3>2. QED
      BY <2>00, <3>1, ZenonT(60)
  <2>2. /\ below \in Seq(SUBSET PoolTxs) /\ BlocksApart(below)
        /\ Confirmed(chain) = Confirmed(below) \cup last
        /\ Confirmed(below) \cap last = {}
    BY <2>1, PopApart
  <2>3. last \in SUBSET PoolTxs /\ last \cap DOMAIN pool = {}
    BY <2>1, <2>2
  <2>4. ExactPool(popped) /\ DOMAIN popped.txs = last \cup DOMAIN pool
    BY <1>0, <2>3, InsertExact, Zenon
  <2>11. S \in SUBSET PoolTxs /\ T \in SUBSET PoolTxs
    BY <2>1, <2>4, Zenon DEF ExactPool
  <2> HIDE DEF popped
  <2>5. ExactPool(q) /\ DOMAIN q.txs = (last \cup DOMAIN pool) \ (S \cup T)
    BY <2>1, <2>4, RemoveExact, Zenon
  <2> HIDE DEF q
  <2>6. ExactPool(Pool)' /\ DOMAIN pool' = (last \cup DOMAIN pool) \ (S \cup T)
    BY <2>1, <2>5, PoolAfter, Zenon
  <2>7. /\ Append(below, S) \in Seq(SUBSET PoolTxs)
        /\ BlocksApart(Append(below, S))
        /\ Confirmed(Append(below, S)) = Confirmed(below) \cup S
    BY <2>1, <2>2, <2>11, PushApart, Zenon DEF ValidBlock
  <2>8. chain' = Append(Append(below, S), T)
    BY <2>1, <2>2
  <2>9. /\ chain' \in Seq(SUBSET PoolTxs) /\ BlocksApart(chain')
        /\ Confirmed(chain') = Confirmed(below) \cup S \cup T
    <3> DEFINE mid == Append(below, S)
    <3>1. T \cap Confirmed(mid) = {}
      BY <2>1 DEF ValidBlock
    <3>2. /\ mid \in Seq(SUBSET PoolTxs) /\ BlocksApart(mid)
          /\ Confirmed(mid) = Confirmed(below) \cup S /\ chain' = Append(mid, T)
      BY <2>7, <2>8
    <3> HIDE DEF mid
    <3>3. QED
      BY <2>11, <3>1, <3>2, PushApart, SMTT(40)
  <2>10. QED
    BY <2>2, <2>6, <2>9
<1>5. ASSUME NEW p, ExactPool(p), DOMAIN p.txs = DOMAIN pool,
             removeExpiredTransactions(p), chain' = chain
      PROVE  PoolInv'
  <2> DEFINE q == removedAll(p, Expired(p))
  <2>1. SetPool(q)
    BY <1>5 DEF removeExpiredTransactions
  <2>2. Expired(p) \in SUBSET DOMAIN p.txs
    BY DEF Expired
  <2>3. ExactPool(q) /\ DOMAIN q.txs = DOMAIN pool \ Expired(p)
    BY <1>5, <2>2, RemoveExact
  <2> HIDE DEF q
  <2>4. ExactPool(Pool)' /\ DOMAIN pool' = DOMAIN pool \ Expired(p)
    BY <2>1, <2>3, PoolAfter, Zenon
  <2>5. QED
    BY <1>5, <2>4
<1>6. CASE on_idle
  BY <1>0, <1>5, <1>6 DEF on_idle
<1>7. CASE restartPool
  <2> DEFINE p == buildIndices(Pool)
  <2>1. p = Pool
    BY <1>0, ZenonT(60) DEF buildIndices, Pool, ExactPool
  <2>2. QED
    BY <1>0, <1>5, <1>7, <2>1 DEF restartPool
<1>8. CASE tick
  <2>1. /\ DOMAIN pool' = DOMAIN pool
        /\ \A t \in DOMAIN pool : /\ DOMAIN pool'[t] = DOMAIN pool[t]
                                  /\ "kept" \in DOMAIN pool[t] => pool'[t].kept = pool[t].kept
    BY <1>8 DEF tick
  <2>2. /\ spentKeyImages' = spentKeyImages /\ spentDeposits' = spentDeposits
        /\ ttlIndex' = ttlIndex /\ chain' = chain
    BY <1>8 DEF tick
  <2>3. Unkept(Pool') = Unkept(Pool)
    BY <1>0, <2>1, SMTT(40) DEF Unkept, Pool, ExactPool
  <2>4. ExactPool(Pool)'
    BY <1>0, <2>1, <2>2, <2>3, SMTT(40) DEF Pool, ExactPool
  <2>5. QED
    BY <2>1, <2>2, <2>4
<1>9. CASE UNCHANGED poolVars
  BY <1>9 DEF poolVars, Pool, ExactPool, Unkept
<1>10. QED
  BY <1>1, <1>2, <1>3, <1>4, <1>6, <1>7, <1>8, <1>9, Zenon DEF PoolNext

(* The pool starts empty, on a chain of the genesis block alone.           *)
LEMMA PoolInitInv == PoolInit => PoolInv
<1> SUFFICES ASSUME PoolInit PROVE PoolInv
  OBVIOUS
<1>1. DOMAIN Pool.txs = {} /\ Unkept(Pool) = {}
  BY SMTT(40) DEF PoolInit, Pool, Unkept
<1>2. ExactPool(Pool)
  BY <1>1, Zenon DEF PoolInit, Pool, ExactPool, DepositsOfAll
<1>3. chain \in Seq(SUBSET PoolTxs) /\ BlocksApart(chain)
  BY DEF PoolInit, BlocksApart
<1>4. DOMAIN pool = {}
  BY <1>1 DEF Pool
<1>5. QED
  BY <1>2, <1>3, <1>4 DEF PoolInv

(* The invariant holds in every state of the pool.                         *)
LEMMA PoolAlways == PoolSpec => []PoolInv
BY PoolInitInv, PoolNextInv, PTL DEF PoolSpec

(* m_spent_key_images, m_spentOutputs and m_ttlIndex hold what the         *)
(* transactions of the pool say, after any arrivals, blocks, refused       *)
(* blocks, switches, expiries and restarts.                                *)
THEOREM PoolIndicesAlwaysExact == PoolSpec => []PoolIndicesExact
<1>1. PoolInv => PoolIndicesExact
  BY DEF PoolInv, ExactPool, Pool, Unkept, PoolIndicesExact
<1>2. QED
  BY <1>1, PoolAlways, PTL

-----------------------------------------------------------------------------
(* Block templates.  Inputs that were found valid are not checked again as *)
(* long as the last block they refer to is in the chain.  That is enough   *)
(* because maxUsedBlock, as a sequence of blocks, holds what they need.    *)

(* A set of naturals that is not empty has a least element.                *)
LEMMA LeastNumber ==
    ASSUME NEW S, S \subseteq Nat, S # {}
    PROVE  \E k \in S : \A j \in S : k <= j
<1>1. \E k \in S : \A j \in S : ~(<<j, k>> \in OpToRel(<, Nat))
  BY NatLessThanWellFounded, WFMin, Zenon
<1>2. \A j, k \in Nat : j < k => <<j, k>> \in OpToRel(<, Nat)
  BY DEF OpToRel
<1>3. \E k \in S : \A j \in S : ~(j < k)
  BY <1>1, <1>2, Zenon
<1>4. QED
  BY ONLY <1>3, S \subseteq Nat

(* One with an upper bound has a greatest.                                 *)
LEMMA GreatestNumber ==
    ASSUME NEW S, NEW n \in Nat, S \subseteq 0 .. n, S # {}
    PROVE  \E k \in S : \A j \in S : j <= k
<1> DEFINE Above == {m \in Nat : \A j \in S : j <= m}
<1>1. n \in Above /\ Above \subseteq Nat
  OBVIOUS
<1>2. PICK m \in Above : \A k \in Above : m <= k
  BY <1>1, LeastNumber, Zenon
<1>3. m \in Nat /\ \A j \in S : j <= m
  BY <1>2
<1>4. CASE m \in S
  BY <1>3, <1>4
<1>5. CASE m \notin S
  <2>1. \A j \in S : j \in Nat /\ j <= m /\ j # m
    BY <1>3, <1>5
  <2>2. m - 1 \in Nat /\ \A j \in S : j <= m - 1
    <3>1. PICK j \in S : TRUE
      BY Zenon
    <3>2. QED
      BY <1>3, <2>1, <3>1
  <2>3. m - 1 \in Above /\ ~(m <= m - 1)
    BY <1>3, <2>2
  <2>4. QED
    BY <1>2, <2>3
<1>6. QED
  BY <1>4, <1>5

(* What the entry of t says of the chain it was checked on.                *)
UsedKnown(used, t) ==
    \/ used = <<>>
    \/ used \in Seq(SUBSET PoolTxs) /\ (KeyImagesOf[t] # {} => Needs[t] \subseteq Confirmed(used))

UsedAll(txs) == \A t \in DOMAIN txs : UsedKnown(txs[t].used, t)

TemplateInv == PoolInv /\ UsedAll(pool)

(* The blocks with the genesis block, which confirms nothing.              *)
LEMMA BlocksFacts ==
    ASSUME NEW c \in Seq(SUBSET PoolTxs)
    PROVE  /\ Blocks(c) \in Seq(SUBSET PoolTxs) /\ Len(c) \in Nat /\ Len(Blocks(c)) = Len(c) + 1
           /\ Blocks(c)[1] = {} /\ \A i \in 1 .. Len(c) : Blocks(c)[i + 1] = c[i]
<1>1. <<{}>> \in Seq(SUBSET PoolTxs) /\ Len(<<{}>>) = 1
  OBVIOUS
<1>2. QED
  BY <1>1 DEF Blocks

(* maxUsedBlock is late enough: every block with an output that t refers   *)
(* to is in it.                                                            *)
LEMMA MaxUsedKnown ==
    ASSUME NEW c \in Seq(SUBSET PoolTxs), NEW t
    PROVE  UsedKnown(maxUsedBlock(t, c), t)
<1> DEFINE heights == {i \in DOMAIN c : KeyImagesOf[t] # {} /\ c[i] \cap Needs[t] # {}}
           last == CHOOSE i \in heights \cup {0} : \A j \in heights : j <= i
           used == SubSeq(Blocks(c), 1, last + 1)
<1>1. maxUsedBlock(t, c) = IF checkTransactionInputs(t, c) THEN used ELSE <<>>
  BY Zenon DEF maxUsedBlock
<1>2. CASE ~checkTransactionInputs(t, c)
  BY <1>1, <1>2 DEF UsedKnown
<1>3. CASE checkTransactionInputs(t, c)
  <2>1. DOMAIN c = 1 .. Len(c) /\ Len(c) \in Nat
    OBVIOUS
  <2>2. heights \cup {0} \subseteq 0 .. Len(c)
    BY <2>1
  <2>3. \E i \in heights \cup {0} : \A j \in heights \cup {0} : j <= i
    <3> HIDE DEF heights
    <3>1. heights \cup {0} # {}
      OBVIOUS
    <3>2. QED
      BY <2>1, <2>2, <3>1, GreatestNumber, Zenon
  <2>4. last \in heights \cup {0} /\ \A j \in heights : j <= last
    BY <2>3, Zenon
  <2>5. last \in 0 .. Len(c)
    BY <2>2, <2>4, Zenon
  <2>6. \A i \in 1 .. Len(c) : KeyImagesOf[t] # {} /\ c[i] \cap Needs[t] # {} => i <= last
    BY <2>1, <2>4, Zenon
  <2> HIDE DEF last, heights
  <2>7. /\ used \in Seq(SUBSET PoolTxs) /\ Len(used) = last + 1
        /\ \A i \in 1 .. last : used[i + 1] = c[i]
    <3>1. /\ Blocks(c) \in Seq(SUBSET PoolTxs) /\ Len(Blocks(c)) = Len(c) + 1
          /\ \A i \in 1 .. Len(c) : Blocks(c)[i + 1] = c[i]
      BY BlocksFacts
    <3> DEFINE B == Blocks(c)
    <3> HIDE DEF B
    <3>2. QED
      BY <2>1, <2>5, <3>1 DEF B
  <2> HIDE DEF used
  <2>8. ASSUME KeyImagesOf[t] # {}, NEW n \in Needs[t] PROVE n \in Confirmed(used)
    <3>1. n \in Confirmed(c)
      BY <1>3 DEF checkTransactionInputs
    <3>2. PICK i \in 1 .. Len(c) : n \in c[i]
      BY <3>1, ConfirmedBy
    <3>3. i \in 1 .. last
      BY <2>1, <2>5, <2>6, <2>8, <3>2
    <3>4. i + 1 \in 1 .. Len(used) /\ n \in used[i + 1]
      BY <2>5, <2>7, <3>2, <3>3
    <3>5. QED
      BY <2>7, <3>4, ConfirmedBy
  <2>9. QED
    BY <1>1, <1>3, <2>7, <2>8 DEF UsedKnown
<1>4. QED
  BY <1>2, <1>3

(* add_tx notes the last block used of every transaction it takes.         *)
LEMMA InsertUsed ==
    ASSUME NEW p, NEW S, NEW kept, NEW c \in Seq(SUBSET PoolTxs), UsedAll(p.txs)
    PROVE  UsedAll(insertedAll(p, S, kept, c).txs)
<1> DEFINE q == insertedAll(p, S, kept, c)
<1>1. /\ DOMAIN q.txs = S \cup DOMAIN p.txs
      /\ \A t \in S : q.txs[t].used = maxUsedBlock(t, c)
      /\ \A t \in DOMAIN p.txs : t \notin S => q.txs[t] = p.txs[t]
  BY DEF insertedAll
<1> HIDE DEF q
<1>2. UsedAll(q.txs)
  BY <1>1, MaxUsedKnown, Zenon DEF UsedAll
<1>3. QED
  BY <1>2, SMTT(40) DEF q

(* Removal leaves the other entries as they are.                           *)
LEMMA RemoveUsed ==
    ASSUME NEW p, NEW S, UsedAll(p.txs)
    PROVE  UsedAll(removedAll(p, S).txs)
<1> DEFINE q == removedAll(p, S)
<1>1. /\ DOMAIN q.txs = DOMAIN p.txs \ S
      /\ \A t \in DOMAIN q.txs : q.txs[t] = p.txs[t]
  BY DEF removedAll, Restrict
<1> HIDE DEF q
<1>2. UsedAll(q.txs)
  BY <1>1, Zenon DEF UsedAll
<1>3. QED
  BY <1>2 DEF q

(* Every step keeps what the entries say of the chain they were checked    *)
(* on: it does not depend on the chain of the moment.                      *)
LEMMA UsedNext ==
    ASSUME PoolInv, UsedAll(pool), [PoolNext]_poolVars
    PROVE  UsedAll(pool')
<1>0. Pool.txs = pool /\ chain \in Seq(SUBSET PoolTxs)
  BY DEF Pool, PoolInv
<1>1. ASSUME NEW t \in PoolTxs, NEW kept \in BOOLEAN, add_tx(t, kept)
      PROVE  UsedAll(pool')
  <2>1. pool' = insertedAll(Pool, {t}, kept, chain).txs
    BY <1>1, Zenon DEF add_tx, SetPool
  <2>2. QED
    BY <1>0, <2>1, InsertUsed
<1>2. ASSUME NEW S \in SUBSET DOMAIN pool, pushBlockOf(S)
      PROVE  UsedAll(pool')
  <2>1. pool' = removedAll(Pool, S).txs
    BY <1>2, Zenon DEF pushBlockOf, SetPool
  <2>2. QED
    BY <1>0, <2>1, RemoveUsed
<1>3. ASSUME NEW S \in SUBSET DOMAIN pool, refuseBlockOf(S)
      PROVE  UsedAll(pool')
  <2>1. pool' = insertedAll(removedAll(Pool, S), S, TRUE, chain).txs
    BY <1>3, Zenon DEF refuseBlockOf, SetPool
  <2>2. UsedAll(removedAll(Pool, S).txs)
    BY <1>0, RemoveUsed
  <2>3. QED
    BY <1>0, <2>1, <2>2, InsertUsed, Zenon
<1>4. ASSUME reorganise
      PROVE  UsedAll(pool')
  <2> DEFINE popped == insertedAll(Pool, chain[Len(chain)], TRUE, chain)
  <2>1. PICK S, T : pool' = removedAll(popped, S \cup T).txs
    BY <1>4, Zenon DEF reorganise, SetPool
  <2>2. UsedAll(popped.txs)
    BY <1>0, InsertUsed, Zenon
  <2>3. QED
    BY <2>1, <2>2, RemoveUsed, Zenon
<1>5. ASSUME NEW p, p.txs = pool, removeExpiredTransactions(p)
      PROVE  UsedAll(pool')
  <2>1. pool' = removedAll(p, Expired(p)).txs
    BY <1>5, Zenon DEF removeExpiredTransactions, SetPool
  <2>2. QED
    BY <1>5, <2>1, RemoveUsed
<1>6. CASE on_idle
  BY <1>0, <1>5, <1>6, Zenon DEF on_idle
<1>7. CASE restartPool
  <2>1. buildIndices(Pool).txs = pool
    BY DEF buildIndices, Pool
  <2>2. QED
    BY <1>5, <1>7, <2>1, Zenon DEF restartPool
<1>8. CASE tick
  <2>1. \A t \in DOMAIN pool : "used" \in DOMAIN pool[t]
    BY <1>0, Zenon DEF PoolInv, ExactPool
  <2>2. /\ DOMAIN pool' = DOMAIN pool
        /\ \A t \in DOMAIN pool : pool'[t].used = pool[t].used
    BY <1>8, <2>1 DEF tick
  <2>3. QED
    BY <2>2 DEF UsedAll
<1>9. CASE UNCHANGED poolVars
  BY <1>9 DEF poolVars
<1>10. QED
  BY <1>1, <1>2, <1>3, <1>4, <1>6, <1>7, <1>8, <1>9, Zenon DEF PoolNext

(* Both invariants hold in every state of the pool.                        *)
LEMMA TemplateAlways == PoolSpec => []TemplateInv
<1>1. PoolInit => TemplateInv
  <2>1. PoolInit => UsedAll(pool)
    BY DEF PoolInit, UsedAll
  <2>2. QED
    BY <2>1, PoolInitInv DEF TemplateInv
<1>2. TemplateInv /\ [PoolNext]_poolVars => TemplateInv'
  <2> SUFFICES ASSUME TemplateInv, [PoolNext]_poolVars PROVE TemplateInv'
    OBVIOUS
  <2>1. PoolInv /\ UsedAll(pool)
    BY DEF TemplateInv
  <2>2. PoolInv' /\ UsedAll(pool')
    BY <2>1, PoolNextInv, UsedNext
  <2>3. QED
    BY <2>2 DEF TemplateInv, UsedAll
<1>3. QED
  BY <1>1, <1>2, PTL DEF PoolSpec

(* is_transaction_ready_to_go: what it lets through spends nothing again,  *)
(* and its inputs are in the chain, though they may not have been checked. *)
LEMMA ReadyValid ==
    ASSUME TemplateInv, NEW t \in DOMAIN pool, ready(t)
    PROVE  /\ \A u \in Confirmed(chain) : KeyImagesOf[t] \cap KeyImagesOf[u] = {}
           /\ KeyImagesOf[t] # {} => Needs[t] \subseteq Confirmed(chain)
<1> DEFINE used == pool[t].used
<1>1. chain \in Seq(SUBSET PoolTxs) /\ UsedKnown(used, t)
  BY DEF TemplateInv, PoolInv, UsedAll
<1>2. /\ ~haveSpentKeyImages(t)
      /\ \/ checkTransactionInputs(t, chain)
         \/ used # <<>> /\ Len(used) <= Len(Blocks(chain)) /\ SubSeq(Blocks(chain), 1, Len(used)) = used
  BY Zenon DEF ready
<1> HIDE DEF used
<1>3. \A u \in Confirmed(chain) : KeyImagesOf[t] \cap KeyImagesOf[u] = {}
  BY <1>2, Zenon DEF haveSpentKeyImages
<1>4. ASSUME KeyImagesOf[t] # {} PROVE Needs[t] \subseteq Confirmed(chain)
  <2>1. CASE checkTransactionInputs(t, chain)
    BY <2>1 DEF checkTransactionInputs
  <2>2. CASE used # <<>> /\ Len(used) <= Len(Blocks(chain)) /\ SubSeq(Blocks(chain), 1, Len(used)) = used
    <3>1. used \in Seq(SUBSET PoolTxs) /\ Needs[t] \subseteq Confirmed(used)
      BY <1>1, <1>4, <2>2, Zenon DEF UsedKnown
    <3>2. ASSUME NEW n \in Needs[t] PROVE n \in Confirmed(chain)
      <4>1. PICK i \in 1 .. Len(used) : n \in used[i]
        BY <3>1, ConfirmedBy
      <4> DEFINE B == Blocks(chain)
      <4>2. /\ B \in Seq(SUBSET PoolTxs) /\ Len(chain) \in Nat /\ Len(B) = Len(chain) + 1
            /\ B[1] = {} /\ \A j \in 1 .. Len(chain) : B[j + 1] = chain[j]
        BY <1>1, BlocksFacts, SMTT(40)
      <4>3. Len(used) <= Len(B) /\ SubSeq(B, 1, Len(used)) = used
        BY <2>2
      <4> HIDE DEF B
      <4>4. used[i] = B[i] /\ i \in 1 .. Len(B)
        BY <3>1, <4>1, <4>2, <4>3
      <4>5. i # 1
        BY <4>1, <4>2, <4>4
      <4>6. i - 1 \in 1 .. Len(chain) /\ n \in chain[i - 1]
        BY <4>1, <4>2, <4>4, <4>5
      <4>7. QED
        BY <1>1, <4>6, ConfirmedBy
    <3>3. QED
      BY <3>2
  <2>3. QED
    BY <1>2, <2>1, <2>2
<1>5. QED
  BY <1>3, <1>4

-----------------------------------------------------------------------------
(* fill_block_template.  The template after i transactions of the order is *)
(* a function of the one before, so there is exactly one.                  *)
Filled(r, t) ==
    IF ready(t) /\ fits(t, r.size) /\ \A u \in r.txs : ~Conflict(t, u)
    THEN [txs |-> r.txs \cup {t}, size |-> r.size + SizeOf[t]]
    ELSE r

IsFill(f, order, n) ==
    f = [i \in 0 .. n |-> IF i = 0 THEN [txs |-> {}, size |-> 0] ELSE Filled(f[i - 1], order[i])]

(* The templates of every prefix of the order exist.                       *)
LEMMA FillExists ==
    ASSUME NEW order, NEW n \in Nat
    PROVE  \E f : IsFill(f, order, n)
<1> DEFINE Bad == {k \in Nat : ~\E f : IsFill(f, order, k)}
<1>1. SUFFICES ASSUME Bad # {} PROVE FALSE
  OBVIOUS
<1>2. PICK k \in Bad : \A j \in Bad : k <= j
  BY <1>1, LeastNumber, Zenon
<1>3. k # 0
  <2>1. IsFill([i \in 0 .. 0 |-> [txs |-> {}, size |-> 0]], order, 0)
    BY DEF IsFill
  <2>2. QED
    BY <1>2, <2>1
<1>4. k \in Nat /\ k - 1 \in Nat /\ k - 1 \notin Bad
  BY <1>2, <1>3
<1>5. PICK f : IsFill(f, order, k - 1)
  BY <1>4
<1> DEFINE g == [i \in 0 .. k |-> IF i = k THEN Filled(f[k - 1], order[k]) ELSE f[i]]
<1>6. /\ \A i \in 0 .. k : i # k => g[i] = f[i]
      /\ g[k] = Filled(f[k - 1], order[k])
  BY <1>4
<1>7. \A i \in 0 .. (k - 1) :
          f[i] = IF i = 0 THEN [txs |-> {}, size |-> 0] ELSE Filled(f[i - 1], order[i])
  <2> DEFINE F(i) == IF i = 0 THEN [txs |-> {}, size |-> 0] ELSE Filled(f[i - 1], order[i])
  <2>1. f = [i \in 0 .. (k - 1) |-> F(i)]
    BY <1>5, Zenon DEF IsFill
  <2> HIDE DEF F
  <2>2. \A i \in 0 .. (k - 1) : f[i] = F(i)
    BY <2>1, Zenon
  <2>3. QED
    BY <2>2 DEF F
<1>8. ASSUME NEW i \in 0 .. k
      PROVE  g[i] = IF i = 0 THEN [txs |-> {}, size |-> 0] ELSE Filled(g[i - 1], order[i])
  <2> HIDE DEF g
  <2>1. CASE i = k
    <3>1. i # 0 /\ g[k - 1] = f[k - 1]
      BY <1>3, <1>4, <1>6, <2>1
    <3>2. QED
      BY <1>6, <2>1, <3>1, Zenon
  <2>2. CASE i # k
    <3>1. i \in 0 .. (k - 1) /\ g[i] = f[i] /\ (i # 0 => g[i - 1] = f[i - 1])
      BY <1>4, <1>6, <2>2
    <3>2. QED
      BY <1>7, <3>1, Zenon
  <2>3. QED
    BY <2>1, <2>2
<1>9. g = [i \in 0 .. k |-> IF i = 0 THEN [txs |-> {}, size |-> 0] ELSE Filled(g[i - 1], order[i])]
  <2> DEFINE G(i) == IF i = 0 THEN [txs |-> {}, size |-> 0] ELSE Filled(g[i - 1], order[i])
  <2>1. \A i \in 0 .. k : g[i] = G(i)
    BY <1>8
  <2>2. g = [i \in 0 .. k |-> g[i]]
    OBVIOUS
  <2> HIDE DEF g, G
  <2>3. g = [i \in 0 .. k |-> G(i)]
    BY <2>1, <2>2, Zenon
  <2>4. QED
    BY <2>3, Zenon DEF G
<1>10. QED
  BY <1>2, <1>9, Zenon DEF IsFill

(* What a template is at any number of transactions looked at.             *)
FillValid(r) ==
    /\ r.txs \subseteq DOMAIN pool /\ r.size \in Nat /\ r.size <= MaxTotalSize
    /\ \A t \in r.txs : ready(t)
    /\ \A t, u \in r.txs : ~Conflict(t, u)

(* One more transaction, taken or left, leaves a template valid.           *)
LEMMA FilledValid ==
    ASSUME NEW r, FillValid(r), NEW t \in DOMAIN pool, DOMAIN pool \subseteq PoolTxs
    PROVE  FillValid(Filled(r, t))
<1>1. CASE ~(ready(t) /\ fits(t, r.size) /\ \A u \in r.txs : ~Conflict(t, u))
  BY <1>1 DEF Filled
<1>2. CASE ready(t) /\ fits(t, r.size) /\ \A u \in r.txs : ~Conflict(t, u)
  <2> DEFINE s == [txs |-> r.txs \cup {t}, size |-> r.size + SizeOf[t]]
  <2>1. Filled(r, t) = s
    BY <1>2 DEF Filled
  <2>2. s.txs = r.txs \cup {t} /\ s.size = r.size + SizeOf[t]
    OBVIOUS
  <2>3. SizeOf[t] \in Nat
    BY SizeAssumption
  <2>4. s.size \in Nat /\ s.size <= MaxTotalSize
    BY <1>2, <2>2, <2>3, SizeAssumption, SMTT(40) DEF FillValid, fits, SizeLimit
  <2> HIDE DEF s
  <2>5. \A u, v \in s.txs : ~Conflict(u, v)
    BY <1>2, <2>2 DEF FillValid, Conflict
  <2>6. s.txs \subseteq DOMAIN pool /\ \A u \in s.txs : ready(u)
    BY <1>2, <2>2 DEF FillValid
  <2>7. QED
    BY <2>1, <2>4, <2>5, <2>6, Zenon DEF FillValid
<1>3. QED
  BY <1>1, <1>2

(* The template that the miner gets is valid: least counterexample on the  *)
(* number of transactions that were looked at.                             *)
LEMMA TemplateFilled ==
    ASSUME NEW order \in Seq(DOMAIN pool), DOMAIN pool \subseteq PoolTxs
    PROVE  FillValid(fill_block_template(order))
<1> DEFINE n == Len(order)
           f == CHOOSE g : IsFill(g, order, n)
<1>1. n \in Nat
  OBVIOUS
<1>2. fill_block_template(order) = f[n]
  BY Zenon DEF fill_block_template, IsFill, Filled
<1>3. IsFill(f, order, n)
  BY <1>1, FillExists, Zenon
<1> HIDE DEF f
<1>4. \A i \in 0 .. n : f[i] = IF i = 0 THEN [txs |-> {}, size |-> 0] ELSE Filled(f[i - 1], order[i])
  <2> DEFINE F(i) == IF i = 0 THEN [txs |-> {}, size |-> 0] ELSE Filled(f[i - 1], order[i])
  <2>1. f = [i \in 0 .. n |-> F(i)]
    BY <1>3, Zenon DEF IsFill
  <2> HIDE DEF F
  <2>2. \A i \in 0 .. n : f[i] = F(i)
    BY <2>1, Zenon
  <2>3. QED
    BY <2>2 DEF F
<1> DEFINE Bad == {i \in 0 .. n : ~FillValid(f[i])}
<1>5. Bad = {}
  <2>1. SUFFICES ASSUME Bad # {} PROVE FALSE
    OBVIOUS
  <2>2. Bad \subseteq Nat
    BY <1>1
  <2>3. PICK k \in Bad : \A j \in Bad : k <= j
    BY <2>1, <2>2, LeastNumber, Zenon
  <2>4. k # 0
    <3>1. FillValid([txs |-> {}, size |-> 0])
      BY SizeAssumption DEF FillValid
    <3>2. QED
      BY <1>1, <1>4, <2>3, <3>1
  <2>5. k - 1 \in 0 .. n /\ k \in 1 .. n /\ k - 1 \notin Bad
    BY <1>1, <2>3, <2>4
  <2>6. FillValid(f[k - 1]) /\ order[k] \in DOMAIN pool
    BY <2>5
  <2>7. FillValid(Filled(f[k - 1], order[k]))
    BY <2>6, FilledValid
  <2>8. QED
    BY <1>4, <2>3, <2>4, <2>7, Zenon
<1>6. QED
  BY <1>1, <1>2, <1>5

(* A block template spends no key image twice or again, refers only to     *)
(* outputs of the chain and is no larger than a block may be, whatever     *)
(* blocks, refusals and switches have left in the pool.                    *)
THEOREM TemplateAlwaysValid == PoolSpec => []TemplateValid
<1>1. TemplateInv => TemplateValid
  <2> SUFFICES ASSUME TemplateInv, NEW order \in FeeOrders
      PROVE  LET r == fill_block_template(order)
             IN /\ \A t, u \in r.txs : ~Conflict(t, u)
                /\ \A t \in r.txs :
                      /\ \A u \in Confirmed(chain) : KeyImagesOf[t] \cap KeyImagesOf[u] = {}
                      /\ KeyImagesOf[t] # {} => Needs[t] \subseteq Confirmed(chain)
                /\ r.size <= MaxTotalSize
    BY Zenon DEF TemplateValid
  <2>1. DOMAIN pool \subseteq PoolTxs
    BY DEF TemplateInv, PoolInv, ExactPool, Pool
  <2>2. PICK n \in 0 .. Cardinality(DOMAIN pool) : order \in Bijection(1 .. n, DOMAIN pool)
    BY Zenon DEF FeeOrders
  <2>3. n \in Nat
    OBVIOUS
  <2>4. order \in [1 .. n -> DOMAIN pool]
    BY <2>2 DEF Bijection, Injection
  <2>5. order \in Seq(DOMAIN pool)
    BY <2>3, <2>4
  <2> DEFINE r == fill_block_template(order)
  <2>6. FillValid(r)
    BY <2>1, <2>5, TemplateFilled
  <2> HIDE DEF r
  <2>7. \A t \in r.txs : /\ \A u \in Confirmed(chain) : KeyImagesOf[t] \cap KeyImagesOf[u] = {}
                         /\ KeyImagesOf[t] # {} => Needs[t] \subseteq Confirmed(chain)
    BY <2>6, ReadyValid DEF FillValid
  <2>8. QED
    BY <2>6, <2>7, Zenon DEF FillValid, r
<1>2. QED
  BY <1>1, TemplateAlways, PTL

=============================================================================
