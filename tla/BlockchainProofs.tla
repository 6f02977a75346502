-------------------------- MODULE BlockchainProofs --------------------------
(***************************************************************************)
(* Proofs about Blockchain, for every tree of blocks, every set of         *)
(* transactions and every choice of the blocks that fail.                  *)
(*                                                                         *)
(* The argument separates what a step does to the chain from where the     *)
(* switch is.  Every step pushes a block, pops blocks, fails to push one,  *)
(* adds a transaction to the pool or leaves the chain alone; each of the   *)
(* five keeps ChainInv.  SwitchInv says where in the loops of a switch the *)
(* chain can be, so that no step reads past the end of a sequence or pops  *)
(* the genesis block.                                                      *)
(***************************************************************************)
EXTENDS BlockchainStorage, WellFoundedInduction, TLAPS

-----------------------------------------------------------------------------
(* What the chain has spent, as operators on a sequence of blocks.         *)
TxsAlong(s) == TxsIn(Elements(s))
SpentOnce(s) ==
    \A i, j \in 1 .. Len(s) :
        \A t \in TxsOf[s[i]], u \in TxsOf[s[j]] :
            Images[t] \cap Images[u] # {} => i = j /\ t = u

(* The elements of a sequence that grows by one: m_blocks.push_back.       *)
LEMMA ElementsAppend ==
    ASSUME NEW S, NEW s \in Seq(S), NEW e \in S
    PROVE  Elements(Append(s, e)) = Elements(s) \cup {e}
<1> DEFINE r == Append(s, e)
<1>1. Len(r) = Len(s) + 1 /\ r[Len(s) + 1] = e /\ \A i \in 1 .. Len(s) : r[i] = s[i]
  OBVIOUS
<1>2. Len(s) \in Nat
  OBVIOUS
<1> HIDE DEF r
<1>3. 1 .. Len(r) = (1 .. Len(s)) \cup {Len(s) + 1}
  BY <1>1, <1>2
<1>4. QED
  BY <1>1, <1>3, Zenon DEF r, Elements

(* The elements of a sequence that is cut: m_blocks.pop_back.              *)
LEMMA ElementsPrefix ==
    ASSUME NEW S, NEW s \in Seq(S), NEW n \in 0 .. Len(s)
    PROVE  /\ SubSeq(s, 1, n) \in Seq(S)
           /\ Len(SubSeq(s, 1, n)) = n
           /\ \A i \in 1 .. n : SubSeq(s, 1, n)[i] = s[i]
           /\ Elements(SubSeq(s, 1, n)) = {s[i] : i \in 1 .. n}
<1>1. /\ SubSeq(s, 1, n) \in Seq(S)
      /\ Len(SubSeq(s, 1, n)) = n
      /\ \A i \in 1 .. n : SubSeq(s, 1, n)[i] = s[i]
  OBVIOUS
<1>2. QED
  BY <1>1, Zenon DEF Elements

(* Removing the last blocks from a chain that spends nothing twice frees   *)
(* exactly their transactions and key images: what popTransactions relies  *)
(* on when it erases by value.                                             *)
LEMMA CutFrees ==
    ASSUME NEW s \in Seq(Blocks), NEW n \in 0 .. Len(s), SpentOnce(s)
    PROVE  /\ TxsAlong(SubSeq(s, 1, n))
                 = TxsAlong(s) \ TxsIn({s[i] : i \in n + 1 .. Len(s)})
           /\ ImagesIn(TxsAlong(SubSeq(s, 1, n)))
                 = ImagesIn(TxsAlong(s)) \ ImagesIn(TxsIn({s[i] : i \in n + 1 .. Len(s)}))
           /\ SpentOnce(SubSeq(s, 1, n))
<1> DEFINE T == TxsIn({s[i] : i \in n + 1 .. Len(s)})
           r == SubSeq(s, 1, n)
<1>1. r \in Seq(Blocks) /\ Len(r) = n /\ \A i \in 1 .. n : r[i] = s[i]
  BY ElementsPrefix, Zenon
<1>2. Len(s) \in Nat /\ n \in Nat /\ n <= Len(s)
  OBVIOUS
<1>3. \A i \in 1 .. Len(s) : s[i] \in Blocks /\ TxsOf[s[i]] \subseteq Txs
  BY TxAssumption
<1>4. \A i \in 1 .. Len(s) : i \in 1 .. n \/ i \in n + 1 .. Len(s)
  BY <1>2
<1>5. \A i \in 1 .. n, j \in n + 1 .. Len(s) :
         i \in 1 .. Len(s) /\ j \in 1 .. Len(s) /\ i # j
  BY <1>2
<1>6. \A i \in 1 .. n : i \in 1 .. Len(s)
  BY <1>2
<1>7. \A i \in n + 1 .. Len(s) : i \in 1 .. Len(s)
  BY <1>2
<1>8. \A t : t \in TxsAlong(s) <=> \E i \in 1 .. Len(s) : t \in TxsOf[s[i]]
  BY Zenon DEF TxsAlong, TxsIn, Elements
<1>9. \A t : t \in TxsAlong(r) <=> \E i \in 1 .. n : t \in TxsOf[s[i]]
  BY ONLY <1>1 DEF TxsAlong, TxsIn, Elements
<1>10. \A t : t \in T <=> \E i \in n + 1 .. Len(s) : t \in TxsOf[s[i]]
  BY Zenon DEF TxsIn
<1> HIDE DEF T, r
<1>11. \A t \in TxsAlong(r), u \in T : Images[t] \cap Images[u] = {}
  <2> SUFFICES ASSUME NEW t \in TxsAlong(r), NEW u \in T
               PROVE  Images[t] \cap Images[u] = {}
    BY Zenon
  <2>1. PICK i \in 1 .. n : t \in TxsOf[s[i]]
    BY <1>9, Zenon
  <2>2. PICK j \in n + 1 .. Len(s) : u \in TxsOf[s[j]]
    BY <1>10, Zenon
  <2>3. i \in 1 .. Len(s) /\ j \in 1 .. Len(s) /\ i # j
    BY <1>5, Zenon
  <2>4. QED
    BY ONLY SpentOnce(s), <2>1, <2>2, <2>3, Zenon DEF SpentOnce
<1>12. \A t \in T : t \in Txs /\ Images[t] # {}
  BY <1>3, <1>7, <1>10, TxAssumption, Zenon
<1>13. \A t \in T : t \notin TxsAlong(r)
  BY <1>11, <1>12, Zenon
<1>14. \A t : t \in TxsAlong(s) <=> t \in TxsAlong(r) \/ t \in T
  BY <1>4, <1>6, <1>7, <1>8, <1>9, <1>10, Zenon
<1>15. TxsAlong(r) = TxsAlong(s) \ T
  BY <1>13, <1>14, Zenon
<1>16. ImagesIn(TxsAlong(r)) = ImagesIn(TxsAlong(s)) \ ImagesIn(T)
  <2>1. \A x : x \in ImagesIn(TxsAlong(r)) <=> \E t \in TxsAlong(r) : x \in Images[t]
    BY Zenon DEF ImagesIn
  <2>2. \A x : x \in ImagesIn(TxsAlong(s)) <=> \E t \in TxsAlong(s) : x \in Images[t]
    BY Zenon DEF ImagesIn
  <2>3. \A x : x \in ImagesIn(T) <=> \E t \in T : x \in Images[t]
    BY Zenon DEF ImagesIn
  <2>4. \A x : ~(x \in ImagesIn(TxsAlong(r)) /\ x \in ImagesIn(T))
    BY <1>11, <2>1, <2>3, Zenon
  <2>5. \A x : x \in ImagesIn(TxsAlong(s)) <=>
                  x \in ImagesIn(TxsAlong(r)) \/ x \in ImagesIn(T)
    BY <1>14, <2>1, <2>2, <2>3, Zenon
  <2>6. QED
    BY <2>4, <2>5, Zenon
<1>17. SpentOnce(r)
  <2> SUFFICES ASSUME NEW i \in 1 .. n, NEW j \in 1 .. n,
                      NEW t \in TxsOf[s[i]], NEW u \in TxsOf[s[j]],
                      Images[t] \cap Images[u] # {}
               PROVE  i = j /\ t = u
    BY <1>1 DEF SpentOnce
  <2>1. i \in 1 .. Len(s) /\ j \in 1 .. Len(s)
    BY <1>2
  <2>2. t \in TxsOf[s[i]] /\ u \in TxsOf[s[j]] /\ Images[t] \cap Images[u] # {}
    BY Zenon
  <2>3. QED
    BY ONLY SpentOnce(s), <2>1, <2>2, Zenon DEF SpentOnce
<1>18. QED
  BY <1>15, <1>16, <1>17, Zenon DEF T, r

(* A block whose key images are unspent, and differ from each other, keeps *)
(* the chain free of double spends: what checkTransactionInputs is for.    *)
LEMMA AppendSpends ==
    ASSUME NEW s \in Seq(Blocks), NEW b \in Blocks, SpentOnce(s),
           NEW K, ImagesIn(TxsAlong(s)) \subseteq K,
           ImagesIn(TxsOf[b]) \cap K = {},
           \A t, u \in TxsOf[b] : t # u => Images[t] \cap Images[u] = {}
    PROVE  /\ TxsAlong(Append(s, b)) = TxsAlong(s) \cup TxsOf[b]
           /\ ImagesIn(TxsAlong(Append(s, b))) = ImagesIn(TxsAlong(s)) \cup ImagesIn(TxsOf[b])
           /\ SpentOnce(Append(s, b))
<1> DEFINE r == Append(s, b)
<1>1. r \in Seq(Blocks) /\ Len(r) = Len(s) + 1 /\ r[Len(s) + 1] = b
  OBVIOUS
<1>2. \A i \in 1 .. Len(s) : r[i] = s[i]
  OBVIOUS
<1>3. Elements(r) = Elements(s) \cup {b}
  BY ElementsAppend
<1>4. Len(s) \in Nat
  OBVIOUS
<1> HIDE DEF r
<1>5. TxsAlong(r) = TxsAlong(s) \cup TxsOf[b]
  BY <1>3, Zenon DEF TxsAlong, TxsIn
<1>6. ImagesIn(TxsAlong(r)) = ImagesIn(TxsAlong(s)) \cup ImagesIn(TxsOf[b])
  BY <1>5, Zenon DEF ImagesIn
<1>7. \A i \in 1 .. Len(s) : \A t \in TxsOf[s[i]] : t \in TxsAlong(s)
  BY Zenon DEF TxsAlong, TxsIn, Elements
<1>8. \A t \in TxsAlong(s), u \in TxsOf[b] : Images[t] \cap Images[u] = {}
  BY Zenon DEF ImagesIn
<1>9. \A i \in 1 .. Len(r) : i \in 1 .. Len(s) \/ i = Len(s) + 1
  BY <1>1, <1>4
<1>10. SpentOnce(r)
  <2> SUFFICES ASSUME NEW i \in 1 .. Len(r), NEW j \in 1 .. Len(r),
                      NEW t \in TxsOf[r[i]], NEW u \in TxsOf[r[j]],
                      Images[t] \cap Images[u] # {}
               PROVE  i = j /\ t = u
    BY Zenon DEF SpentOnce
  <2>1. CASE i \in 1 .. Len(s) /\ j \in 1 .. Len(s)
    BY <1>2, <2>1, Zenon DEF SpentOnce
  <2>2. CASE i \in 1 .. Len(s) /\ j = Len(s) + 1
    BY <1>1, <1>2, <1>7, <1>8, <2>2, Zenon
  <2>3. CASE i = Len(s) + 1 /\ j \in 1 .. Len(s)
    <3>1. Images[u] \cap Images[t] = {}
      BY <1>1, <1>2, <1>7, <1>8, <2>3, Zenon
    <3>2. QED
      BY <3>1, Zenon
  <2>4. CASE i = Len(s) + 1 /\ j = Len(s) + 1
    BY <1>1, <2>4, Zenon
  <2>5. QED
    BY <1>9, <2>1, <2>2, <2>3, <2>4, Zenon
<1>11. QED
  BY <1>5, <1>6, <1>10, Zenon DEF r

-----------------------------------------------------------------------------
(* The chain is the path to its tail; the indices hold at least what the   *)
(* chain holds.                                                            *)
ChainInv ==
    /\ blocks \in Seq(Blocks) /\ blocks # <<>>
    /\ blocks = Path[tail]
    /\ txMap \subseteq Txs /\ pool \subseteq Txs
    /\ spentKeys \subseteq ImagesIn(Txs)
    /\ TxsAlong(blocks) \subseteq txMap
    /\ ImagesIn(TxsAlong(blocks)) \subseteq spentKeys
    /\ SpentOnce(blocks)
    /\ Oversize \cup Throws = {} =>
          txMap = TxsAlong(blocks) /\ spentKeys = ImagesIn(TxsAlong(blocks))

(* The pool has nothing of the chain.  It is no part of ChainInv, because  *)
(* a restart may end it (module BlockchainStorage) and the rest stays.     *)
PoolApart == pool \cap TxsAlong(blocks) = {}

(* What every step is shown to keep.                                       *)
ChainKept == ChainInv' /\ (PoolApart => PoolApart')

(* What a step that keeps the blocks may do to the rest.                   *)
KeepBlocks ==
    /\ UNCHANGED blocks
    /\ txMap \subseteq txMap' /\ txMap' \subseteq Txs
    /\ spentKeys \subseteq spentKeys' /\ spentKeys' \subseteq ImagesIn(Txs)
    /\ pool' \subseteq Txs /\ (pool' \ pool) \cap txMap = {}
    /\ Oversize \cup Throws = {} => UNCHANGED <<txMap, spentKeys>>

(* A step that keeps the n first blocks, and returns to the pool no more   *)
(* than the transactions of the others.                                    *)
CutBlocks(n) ==
    LET T == TxsIn({blocks[i] : i \in n + 1 .. Len(blocks)})
    IN  /\ n \in 1 .. Len(blocks)
        /\ blocks' = SubSeq(blocks, 1, n)
        /\ popTransactions(T)
        /\ pool' \subseteq pool \cup T

(* The transactions of blocks are transactions, and their key images are   *)
(* key images.                                                             *)
LEMMA TxsType ==
    /\ \A b \in Blocks : TxsOf[b] \subseteq Txs
    /\ \A T \in SUBSET Txs : ImagesIn(T) \subseteq ImagesIn(Txs)
<1>1. \A b \in Blocks : TxsOf[b] \subseteq Txs
  BY TxAssumption, Zenon
<1>2. \A T \in SUBSET Txs : ImagesIn(T) \subseteq ImagesIn(Txs)
  BY Zenon DEF ImagesIn
<1>3. QED
  BY <1>1, <1>2, Zenon

(* So are the transactions along a sequence of blocks.                     *)
LEMMA TxsAlongType ==
    ASSUME NEW s \in Seq(Blocks)
    PROVE  TxsAlong(s) \subseteq Txs
<1>1. \A i \in 1 .. Len(s) : s[i] \in Blocks
  OBVIOUS
<1>2. QED
  BY ONLY <1>1, TxsType, Zenon DEF TxsAlong, TxsIn, Elements

(* The path to a block is linked: its parent is the last but one, and      *)
(* every prefix is the path to its own last block.                         *)
LEMMA PathFacts ==
    ASSUME NEW b \in Blocks
    PROVE  /\ Path[b] \in Seq(Blocks) /\ Len(Path[b]) \in Nat /\ Len(Path[b]) >= 1
           /\ Path[b][Len(Path[b])] = b /\ Path[b][1] = Genesis
           /\ \A k \in 1 .. Len(Path[b]) :
                 /\ Path[b][k] \in Blocks
                 /\ Path[Path[b][k]] = SubSeq(Path[b], 1, k)
                 /\ Len(Path[Path[b][k]]) = k
<1>1. Path[b] \in Seq(Blocks) /\ Len(Path[b]) \in Nat /\ Len(Path[b]) >= 1
  BY PathAssumption
<1>2. Path[b][Len(Path[b])] = b /\ Path[b][1] = Genesis
  BY PathAssumption, Zenon
<1>3. \A k \in 1 .. Len(Path[b]) : Path[Path[b][k]] = SubSeq(Path[b], 1, k)
  BY PathAssumption, Zenon
<1>4. \A k \in 1 .. Len(Path[b]) : Path[b][k] \in Blocks /\ Len(SubSeq(Path[b], 1, k)) = k
  BY <1>1
<1>5. QED
  BY <1>1, <1>2, <1>3, <1>4, Zenon

(* A block appended to the path to its parent gives its own path.          *)
LEMMA AppendIsPath ==
    ASSUME NEW b \in Blocks, Len(Path[b]) >= 2,
           NEW s \in Seq(Blocks), s = Path[Prev(b)]
    PROVE  Append(s, b) = Path[b]
<1> DEFINE p == Path[b]
           n == Len(p)
<1>1. p \in Seq(Blocks) /\ n \in Nat /\ n >= 2 /\ p[n] = b
  BY PathFacts, Zenon
<1>2. n - 1 \in 1 .. n
  BY <1>1
<1>3. s = SubSeq(p, 1, n - 1)
  BY <1>2, PathFacts, Zenon DEF Prev
<1> HIDE DEF p, n
<1>4. Append(SubSeq(p, 1, n - 1), p[n]) = p
  BY <1>1 DEF n
<1>5. QED
  BY <1>1, <1>3, <1>4, Zenon DEF p

(* Every block but the first has a parent on its path.                     *)
LEMMA NotGenesis ==
    ASSUME NEW b \in Blocks, b # Genesis
    PROVE  Len(Path[b]) >= 2
<1>1. Len(Path[b]) # 1
  BY PathFacts
<1>2. QED
  BY <1>1, PathFacts

-----------------------------------------------------------------------------
(* Each of the three kinds of step keeps ChainInv and PoolApart.           *)
LEMMA PushKeeps ==
    ASSUME ChainInv, NEW b \in Blocks, pushBlock(b)
    PROVE  ChainKept
<1> DEFINE T == TxsOf[b]
<1>1. blocks \in Seq(Blocks) /\ blocks # <<>> /\ blocks = Path[tail]
  BY Zenon DEF ChainInv
<1>2. /\ blocks' = Append(blocks, b)
      /\ txMap' = txMap \cup T /\ spentKeys' = spentKeys \cup ImagesIn(T)
      /\ pool' = pool \ T
      /\ ImagesIn(T) \cap spentKeys = {}
      /\ \A t, u \in T : t # u => Images[t] \cap Images[u] = {}
      /\ Prev(b) = tail
  BY Zenon DEF pushBlock, blockAccepted, pushTransactions, checkTransactionInputs, headerAccepted
<1>3. T \subseteq Txs /\ ImagesIn(T) \subseteq ImagesIn(Txs)
  BY TxsType, Zenon
<1>4. blocks' = Path[b]
  <2>1. Len(Path[b]) >= 2
    <3>1. tail \in Blocks /\ Len(blocks) >= 1
      BY <1>1 DEF tail
    <3>2. blocks[1] = Genesis
      BY <1>1, <3>1, PathFacts, Zenon
    <3>3. Genesis \in Elements(blocks)
      BY <3>1, <3>2 DEF Elements
    <3>4. b # Genesis
      BY <3>3, Zenon DEF pushBlock, blockAccepted, headerAccepted, hasBlock
    <3>5. QED
      BY <3>4, NotGenesis, Zenon
  <2>2. Append(blocks, b) = Path[b]
    BY ONLY <1>1, <1>2, <2>1, b \in Blocks, AppendIsPath, Zenon
  <2>3. QED
    BY <1>2, <2>2, Zenon
<1>5. blocks' \in Seq(Blocks) /\ blocks' # <<>> /\ blocks' = Path[tail']
  <2>1. blocks' \in Seq(Blocks) /\ Len(Path[b]) >= 1 /\ Path[b][Len(Path[b])] = b
    BY <1>4, PathFacts, Zenon
  <2>2. QED
    BY <1>4, <2>1 DEF tail
<1>6. /\ TxsAlong(blocks') = TxsAlong(blocks) \cup T
      /\ ImagesIn(TxsAlong(blocks')) = ImagesIn(TxsAlong(blocks)) \cup ImagesIn(T)
      /\ SpentOnce(blocks')
  <2>1. SpentOnce(blocks) /\ ImagesIn(TxsAlong(blocks)) \subseteq spentKeys
    BY Zenon DEF ChainInv
  <2>2. /\ TxsAlong(Append(blocks, b)) = TxsAlong(blocks) \cup TxsOf[b]
        /\ ImagesIn(TxsAlong(Append(blocks, b)))
              = ImagesIn(TxsAlong(blocks)) \cup ImagesIn(TxsOf[b])
        /\ SpentOnce(Append(blocks, b))
    BY ONLY <1>1, <1>2, <2>1, b \in Blocks, AppendSpends, Zenon
  <2>3. QED
    BY <1>2, <2>2, Zenon
<1> HIDE DEF T
<1>7. ChainInv'
  BY <1>2, <1>3, <1>5, <1>6, Zenon DEF ChainInv
<1>8. PoolApart => PoolApart'
  BY <1>2, <1>6, Zenon DEF PoolApart
<1>9. QED
  BY <1>7, <1>8, Zenon DEF ChainKept

(* Removing blocks at the end, with what they put into the indices, keeps  *)
(* ChainInv: popBlock and rollbackBlockchainTo.                            *)
LEMMA CutKeeps ==
    ASSUME ChainInv, NEW n, CutBlocks(n)
    PROVE  ChainKept
<1> DEFINE T == TxsIn({blocks[i] : i \in n + 1 .. Len(blocks)})
<1>1. blocks \in Seq(Blocks) /\ blocks # <<>> /\ blocks = Path[tail] /\ SpentOnce(blocks)
  BY Zenon DEF ChainInv
<1>2. /\ n \in 1 .. Len(blocks) /\ blocks' = SubSeq(blocks, 1, n)
      /\ txMap' = txMap \ T /\ spentKeys' = spentKeys \ ImagesIn(T)
      /\ pool' \subseteq pool \cup T
  BY Zenon DEF CutBlocks, popTransactions
<1>3. n \in 0 .. Len(blocks) /\ Len(blocks) \in Nat /\ n \in Nat /\ n >= 1
  BY <1>1, <1>2
<1>4. /\ TxsAlong(blocks') = TxsAlong(blocks) \ T
      /\ ImagesIn(TxsAlong(blocks')) = ImagesIn(TxsAlong(blocks)) \ ImagesIn(T)
      /\ SpentOnce(blocks')
  <2>1. /\ TxsAlong(SubSeq(blocks, 1, n)) = TxsAlong(blocks) \ T
        /\ ImagesIn(TxsAlong(SubSeq(blocks, 1, n))) = ImagesIn(TxsAlong(blocks)) \ ImagesIn(T)
        /\ SpentOnce(SubSeq(blocks, 1, n))
    BY ONLY <1>1, <1>3, CutFrees, Zenon
  <2>2. QED
    BY ONLY <1>2, <2>1, Zenon
<1>5. tail \in Blocks
  BY <1>1, <1>3 DEF tail
<1>6. blocks' \in Seq(Blocks) /\ blocks' # <<>> /\ blocks' = Path[tail']
  <2>1. blocks' \in Seq(Blocks) /\ Len(blocks') = n /\ blocks'[n] = blocks[n]
    BY <1>1, <1>2, <1>3
  <2>2. Path[blocks[n]] = SubSeq(blocks, 1, n)
    <3>1. n \in 1 .. Len(Path[tail])
      BY ONLY <1>1, <1>2, Zenon
    <3>2. Path[Path[tail][n]] = SubSeq(Path[tail], 1, n)
      BY <1>5, <3>1, PathFacts, Zenon
    <3>3. QED
      BY ONLY <1>1, <3>2, Zenon
  <2>3. QED
    BY <1>2, <1>3, <2>1, <2>2 DEF tail
<1>7. T \subseteq Txs
  <2>1. \A i \in n + 1 .. Len(blocks) : blocks[i] \in Blocks
    BY <1>1, <1>3
  <2>2. QED
    BY ONLY <2>1, TxsType, Zenon DEF TxsIn
<1> HIDE DEF T
<1>8. ChainInv'
  BY <1>2, <1>4, <1>6, <1>7, Zenon DEF ChainInv
<1>9. PoolApart => PoolApart'
  BY <1>2, <1>4, Zenon DEF PoolApart
<1>10. QED
  BY <1>8, <1>9, Zenon DEF ChainKept

(* A step that leaves the blocks alone keeps ChainInv if the indices do    *)
(* not lose anything and the pool gets nothing of the chain.               *)
LEMMA KeepKeeps ==
    ASSUME ChainInv, KeepBlocks
    PROVE  ChainKept
<1>1. tail' = tail
  BY Zenon DEF KeepBlocks, tail
<1>2. /\ blocks' = blocks
      /\ txMap \subseteq txMap' /\ txMap' \subseteq Txs
      /\ spentKeys \subseteq spentKeys' /\ spentKeys' \subseteq ImagesIn(Txs)
      /\ pool' \subseteq Txs /\ (pool' \ pool) \cap txMap = {}
      /\ Oversize \cup Throws = {} => txMap' = txMap /\ spentKeys' = spentKeys
  BY Zenon DEF KeepBlocks
<1>3. PoolApart => PoolApart'
  BY <1>2, Zenon DEF ChainInv, PoolApart
<1>4. ChainInv'
  BY <1>1, <1>2, Zenon DEF ChainInv
<1>5. QED
  BY <1>3, <1>4, Zenon DEF ChainKept

(* A failed pushBlock keeps the blocks, and without blocks that fail half  *)
(* way it keeps the indices too.                                           *)
LEMMA FailKeeps ==
    ASSUME ChainInv, NEW b \in Blocks, pushBlockFails(b)
    PROVE  KeepBlocks
<1>1. TxsOf[b] \subseteq Txs /\ \A T \in SUBSET Txs : ImagesIn(T) \subseteq ImagesIn(Txs)
  BY TxsType, Zenon
<1>2. txMap \subseteq Txs /\ pool \subseteq Txs /\ spentKeys \subseteq ImagesIn(Txs)
  BY Zenon DEF ChainInv
<1>3. CASE UNCHANGED <<txMap, spentKeys, pool>>
  BY <1>2, <1>3, Zenon DEF KeepBlocks, pushBlockFails
<1>4. ASSUME NEW T \in SUBSET TxsOf[b], pushTransactions(T), pool' \subseteq pool,
             b \in Oversize \cup Throws
      PROVE  KeepBlocks
  <2>1. T \subseteq Txs /\ ImagesIn(T) \subseteq ImagesIn(Txs)
    BY <1>1, Zenon
  <2>2. txMap' = txMap \cup T /\ spentKeys' = spentKeys \cup ImagesIn(T) /\ blocks' = blocks
    BY <1>4, Zenon DEF pushTransactions, pushBlockFails
  <2>3. QED
    BY <1>2, <1>4, <2>1, <2>2, Zenon DEF KeepBlocks
<1>5. \/ UNCHANGED <<txMap, spentKeys, pool>>
      \/ b \in Oversize /\ pushTransactions(TxsOf[b]) /\ pool' = pool
      \/ b \in Throws /\ (\E T \in SUBSET TxsOf[b] : pushTransactions(T))
           /\ pool' = pool \ TxsOf[b]
  BY Zenon DEF pushBlockFails
<1>6. QED
  BY <1>3, <1>4, <1>5, Zenon

-----------------------------------------------------------------------------
(* A set of naturals that is not empty has a least element.                *)
LEMMA LeastNatural ==
    ASSUME NEW S, S \subseteq Nat, S # {}
    PROVE  \E k \in S : \A j \in S : k <= j
<1>1. \E k \in S : \A j \in S : ~(<<j, k>> \in OpToRel(<, Nat))
  BY NatLessThanWellFounded, WFMin, Zenon
<1>2. \A j, k \in Nat : j < k => <<j, k>> \in OpToRel(<, Nat)
  BY Zenon DEF OpToRel
<1>3. \E k \in S : \A j \in S : ~(j < k)
  BY <1>1, <1>2, Zenon
<1>4. QED
  BY ONLY <1>3, S \subseteq Nat

(* The walk of handle_alternative_block along previousBlockHash through    *)
(* m_alternative_chains stops, because the genesis block is not in it.     *)
LEMMA AltFrontExists ==
    ASSUME NEW b \in Blocks, b # Genesis, Genesis \notin alternatives
    PROVE  altFront(b) \in 2 .. Len(Path[b]) /\ IsAltFront(b, altFront(b))
<1> DEFINE p == Path[b]
           n == Len(p)
           S == {k \in 2 .. n : \A j \in k .. n - 1 : p[j] \in alternatives}
<1>1. n \in Nat /\ n >= 2 /\ p[1] = Genesis
  BY PathFacts, NotGenesis, Zenon
<1> HIDE DEF p, n
<1>2. n \in S /\ S \subseteq Nat
  BY <1>1
<1>3. PICK k \in S : \A j \in S : k <= j
  BY <1>2, LeastNatural, Zenon
<1>4. k \in 2 .. n /\ \A j \in k .. n - 1 : p[j] \in alternatives
  BY <1>3, Zenon
<1>5. p[k - 1] \notin alternatives
  <2>1. CASE k = 2
    BY <1>1, <2>1
  <2>2. CASE k # 2 /\ p[k - 1] \in alternatives
    <3>1. k - 1 \in 2 .. n /\ \A j \in k - 1 .. n - 1 : j = k - 1 \/ j \in k .. n - 1
      BY <1>1, <1>4, <2>2
    <3>2. k - 1 \in S
      BY <1>4, <2>2, <3>1, Zenon
    <3>3. k <= k - 1 /\ k \in Nat
      BY <1>1, <1>3, <1>4, <3>2
    <3>4. QED
      BY <3>3
  <2>3. QED
    BY <2>1, <2>2, Zenon
<1>6. IsAltFront(b, k)
  BY <1>4, <1>5, Zenon DEF IsAltFront, p, n
<1>7. k \in 2 .. Len(Path[b])
  BY <1>4, Zenon DEF p, n
<1>8. QED
  BY <1>6, <1>7, Zenon DEF altFront

-----------------------------------------------------------------------------
(* How long the chain is in each loop of a switch.                         *)
SwitchInv ==
    /\ alternatives \subseteq Blocks \ {Genesis}
    /\ op \in Ops /\ discard \in BOOLEAN /\ pos \in Nat \ {0}
    /\ altChain \in Seq(Blocks) /\ disconnected \in Seq(Blocks)
    /\ op # "idle" => /\ altChain # <<>>
                      /\ splitHeight \in Nat \ {0}
                      /\ splitHeight <= Len(blocks)
    /\ op \in {"disconnect", "rollback"} => splitHeight < Len(blocks)
    /\ op = "connect" => Len(blocks) < splitHeight + Len(altChain)
    /\ op = "demote" => Len(blocks) = splitHeight + Len(altChain)

Inv == ChainInv /\ SwitchInv

(* The invariant implies the properties that the runs check.               *)
LEMMA InvImplies ==
    /\ Inv => TypeOK /\ NoDoubleSpend /\ IndicesExact
    /\ PoolApart => PoolDisjoint
<1>1. ASSUME Inv PROVE TypeOK
  BY <1>1, Zenon DEF Inv, ChainInv, SwitchInv, TypeOK
<1>2. ASSUME Inv PROVE NoDoubleSpend
  BY <1>2, Zenon DEF Inv, ChainInv, NoDoubleSpend, SpentOnce
<1>3. ASSUME Inv PROVE IndicesExact
  BY <1>3, Zenon DEF Inv, ChainInv, IndicesExact, ChainTxs, TxsAlong
<1>4. PoolApart => PoolDisjoint
  BY Zenon DEF PoolApart, PoolDisjoint, ChainTxs, TxsAlong
<1>5. QED
  BY <1>1, <1>2, <1>3, <1>4, Zenon

(* The node starts with the genesis block.                                 *)
LEMMA InitInv == Init => Inv /\ PoolApart
<1> SUFFICES ASSUME Init PROVE Inv /\ PoolApart
  BY Zenon
<1>1. blocks = <<Genesis>> /\ Genesis \in Blocks /\ tail = Genesis
  BY PathAssumption, Zenon DEF Init, tail
<1>2. Elements(blocks) = {Genesis} /\ Len(blocks) = 1 /\ blocks[1] = Genesis
  BY <1>1 DEF Elements
<1>3. TxsAlong(blocks) = {}
  BY <1>2, TxAssumption, Zenon DEF TxsAlong, TxsIn
<1>4. ImagesIn(TxsAlong(blocks)) = {}
  BY <1>3, Zenon DEF ImagesIn
<1>5. SpentOnce(blocks)
  BY <1>2, TxAssumption DEF SpentOnce
<1>6. blocks \in Seq(Blocks) /\ blocks # <<>> /\ blocks = Path[tail]
  BY <1>1, PathAssumption, Zenon
<1>7. ChainInv
  BY <1>3, <1>4, <1>5, <1>6, Zenon DEF Init, ChainInv
<1>8. SwitchInv
  <2>1. /\ alternatives = {} /\ op = "idle" /\ discard = FALSE /\ pos = 1
        /\ altChain = <<>> /\ disconnected = <<>>
    BY Zenon DEF Init
  <2>2. <<>> \in Seq(Blocks) /\ 1 \in Nat \ {0} /\ "idle" \in Ops /\ FALSE \in BOOLEAN
    BY DEF Ops
  <2>3. QED
    BY ONLY <2>1, <2>2, Zenon DEF SwitchInv
<1>9. PoolApart
  BY Zenon DEF Init, PoolApart
<1>10. QED
  BY <1>7, <1>8, <1>9, Zenon DEF Inv

(* popBlock cuts one block off.                                            *)
LEMMA PopIsCut ==
    ASSUME ChainInv, popBlock, Len(blocks) >= 2
    PROVE  CutBlocks(Len(blocks) - 1) /\ Len(blocks') = Len(blocks) - 1
<1> DEFINE n == Len(blocks)
<1>1. blocks \in Seq(Blocks) /\ n \in Nat /\ n - 1 \in 1 .. n
  BY DEF ChainInv
<1>2. (n - 1) + 1 .. n = {n}
  BY <1>1
<1>3. /\ blocks' = SubSeq(blocks, 1, n - 1)
      /\ popTransactions(TxsOf[tail]) /\ pool' = pool \cup TxsOf[tail]
  BY Zenon DEF popBlock
<1>4. tail = blocks[n]
  BY Zenon DEF tail
<1>5. Len(blocks') = n - 1
  BY <1>1, <1>3
<1> HIDE DEF n
<1>6. TxsIn({blocks[i] : i \in (n - 1) + 1 .. n}) = TxsOf[tail]
  BY <1>2, <1>4, Zenon DEF TxsIn
<1>7. CutBlocks(n - 1)
  BY <1>1, <1>3, <1>6, Zenon DEF CutBlocks, n
<1>8. QED
  BY <1>5, <1>7, Zenon DEF n

(* pushBlock adds one block.                                               *)
LEMMA PushLength ==
    ASSUME ChainInv, NEW b \in Blocks, pushBlock(b)
    PROVE  Len(blocks') = Len(blocks) + 1
  BY DEF ChainInv, pushBlock

-----------------------------------------------------------------------------
(* What keeps SwitchInv: a step outside a switch, the end of a switch, its *)
(* start, and a step within it.                                            *)
LEMMA IdleKeeps ==
    ASSUME SwitchInv, op = "idle", UNCHANGED locals,
           alternatives' \subseteq Blocks \ {Genesis}
    PROVE  SwitchInv'
<1>1. /\ op' = "idle" /\ altChain' = altChain /\ disconnected' = disconnected
      /\ discard' = discard /\ pos' = pos
  BY Zenon DEF locals
<1>2. /\ op \in Ops /\ discard \in BOOLEAN /\ pos \in Nat \ {0}
      /\ altChain \in Seq(Blocks) /\ disconnected \in Seq(Blocks)
  BY Zenon DEF SwitchInv
<1>3. QED
  BY ONLY <1>1, <1>2, op = "idle", alternatives' \subseteq Blocks \ {Genesis}, Zenon DEF SwitchInv

(* The return from a switch keeps SwitchInv.                               *)
LEMMA EndKeeps ==
    ASSUME SwitchInv, NEW first, endSwitch(first)
    PROVE  SwitchInv'
<1>1. /\ alternatives' \subseteq alternatives /\ op' = "idle" /\ discard' = FALSE
      /\ pos' = 1 /\ altChain' = <<>> /\ disconnected' = <<>>
  BY Zenon DEF endSwitch
<1>2. <<>> \in Seq(Blocks) /\ 1 \in Nat \ {0} /\ "idle" \in Ops /\ FALSE \in BOOLEAN
  BY DEF Ops
<1>3. alternatives \subseteq Blocks \ {Genesis}
  BY Zenon DEF SwitchInv
<1>4. QED
  BY ONLY <1>1, <1>2, <1>3, Zenon DEF SwitchInv

(* The part of a sequence from its k-th element on.                        *)
LEMMA SuffixFacts ==
    ASSUME NEW S, NEW s \in Seq(S), NEW k \in 1 .. Len(s)
    PROVE  LET r == SubSeq(s, k, Len(s))
           IN  /\ r \in Seq(S) /\ r # <<>> /\ Len(r) = Len(s) - k + 1
               /\ \A i \in 1 .. Len(s) - k + 1 : r[i] = s[k + i - 1]
               /\ r[1] = s[k] /\ r[Len(r)] = s[Len(s)]
<1> DEFINE r == SubSeq(s, k, Len(s))
<1>1. r \in Seq(S)
  OBVIOUS
<1>2. Len(r) = Len(s) - k + 1
  OBVIOUS
<1>3. \A i \in 1 .. Len(s) - k + 1 : r[i] = s[k + i - 1]
  OBVIOUS
<1>4. Len(s) \in Nat /\ k \in Nat /\ k >= 1 /\ k <= Len(s)
  OBVIOUS
<1> HIDE DEF r
<1>5. Len(s) - k + 1 >= 1 /\ Len(s) - k + 1 \in Nat /\ k + 1 - 1 = k
      /\ k + (Len(s) - k + 1) - 1 = Len(s)
  BY <1>4
<1>6. r[1] = s[k] /\ r[Len(r)] = s[Len(s)]
  BY <1>2, <1>3, <1>5
<1>7. r # <<>>
  BY <1>2, <1>5
<1>8. QED
  BY <1>1, <1>2, <1>3, <1>6, <1>7, Zenon DEF r

(* The part of a sequence of blocks from its k-th on.                      *)
LEMMA SuffixOfBlocks ==
    ASSUME NEW s \in Seq(Blocks), NEW k \in 1 .. Len(s)
    PROVE  /\ SubSeq(s, k, Len(s)) \in Seq(Blocks) /\ SubSeq(s, k, Len(s)) # <<>>
           /\ SubSeq(s, k, Len(s))[1] = s[k]
  BY ONLY s \in Seq(Blocks), k \in 1 .. Len(s), SuffixFacts, Zenon

(* The start of a switch establishes SwitchInv: the walk back through      *)
(* m_alternative_chains ends above the genesis block.                      *)
LEMMA StartKeeps ==
    ASSUME Inv, NEW b \in Blocks \ {Genesis}, startSwitch(b)
    PROVE  SwitchInv'
<1> DEFINE p == Path[b]
           k == altFront(b)
<1>1. Genesis \notin alternatives /\ alternatives \subseteq Blocks \ {Genesis}
  BY Zenon DEF Inv, SwitchInv
<1>2. k \in 2 .. Len(p)
  BY <1>1, AltFrontExists, Zenon
<1>3. p \in Seq(Blocks) /\ Len(p) \in Nat /\ Len(Path[p[k]]) = k
  BY <1>2, PathFacts
<1>4. /\ altChain' = SubSeq(p, k, Len(p)) /\ op' = "disconnect" /\ disconnected' = <<>>
      /\ discard' \in BOOLEAN /\ pos' = 1
      /\ alternatives' = alternatives \cup {b} /\ blocks' = blocks
      /\ switchAccepted(SubSeq(p, k, Len(p)))
  BY DEF startSwitch, altChainOf, chain
<1> HIDE DEF p, k
<1>5. /\ altChain' \in Seq(Blocks) /\ altChain' # <<>> /\ altChain'[1] = p[k]
      /\ SubSeq(p, k, Len(p))[1] = p[k]
  <2>1. k \in 1 .. Len(p)
    BY <1>2, <1>3
  <2>2. /\ SubSeq(p, k, Len(p)) \in Seq(Blocks) /\ SubSeq(p, k, Len(p)) # <<>>
        /\ SubSeq(p, k, Len(p))[1] = p[k]
    BY ONLY <1>3, <2>1, SuffixOfBlocks, Zenon
  <2>3. QED
    BY ONLY <1>4, <2>2, Zenon
<1>6. splitHeight' = k - 1
  BY <1>3, <1>5, Zenon DEF splitHeight, Height
<1>7. Len(blocks) > k - 1
  BY <1>3, <1>4, <1>5, Zenon DEF switchAccepted, Height
<1>8. Len(blocks) \in Nat
  BY DEF Inv, ChainInv
<1>9. k - 1 \in Nat \ {0} /\ k - 1 <= Len(blocks') /\ k - 1 < Len(blocks')
  BY <1>2, <1>3, <1>4, <1>7, <1>8
<1>10. "disconnect" \in Ops /\ 1 \in Nat \ {0} /\ <<>> \in Seq(Blocks)
  BY <1>4 DEF Ops
<1>11. alternatives' \subseteq Blocks \ {Genesis}
  BY <1>1, <1>4, Zenon
<1>12. QED
  BY ONLY <1>4, <1>5, <1>6, <1>9, <1>10, <1>11, Zenon DEF SwitchInv

(* A step inside a switch keeps SwitchInv if it respects the bounds of the *)
(* loop it goes to.                                                        *)
LEMMA LoopKeeps ==
    ASSUME SwitchInv, op # "idle", altChain' = altChain, discard' = discard,
           alternatives' \subseteq Blocks \ {Genesis},
           disconnected' \in Seq(Blocks), pos' \in Nat \ {0},
           op' \in Ops \ {"idle"},
           splitHeight <= Len(blocks'),
           op' \in {"disconnect", "rollback"} => splitHeight < Len(blocks'),
           op' = "connect" => Len(blocks') < splitHeight + Len(altChain),
           op' = "demote" => Len(blocks') = splitHeight + Len(altChain)
    PROVE  SwitchInv'
<1>1. splitHeight' = splitHeight
  BY Zenon DEF splitHeight
<1>2. /\ altChain \in Seq(Blocks) /\ altChain # <<>> /\ splitHeight \in Nat \ {0}
      /\ discard \in BOOLEAN
  BY Zenon DEF SwitchInv
<1>3. QED
  BY <1>1, <1>2, Zenon DEF SwitchInv

-----------------------------------------------------------------------------
(* Every step keeps the invariant: one step of the proof per action.       *)
LEMMA NextKeeps ==
    ASSUME Inv, [OperatorNext]_vars
    PROVE  ChainKept /\ SwitchInv'
<1> USE DEF Inv
<1>1. /\ blocks \in Seq(Blocks) /\ Len(blocks) \in Nat /\ blocks # <<>> /\ Len(blocks) >= 1
      /\ txMap \subseteq Txs /\ pool \subseteq Txs /\ spentKeys \subseteq ImagesIn(Txs)
  BY DEF ChainInv
<1>2. /\ alternatives \subseteq Blocks \ {Genesis} /\ pos \in Nat \ {0}
      /\ altChain \in Seq(Blocks) /\ disconnected \in Seq(Blocks)
      /\ Len(altChain) \in Nat /\ Len(disconnected) \in Nat
  BY DEF SwitchInv
<1>3. op # "idle" => /\ Len(altChain) >= 1 /\ splitHeight \in Nat /\ splitHeight >= 1
                     /\ splitHeight <= Len(blocks)
  BY <1>2 DEF SwitchInv
<1>4. tail \in Blocks
  BY <1>1 DEF tail
<1>5. UNCHANGED chain => ChainKept
  <2>1. UNCHANGED chain => KeepBlocks
    BY <1>1, Zenon DEF chain, KeepBlocks
  <2>2. QED
    BY <2>1, KeepKeeps, Zenon
<1>6. ASSUME NEW b \in Blocks \ {Genesis}, addToMainChain(b)
      PROVE  ChainKept /\ SwitchInv'
  <2>1. ChainKept
    <3>1. CASE pushBlock(b)
      BY <3>1, PushKeeps, Zenon
    <3>2. CASE pushBlockFails(b)
      BY <3>2, FailKeeps, KeepKeeps, Zenon
    <3>3. QED
      BY <1>6, <3>1, <3>2, Zenon DEF addToMainChain
  <2>2. SwitchInv'
    BY <1>2, <1>6, IdleKeeps, Zenon DEF addToMainChain
  <2>3. QED
    BY <2>1, <2>2, Zenon
<1>7. ASSUME NEW b \in Blocks \ {Genesis}, addAlternative(b)
      PROVE  ChainKept /\ SwitchInv'
  <2>1. op = "idle" /\ alternatives' = alternatives \cup {b} /\ UNCHANGED locals /\ UNCHANGED chain
    BY <1>7, Zenon DEF addAlternative
  <2>2. QED
    BY <1>2, <1>5, <2>1, IdleKeeps, Zenon
<1>8. ASSUME NEW b \in Blocks \ {Genesis}, startSwitch(b)
      PROVE  ChainKept /\ SwitchInv'
  <2>1. UNCHANGED chain
    BY <1>8, Zenon DEF startSwitch
  <2>2. QED
    BY <1>5, <1>8, <2>1, StartKeeps, Zenon
<1>9. ASSUME popBlock, op \in {"disconnect", "rollback"}
      PROVE  ChainKept /\ Len(blocks') = Len(blocks) - 1 /\ splitHeight <= Len(blocks')
  <2>1. splitHeight < Len(blocks)
    BY <1>9, Zenon DEF SwitchInv
  <2>2. Len(blocks) >= 2
    BY <1>1, <1>3, <1>9, <2>1
  <2>3. CutBlocks(Len(blocks) - 1) /\ Len(blocks') = Len(blocks) - 1
    BY <1>9, <2>2, PopIsCut, Zenon
  <2>4. QED
    BY <1>1, <1>3, <1>9, <2>1, <2>3, CutKeeps
<1>10. CASE disconnect
  <2>1. /\ op = "disconnect" /\ popBlock /\ disconnected' = <<tail>> \o disconnected
        /\ op' = IF Len(blocks) - 1 > splitHeight THEN "disconnect" ELSE "connect"
        /\ UNCHANGED <<alternatives, altChain, discard, pos>>
    BY <1>10, Zenon DEF disconnect
  <2>2. ChainKept /\ Len(blocks') = Len(blocks) - 1 /\ splitHeight <= Len(blocks')
    BY <1>9, <2>1, Zenon
  <2>3. disconnected' \in Seq(Blocks)
    BY <1>2, <1>4, <2>1
  <2>4. op' \in Ops \ {"idle"}
    BY <2>1, Zenon DEF Ops
  <2>5. /\ op' \in {"disconnect", "rollback"} => splitHeight < Len(blocks')
        /\ op' = "connect" => Len(blocks') < splitHeight + Len(altChain)
        /\ op' # "demote"
    BY <1>1, <1>2, <1>3, <2>1, <2>2
  <2>6. SwitchInv'
    BY <1>2, <2>1, <2>2, <2>3, <2>4, <2>5, LoopKeeps, Zenon
  <2>7. QED
    BY <2>2, <2>6, Zenon
<1>11. op = "connect" => next \in 1 .. Len(altChain) /\ altChain[next] \in Blocks
  <2>1. op = "connect" => next \in 1 .. Len(altChain)
    BY <1>1, <1>2, <1>3 DEF next, SwitchInv
  <2>2. QED
    BY <1>2, <2>1
<1>12. CASE connect
  <2>1. /\ op = "connect" /\ pushBlock(altChain[next])
        /\ op' = IF next = Len(altChain) THEN "demote" ELSE "connect"
        /\ UNCHANGED <<alternatives, altChain, disconnected, discard, pos>>
    BY <1>12, Zenon DEF connect
  <2>2. ChainKept /\ Len(blocks') = Len(blocks) + 1
    BY <1>11, <2>1, PushKeeps, PushLength, Zenon
  <2>3. op' \in Ops \ {"idle"}
    BY <2>1, Zenon DEF Ops
  <2>4. Len(blocks) < splitHeight + Len(altChain)
    BY <2>1, Zenon DEF SwitchInv
  <2>5. /\ op' \notin {"disconnect", "rollback"} /\ splitHeight <= Len(blocks')
        /\ op' = "connect" => Len(blocks') < splitHeight + Len(altChain)
        /\ op' = "demote" => Len(blocks') = splitHeight + Len(altChain)
    BY <1>1, <1>2, <1>3, <2>1, <2>2, <2>4 DEF next
  <2>6. SwitchInv'
    BY <1>2, <2>1, <2>3, <2>5, LoopKeeps, Zenon
  <2>7. QED
    BY <2>2, <2>6, Zenon
<1>13. CASE connectFails
  <2>1. /\ op = "connect" /\ pushBlockFails(altChain[next]) /\ pos' = next
        /\ op' = IF Len(blocks) > splitHeight THEN "rollback" ELSE "restore"
        /\ UNCHANGED <<alternatives, altChain, disconnected, discard>>
    BY <1>13, Zenon DEF connectFails
  <2>2. ChainKept /\ blocks' = blocks
    BY <1>11, <2>1, FailKeeps, KeepKeeps, Zenon DEF KeepBlocks
  <2>3. op' \in Ops \ {"idle"}
    BY <2>1, Zenon DEF Ops
  <2>4. /\ op' \in {"disconnect", "rollback"} => splitHeight < Len(blocks')
        /\ op' \notin {"connect", "demote"} /\ splitHeight <= Len(blocks') /\ pos' \in Nat \ {0}
    BY <1>1, <1>2, <1>3, <1>11, <2>1, <2>2
  <2>5. SwitchInv'
    BY <1>2, <2>1, <2>3, <2>4, LoopKeeps, Zenon
  <2>6. QED
    BY <2>2, <2>5, Zenon
<1>14. CASE demote
  <2>1. /\ op = "demote" /\ pos <= Len(disconnected)
        /\ alternativeAccepted(disconnected[pos])
        /\ alternatives' = alternatives \cup {disconnected[pos]} /\ pos' = pos + 1
        /\ UNCHANGED chain /\ UNCHANGED <<op, altChain, disconnected, discard>>
    BY <1>14, Zenon DEF demote
  <2>2. disconnected[pos] \in Blocks \ {Genesis}
    <3>1. disconnected[pos] \in Blocks
      BY <1>2, <2>1
    <3>2. Height(disconnected[pos]) # 0
      BY <2>1, Zenon DEF alternativeAccepted, is_alternative_block_allowed
    <3>3. Height(Genesis) = 0
      BY PathAssumption DEF Height
    <3>4. QED
      BY ONLY <3>1, <3>2, <3>3, Zenon
  <2>3. blocks' = blocks /\ pos' \in Nat \ {0}
    BY <1>2, <2>1 DEF chain
  <2>4. Len(blocks) = splitHeight + Len(altChain) /\ op \in Ops
    BY <2>1, Zenon DEF SwitchInv
  <2>5. SwitchInv'
    BY <1>2, <1>3, <2>1, <2>2, <2>3, <2>4, LoopKeeps, Zenon
  <2>6. QED
    BY <1>5, <2>1, <2>5, Zenon
<1>15. CASE demoteFails
  <2>1. /\ op = "demote" /\ op' = "rollback" /\ pos' = Len(altChain) + 1
        /\ UNCHANGED chain /\ UNCHANGED <<alternatives, altChain, disconnected, discard>>
    BY <1>15, Zenon DEF demoteFails
  <2>2. blocks' = blocks /\ pos' \in Nat \ {0}
    BY <1>2, <2>1 DEF chain
  <2>3. Len(blocks) = splitHeight + Len(altChain) /\ splitHeight < Len(blocks)
    BY <1>2, <1>3, <2>1 DEF SwitchInv
  <2>4. op' \in Ops \ {"idle"}
    BY <2>1, Zenon DEF Ops
  <2>5. SwitchInv'
    BY <1>2, <1>3, <2>1, <2>2, <2>3, <2>4, LoopKeeps, Zenon
  <2>6. QED
    BY <1>5, <2>1, <2>5, Zenon
<1>16. CASE switched
  <2>1. endSwitch(1) /\ UNCHANGED chain
    BY <1>16, Zenon DEF switched
  <2>2. QED
    BY <1>5, <2>1, EndKeeps, Zenon
<1>17. CASE rollback
  <2>1. /\ op = "rollback" /\ popBlock
        /\ op' = IF Len(blocks) - 1 > splitHeight THEN "rollback" ELSE "restore"
        /\ UNCHANGED <<alternatives, altChain, disconnected, discard, pos>>
    BY <1>17, Zenon DEF rollback
  <2>2. ChainKept /\ Len(blocks') = Len(blocks) - 1 /\ splitHeight <= Len(blocks')
    BY <1>9, <2>1, Zenon
  <2>3. op' \in Ops \ {"idle"}
    BY <2>1, Zenon DEF Ops
  <2>4. /\ op' \in {"disconnect", "rollback"} => splitHeight < Len(blocks')
        /\ op' \notin {"connect", "demote"}
    BY <1>1, <1>3, <2>1, <2>2, Zenon
  <2>5. SwitchInv'
    BY <1>2, <2>1, <2>2, <2>3, <2>4, LoopKeeps, Zenon
  <2>6. QED
    BY <2>2, <2>5, Zenon
<1>18. op = "restore" /\ next <= Len(disconnected) => disconnected[next] \in Blocks
  <2>1. op = "restore" /\ next <= Len(disconnected) => next \in 1 .. Len(disconnected)
    BY <1>1, <1>2, <1>3 DEF next
  <2>2. QED
    BY <1>2, <2>1
<1>19. CASE restore
  <2>1. /\ op = "restore" /\ next <= Len(disconnected) /\ pushBlock(disconnected[next])
        /\ op' = op /\ UNCHANGED <<alternatives, altChain, disconnected, discard, pos>>
    BY <1>19, Zenon DEF restore, locals
  <2>2. ChainKept /\ Len(blocks') = Len(blocks) + 1
    BY <1>18, <2>1, PushKeeps, PushLength, Zenon
  <2>3. op' \in Ops \ {"idle"} /\ op' = "restore" /\ splitHeight <= Len(blocks')
    BY <1>1, <1>3, <2>1, <2>2 DEF Ops
  <2>4. SwitchInv'
    BY <1>2, <2>1, <2>3, LoopKeeps, Zenon
  <2>5. QED
    BY <2>2, <2>4, Zenon
<1>20. CASE restoreFails
  <2>1. /\ op = "restore" /\ next <= Len(disconnected)
        /\ pushBlockFails(disconnected[next]) /\ endSwitch(pos)
    BY <1>20, Zenon DEF restoreFails
  <2>2. ChainKept
    BY <1>18, <2>1, FailKeeps, KeepKeeps, Zenon
  <2>3. QED
    BY <2>1, <2>2, EndKeeps, Zenon
<1>21. CASE restored
  <2>1. endSwitch(pos) /\ UNCHANGED chain
    BY <1>21, Zenon DEF restored
  <2>2. QED
    BY <1>5, <2>1, EndKeeps, Zenon
<1>22. ASSUME NEW t \in Txs, NEW keptByBlock \in BOOLEAN, add_new_tx(t, keptByBlock)
       PROVE  ChainKept /\ SwitchInv'
  <2>1. /\ op = "idle" /\ t \notin txMap /\ pool' = pool \cup {t}
        /\ UNCHANGED <<blocks, txMap, spentKeys, alternatives>> /\ UNCHANGED locals
    BY <1>22, Zenon DEF add_new_tx, haveTransaction
  <2>2. KeepBlocks
    BY <1>1, <2>1, Zenon DEF KeepBlocks
  <2>3. QED
    BY <1>2, <2>1, <2>2, KeepKeeps, IdleKeeps, Zenon
<1>23. ASSUME NEW t \in Txs, removeExpiredTransaction(t)
       PROVE  ChainKept /\ SwitchInv'
  <2>1. /\ op = "idle" /\ pool' = pool \ {t}
        /\ UNCHANGED <<blocks, txMap, spentKeys, alternatives>> /\ UNCHANGED locals
    BY <1>23, Zenon DEF removeExpiredTransaction
  <2>2. KeepBlocks
    BY <1>1, <2>1, Zenon DEF KeepBlocks
  <2>3. QED
    BY <1>2, <2>1, <2>2, KeepKeeps, IdleKeeps, Zenon
<1>24. ASSUME NEW height \in 0 .. Len(blocks), rollbackBlockchainTo(height)
       PROVE  ChainKept /\ SwitchInv'
  <2>1. /\ op = "idle" /\ Len(blocks) > height + 1 /\ blocks' = SubSeq(blocks, 1, height + 1)
        /\ popTransactions(TxsIn({blocks[i] : i \in height + 2 .. Len(blocks)}))
        /\ pool' = pool /\ alternatives' = alternatives /\ UNCHANGED locals
    BY <1>24, Zenon DEF rollbackBlockchainTo
  <2>2. height + 1 \in 1 .. Len(blocks) /\ (height + 1) + 1 = height + 2
    BY <1>1, <2>1
  <2>3. CutBlocks(height + 1)
    BY ONLY <2>1, <2>2, Zenon DEF CutBlocks
  <2>4. QED
    BY <1>2, <2>1, <2>3, CutKeeps, IdleKeeps, Zenon
<1>25. CASE UNCHANGED vars
  <2>1. UNCHANGED chain /\ UNCHANGED locals /\ alternatives' = alternatives
    BY <1>25, Zenon DEF vars, chain, locals
  <2>2. UNCHANGED <<blocks, op, altChain, disconnected, discard, pos, alternatives>>
    BY <1>25, Zenon DEF vars
  <2>3. SwitchInv'
    BY <2>2, Zenon DEF SwitchInv, splitHeight
  <2>4. QED
    BY <1>5, <2>1, <2>3, Zenon
<1>26. QED
  BY <1>6, <1>7, <1>8, <1>10, <1>12, <1>13, <1>14, <1>15, <1>16, <1>17, <1>19, <1>20,
     <1>21, <1>22, <1>23, <1>24, <1>25, SMTT(40)
     DEF OperatorNext, Next, addNewBlock, switchStep, poolStep, operatorStep

(* The invariant is inductive, and so is it together with PoolApart.       *)
LEMMA NextInv ==
    /\ Inv /\ [OperatorNext]_vars => Inv'
    /\ Inv /\ PoolApart /\ [OperatorNext]_vars => PoolApart'
  BY NextKeeps, Zenon DEF Inv, ChainKept

(* OperatorSpec allows all that Spec does, and the console's rollback.     *)
THEOREM InvAlways == OperatorSpec => [](Inv /\ PoolApart)
<1>1. Init => Inv /\ PoolApart
  BY InitInv, Zenon
<1>2. Inv /\ PoolApart /\ [OperatorNext]_vars => Inv' /\ PoolApart'
  BY NextInv, Zenon
<1>3. QED
  BY <1>1, <1>2, PTL DEF OperatorSpec

(* Whatever blocks and transactions arrive and whatever fails, the         *)
(* containers of Blockchain keep their types.                              *)
THEOREM TypeCorrect == OperatorSpec => []TypeOK
  BY InvAlways, InvImplies, PTL

(* No sequence of blocks, switches, failed switches and console rollbacks  *)
(* puts a double spend on the main chain, blocks that leave entries in the *)
(* indices included.                                                       *)
THEOREM NeverDoubleSpent == OperatorSpec => []NoDoubleSpend
  BY InvAlways, InvImplies, PTL

(* The pool and the main chain share no transaction at any step, so        *)
(* saveTransactions does not throw in popBlock.                            *)
THEOREM PoolAlwaysDisjoint == OperatorSpec => []PoolDisjoint
  BY InvAlways, InvImplies, PTL

(* If no block fails half way through pushBlock, the indices are exactly   *)
(* what the chain holds.                                                   *)
THEOREM IndicesAlwaysExact == OperatorSpec => []IndicesExact
  BY InvAlways, InvImplies, PTL

-----------------------------------------------------------------------------
(***************************************************************************)
(* The indices after a restart, proved for every tree of blocks and every  *)
(* point at which the process can die: in a switch, between the files that *)
(* core::deinit writes, with a cache and a pool file of any age.           *)
(*                                                                         *)
(* A cache is good for the path to the block whose hash it carries,        *)
(* whenever it was stored.  So it is good for m_blocks if that hash is the *)
(* tail, and that is the case in which Blockchain::init loads it.  The     *)
(* pool may come back with transactions of the chain: PoolApart is lost,   *)
(* and Inv is proved without it.                                           *)
(***************************************************************************)

(* What a stored cache says of the path to its block.                      *)
CacheOf(c) ==
    LET T == TxsAlong(Path[c.last])
    IN  /\ c.last \in Blocks
        /\ c.txMap \subseteq Txs /\ c.spentKeys \subseteq ImagesIn(Txs)
        /\ T \subseteq c.txMap /\ ImagesIn(T) \subseteq c.spentKeys
        /\ Oversize \cup Throws = {} => c.txMap = T /\ c.spentKeys = ImagesIn(T)

StorageInv == Inv /\ CacheOf(cache) /\ poolFile \subseteq Txs

(* storeCache writes a good cache.                                         *)
LEMMA StoredCache ==
    ASSUME ChainInv
    PROVE  CacheOf(stored)
<1>1. /\ blocks \in Seq(Blocks) /\ blocks # <<>> /\ blocks = Path[tail]
      /\ txMap \subseteq Txs /\ spentKeys \subseteq ImagesIn(Txs)
      /\ TxsAlong(blocks) \subseteq txMap /\ ImagesIn(TxsAlong(blocks)) \subseteq spentKeys
      /\ Oversize \cup Throws = {} =>
            txMap = TxsAlong(blocks) /\ spentKeys = ImagesIn(TxsAlong(blocks))
  BY Zenon DEF ChainInv
<1>2. tail \in Blocks
  BY <1>1 DEF tail
<1>3. stored.last = tail /\ stored.txMap = txMap /\ stored.spentKeys = spentKeys
  BY Zenon DEF stored
<1>4. TxsAlong(Path[stored.last]) = TxsAlong(blocks)
  BY ONLY <1>1, <1>3, Zenon
<1>5. QED
  BY ONLY <1>1, <1>2, <1>3, <1>4, Zenon DEF CacheOf

(* Without a cache, the indices are those of the genesis block.            *)
LEMMA NoCacheGood == CacheOf(NoCache)
<1>1. /\ NoCache.last = Genesis /\ NoCache.txMap = {} /\ NoCache.spentKeys = {}
      /\ Genesis \in Blocks
  BY PathAssumption, Zenon DEF NoCache
<1>2. Path[Genesis] = <<Genesis>> /\ Elements(<<Genesis>>) = {Genesis}
  BY PathAssumption DEF Elements
<1>3. TxsAlong(Path[Genesis]) = {}
  BY <1>2, TxAssumption, Zenon DEF TxsAlong, TxsIn
<1>4. ImagesIn(TxsAlong(Path[Genesis])) = {}
  BY <1>3, Zenon DEF ImagesIn
<1>5. QED
  BY ONLY <1>1, <1>3, <1>4, Zenon DEF CacheOf

(* Blockchain::init: a good cache that carries the hash of the tail is     *)
(* good for the chain, and otherwise the indices are rebuilt.              *)
LEMMA LoadKeeps ==
    ASSUME Inv, NEW c, CacheOf(c), NEW file, file \subseteq Txs, init(c, file)
    PROVE  Inv'
<1>1. /\ blocks \in Seq(Blocks) /\ blocks # <<>> /\ blocks = Path[tail] /\ SpentOnce(blocks)
  BY Zenon DEF Inv, ChainInv
<1>2. /\ blocks' = blocks /\ tail' = tail /\ pool' \subseteq Txs /\ loadCache(c)
      /\ alternatives' = {} /\ op' = "idle" /\ altChain' = <<>> /\ disconnected' = <<>>
      /\ discard' = FALSE /\ pos' = 1
  BY Zenon DEF init, tail
<1>3. ChainTxs = TxsAlong(blocks)
  BY Zenon DEF ChainTxs, TxsAlong
<1>4. TxsAlong(blocks) \subseteq Txs /\ ImagesIn(TxsAlong(blocks)) \subseteq ImagesIn(Txs)
  BY ONLY <1>1, TxsAlongType, TxsType, Zenon
<1>5. /\ txMap' \subseteq Txs /\ spentKeys' \subseteq ImagesIn(Txs)
      /\ TxsAlong(blocks) \subseteq txMap' /\ ImagesIn(TxsAlong(blocks)) \subseteq spentKeys'
      /\ Oversize \cup Throws = {} =>
            txMap' = TxsAlong(blocks) /\ spentKeys' = ImagesIn(TxsAlong(blocks))
  <2>1. CASE c.last = tail
    <3>1. txMap' = c.txMap /\ spentKeys' = c.spentKeys
      BY <1>2, <2>1, Zenon DEF loadCache
    <3>2. TxsAlong(Path[c.last]) = TxsAlong(blocks)
      BY ONLY <1>1, <2>1, Zenon
    <3>3. QED
      BY ONLY <3>1, <3>2, CacheOf(c), Zenon DEF CacheOf
  <2>2. CASE c.last # tail
    <3>1. txMap' = TxsAlong(blocks) /\ spentKeys' = ImagesIn(TxsAlong(blocks))
      BY <1>2, <1>3, <2>2, Zenon DEF loadCache
    <3>2. QED
      BY ONLY <1>4, <3>1, Zenon
  <2>3. QED
    BY <2>1, <2>2, Zenon
<1>6. ChainInv'
  BY ONLY <1>1, <1>2, <1>5, Zenon DEF ChainInv
<1>7. SwitchInv'
  <2>1. <<>> \in Seq(Blocks) /\ 1 \in Nat \ {0} /\ "idle" \in Ops /\ FALSE \in BOOLEAN
    BY DEF Ops
  <2>2. QED
    BY ONLY <1>2, <2>1, Zenon DEF SwitchInv
<1>8. QED
  BY <1>6, <1>7, Zenon DEF Inv

-----------------------------------------------------------------------------
(* Every step keeps the invariant, the end of the process included.        *)
LEMMA StorageNextInv == StorageInv /\ [StorageNext]_storageVars => StorageInv'
<1> SUFFICES ASSUME Inv, CacheOf(cache), poolFile \subseteq Txs, [StorageNext]_storageVars
             PROVE  Inv' /\ CacheOf(cache') /\ poolFile' \subseteq Txs
  BY Zenon DEF StorageInv
<1>1. ChainInv /\ SwitchInv /\ pool \subseteq Txs
  BY Zenon DEF Inv, ChainInv
<1>2. ASSUME NEW b \in Blocks \ {Genesis}, addAndSave(b)
      PROVE  Inv' /\ CacheOf(cache') /\ poolFile' \subseteq Txs
  <2>1. addNewBlock(b) /\ cache' \in {stored', cache} /\ poolFile' = poolFile
    BY <1>2, Zenon DEF addAndSave
  <2>2. Inv'
    BY <2>1, NextInv, Zenon DEF OperatorNext, Next
  <2>3. CacheOf(stored')
    <3>1. ChainInv' => CacheOf(stored)'
      BY StoredCache, PTL
    <3>2. QED
      BY <2>2, <3>1, Zenon DEF Inv
  <2>4. QED
    BY <2>1, <2>2, <2>3, Zenon
<1>3. CASE switchUnsaved \/ poolUnsaved
  <2>1. (switchStep \/ poolStep) /\ cache' = cache /\ poolFile' = poolFile
    BY <1>3, Zenon DEF switchUnsaved, poolUnsaved
  <2>2. Inv'
    BY <2>1, NextInv, Zenon DEF OperatorNext, Next
  <2>3. QED
    BY <2>1, <2>2, Zenon
<1>4. CASE switchThrows
  <2>1. PICK T \in SUBSET TxsOf[tail] : pool' = pool \cup T
    BY <1>4, Zenon DEF switchThrows
  <2>2. /\ blocks' = blocks /\ txMap' = txMap /\ spentKeys' = spentKeys
        /\ cache' = cache /\ poolFile' = poolFile
        /\ endSwitch(IF op = "disconnect" THEN Len(altChain) + 1 ELSE pos)
    BY <1>4, Zenon DEF switchThrows
  <2>3. pool' \subseteq Txs
    <3>1. tail \in Blocks
      BY <1>1 DEF ChainInv, tail
    <3>2. QED
      BY <1>1, <2>1, <3>1, TxsType, Zenon
  <2>4. tail' = tail
    BY <2>2, Zenon DEF tail
  <2>5. ChainInv'
    BY ONLY <1>1, <2>2, <2>3, <2>4, Zenon DEF ChainInv
  <2>6. SwitchInv'
    BY <1>1, <2>2, EndKeeps, Zenon
  <2>7. QED
    BY <2>2, <2>5, <2>6, Zenon DEF Inv
<1>5. CASE restart
  <2>1. cache' = stored /\ poolFile' = pool /\ init(stored, pool)
    BY <1>5, Zenon DEF restart
  <2>2. CacheOf(stored)
    BY <1>1, StoredCache, Zenon
  <2>3. Inv'
    BY <1>1, <2>1, <2>2, LoadKeeps, Zenon
  <2>4. QED
    BY <1>1, <2>1, <2>2, <2>3, Zenon
<1>6. CASE crash
  <2>1. PICK c \in {cache, NoCache},
             file \in {poolFile} \cup (IF op = "idle" THEN {pool, {}} ELSE {}) :
           cache' = c /\ poolFile' = file /\ init(c, file)
    BY <1>6, Zenon DEF crash
  <2>2. CacheOf(c) /\ file \subseteq Txs
    BY <1>1, <2>1, NoCacheGood, Zenon
  <2>3. Inv'
    BY <2>1, <2>2, LoadKeeps, Zenon
  <2>4. QED
    BY <2>1, <2>2, <2>3, Zenon
<1>7. CASE UNCHANGED storageVars
  <2>1. UNCHANGED vars /\ cache' = cache /\ poolFile' = poolFile
    BY <1>7, Zenon DEF storageVars
  <2>2. Inv'
    BY <2>1, NextInv, Zenon
  <2>3. QED
    BY <2>1, <2>2, Zenon
<1>8. QED
  BY <1>2, <1>3, <1>4, <1>5, <1>6, <1>7, Zenon DEF StorageNext

(* A node that has never run has no files.                                 *)
LEMMA StorageInitInv == StorageInit => StorageInv
<1>1. StorageInit => Inv /\ cache = NoCache /\ poolFile = {}
  BY InitInv, Zenon DEF StorageInit
<1>2. QED
  BY <1>1, NoCacheGood, Zenon DEF StorageInv

(* The invariant holds in every state.                                     *)
LEMMA StorageAlways == StorageSpec => []StorageInv
  BY StorageInitInv, StorageNextInv, PTL DEF StorageSpec

(* If no block fails half way through pushBlock, m_transactionMap and      *)
(* m_spent_keys are exactly what m_blocks holds after every crash and      *)
(* restart, at whatever step of a switch the process died and whichever    *)
(* cache it found.                                                         *)
THEOREM IndicesExactAfterCrash == StorageSpec => []IndicesExact
<1>1. StorageInv => IndicesExact
  BY InvImplies, Zenon DEF StorageInv
<1>2. QED
  BY <1>1, StorageAlways, PTL

(* No crash, restart or exception of saveTransactions opens the way for a  *)
(* double spend, with transactions of the chain back in the pool and with  *)
(* entries in the indices that belong to no block.                         *)
THEOREM NeverDoubleSpentAfterCrash == StorageSpec => []NoDoubleSpend
<1>1. StorageInv => NoDoubleSpend
  BY InvImplies, Zenon DEF StorageInv
<1>2. QED
  BY <1>1, StorageAlways, PTL

-----------------------------------------------------------------------------
(***************************************************************************)
(* What switch_to_alternative_blockchain and rollback_blockchain_switching *)
(* promise together, proved for every tree of blocks: when no block fails  *)
(* half way through pushBlock, a switch ends on the whole new chain or on  *)
(* the whole old one, and the rollback never reaches its "PANIC!!!".       *)
(*                                                                         *)
(* The invariant names the tail the switch started from (old) and the one  *)
(* it goes to (new).  The chain is always a prefix of the path to one of   *)
(* them; every block of the old path was accepted at its height before;    *)
(* and, when no block fails half way, every transaction of the old path is *)
(* in the pool or on the chain.                                            *)
(***************************************************************************)

(* What pushBlock checked of a block apart from the transactions.          *)
Vetted(b) ==
    /\ b \notin BadHeader \cup BadBody \cup Oversize \cup Throws
    /\ IF is_in_checkpoint_zone(Height(b)) THEN check_block(b) ELSE b \notin WeakWork

VettedAlong(s) == \A i \in 2 .. Len(s) : Vetted(s[i])

(* Block a is on the path to block b.                                      *)
Below(a, b) == Len(Path[a]) <= Len(Path[b]) /\ Path[b][Len(Path[a])] = a

(* What startSwitch establishes, and no later step of the switch changes.  *)
SwitchFrom(old, new, alt, lose) ==
    LET h == Height(alt[1])
    IN  /\ h \in Nat \ {0} /\ h < Len(Path[old])
        /\ Len(Path[new]) = h + Len(alt)
        /\ Path[old][h] = Path[new][h]
        /\ \A i \in 1 .. Len(alt) : alt[i] = Path[new][h + i]
        /\ SpentOnce(Path[old])
        /\ VettedAlong(Path[old])
        /\ \A i \in h + 1 .. Len(Path[old]) : TxsOf[Path[old][i]] \subseteq TxsIn(Elements(alt))
        /\ ~lose => Work[old] < Work[new]

(* dis is the part of the path to old above the first n blocks.            *)
Removed(old, n, dis) ==
    /\ Len(Path[old]) = n + Len(dis)
    /\ \A i \in 1 .. Len(dis) : dis[i] = Path[old][n + i]

(* A block that throws takes its transactions out of the pool.             *)
TxsKept(old) ==
    Oversize \cup Throws = {} => TxsAlong(Path[old]) \subseteq pool \cup TxsAlong(blocks)

(* Where the chain is.                                                     *)
Between(old, new) ==
    /\ op = "disconnect" => Below(tail, old) /\ Removed(old, Len(blocks), disconnected)
    /\ op # "disconnect" => Removed(old, splitHeight, disconnected)
    /\ op \in {"connect", "demote", "rollback"} => Below(tail, new)
    /\ op = "restore" => Below(tail, old)
    /\ TxsKept(old)

ResumeInv ==
    /\ VettedAlong(blocks)
    /\ op # "idle" => \E old, new \in Blocks :
                         SwitchFrom(old, new, altChain, discard) /\ Between(old, new)

-----------------------------------------------------------------------------
(* Every block of a path is below its end, and the path to a block below   *)
(* another is a prefix of the path to the other.                           *)
LEMMA OnPath ==
    ASSUME NEW x \in Blocks, NEW k \in 1 .. Len(Path[x])
    PROVE  Below(Path[x][k], x)
<1>1. Len(Path[Path[x][k]]) = k /\ k <= Len(Path[x])
  BY PathFacts
<1>2. QED
  BY <1>1, Zenon DEF Below

(* The path to a block below x is the beginning of the path to x.          *)
LEMMA BelowPrefix ==
    ASSUME NEW a \in Blocks, NEW x \in Blocks, Below(a, x)
    PROVE  \A i \in 1 .. Len(Path[a]) : Path[a][i] = Path[x][i]
<1> DEFINE k == Len(Path[a])
           p == Path[x]
<1>1. k \in 1 .. Len(p) /\ p[k] = a /\ p \in Seq(Blocks) /\ k \in 0 .. Len(p)
  BY PathFacts DEF Below
<1>2. Path[a] = SubSeq(p, 1, k)
  BY <1>1, PathFacts
<1> HIDE DEF p, k
<1>3. \A i \in 1 .. k : SubSeq(p, 1, k)[i] = p[i]
  BY <1>1, ElementsPrefix, Zenon
<1>4. QED
  BY <1>2, <1>3, Zenon DEF k, p

(* A block below x with a path as long as that of x is x.                  *)
LEMMA BelowSameLength ==
    ASSUME NEW a \in Blocks, NEW x \in Blocks, Below(a, x), Len(Path[a]) >= Len(Path[x])
    PROVE  a = x
<1>1. Len(Path[a]) = Len(Path[x])
  BY PathFacts DEF Below
<1>2. Path[x][Len(Path[x])] = x
  BY PathFacts, Zenon
<1>3. QED
  BY ONLY <1>1, <1>2, Below(a, x), Zenon DEF Below

(* A block occurs once in a path.                                          *)
LEMMA OncePerPath ==
    ASSUME NEW x \in Blocks, NEW i \in 1 .. Len(Path[x]), NEW j \in 1 .. Len(Path[x]),
           Path[x][i] = Path[x][j]
    PROVE  i = j
<1>1. Len(Path[Path[x][i]]) = i /\ Len(Path[Path[x][j]]) = j
  BY PathFacts, Zenon
<1>2. QED
  BY ONLY <1>1, Path[x][i] = Path[x][j], Zenon

-----------------------------------------------------------------------------
(* Facts about the tail that every step below uses.                        *)
LEMMA TailFacts ==
    ASSUME ChainInv
    PROVE  /\ blocks \in Seq(Blocks) /\ Len(blocks) \in Nat /\ Len(blocks) >= 1
           /\ tail \in Blocks /\ blocks = Path[tail] /\ Len(Path[tail]) = Len(blocks)
           /\ blocks[Len(blocks)] = tail
<1>1. blocks \in Seq(Blocks) /\ Len(blocks) \in Nat /\ Len(blocks) >= 1 /\ blocks = Path[tail]
  BY DEF ChainInv
<1>2. tail \in Blocks /\ blocks[Len(blocks)] = tail
  BY <1>1 DEF tail
<1>3. Len(Path[tail]) = Len(blocks)
  BY ONLY <1>1, Zenon
<1>4. QED
  BY <1>1, <1>2, <1>3, Zenon

(* The chain below x: block number Len(blocks) + 1 of the path to x has    *)
(* the tail as its parent and is not on the chain.                         *)
LEMMA NextOnPath ==
    ASSUME ChainInv, NEW x \in Blocks, Below(tail, x), Len(blocks) < Len(Path[x])
    PROVE  LET b == Path[x][Len(blocks) + 1]
           IN  /\ b \in Blocks /\ Prev(b) = tail /\ ~hasBlock(b)
               /\ Height(b) = Len(blocks) /\ Below(b, x)
<1> DEFINE n == Len(blocks)
           p == Path[x]
           b == p[n + 1]
<1>1. blocks \in Seq(Blocks) /\ n \in Nat /\ n >= 1 /\ tail \in Blocks /\ blocks = Path[tail]
      /\ Len(Path[tail]) = n
  BY TailFacts, Zenon
<1>2. p \in Seq(Blocks) /\ Len(p) \in Nat
  BY PathFacts, Zenon
<1>3. n + 1 \in 1 .. Len(p) /\ n + 1 \in 0 .. Len(p)
  BY <1>1, <1>2
<1>4. b \in Blocks /\ Path[b] = SubSeq(p, 1, n + 1) /\ Len(Path[b]) = n + 1
  BY <1>3, PathFacts, Zenon
<1>5. Below(b, x)
  BY <1>3, OnPath, Zenon
<1>6. \A i \in 1 .. n : blocks[i] = p[i]
  BY ONLY <1>1, x \in Blocks, Below(tail, x), BelowPrefix, Zenon
<1> HIDE DEF p, n, b
<1>7. Height(b) = n
  BY <1>1, <1>4 DEF Height
<1>8. Prev(b) = tail
  <2>1. n \in 1 .. n /\ n \in 1 .. n + 1 /\ (n + 1) - 1 = n
    BY <1>1
  <2>2. Prev(b) = SubSeq(p, 1, n + 1)[n]
    BY ONLY <1>4, <2>1, Zenon DEF Prev
  <2>3. SubSeq(p, 1, n + 1)[n] = p[n]
    BY ONLY <1>2, <1>3, <2>1, ElementsPrefix, Zenon
  <2>4. p[n] = blocks[n] /\ blocks[n] = tail
    BY <1>6, <2>1, TailFacts, Zenon DEF n
  <2>5. QED
    BY ONLY <2>2, <2>3, <2>4, Zenon
<1>9. ~hasBlock(b)
  <2> SUFFICES ASSUME NEW i \in 1 .. n, blocks[i] = b
               PROVE  FALSE
    BY Zenon DEF hasBlock, Elements, n
  <2>1. i \in 1 .. Len(p) /\ i # n + 1
    BY <1>1, <1>2, <1>3
  <2>2. p[i] = p[n + 1]
    BY <1>6, Zenon DEF b
  <2>3. i = n + 1
    BY ONLY <1>3, <2>1, <2>2, x \in Blocks, OncePerPath, Zenon DEF p
  <2>4. QED
    BY <2>1, <2>3, Zenon
<1>10. QED
  BY <1>4, <1>5, <1>7, <1>8, <1>9, Zenon DEF b, p, n

(* A block that was on a chain without double spends can be pushed again   *)
(* on the same tail, if its transactions are in the pool.                  *)
LEMMA CanPushAgain ==
    ASSUME ChainInv, Oversize \cup Throws = {},
           NEW x \in Blocks, Below(tail, x), Len(blocks) < Len(Path[x]),
           SpentOnce(Path[x]), VettedAlong(Path[x]),
           TxsAlong(Path[x]) \subseteq pool \cup TxsAlong(blocks)
    PROVE  blockAccepted(Path[x][Len(blocks) + 1])
<1> DEFINE n == Len(blocks)
           p == Path[x]
           b == p[n + 1]
<1>1. b \in Blocks /\ Prev(b) = tail /\ ~hasBlock(b) /\ Height(b) = n
  BY NextOnPath, Zenon
<1>2. n \in Nat /\ n >= 1 /\ Len(p) \in Nat /\ n + 1 \in 1 .. Len(p) /\ n + 1 \in 2 .. Len(p)
  BY TailFacts, PathFacts
<1>3. \A i \in 1 .. n : blocks[i] = p[i]
  <2>1. tail \in Blocks /\ blocks = Path[tail] /\ Len(Path[tail]) = n
    BY TailFacts, Zenon
  <2>2. QED
    BY ONLY <2>1, x \in Blocks, Below(tail, x), BelowPrefix, Zenon
<1> HIDE DEF p, n, b
<1>4. \A i \in 1 .. n : i \in 1 .. Len(p) /\ i # n + 1
  BY <1>2
<1>5. \A t \in TxsAlong(blocks) : \E i \in 1 .. n : t \in TxsOf[p[i]]
  <2>1. \A t \in TxsAlong(blocks) : \E i \in 1 .. n : t \in TxsOf[blocks[i]]
    BY ONLY Zenon DEF TxsAlong, TxsIn, Elements, n
  <2>2. QED
    BY ONLY <1>3, <2>1, Zenon
<1>6. \A t \in TxsAlong(blocks), u \in TxsOf[b] : Images[t] \cap Images[u] = {}
  <2> SUFFICES ASSUME NEW t \in TxsAlong(blocks), NEW u \in TxsOf[b]
               PROVE  Images[t] \cap Images[u] = {}
    BY Zenon
  <2>1. PICK i \in 1 .. n : t \in TxsOf[p[i]]
    BY <1>5, Zenon
  <2>2. i \in 1 .. Len(p) /\ i # n + 1 /\ u \in TxsOf[p[n + 1]] /\ SpentOnce(p)
    BY <1>4, Zenon DEF b, p
  <2>3. QED
    BY ONLY <1>2, <2>1, <2>2, Zenon DEF SpentOnce
<1>7. TxsOf[b] \subseteq Txs /\ \A t \in Txs : Images[t] # {}
  BY <1>1, TxsType, TxAssumption, Zenon
<1>8. TxsOf[b] \subseteq TxsAlong(p)
  BY <1>2, Zenon DEF TxsAlong, TxsIn, Elements, b
<1>9. TxsOf[b] \subseteq pool
  <2> SUFFICES ASSUME NEW t \in TxsOf[b], t \notin pool
               PROVE  FALSE
    BY Zenon
  <2>1. t \in TxsAlong(blocks)
    BY <1>8, Zenon DEF p
  <2>2. Images[t] \cap Images[t] = {}
    BY <1>6, <2>1, Zenon
  <2>3. QED
    BY <1>7, <2>2, Zenon
<1>10. checkTransactionInputs(TxsOf[b])
  <2>1. spentKeys = ImagesIn(TxsAlong(blocks))
    BY Zenon DEF ChainInv
  <2>2. ImagesIn(TxsOf[b]) \cap spentKeys = {}
    <3>1. ImagesIn(TxsOf[b]) \cap ImagesIn(TxsAlong(blocks)) = {}
      BY ONLY <1>6 DEF ImagesIn
    <3>2. QED
      BY <2>1, <3>1, Zenon
  <2>3. \A t, u \in TxsOf[b] : t # u => Images[t] \cap Images[u] = {}
    <3>1. SpentOnce(p)
      BY Zenon DEF p
    <3>2. QED
      BY ONLY <1>2, <3>1, Zenon DEF SpentOnce, b
  <2>4. QED
    BY <2>2, <2>3, Zenon DEF checkTransactionInputs
<1>11. Vetted(b)
  BY <1>2, Zenon DEF b, p, VettedAlong
<1>12. headerAccepted(b)
  BY <1>1, <1>9, <1>11, Zenon DEF headerAccepted, Vetted, n
<1>13. b \notin BadBody \cup Oversize \cup Throws
  BY <1>11, Zenon DEF Vetted
<1>14. QED
  BY <1>10, <1>12, <1>13, Zenon DEF blockAccepted, b, p, n

-----------------------------------------------------------------------------
(* The effect of pushBlock and popBlock on the tail, on what was vetted    *)
(* and on the transactions that are in the pool or on the chain.           *)
LEMMA PushEffect ==
    ASSUME ChainInv, NEW b \in Blocks, pushBlock(b)
    PROVE  /\ Len(blocks') = Len(blocks) + 1 /\ tail' = b
           /\ VettedAlong(blocks) => VettedAlong(blocks')
           /\ pool \cup TxsAlong(blocks) \subseteq pool' \cup TxsAlong(blocks')
<1>1. blocks \in Seq(Blocks) /\ Len(blocks) \in Nat /\ Len(blocks) >= 1
  BY TailFacts, Zenon
<1>2. blocks' = Append(blocks, b) /\ pool' = pool \ TxsOf[b]
  BY Zenon DEF pushBlock
<1>3. /\ Len(blocks') = Len(blocks) + 1 /\ blocks'[Len(blocks) + 1] = b
      /\ \A i \in 1 .. Len(blocks) : blocks'[i] = blocks[i]
  BY <1>1, <1>2
<1>4. tail' = b
  BY <1>3, Zenon DEF tail
<1>5. TxsAlong(blocks') = TxsAlong(blocks) \cup TxsOf[b]
  <2>1. Elements(Append(blocks, b)) = Elements(blocks) \cup {b}
    BY ONLY <1>1, b \in Blocks, ElementsAppend
  <2>2. Elements(blocks') = Elements(blocks) \cup {b}
    BY ONLY <1>2, <2>1, Zenon
  <2>3. QED
    BY <2>2, Zenon DEF TxsAlong, TxsIn
<1>6. VettedAlong(blocks) => VettedAlong(blocks')
  <2>1. Vetted(b)
    <3>1. ChainInv'
      BY PushKeeps, Zenon DEF ChainKept
    <3>2. Len(Path[b]) = Len(blocks')
      <4>1. blocks' = Path[tail']
        BY <3>1, Zenon DEF ChainInv
      <4>2. QED
        BY ONLY <1>4, <4>1, Zenon
    <3>3. Height(b) = Len(blocks)
      BY <1>1, <1>3, <3>2 DEF Height
    <3>4. /\ b \notin BadHeader /\ b \notin BadBody \cup Oversize \cup Throws
          /\ IF is_in_checkpoint_zone(Len(blocks)) THEN check_block(b) ELSE b \notin WeakWork
      BY Zenon DEF pushBlock, blockAccepted, headerAccepted
    <3>5. QED
      BY ONLY <3>3, <3>4, Zenon DEF Vetted
  <2>2. \A i \in 2 .. Len(blocks') : \/ i \in 2 .. Len(blocks) /\ i \in 1 .. Len(blocks)
                                     \/ i = Len(blocks) + 1
    BY ONLY <1>1, <1>3
  <2>3. QED
    BY ONLY <1>3, <2>1, <2>2, Zenon DEF VettedAlong
<1>7. QED
  BY <1>2, <1>3, <1>4, <1>5, <1>6, Zenon

(* What popBlock does to the tail, and that no transaction leaves the pool *)
(* and the chain.                                                          *)
LEMMA PopEffect ==
    ASSUME ChainInv, popBlock, Len(blocks) >= 2
    PROVE  /\ Len(blocks') = Len(blocks) - 1 /\ tail' = blocks[Len(blocks) - 1]
           /\ VettedAlong(blocks) => VettedAlong(blocks')
           /\ pool \cup TxsAlong(blocks) \subseteq pool' \cup TxsAlong(blocks')
<1> DEFINE n == Len(blocks)
<1>1. blocks \in Seq(Blocks) /\ n \in Nat /\ n >= 2 /\ n - 1 \in 0 .. n /\ n - 1 \in 1 .. n - 1
  BY TailFacts
<1>2. blocks' = SubSeq(blocks, 1, n - 1) /\ pool' = pool \cup TxsOf[tail] /\ tail = blocks[n]
  BY Zenon DEF popBlock, tail
<1> HIDE DEF n
<1>3. /\ Len(blocks') = n - 1 /\ \A i \in 1 .. n - 1 : blocks'[i] = blocks[i]
      /\ Elements(blocks') = {blocks[i] : i \in 1 .. n - 1}
  BY ONLY <1>1, <1>2, ElementsPrefix, Zenon DEF n
<1>4. tail' = blocks[n - 1]
  BY <1>1, <1>3, Zenon DEF tail
<1>5. TxsAlong(blocks) \subseteq TxsAlong(blocks') \cup TxsOf[tail]
  <2>1. \A i \in 1 .. n : i \in 1 .. n - 1 \/ i = n
    BY <1>1
  <2>2. \A t \in TxsAlong(blocks) : \E i \in 1 .. n : t \in TxsOf[blocks[i]]
    BY ONLY Zenon DEF TxsAlong, TxsIn, Elements, n
  <2>3. \A t, i : i \in 1 .. n - 1 /\ t \in TxsOf[blocks[i]] => t \in TxsAlong(blocks')
    BY ONLY <1>3, Zenon DEF TxsAlong, TxsIn
  <2>4. QED
    BY ONLY <1>2, <2>1, <2>2, <2>3, Zenon
<1>6. VettedAlong(blocks) => VettedAlong(blocks')
  <2>1. \A i \in 2 .. n - 1 : i \in 2 .. n /\ i \in 1 .. n - 1
    BY <1>1
  <2>2. QED
    BY ONLY <1>3, <2>1, Zenon DEF VettedAlong, n
<1>7. QED
  BY <1>2, <1>3, <1>4, <1>5, <1>6, Zenon DEF n

(* The chain after a pop is below whatever it was below before.            *)
LEMMA PopBelow ==
    ASSUME ChainInv, popBlock, Len(blocks) >= 2, NEW x \in Blocks, Below(tail, x)
    PROVE  Below(tail', x) /\ tail' = Path[x][Len(blocks) - 1]
<1>1. /\ Len(blocks) \in Nat /\ tail \in Blocks /\ blocks = Path[tail]
      /\ Len(Path[tail]) = Len(blocks)
  BY TailFacts, Zenon
<1>2. Len(blocks) - 1 \in 1 .. Len(blocks)
  BY <1>1
<1>3. blocks[Len(blocks) - 1] = Path[x][Len(blocks) - 1]
  BY ONLY <1>1, <1>2, x \in Blocks, Below(tail, x), BelowPrefix, Zenon
<1>4. tail' = blocks[Len(blocks) - 1]
  BY PopEffect, Zenon
<1>5. Len(blocks) - 1 \in 1 .. Len(Path[x])
  BY <1>1, <1>2, PathFacts DEF Below
<1>6. QED
  BY ONLY <1>3, <1>4, <1>5, x \in Blocks, OnPath, Zenon

-----------------------------------------------------------------------------
(* handle_alternative_block has checked that the alternative chain leaves  *)
(* the main chain at its split height.                                     *)
LEMMA ForkPoint ==
    ASSUME Inv, NEW b \in Blocks \ {Genesis}, connects(b)
    PROVE  blocks[altFront(b) - 1] = Path[b][altFront(b) - 1]
<1> DEFINE p == Path[b]
           k == altFront(b)
<1>1. k \in 2 .. Len(p) /\ p \in Seq(Blocks) /\ Len(p) \in Nat
  BY AltFrontExists, PathFacts, Zenon DEF Inv, SwitchInv
<1>2. CASE k < Len(p)
  BY <1>2, Zenon DEF connects
<1>3. CASE ~(k < Len(p))
  <2>1. k = Len(p) /\ hasBlock(Prev(b)) /\ Prev(b) = p[k - 1]
    BY <1>1, <1>3 DEF connects, Prev
  <2>2. PICK i \in 1 .. Len(blocks) : blocks[i] = p[k - 1]
    BY <2>1, Zenon DEF hasBlock, Elements
  <2>3. Len(Path[p[k - 1]]) = k - 1
    <3>1. k - 1 \in 1 .. Len(p)
      BY <1>1
    <3>2. QED
      BY <3>1, PathFacts, Zenon
  <2>4. Len(Path[blocks[i]]) = i
    <3>1. tail \in Blocks /\ blocks = Path[tail]
      BY TailFacts, Zenon DEF Inv
    <3>2. Len(Path[Path[tail][i]]) = i
      BY <3>1, PathFacts, Zenon
    <3>3. QED
      BY ONLY <3>1, <3>2, Zenon
  <2>5. i = k - 1
    BY ONLY <2>2, <2>3, <2>4, Zenon
  <2>6. QED
    BY ONLY <2>2, <2>5, Zenon
<1>4. QED
  BY <1>2, <1>3, Zenon

(* When a switch starts, the old chain ends in the tail and the new one in *)
(* the block that started it.                                              *)
LEMMA StartResumes ==
    ASSUME Inv, ResumeInv, NEW b \in Blocks \ {Genesis}, startSwitch(b)
    PROVE  ResumeInv'
<1> DEFINE p == Path[b]
           k == altFront(b)
           alt == SubSeq(p, k, Len(p))
<1>1. k \in 2 .. Len(p)
  BY AltFrontExists, Zenon DEF Inv, SwitchInv
<1>2. p \in Seq(Blocks) /\ Len(p) \in Nat /\ Len(Path[p[k]]) = k
  BY <1>1, PathFacts
<1>3. /\ altChain' = alt /\ op' = "disconnect" /\ disconnected' = <<>>
      /\ blocks' = blocks /\ pool' = pool
      /\ switchAccepted(alt) /\ connects(b)
      /\ ~discard' => Work[tail] < Work[b]
  BY Zenon DEF startSwitch, altChainOf, chain, reorganizes, alternativeAccepted
<1>4. blocks[k - 1] = p[k - 1]
  BY <1>3, ForkPoint, Zenon
<1>5. /\ blocks \in Seq(Blocks) /\ Len(blocks) \in Nat /\ tail \in Blocks
      /\ blocks = Path[tail] /\ Len(Path[tail]) = Len(blocks)
  BY TailFacts, Zenon DEF Inv
<1>6. SpentOnce(blocks) /\ VettedAlong(blocks)
  BY Zenon DEF Inv, ChainInv, ResumeInv
<1>7. /\ Len(alt) = Len(p) - k + 1
      /\ \A i \in 1 .. Len(p) - k + 1 : alt[i] = p[k + i - 1]
      /\ alt[1] = p[k]
  <2> HIDE DEF p, k
  <2>1. k \in 1 .. Len(p)
    BY <1>1, <1>2
  <2>2. QED
    BY ONLY <1>2, <2>1, SuffixFacts, SMTT(40)
<1> HIDE DEF p, k, alt
<1>8. Height(alt[1]) = k - 1
  BY <1>2, <1>7, Zenon DEF Height
<1>9. /\ k - 1 < Len(blocks)
      /\ \A i \in (k - 1) + 1 .. Len(blocks) : TxsOf[blocks[i]] \subseteq TxsIn(Elements(alt))
  BY <1>3, <1>8, Zenon DEF switchAccepted
<1>10. SwitchFrom(tail, b, alt, discard')
  <2>1. k - 1 \in Nat \ {0} /\ Len(p) = (k - 1) + Len(alt)
    BY <1>1, <1>2, <1>7
  <2>2. \A i \in 1 .. Len(alt) : alt[i] = p[(k - 1) + i]
    BY <1>1, <1>2, <1>7
  <2>3. /\ k - 1 < Len(Path[tail]) /\ Path[tail][k - 1] = Path[b][k - 1]
        /\ SpentOnce(Path[tail]) /\ VettedAlong(Path[tail])
        /\ \A i \in (k - 1) + 1 .. Len(Path[tail]) :
               TxsOf[Path[tail][i]] \subseteq TxsIn(Elements(alt))
    BY ONLY <1>4, <1>5, <1>6, <1>9, Zenon DEF p
  <2>4. QED
    BY ONLY <1>3, <1>8, <2>1, <2>2, <2>3, Zenon DEF SwitchFrom, p
<1>11. tail' = tail
  BY <1>3, Zenon DEF tail
<1>12. Between(tail, b)'
  <2>1. Below(tail, tail)
    BY <1>5, PathFacts DEF Below
  <2>2. Removed(tail, Len(blocks), <<>>)
    BY <1>5 DEF Removed
  <2>3. TxsKept(tail)'
    BY ONLY <1>3, <1>5, <1>11, Zenon DEF TxsKept
  <2>4. QED
    BY <1>3, <1>11, <2>1, <2>2, <2>3, Zenon DEF Between
<1>13. \E old, new \in Blocks : SwitchFrom(old, new, altChain', discard') /\ Between(old, new)'
  BY <1>3, <1>5, <1>10, <1>11, <1>12, Zenon
<1>14. QED
  BY <1>3, <1>6, <1>13, Zenon DEF ResumeInv

-----------------------------------------------------------------------------
(* The loops of a switch, one lemma each.  Each takes the old and the new  *)
(* tail and shows that the chain stays between them.                       *)
LEMMA ForkFacts ==
    ASSUME Inv, op # "idle", NEW old \in Blocks, NEW new \in Blocks,
           SwitchFrom(old, new, altChain, discard)
    PROVE  /\ splitHeight \in 1 .. Len(Path[old]) /\ splitHeight \in 1 .. Len(Path[new])
           /\ Path[old][splitHeight] = Path[new][splitHeight]
<1> DEFINE h == splitHeight
<1>1. /\ h \in Nat \ {0} /\ h < Len(Path[old]) /\ Len(Path[new]) = h + Len(altChain)
      /\ Path[old][h] = Path[new][h]
  BY Zenon DEF SwitchFrom, splitHeight
<1>2. Len(altChain) \in Nat /\ Len(Path[old]) \in Nat
  BY PathFacts DEF Inv, SwitchInv
<1> HIDE DEF h
<1>3. h \in 1 .. Len(Path[old]) /\ h \in 1 .. Len(Path[new])
  BY ONLY <1>1, <1>2
<1>4. QED
  BY <1>1, <1>3, Zenon DEF h

(* popBlock in the first loop: what is taken off the main chain is put in  *)
(* front of disconnected_chain.                                            *)
LEMMA DisconnectBetween ==
    ASSUME Inv, disconnect, NEW old \in Blocks, NEW new \in Blocks,
           SwitchFrom(old, new, altChain, discard), Between(old, new)
    PROVE  Between(old, new)'
<1> DEFINE n == Len(blocks)
           h == splitHeight
<1>1. /\ op = "disconnect" /\ popBlock /\ disconnected' = <<tail>> \o disconnected
      /\ op' = IF n - 1 > h THEN "disconnect" ELSE "connect"
      /\ altChain' = altChain
  BY Zenon DEF disconnect
<1>2. /\ n \in Nat /\ tail \in Blocks /\ Len(Path[tail]) = n
      /\ disconnected \in Seq(Blocks) /\ Len(disconnected) \in Nat
  BY TailFacts DEF Inv, SwitchInv
<1>3. h \in Nat \ {0} /\ h < n
  BY <1>1, Zenon DEF Inv, SwitchInv
<1>4. n >= 2
  BY <1>2, <1>3
<1>5. Below(tail, old) /\ Removed(old, n, disconnected) /\ TxsKept(old)
  BY <1>1, Zenon DEF Between
<1>6. Below(tail', old) /\ tail' = Path[old][n - 1]
  BY <1>1, <1>4, <1>5, PopBelow, Zenon DEF Inv
<1>7. Len(blocks') = n - 1 /\ TxsKept(old)'
  BY <1>1, <1>4, <1>5, PopEffect, Zenon DEF Inv, TxsKept
<1>8. Removed(old, n - 1, disconnected')
  <2>1. /\ Len(disconnected') = Len(disconnected) + 1 /\ disconnected'[1] = tail
        /\ \A i \in 2 .. Len(disconnected) + 1 : disconnected'[i] = disconnected[i - 1]
    BY <1>1, <1>2
  <2>2. Len(Path[old]) = (n - 1) + Len(disconnected')
    BY <1>2, <1>5, <2>1 DEF Removed
  <2>3. disconnected'[1] = Path[old][(n - 1) + 1]
    <3>1. Path[old][n] = tail
      BY ONLY <1>2, <1>5, Zenon DEF Below
    <3>2. (n - 1) + 1 = n
      BY <1>2
    <3>3. QED
      BY ONLY <2>1, <3>1, <3>2, Zenon
  <2>4. \A i \in 2 .. Len(disconnected) + 1 : disconnected'[i] = Path[old][(n - 1) + i]
    <3>1. \A i \in 2 .. Len(disconnected) + 1 :
             i - 1 \in 1 .. Len(disconnected) /\ n + (i - 1) = (n - 1) + i
      BY <1>2
    <3>2. QED
      BY ONLY <1>5, <2>1, <3>1, Zenon DEF Removed
  <2>5. \A i \in 1 .. Len(disconnected') : i = 1 \/ i \in 2 .. Len(disconnected) + 1
    BY <1>2, <2>1
  <2>6. QED
    BY ONLY <2>2, <2>3, <2>4, <2>5, Zenon DEF Removed
<1>9. h' = h /\ h = Height(altChain[1])
  BY <1>1, Zenon DEF splitHeight
<1>10. CASE n - 1 > h
  <2>1. op' = "disconnect"
    BY <1>1, <1>10, Zenon
  <2>2. QED
    BY <1>6, <1>7, <1>8, <2>1, Zenon DEF Between
<1>11. CASE ~(n - 1 > h)
  <2>1. n - 1 = h /\ op' = "connect"
    BY <1>1, <1>2, <1>3, <1>11, SMTT(40)
  <2>2. Path[old][h] = Path[new][h] /\ h \in 1 .. Len(Path[new])
    BY <1>1, ForkFacts, Zenon
  <2>3. Below(tail', new)
    BY ONLY <1>6, <2>1, <2>2, new \in Blocks, OnPath, Zenon
  <2>4. Removed(old, h', disconnected')
    BY ONLY <1>8, <1>9, <2>1, ZenonT(60)
  <2> HIDE DEF n, h
  <2>5. QED
    BY <1>7, <2>1, <2>3, <2>4, Zenon DEF Between, h
<1>12. QED
  BY <1>10, <1>11, Zenon

(* pushBlock in the second loop: the main chain grows along the path to    *)
(* the new tail.                                                           *)
LEMMA ConnectBetween ==
    ASSUME Inv, connect, NEW old \in Blocks, NEW new \in Blocks,
           SwitchFrom(old, new, altChain, discard), Between(old, new)
    PROVE  Between(old, new)'
<1> DEFINE n == Len(blocks)
           h == splitHeight
           b == Path[new][n + 1]
<1>1. /\ op = "connect" /\ pushBlock(altChain[next]) /\ disconnected' = disconnected
      /\ op' \in {"demote", "connect"} /\ altChain' = altChain
  BY Zenon DEF connect
<1>2. n \in Nat /\ n >= 1 /\ altChain \in Seq(Blocks) /\ Len(altChain) \in Nat
  BY TailFacts DEF Inv, SwitchInv
<1>3. h \in Nat \ {0} /\ h <= n /\ n < h + Len(altChain)
  BY <1>1, Zenon DEF Inv, SwitchInv
<1>4. /\ Len(Path[new]) = h + Len(altChain)
      /\ \A i \in 1 .. Len(altChain) : altChain[i] = Path[new][h + i]
  BY Zenon DEF SwitchFrom, splitHeight
<1>5. next \in 1 .. Len(altChain) /\ h + next = n + 1
  BY <1>2, <1>3 DEF next
<1>6. altChain[next] = b
  BY ONLY <1>4, <1>5, Zenon
<1>7. Below(tail, new) /\ Removed(old, h, disconnected) /\ TxsKept(old)
  BY <1>1, Zenon DEF Between
<1>8. n < Len(Path[new])
  BY <1>3, <1>4, Zenon
<1>9. b \in Blocks /\ Below(b, new)
  BY <1>7, <1>8, NextOnPath, Zenon DEF Inv
<1>10. tail' = b /\ TxsKept(old)'
  BY <1>1, <1>6, <1>7, <1>9, PushEffect, Zenon DEF Inv, TxsKept
<1>11. h' = h
  BY <1>1, Zenon DEF splitHeight
<1>12. QED
  BY <1>1, <1>7, <1>9, <1>10, <1>11, Zenon DEF Between

(* popBlock in rollback_blockchain_switching: the main chain shrinks along *)
(* that path, down to the fork.                                            *)
LEMMA RollbackBetween ==
    ASSUME Inv, rollback, NEW old \in Blocks, NEW new \in Blocks,
           SwitchFrom(old, new, altChain, discard), Between(old, new)
    PROVE  Between(old, new)'
<1> DEFINE n == Len(blocks)
           h == splitHeight
<1>1. /\ op = "rollback" /\ popBlock /\ disconnected' = disconnected
      /\ op' = IF n - 1 > h THEN "rollback" ELSE "restore"
      /\ altChain' = altChain
  BY Zenon DEF rollback
<1>2. n \in Nat /\ h \in Nat \ {0} /\ h < n /\ n >= 2
  BY <1>1, TailFacts DEF Inv, SwitchInv
<1>3. Below(tail, new) /\ Removed(old, h, disconnected) /\ TxsKept(old)
  BY <1>1, Zenon DEF Between
<1>4. Below(tail', new) /\ tail' = Path[new][n - 1]
  BY <1>1, <1>2, <1>3, PopBelow, Zenon DEF Inv
<1>5. TxsKept(old)'
  BY <1>1, <1>2, <1>3, PopEffect, Zenon DEF Inv, TxsKept
<1>6. h' = h /\ h = Height(altChain[1])
  BY <1>1, Zenon DEF splitHeight
<1>7. op' = "restore" => Below(tail', old)
  <2>1. Path[old][h] = Path[new][h] /\ h \in 1 .. Len(Path[old])
    BY <1>1, ForkFacts, Zenon
  <2>2. op' = "restore" => n - 1 = h
    BY <1>1, <1>2
  <2>3. QED
    BY ONLY <1>4, <2>1, <2>2, old \in Blocks, OnPath, Zenon
<1>8. op' \in {"rollback", "restore"}
  BY <1>1, Zenon
<1>9. Removed(old, splitHeight', disconnected')
  BY ONLY <1>1, <1>3, <1>6, Zenon
<1>10. QED
  BY ONLY <1>4, <1>5, <1>7, <1>8, <1>9, Zenon DEF Between

(* pushBlock in rollback_blockchain_switching: the main chain grows along  *)
(* the path to the old tail.                                               *)
LEMMA RestoreBetween ==
    ASSUME Inv, restore, NEW old \in Blocks, NEW new \in Blocks,
           SwitchFrom(old, new, altChain, discard), Between(old, new)
    PROVE  Between(old, new)'
<1> DEFINE n == Len(blocks)
           h == splitHeight
           b == Path[old][n + 1]
<1>1. /\ op = "restore" /\ next <= Len(disconnected) /\ pushBlock(disconnected[next])
      /\ disconnected' = disconnected /\ op' = "restore" /\ altChain' = altChain
  BY Zenon DEF restore, locals
<1>2. n \in Nat /\ n >= 1 /\ Len(disconnected) \in Nat /\ h \in Nat \ {0} /\ h <= n
  BY <1>1, TailFacts DEF Inv, SwitchInv
<1>3. Below(tail, old) /\ Removed(old, h, disconnected) /\ TxsKept(old)
  BY <1>1, Zenon DEF Between
<1>4. next \in 1 .. Len(disconnected) /\ h + next = n + 1
  BY <1>1, <1>2 DEF next
<1>5. disconnected[next] = b
  BY ONLY <1>3, <1>4, Zenon DEF Removed
<1>6. n < Len(Path[old])
  BY <1>2, <1>3, <1>4, SMTT(40) DEF Removed
<1>7. b \in Blocks /\ Below(b, old)
  BY <1>3, <1>6, NextOnPath, Zenon DEF Inv
<1>8. tail' = b /\ TxsKept(old)'
  BY <1>1, <1>3, <1>5, <1>7, PushEffect, ZenonT(60) DEF Inv, TxsKept
<1>9. h' = h
  BY <1>1, Zenon DEF splitHeight
<1>10. Below(tail', old) /\ Removed(old, splitHeight', disconnected')
  BY ONLY <1>1, <1>3, <1>7, <1>8, <1>9, Zenon
<1>11. QED
  BY ONLY <1>1, <1>8, <1>10, Zenon DEF Between

(* A failed pushBlock leaves no trace when no block fails half way.        *)
LEMMA CleanFailure ==
    ASSUME Oversize \cup Throws = {}, NEW b, pushBlockFails(b)
    PROVE  UNCHANGED chain /\ ~blockAccepted(b)
<1>1. b \notin Oversize /\ b \notin Throws
  BY Zenon
<1>2. /\ UNCHANGED blocks /\ UNCHANGED <<txMap, spentKeys, pool>>
      /\ ~headerAccepted(b) \/ ~checkTransactionInputs(TxsOf[b]) \/ b \in BadBody
  BY <1>1, Zenon DEF pushBlockFails
<1>3. QED
  BY <1>2, Zenon DEF chain, blockAccepted

(* A step of a switch that leaves the blocks alone.                        *)
LEMMA StillBetween ==
    ASSUME Inv, blocks' = blocks, Oversize \cup Throws = {} => pool' = pool,
           altChain' = altChain, disconnected' = disconnected, op # "idle",
           NEW old \in Blocks, NEW new \in Blocks,
           SwitchFrom(old, new, altChain, discard), Between(old, new),
           \/ op' = op
           \/ op \in {"connect", "demote"} /\ op' = "rollback"
           \/ op = "connect" /\ op' = "restore" /\ Len(blocks) = splitHeight
    PROVE  Between(old, new)'
<1>1. /\ tail' = tail /\ splitHeight' = splitHeight
      /\ blocks' = blocks /\ disconnected' = disconnected /\ TxsKept(old)'
  BY Zenon DEF tail, splitHeight, Between, TxsKept
<1>2. CASE op' = op
  BY ONLY <1>1, <1>2, Between(old, new), Zenon DEF Between
<1>3. CASE op \in {"connect", "demote"} /\ op' = "rollback"
  BY ONLY <1>1, <1>3, Between(old, new), Zenon DEF Between
<1>4. CASE op = "connect" /\ op' = "restore" /\ Len(blocks) = splitHeight
  <2>1. Below(tail, new) /\ Removed(old, splitHeight, disconnected)
    BY <1>4, Zenon DEF Between
  <2>2. tail = Path[new][splitHeight]
    <3>1. Len(Path[tail]) = Len(blocks)
      BY TailFacts, Zenon DEF Inv
    <3>2. QED
      BY ONLY <1>4, <2>1, <3>1, Zenon DEF Below
  <2>3. splitHeight \in 1 .. Len(Path[old]) /\ Path[old][splitHeight] = Path[new][splitHeight]
    BY ForkFacts, Zenon
  <2>4. Below(tail, old)
    BY ONLY <2>2, <2>3, old \in Blocks, OnPath, Zenon
  <2>5. QED
    BY ONLY <1>1, <1>4, <2>1, <2>4, Zenon DEF Between
<1>5. QED
  BY <1>2, <1>3, <1>4, Zenon

(* Every step keeps ResumeInv.                                             *)
LEMMA NextResumes ==
    ASSUME Inv, ResumeInv, [OperatorNext]_vars
    PROVE  ResumeInv'
<1>1. /\ blocks \in Seq(Blocks) /\ Len(blocks) \in Nat /\ ChainInv /\ VettedAlong(blocks)
  BY TailFacts, Zenon DEF Inv, ResumeInv
<1>2. ASSUME op' = "idle", VettedAlong(blocks')
      PROVE  ResumeInv'
  BY <1>2, Zenon DEF ResumeInv
<1>3. /\ UNCHANGED chain \/ UNCHANGED blocks => VettedAlong(blocks')
      /\ \A b : pushBlockFails(b) => VettedAlong(blocks')
  BY <1>1, Zenon DEF chain, pushBlockFails
<1>4. ASSUME NEW b \in Blocks \ {Genesis}, addToMainChain(b)
      PROVE  ResumeInv'
  <2>1. op' = "idle" /\ (pushBlock(b) \/ pushBlockFails(b))
    BY <1>4, Zenon DEF addToMainChain, locals
  <2>2. VettedAlong(blocks')
    BY <1>1, <1>3, <2>1, PushEffect, Zenon
  <2>3. QED
    BY <1>2, <2>1, <2>2, Zenon
<1>5. ASSUME NEW b \in Blocks \ {Genesis}, addAlternative(b)
      PROVE  ResumeInv'
  BY <1>2, <1>3, <1>5, Zenon DEF addAlternative, locals
<1>6. ASSUME NEW b \in Blocks \ {Genesis}, startSwitch(b)
      PROVE  ResumeInv'
  BY <1>6, StartResumes, Zenon
<1>7. ASSUME op # "idle", op' # "idle", altChain' = altChain, discard' = discard,
             VettedAlong(blocks'),
             \A old, new \in Blocks :
                SwitchFrom(old, new, altChain, discard) /\ Between(old, new)
                   => Between(old, new)'
      PROVE  ResumeInv'
  <2>1. PICK old \in Blocks, new \in Blocks :
           SwitchFrom(old, new, altChain, discard) /\ Between(old, new)
    BY <1>7, Zenon DEF ResumeInv
  <2>2. SwitchFrom(old, new, altChain', discard') /\ Between(old, new)'
    BY <1>7, <2>1, Zenon
  <2>3. QED
    BY <1>7, <2>2, Zenon DEF ResumeInv
<1>8. popBlock /\ op \in {"disconnect", "rollback"} => VettedAlong(blocks')
  <2>1. op \in {"disconnect", "rollback"} => Len(blocks) >= 2
    BY <1>1 DEF Inv, SwitchInv
  <2>2. QED
    BY <1>1, <2>1, PopEffect, Zenon
<1>9. CASE disconnect
  <2>1. /\ op = "disconnect" /\ popBlock /\ op' # "idle"
        /\ altChain' = altChain /\ discard' = discard
    BY <1>9, Zenon DEF disconnect
  <2>2. QED
    BY <1>7, <1>8, <1>9, <2>1, DisconnectBetween, Zenon
<1>10. CASE connect
  <2>1. /\ op = "connect" /\ pushBlock(altChain[next]) /\ op' # "idle"
        /\ altChain' = altChain /\ discard' = discard
    BY <1>10, Zenon DEF connect
  <2>2. altChain[next] \in Blocks
    <3>1. altChain \in Seq(Blocks) /\ Len(altChain) \in Nat /\ splitHeight \in Nat
      BY <2>1 DEF Inv, SwitchInv
    <3>2. next \in 1 .. Len(altChain)
      BY <1>1, <2>1, <3>1, SMTT(40) DEF Inv, SwitchInv, next
    <3>3. QED
      BY <3>1, <3>2
  <2>3. VettedAlong(blocks')
    BY <1>1, <2>1, <2>2, PushEffect, Zenon
  <2>4. QED
    BY <1>7, <1>10, <2>1, <2>3, ConnectBetween, Zenon
<1>11. CASE connectFails
  <2>1. /\ op = "connect" /\ pushBlockFails(altChain[next])
        /\ op' = IF Len(blocks) > splitHeight THEN "rollback" ELSE "restore"
        /\ altChain' = altChain /\ discard' = discard /\ disconnected' = disconnected
    BY <1>11, Zenon DEF connectFails
  <2>2. blocks' = blocks /\ (Oversize \cup Throws = {} => pool' = pool)
    BY <2>1, CleanFailure, Zenon DEF pushBlockFails, chain
  <2>3. op' = "rollback" \/ (op' = "restore" /\ Len(blocks) = splitHeight)
    <3>1. splitHeight \in Nat /\ splitHeight <= Len(blocks)
      BY <2>1, Zenon DEF Inv, SwitchInv
    <3>2. QED
      BY ONLY <1>1, <2>1, <3>1
  <2>4. QED
    BY <1>3, <1>7, <2>1, <2>2, <2>3, StillBetween, Zenon
<1>12. CASE demote
  <2>1. /\ op = "demote" /\ op' = "demote" /\ UNCHANGED chain
        /\ altChain' = altChain /\ discard' = discard /\ disconnected' = disconnected
    BY <1>12, Zenon DEF demote
  <2>2. blocks' = blocks /\ pool' = pool
    BY <2>1, Zenon DEF chain
  <2>3. QED
    BY <1>3, <1>7, <2>1, <2>2, StillBetween, Zenon
<1>13. CASE demoteFails
  <2>1. /\ op = "demote" /\ op' = "rollback" /\ UNCHANGED chain
        /\ altChain' = altChain /\ discard' = discard /\ disconnected' = disconnected
    BY <1>13, Zenon DEF demoteFails
  <2>2. blocks' = blocks /\ pool' = pool
    BY <2>1, Zenon DEF chain
  <2>3. QED
    BY <1>3, <1>7, <2>1, <2>2, StillBetween, Zenon
<1>14. CASE rollback
  <2>1. /\ op = "rollback" /\ popBlock /\ op' # "idle"
        /\ altChain' = altChain /\ discard' = discard
    BY <1>14, Zenon DEF rollback
  <2>2. QED
    BY <1>7, <1>8, <1>14, <2>1, RollbackBetween, Zenon
<1>15. CASE restore
  <2>1. /\ op = "restore" /\ pushBlock(disconnected[next]) /\ op' # "idle"
        /\ altChain' = altChain /\ discard' = discard /\ next <= Len(disconnected)
    BY <1>15, Zenon DEF restore, locals
  <2>2. disconnected[next] \in Blocks
    <3>1. disconnected \in Seq(Blocks) /\ Len(disconnected) \in Nat /\ splitHeight \in Nat
      BY <2>1 DEF Inv, SwitchInv
    <3>2. next \in 1 .. Len(disconnected)
      BY <1>1, <2>1, <3>1 DEF Inv, SwitchInv, next
    <3>3. QED
      BY <3>1, <3>2
  <2>3. VettedAlong(blocks')
    BY <1>1, <2>1, <2>2, PushEffect, Zenon
  <2>4. QED
    BY <1>7, <1>15, <2>1, <2>3, RestoreBetween, Zenon
<1>16. CASE switched \/ restored
  BY <1>2, <1>3, <1>16, Zenon DEF switched, restored, endSwitch
<1>17. CASE restoreFails
  BY <1>2, <1>3, <1>17, Zenon DEF restoreFails, endSwitch
<1>18. CASE poolStep
  <2>1. op' = "idle" /\ blocks' = blocks
    BY <1>18, Zenon DEF poolStep, add_new_tx, removeExpiredTransaction, locals
  <2>2. QED
    BY <1>1, <1>2, <2>1, Zenon
<1>19. ASSUME NEW height \in 0 .. Len(blocks), rollbackBlockchainTo(height)
       PROVE  ResumeInv'
  <2>1. op' = "idle" /\ Len(blocks) > height + 1 /\ blocks' = SubSeq(blocks, 1, height + 1)
    BY <1>19, Zenon DEF rollbackBlockchainTo, locals
  <2>2. /\ Len(blocks') = height + 1 /\ \A i \in 1 .. height + 1 : blocks'[i] = blocks[i]
    BY <1>1, <2>1
  <2>3. \A i \in 2 .. height + 1 : i \in 2 .. Len(blocks) /\ i \in 1 .. height + 1
    BY <1>1, <2>1
  <2>4. VettedAlong(blocks')
    BY ONLY <1>1, <2>2, <2>3, Zenon DEF VettedAlong
  <2>5. QED
    BY <1>2, <2>1, <2>4, Zenon
<1>20. CASE UNCHANGED vars
  <2>1. UNCHANGED <<blocks, pool, op, altChain, disconnected, discard>>
    BY <1>20, Zenon DEF vars
  <2>2. QED
    BY <2>1, Zenon DEF ResumeInv, Between, TxsKept, tail, splitHeight
<1>21. QED
  BY <1>4, <1>5, <1>6, <1>9, <1>10, <1>11, <1>12, <1>13, <1>14, <1>15, <1>16, <1>17, <1>18,
     <1>19, <1>20, SMTT(40)
     DEF OperatorNext, Next, addNewBlock, switchStep, operatorStep

-----------------------------------------------------------------------------
(* What the invariant says where a switch ends.                            *)
LEMMA RestoreAccepted ==
    ASSUME Oversize \cup Throws = {}, Inv, ResumeInv
    PROVE  RollbackCanRestore
<1> SUFFICES ASSUME op = "restore", next <= Len(disconnected)
             PROVE  blockAccepted(disconnected[next])
  BY Zenon DEF RollbackCanRestore
<1>1. PICK old \in Blocks, new \in Blocks :
         SwitchFrom(old, new, altChain, discard) /\ Between(old, new)
  BY Zenon DEF ResumeInv
<1>2. /\ Below(tail, old) /\ Removed(old, splitHeight, disconnected)
      /\ TxsAlong(Path[old]) \subseteq pool \cup TxsAlong(blocks)
  BY <1>1, Zenon DEF Between, TxsKept
<1>3. SpentOnce(Path[old]) /\ VettedAlong(Path[old])
  BY <1>1, Zenon DEF SwitchFrom
<1>4. Len(blocks) \in Nat /\ ChainInv
  BY TailFacts, Zenon DEF Inv
<1>5. splitHeight \in Nat /\ splitHeight <= Len(blocks) /\ Len(disconnected) \in Nat
  BY DEF Inv, SwitchInv
<1>6. next \in 1 .. Len(disconnected) /\ splitHeight + next = Len(blocks) + 1
  BY <1>4, <1>5 DEF next
<1>7. disconnected[next] = Path[old][Len(blocks) + 1] /\ Len(Path[old]) = splitHeight + Len(disconnected)
  BY ONLY <1>2, <1>6, Zenon DEF Removed
<1>8. Len(blocks) < Len(Path[old])
  BY ONLY <1>4, <1>5, <1>6, <1>7
<1>9. blockAccepted(Path[old][Len(blocks) + 1])
  BY ONLY Oversize \cup Throws = {}, old \in Blocks, <1>2, <1>3, <1>4, <1>8, CanPushAgain, Zenon
<1>10. QED
  BY ONLY <1>7, <1>9, Zenon

(* The end of a switch: on the new tail, or back on the old one.           *)
LEMMA EndsWhole ==
    ASSUME Oversize \cup Throws = {}, Inv, ResumeInv, OperatorNext, SwitchEnds
    PROVE  /\ blocks' = blocks
           /\ \E old, new \in Blocks :
                 /\ SwitchFrom(old, new, altChain, discard)
                 /\ Removed(old, splitHeight, disconnected)
                 /\ old = lastOf(disconnected) /\ new = lastOf(altChain)
                 /\ \/ blocks = Path[new] /\ tail = new
                    \/ blocks = Path[old] /\ tail = old
<1>1. op # "idle" /\ op' = "idle"
  BY Zenon DEF SwitchEnds
<1>2. switched \/ restored \/ restoreFails
  <2>1. ~(\E b \in Blocks \ {Genesis} : addNewBlock(b)) /\ ~poolStep /\ ~operatorStep
    BY <1>1, Zenon DEF addNewBlock, addToMainChain, addAlternative, startSwitch, poolStep, add_new_tx,
                removeExpiredTransaction, operatorStep, rollbackBlockchainTo
  <2>2. ~disconnect /\ ~connect /\ ~connectFails /\ ~demote /\ ~demoteFails /\ ~rollback /\ ~restore
    BY <1>1, Zenon DEF disconnect, connect, connectFails, demote, demoteFails, rollback, restore, locals
  <2>3. QED
    BY <2>1, <2>2, Zenon DEF OperatorNext, Next, switchStep
<1>3. ~restoreFails
  BY RestoreAccepted, CleanFailure, Zenon DEF restoreFails, RollbackCanRestore
<1>4. blocks' = blocks
  BY <1>2, <1>3, Zenon DEF switched, restored, chain
<1>5. PICK old \in Blocks, new \in Blocks :
         SwitchFrom(old, new, altChain, discard) /\ Between(old, new)
  BY <1>1, Zenon DEF ResumeInv
<1>6. op \in {"demote", "restore"} /\ (op = "restore" => next > Len(disconnected))
      /\ (op = "demote" => switched)
  BY <1>2, <1>3, Zenon DEF switched, restored
<1>7. Removed(old, splitHeight, disconnected)
  BY <1>5, <1>6, Zenon DEF Between
<1>8. /\ Len(blocks) \in Nat /\ tail \in Blocks /\ blocks = Path[tail] /\ Len(Path[tail]) = Len(blocks)
      /\ splitHeight \in Nat \ {0} /\ Len(disconnected) \in Nat
      /\ altChain \in Seq(Blocks) /\ Len(altChain) \in Nat /\ Len(altChain) >= 1
  BY <1>1, TailFacts DEF Inv, SwitchInv
<1>9. /\ splitHeight < Len(Path[old]) /\ Len(Path[new]) = splitHeight + Len(altChain)
      /\ \A i \in 1 .. Len(altChain) : altChain[i] = Path[new][splitHeight + i]
  BY <1>5, Zenon DEF SwitchFrom, splitHeight
<1>10. new = lastOf(altChain)
  <2>1. Len(altChain) \in 1 .. Len(altChain) /\ Path[new][Len(Path[new])] = new
    BY <1>8, PathFacts
  <2>2. QED
    BY ONLY <1>9, <2>1, Zenon DEF lastOf
<1>11. old = lastOf(disconnected)
  <2>1. Len(Path[old]) = splitHeight + Len(disconnected)
        /\ \A i \in 1 .. Len(disconnected) : disconnected[i] = Path[old][splitHeight + i]
    BY <1>7, Zenon DEF Removed
  <2>2. Len(disconnected) \in 1 .. Len(disconnected) /\ Path[old][Len(Path[old])] = old
    BY <1>8, <1>9, <2>1, PathFacts, SMTT(40)
  <2>3. QED
    BY ONLY <2>1, <2>2, Zenon DEF lastOf
<1>12. CASE op = "demote"
  <2>1. Below(tail, new) /\ Len(blocks) = splitHeight + Len(altChain)
    BY <1>5, <1>12, Zenon DEF Between, Inv, SwitchInv
  <2>2. Len(Path[tail]) >= Len(Path[new])
    BY <1>8, <1>9, <2>1
  <2>3. tail = new
    BY <1>8, <2>1, <2>2, BelowSameLength, Zenon
  <2>4. QED
    BY <1>4, <1>5, <1>7, <1>8, <1>10, <1>11, <2>3, Zenon
<1>13. CASE op = "restore"
  <2>1. Below(tail, old)
    BY <1>5, <1>13, Zenon DEF Between
  <2>2. Len(Path[tail]) >= Len(Path[old])
    BY <1>6, <1>7, <1>8, <1>13, SMTT(40) DEF Removed, next
  <2>3. tail = old
    BY <1>8, <2>1, <2>2, BelowSameLength, Zenon
  <2>4. QED
    BY <1>4, <1>5, <1>7, <1>8, <1>10, <1>11, <2>3, Zenon
<1>14. QED
  BY <1>6, <1>12, <1>13, Zenon

-----------------------------------------------------------------------------
(* ResumeInv holds at the start.                                           *)
LEMMA InitResumes == Init => ResumeInv
<1>1. Init => op = "idle" /\ Len(blocks) = 1
  BY Zenon DEF Init
<1>2. 2 .. 1 = {}
  OBVIOUS
<1>3. Init => VettedAlong(blocks)
  BY <1>1, <1>2, Zenon DEF VettedAlong
<1>4. QED
  BY <1>1, <1>3, Zenon DEF ResumeInv

(* The two invariants hold in every state, console rollbacks included.     *)
LEMMA ResumeAlways == OperatorSpec => [](Inv /\ ResumeInv)
<1>1. Init => Inv /\ ResumeInv
  BY InitInv, InitResumes, Zenon
<1>2. Inv /\ ResumeInv /\ [OperatorNext]_vars => Inv' /\ ResumeInv'
  BY NextInv, NextResumes, Zenon
<1>3. QED
  BY <1>1, <1>2, PTL DEF OperatorSpec

(* rollback_blockchain_switching puts every block of the original chain    *)
(* back: its "PANIC!!!" is never reached.                                  *)
THEOREM RollbackNeverPanics ==
    ASSUME Oversize \cup Throws = {}
    PROVE  OperatorSpec => []RollbackCanRestore
<1>1. Inv /\ ResumeInv => RollbackCanRestore
  BY RestoreAccepted, Zenon
<1>2. QED
  BY <1>1, ResumeAlways, PTL

(* A switch ends on the whole new chain or on the whole old chain, however *)
(* many of its steps failed.                                               *)
THEOREM SwitchIsAllOrNothing ==
    ASSUME Oversize \cup Throws = {}
    PROVE  OperatorSpec => SwitchAllOrNothing
<1>1. Inv /\ ResumeInv /\ [OperatorNext]_vars =>
         [SwitchEnds => blocks' \in {Path[lastOf(altChain)], Path[lastOf(disconnected)]}]_vars
  <2> SUFFICES ASSUME Inv, ResumeInv, OperatorNext, SwitchEnds
               PROVE  blocks' \in {Path[lastOf(altChain)], Path[lastOf(disconnected)]}
    BY Zenon
  <2>1. QED
    BY EndsWhole, Zenon
<1>2. QED
  BY <1>1, ResumeAlways, PTL DEF OperatorSpec, SwitchAllOrNothing

(* Unless a checkpoint asked for the switch, the chain it ends on has at   *)
(* least the work of the chain it started from.                            *)
THEOREM SwitchNeverLosesWork ==
    ASSUME Oversize \cup Throws = {}
    PROVE  OperatorSpec => SwitchKeepsWork
<1>1. Inv /\ ResumeInv /\ [OperatorNext]_vars =>
         [SwitchEnds /\ ~discard => Work[lastOf(blocks')] >= Work[lastOf(disconnected)]]_vars
  <2> SUFFICES ASSUME Inv, ResumeInv, OperatorNext, SwitchEnds, ~discard
               PROVE  Work[lastOf(blocks')] >= Work[lastOf(disconnected)]
    BY Zenon
  <2>1. PICK old \in Blocks, new \in Blocks :
           /\ SwitchFrom(old, new, altChain, discard)
           /\ old = lastOf(disconnected) /\ (tail = new \/ tail = old)
    BY EndsWhole, Zenon
  <2>2. blocks' = blocks /\ lastOf(blocks') = tail
    BY EndsWhole, Zenon DEF lastOf, tail
  <2>3. Work[old] < Work[new] /\ Work[old] \in Nat /\ Work[new] \in Nat
    BY <2>1, WorkAssumption, Zenon DEF SwitchFrom
  <2>4. QED
    BY <2>1, <2>2, <2>3
<1>2. QED
  BY <1>1, ResumeAlways, PTL DEF OperatorSpec, SwitchKeepsWork

(* The comparison of the transactions before a switch does what it is for: *)
(* what was confirmed before the switch is confirmed after it.             *)
THEOREM SwitchLosesNoTransaction ==
    ASSUME Oversize \cup Throws = {}
    PROVE  OperatorSpec => NoConfirmedTxLost
<1>1. Inv /\ ResumeInv /\ [OperatorNext]_vars =>
         [SwitchEnds => TxsIn(Elements(disconnected)) \subseteq TxsIn(Elements(blocks'))]_vars
  <2> SUFFICES ASSUME Inv, ResumeInv, OperatorNext, SwitchEnds
               PROVE  TxsIn(Elements(disconnected)) \subseteq TxsIn(Elements(blocks'))
    BY Zenon
  <2>1. PICK old \in Blocks, new \in Blocks :
           /\ SwitchFrom(old, new, altChain, discard)
           /\ Removed(old, splitHeight, disconnected)
           /\ blocks = Path[new] \/ blocks = Path[old]
    BY EndsWhole, Zenon
  <2>2. blocks' = blocks
    BY EndsWhole, Zenon
  <2>3. /\ splitHeight \in Nat /\ Len(Path[old]) \in Nat /\ Len(disconnected) \in Nat
        /\ Len(altChain) \in Nat
    BY PathFacts, SMTT(40) DEF Inv, SwitchInv, SwitchEnds
  <2>4. /\ Len(Path[old]) = splitHeight + Len(disconnected)
        /\ \A i \in 1 .. Len(disconnected) : disconnected[i] = Path[old][splitHeight + i]
    BY <2>1, Zenon DEF Removed
  <2>5. /\ Len(Path[new]) = splitHeight + Len(altChain)
        /\ \A i \in 1 .. Len(altChain) : altChain[i] = Path[new][splitHeight + i]
        /\ \A i \in splitHeight + 1 .. Len(Path[old]) :
               TxsOf[Path[old][i]] \subseteq TxsIn(Elements(altChain))
    BY <2>1, Zenon DEF SwitchFrom, splitHeight
  <2>6. \A i \in 1 .. Len(disconnected) : /\ splitHeight + i \in splitHeight + 1 .. Len(Path[old])
                                          /\ splitHeight + i \in 1 .. Len(Path[old])
    BY <2>3, <2>4
  <2>7. CASE blocks = Path[old]
    <3>1. Elements(disconnected) \subseteq Elements(blocks)
      BY ONLY <2>4, <2>6, <2>7, Zenon DEF Elements
    <3>2. QED
      BY ONLY <2>2, <3>1, Zenon DEF TxsIn
  <2>8. CASE blocks = Path[new]
    <3>1. \A i \in 1 .. Len(altChain) : splitHeight + i \in 1 .. Len(Path[new])
      BY <2>3, <2>5
    <3>2. Elements(altChain) \subseteq Elements(blocks)
      BY ONLY <2>5, <2>8, <3>1, Zenon DEF Elements
    <3>3. \A b \in Elements(disconnected) : TxsOf[b] \subseteq TxsIn(Elements(altChain))
      <4>1. \A i \in 1 .. Len(disconnected) :
               TxsOf[disconnected[i]] \subseteq TxsIn(Elements(altChain))
        BY ONLY <2>4, <2>5, <2>6, Zenon
      <4>2. QED
        BY ONLY <4>1, Zenon DEF Elements
    <3>4. TxsIn(Elements(disconnected)) \subseteq TxsIn(Elements(altChain))
      BY ONLY <3>3, Zenon DEF TxsIn
    <3>5. TxsIn(Elements(altChain)) \subseteq TxsIn(Elements(blocks'))
      BY ONLY <2>2, <3>2, Zenon DEF TxsIn
    <3>6. QED
      BY <3>4, <3>5, Zenon
  <2>9. QED
    BY <2>1, <2>7, <2>8, Zenon
<1>2. QED
  BY <1>1, ResumeAlways, PTL DEF OperatorSpec, NoConfirmedTxLost
=============================================================================
