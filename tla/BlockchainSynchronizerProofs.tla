-------------------- MODULE BlockchainSynchronizerProofs --------------------
(***************************************************************************)
(* Any number of consumers, any chains and pools of the node, any failures: *)
(* the shortest consumer's chain begins every other one, and a thread that *)
(* waits has missed nothing.                                               *)
(*                                                                         *)
(* updateConsumers goes through the consumers in their order and stops at  *)
(* the first that fails, so that those before it may be on the new branch  *)
(* and those after it on the old one.  What then keeps the next answer     *)
(* right is the one between them, which was detached to where both agree:  *)
(* that is BranchInv.                                                      *)
(***************************************************************************)
EXTENDS BlockchainSynchronizer, WellFoundedInduction, TLAPS

ChainIds == UNION {Range(c) : c \in NodeChains}

SyncTypes ==
    /\ nodeChain \in NodeChains /\ nodePool \in SUBSET PoolIds
    /\ notices \in SUBSET {"block", "pool"}
    /\ m_currentState \in DOMAIN Rank /\ m_futureState \in DOMAIN Rank
    /\ blocks \in [ConsumerIndices -> Seq(ChainIds)]
    /\ \A i \in ConsumerIndices : Len(blocks[i]) > 0 /\ blocks[i][1] = nodeChain[1]
    /\ known \in [ConsumerIndices -> SUBSET PoolIds]

(* The places of the thread and the states: it observes the node whenever  *)
(* it is not stopped.                                                      *)
ControlInv ==
    /\ m_currentState = "stopped" => m_futureState \in {"blockchainSync", "stopped"}
    /\ m_currentState # "stopped" => observing
    /\ at \in {"queryBlocks", "processBlocks", "queryUnion", "queryIntersection",
               "processPoolTxs", "waiting"} => m_currentState # "stopped"
    /\ at \in {"off", "last"} => m_futureState = "stopped"

(* Two consumers are on one branch, or one between them is shorter.        *)
BranchInv ==
    \A i, j \in ConsumerIndices : i < j =>
        \/ Begins(blocks[i], blocks[j])
        \/ Begins(blocks[j], blocks[i])
        \/ \E k \in ConsumerIndices : /\ i < k /\ k < j
                                      /\ Begins(blocks[k], blocks[i])
                                      /\ Begins(blocks[k], blocks[j])

(* No consumer is ahead of what the node has had.                          *)
HeldInv ==
    \A i \in ConsumerIndices : \E c \in NodeChains :
        Work[c] <= Work[nodeChain] /\ Begins(blocks[i], c)

(* The answer in hand is a part of chain c, and all consumers have its     *)
(* first block and what comes before it.  If the answer ends before c does *)
(* there is a consumer that lacks some of it.                              *)
AnswerEnd == response.start + Len(response.blocks)

AnswerOf(c) ==
    /\ response.start \in Nat /\ response.blocks \in Seq(ChainIds)
    /\ Len(response.blocks) > 0 /\ AnswerEnd <= Len(c)
    /\ \A k \in 1..Len(response.blocks) : response.blocks[k] = c[response.start + k]
    /\ \A i \in ConsumerIndices : /\ response.start < Len(blocks[i])
                                  /\ \A k \in 1..(response.start + 1) : blocks[i][k] = c[k]
    /\ AnswerEnd < Len(c) => \E i \in ConsumerIndices : ~Begins(SubSeq(c, 1, AnswerEnd), blocks[i])

(* A round of blocks, or of the pool, is due.                              *)
BlocksDue == m_futureState \in {"blockchainSync", "stopped"} \/ "block" \in notices \/ missed

PoolDue == m_futureState \in {"poolSync", "blockchainSync", "stopped"} \/ notices # {} \/ missed

AnswerInv ==
    /\ at = "processBlocks" =>
           \E c \in NodeChains : /\ AnswerOf(c) /\ Work[c] <= Work[nodeChain]
                                 /\ c = nodeChain \/ BlocksDue
    /\ at = "queryIntersection" => PoolDue \/ response.deleted = PoolUnion \ nodePool
    /\ at = "processPoolTxs" =>
           /\ response.new \in SUBSET PoolIds
           /\ \/ PoolDue
              \/ \A i \in ConsumerIndices : (known[i] \cup response.new) \ response.deleted = nodePool

(* Nothing was missed: a round is due or under way, or there is nothing to *)
(* do.                                                                     *)
DueInv ==
    /\ \/ BlocksDue \/ at \in {"queryBlocks", "processBlocks"}
       \/ \A i \in ConsumerIndices : blocks[i] = nodeChain
    /\ \/ PoolDue \/ at \in {"queryUnion", "queryIntersection", "processPoolTxs"}
       \/ \A i \in ConsumerIndices : known[i] = nodePool

SyncInv == SyncTypes /\ ControlInv /\ BranchInv /\ HeldInv /\ AnswerInv /\ DueInv

-----------------------------------------------------------------------------
(* A set of naturals that is not empty has a least element, and a greatest *)
(* one if it is bounded.                                                   *)
LEMMA LeastNatural ==
    ASSUME NEW S, S \subseteq Nat, S # {}
    PROVE  \E k \in S : \A j \in S : k <= j
<1>1. \E k \in S : \A j \in S : ~(<<j, k>> \in OpToRel(<, Nat))
  BY NatLessThanWellFounded, WFMin, Zenon
<1>2. \A j, k \in Nat : j < k => <<j, k>> \in OpToRel(<, Nat)
  BY Zenon DEF OpToRel
<1>3. \E k \in S : \A j \in S : ~(j < k)
  BY <1>1, <1>2, Zenon
<1>4. QED
  BY ONLY <1>3, S \subseteq Nat

(* A bounded set of naturals has a greatest element, and it is Max.        *)
LEMMA GreatestNatural ==
    ASSUME NEW S, NEW b \in Nat, S \subseteq 0..b, S # {}
    PROVE  Max(S) \in S /\ \A j \in S : j <= Max(S)
<1> DEFINE T == {b - x : x \in S}
<1>1. T \subseteq Nat /\ T # {}
  <2>1. \A x \in S : b - x \in Nat
    OBVIOUS
  <2>2. PICK x : x \in S
    BY Zenon
  <2>3. b - x \in T
    BY <2>2, Zenon
  <2>4. QED
    BY <2>1, <2>3, Zenon
<1>2. PICK t \in T : \A u \in T : t <= u
  BY <1>1, LeastNatural, Zenon
<1>3. PICK x \in S : t = b - x
  BY Zenon
<1>4. \A y \in S : x >= y
  <2> TAKE y \in S
  <2>1. b - x <= b - y
    BY <1>2, <1>3, Zenon
  <2>2. x \in Nat /\ y \in Nat
    OBVIOUS
  <2>3. QED
    BY ONLY <2>1, <2>2, b \in Nat
<1>5. Max(S) \in S /\ \A y \in S : Max(S) >= y
  BY <1>4, Zenon DEF Max
<1>6. QED
  BY <1>5, Zenon

(* Min is the least element.                                               *)
LEMMA LeastOf ==
    ASSUME NEW S, S \subseteq Nat, S # {}
    PROVE  Min(S) \in S /\ \A j \in S : Min(S) <= j
BY LeastNatural, Zenon DEF Min

(* Begins is an order, and the sequences that begin one are on one branch. *)
LEMMA BeginsOrder ==
    ASSUME NEW X
    PROVE  /\ \A s \in Seq(X) : Begins(s, s)
           /\ \A s, t, u \in Seq(X) : Begins(s, t) /\ Begins(t, u) => Begins(s, u)
           /\ \A s, t, u \in Seq(X) : Begins(s, u) /\ Begins(t, u)
                                      => Begins(s, t) \/ Begins(t, s)
           /\ \A s, t \in Seq(X) : Begins(s, t) /\ Begins(t, s) => s = t
<1>1. \A s \in Seq(X) : Len(s) \in Nat
  OBVIOUS
<1>2. ASSUME NEW s \in Seq(X), NEW t \in Seq(X), NEW u \in Seq(X), Begins(s, t), Begins(t, u)
      PROVE  Begins(s, u)
  BY <1>1, <1>2 DEF Begins
<1>3. ASSUME NEW s \in Seq(X), NEW t \in Seq(X), NEW u \in Seq(X), Begins(s, u), Begins(t, u)
      PROVE  Begins(s, t) \/ Begins(t, s)
  BY <1>1, <1>3 DEF Begins
<1>4. ASSUME NEW s \in Seq(X), NEW t \in Seq(X), Begins(s, t), Begins(t, s)
      PROVE  s = t
  BY <1>1, <1>4 DEF Begins
<1>5. QED
  BY <1>1, <1>2, <1>3, <1>4 DEF Begins

(* What the assumptions say of the chains.                                 *)
LEMMA ChainFacts ==
    /\ \A c \in NodeChains : c \in Seq(ChainIds) /\ Len(c) \in Nat /\ Len(c) > 0
    /\ \A c, d \in NodeChains : c[1] = d[1]
    /\ \A c, d \in NodeChains : Begins(c, d) /\ c # d => Work[c] < Work[d]
    /\ \A c \in NodeChains : Work[c] \in Nat
<1>1. ASSUME NEW c \in NodeChains
      PROVE  c \in Seq(ChainIds) /\ Len(c) \in Nat /\ Len(c) > 0 /\ Head(c) = c[1]
  <2>1. c \in Seq(Range(c)) /\ c # <<>>
    BY SyncAssumption, Zenon
  <2>2. Range(c) \subseteq ChainIds
    BY Zenon DEF ChainIds
  <2>3. Len(c) \in Nat /\ Len(c) > 0 /\ Head(c) = c[1]
    BY <2>1
  <2>4. \A k \in 1..Len(c) : c[k] \in ChainIds
    BY <2>1, <2>2
  <2>5. c = [k \in 1..Len(c) |-> c[k]]
    BY <2>1
  <2>6. QED
    BY <2>3, <2>4, <2>5
<1>2. QED
  BY <1>1, SyncAssumption, Zenon

(* CommonPrefixLength is the length of the longest common prefix.          *)
LEMMA CommonPrefix ==
    ASSUME NEW X, NEW s \in Seq(X), NEW t \in Seq(X), Len(s) > 0, Len(t) > 0, s[1] = t[1]
    PROVE  LET n == CommonPrefixLength(s, t)
           IN /\ n \in Nat /\ 0 < n /\ n <= Len(s) /\ n <= Len(t)
              /\ \A k \in 1..n : s[k] = t[k]
              /\ \A m \in Nat : /\ m <= Len(s) /\ m <= Len(t)
                                /\ \A k \in 1..m : s[k] = t[k]
                                => m <= n
<1> DEFINE b == Min({Len(s), Len(t)})
           S == {n \in 0..b : SubSeq(s, 1, n) = SubSeq(t, 1, n)}
<1>1. Len(s) \in Nat /\ Len(t) \in Nat
  OBVIOUS
<1>2. b \in {Len(s), Len(t)} /\ b <= Len(s) /\ b <= Len(t)
  <2> DEFINE L == {Len(s), Len(t)}
  <2>1. L \subseteq Nat /\ L # {}
    BY <1>1, Zenon
  <2>2. Min(L) \in L /\ \A j \in L : Min(L) <= j
    BY <2>1, LeastOf, Zenon
  <2>3. QED
    BY <2>2, Zenon
<1> HIDE DEF b
<1>3. b \in Nat /\ b > 0
  BY <1>1, <1>2, Zenon
<1>4. ASSUME NEW n \in 0..b
      PROVE  (SubSeq(s, 1, n) = SubSeq(t, 1, n)) <=> \A k \in 1..n : s[k] = t[k]
  <2> DEFINE u == SubSeq(s, 1, n)
             v == SubSeq(t, 1, n)
  <2>1. n \in Nat /\ n <= Len(s) /\ n <= Len(t)
    BY <1>1, <1>2, <1>3
  <2>2. u = [k \in 1..n |-> s[k]] /\ v = [k \in 1..n |-> t[k]]
    BY <1>1, <2>1
  <2> HIDE DEF u, v
  <2>3. u = v <=> \A k \in 1..n : s[k] = t[k]
    BY <2>2, Zenon
  <2>4. QED
    BY <2>3, Zenon DEF u, v
<1>5. S \subseteq 0..b /\ S # {}
  <2>1. 0 \in 0..b /\ \A k \in 1..0 : s[k] = t[k]
    BY <1>3
  <2>2. 0 \in S
    BY <1>4, <2>1, Zenon
  <2>3. QED
    BY <2>2, Zenon
<1>6. Max(S) \in S /\ \A j \in S : j <= Max(S)
  BY <1>3, <1>5, GreatestNatural, Zenon
<1>7. 1 \in S
  <2>1. 1 \in 0..b /\ \A k \in 1..1 : s[k] = t[k]
    BY <1>3
  <2>2. QED
    BY <1>4, <2>1, Zenon
<1> DEFINE n == CommonPrefixLength(s, t)
<1>8. n = Max(S)
  BY Zenon DEF CommonPrefixLength, b
<1> HIDE DEF n
<1>9. n \in 0..b /\ \A k \in 1..n : s[k] = t[k]
  BY <1>4, <1>6, <1>8, Zenon
<1>10. ASSUME NEW m \in Nat, m <= Len(s), m <= Len(t), \A k \in 1..m : s[k] = t[k]
       PROVE  m <= n
  <2>1. m \in 0..b
    BY <1>1, <1>2, <1>3, <1>10
  <2>2. m \in S
    BY <1>4, <1>10, <2>1, Zenon
  <2>3. QED
    BY <1>6, <1>8, <2>2, Zenon
<1>11. 1 <= n
  BY <1>6, <1>7, <1>8, Zenon
<1>12. n \in Nat /\ 0 < n /\ n <= Len(s) /\ n <= Len(t)
  BY <1>1, <1>2, <1>3, <1>9, <1>11
<1>13. QED
  BY <1>9, <1>10, <1>12, Zenon DEF n

-----------------------------------------------------------------------------
(* The consumer with the shortest chain.                                   *)
LEMMA ShortestFacts ==
    ASSUME blocks \in [ConsumerIndices -> Seq(ChainIds)]
    PROVE  /\ Shortest \in ConsumerIndices
           /\ \A j \in ConsumerIndices : Len(blocks[Shortest]) <= Len(blocks[j])
<1> DEFINE n == Len(Consumers)
           L == {Len(blocks[i]) : i \in ConsumerIndices}
<1>1. n \in Nat /\ n > 0 /\ ConsumerIndices = 1..n
  BY SyncAssumption DEF ConsumerIndices
<1> HIDE DEF n
<1>2. \A i \in ConsumerIndices : Len(blocks[i]) \in Nat
  OBVIOUS
<1>3. L \subseteq Nat /\ L # {}
  <2>1. 1 \in ConsumerIndices
    BY <1>1
  <2>2. Len(blocks[1]) \in L
    BY <2>1, Zenon
  <2>3. QED
    BY <1>2, <2>2, Zenon
<1>4. PICK l \in L : \A m \in L : l <= m
  BY <1>3, LeastNatural, Zenon
<1> DEFINE S == {i \in ConsumerIndices : Len(blocks[i]) = l}
<1>5. S \subseteq Nat /\ S # {}
  <2>1. PICK i \in ConsumerIndices : Len(blocks[i]) = l
    BY <1>4, Zenon
  <2>2. i \in S
    BY <2>1, Zenon
  <2>3. ConsumerIndices \subseteq Nat
    BY <1>1
  <2>4. QED
    BY <2>2, <2>3, Zenon
<1>6. PICK i \in S : \A j \in S : i <= j
  BY <1>5, LeastNatural, Zenon
<1>7. ASSUME NEW j \in ConsumerIndices
      PROVE  Len(blocks[i]) < Len(blocks[j]) \/ (Len(blocks[i]) = Len(blocks[j]) /\ i <= j)
  <2>1. Len(blocks[i]) = l /\ l <= Len(blocks[j])
    BY <1>4, <1>6, Zenon
  <2>2. CASE Len(blocks[j]) = l
    BY <1>6, <2>1, <2>2, Zenon
  <2>3. CASE Len(blocks[j]) # l
    BY <1>2, <1>6, <2>1, <2>3
  <2>4. QED
    BY <2>2, <2>3, Zenon
<1>8. /\ Shortest \in ConsumerIndices
      /\ \A j \in ConsumerIndices :
            Len(blocks[Shortest]) < Len(blocks[j])
            \/ (Len(blocks[Shortest]) = Len(blocks[j]) /\ Shortest <= j)
  BY <1>6, <1>7, Zenon DEF Shortest
<1>9. QED
  BY <1>2, <1>8

(* The shortest chain begins every other one.                              *)
LEMMA ShortestBegins ==
    ASSUME SyncTypes, BranchInv
    PROVE  /\ Shortest \in ConsumerIndices
           /\ \A j \in ConsumerIndices : Begins(blocks[Shortest], blocks[j])
<1> DEFINE s == Shortest
<1>1. /\ s \in ConsumerIndices
      /\ \A j \in ConsumerIndices : Len(blocks[s]) <= Len(blocks[j])
  BY ShortestFacts, Zenon DEF SyncTypes
<1> HIDE DEF s
<1>2. \A i \in ConsumerIndices : blocks[i] \in Seq(ChainIds) /\ Len(blocks[i]) \in Nat
  BY DEF SyncTypes
<1>3. ASSUME NEW k \in ConsumerIndices, Begins(blocks[k], blocks[s])
      PROVE  Begins(blocks[s], blocks[k])
  BY <1>1, <1>2, <1>3 DEF Begins
<1>4. ASSUME NEW j \in ConsumerIndices
      PROVE  Begins(blocks[s], blocks[j])
  <2>1. \/ Begins(blocks[s], blocks[j])
        \/ Begins(blocks[j], blocks[s])
        \/ \E k \in ConsumerIndices : Begins(blocks[k], blocks[s]) /\ Begins(blocks[k], blocks[j])
    <3>1. s \in Nat /\ j \in Nat
      BY <1>1, SyncAssumption DEF ConsumerIndices
    <3>2. s < j \/ j < s \/ s = j
      BY <3>1
    <3>3. CASE s = j
      BY <1>2, <3>3, BeginsOrder, Zenon
    <3>4. CASE s # j
      BY <1>1, <3>2, <3>4, Zenon DEF BranchInv
    <3>5. QED
      BY <3>3, <3>4, Zenon
  <2>2. ASSUME NEW k \in ConsumerIndices, Begins(blocks[k], blocks[s]), Begins(blocks[k], blocks[j])
        PROVE  Begins(blocks[s], blocks[j])
    BY <1>1, <1>2, <1>3, <2>2, BeginsOrder, Zenon
  <2>3. QED
    BY <1>3, <2>1, <2>2, Zenon
<1>5. QED
  BY <1>1, <1>4, Zenon DEF s

-----------------------------------------------------------------------------
(* queryBlocks: the answer is of the chain of the node at that moment.     *)
LEMMA QueryAnswers ==
    ASSUME SyncTypes, BranchInv, queryBlocks
    PROVE  AnswerOf(nodeChain)'
<1> DEFINE s == Shortest
           c == nodeChain
           from == CommonPrefixLength(blocks[s], c)
           to == Min({from + MaxBatch - 1, Len(c)})
           r == SubSeq(c, from, to)
<1>1. /\ s \in ConsumerIndices
      /\ \A j \in ConsumerIndices : Begins(blocks[s], blocks[j])
  BY ShortestBegins, Zenon
<1>2. response'.start = from - 1 /\ response'.blocks = r
  BY Zenon DEF queryBlocks, NoResponse
<1>3. blocks' = blocks /\ c' = c
  BY Zenon DEF queryBlocks, nodeVars
<1> HIDE DEF s
<1>4. c \in Seq(ChainIds) /\ Len(c) \in Nat /\ Len(c) > 0
  BY ChainFacts, Zenon DEF SyncTypes
<1>5. \A i \in ConsumerIndices : /\ blocks[i] \in Seq(ChainIds) /\ Len(blocks[i]) \in Nat
                                 /\ Len(blocks[i]) > 0 /\ blocks[i][1] = c[1]
  BY DEF SyncTypes
<1>6. /\ from \in Nat /\ 0 < from /\ from <= Len(blocks[s]) /\ from <= Len(c)
      /\ \A k \in 1..from : blocks[s][k] = c[k]
      /\ \A m \in Nat : /\ m <= Len(blocks[s]) /\ m <= Len(c)
                        /\ \A k \in 1..m : blocks[s][k] = c[k]
                        => m <= from
  BY <1>1, <1>4, <1>5, CommonPrefix, Zenon
<1> HIDE DEF from
<1>7. MaxBatch \in Nat /\ MaxBatch > 1
  BY SyncAssumption, Zenon
<1>8. /\ to \in {from + MaxBatch - 1, Len(c)}
      /\ to <= from + MaxBatch - 1 /\ to <= Len(c)
  <2> DEFINE S == {from + MaxBatch - 1, Len(c)}
  <2>1. S \subseteq Nat /\ S # {}
    BY <1>4, <1>6, <1>7
  <2>2. Min(S) \in S /\ \A j \in S : Min(S) <= j
    BY <2>1, LeastOf, Zenon
  <2>3. QED
    BY <2>2, Zenon
<1> HIDE DEF to
<1>9. to \in Nat /\ from <= to /\ to <= Len(c) /\ (to = Len(c) \/ from < to)
  BY <1>4, <1>6, <1>7, <1>8
<1>10. /\ r \in Seq(ChainIds) /\ Len(r) = to - from + 1
       /\ \A k \in 1..(to - from + 1) : r[k] = c[from + k - 1]
  BY <1>4, <1>6, <1>9
<1> HIDE DEF r
<1>11. \A k \in 1..Len(r) : r[k] = c[(from - 1) + k]
  <2> SUFFICES ASSUME NEW k \in 1..(to - from + 1) PROVE r[k] = c[(from - 1) + k]
    BY <1>10, Zenon
  <2>1. from + k - 1 = (from - 1) + k
    BY <1>6, <1>9
  <2>2. r[k] = c[from + k - 1]
    BY <1>10, Zenon
  <2>3. QED
    BY <2>1, <2>2, Zenon
<1>12. from - 1 \in Nat /\ Len(r) \in Nat /\ Len(r) > 0 /\ (from - 1) + Len(r) = to
  <2>1. Len(r) = to - from + 1
    BY <1>10, Zenon
  <2>2. from \in Nat /\ 0 < from /\ to \in Nat /\ from <= to
    BY <1>6, <1>9, Zenon
  <2> HIDE DEF c
  <2>3. QED
    BY ONLY <2>1, <2>2
<1>13. ASSUME NEW i \in ConsumerIndices
       PROVE  from <= Len(blocks[i]) /\ \A k \in 1..from : blocks[i][k] = c[k]
  BY <1>1, <1>5, <1>6, SMTT(40) DEF Begins
<1>14. to < Len(c) => ~Begins(SubSeq(c, 1, to), blocks[s])
  <2> SUFFICES ASSUME to < Len(c), Begins(SubSeq(c, 1, to), blocks[s]) PROVE FALSE
    BY Zenon
  <2>1. Len(SubSeq(c, 1, to)) = to /\ \A k \in 1..to : SubSeq(c, 1, to)[k] = c[k]
    BY <1>4, <1>9
  <2>2. to <= Len(blocks[s]) /\ \A k \in 1..to : blocks[s][k] = c[k]
    BY <2>1, Zenon DEF Begins
  <2>3. to <= from
    BY <1>6, <1>9, <2>2, Zenon
  <2>4. QED
    BY <1>6, <1>9, <2>3
<1> DEFINE a == response'
<1>15. /\ a.start = from - 1 /\ a.blocks = r /\ a.start + Len(a.blocks) = to
       /\ a.start + 1 = from
  BY <1>2, <1>6, <1>12
<1> HIDE DEF a
<1>16. /\ a.start \in Nat /\ a.blocks \in Seq(ChainIds)
       /\ Len(a.blocks) > 0 /\ a.start + Len(a.blocks) <= Len(c)
       /\ \A k \in 1..Len(a.blocks) : a.blocks[k] = c[a.start + k]
  BY <1>9, <1>10, <1>11, <1>12, <1>15, Zenon
<1>17. \A i \in ConsumerIndices : /\ a.start < Len(blocks[i])
                                  /\ \A k \in 1..(a.start + 1) : blocks[i][k] = c[k]
  BY <1>5, <1>6, <1>13, <1>15
<1>18. a.start + Len(a.blocks) < Len(c) =>
           \E i \in ConsumerIndices : ~Begins(SubSeq(c, 1, a.start + Len(a.blocks)), blocks[i])
  BY <1>1, <1>14, <1>15, Zenon
<1>19. QED
  BY <1>3, <1>16, <1>17, <1>18, Zenon DEF AnswerOf, AnswerEnd, a

(* checkInterval: a consumer has the blocks of the answered chain up to    *)
(* its detach height, and another one there if it is detached at all.      *)
LEMMA DetachFacts ==
    ASSUME SyncTypes, NEW c \in NodeChains, AnswerOf(c), NEW i \in ConsumerIndices
    PROVE  LET d == detachHeight(i)
           IN /\ d \in Nat /\ response.start < d /\ d <= Len(blocks[i])
              /\ \A k \in 1..d : k <= AnswerEnd => blocks[i][k] = c[k]
              /\ d < Len(blocks[i]) => d < AnswerEnd
<1> DEFINE b == blocks[i]
           st == response.start
           rb == response.blocks
           upTo == {h \in 0..Len(b) - 1 : /\ h >= st /\ h < st + Len(rb)
                                          /\ b[h + 1] # rb[h - st + 1]}
           S == upTo \cup {Len(b)}
           d == detachHeight(i)
<1>1. d = Min(S)
  BY Zenon DEF detachHeight
<1>2. /\ st \in Nat /\ rb \in Seq(ChainIds) /\ Len(rb) \in Nat /\ Len(rb) > 0
      /\ \A k \in 1..Len(rb) : rb[k] = c[st + k]
      /\ st < Len(b) /\ \A k \in 1..(st + 1) : b[k] = c[k]
      /\ AnswerEnd = st + Len(rb)
  BY DEF AnswerOf, AnswerEnd
<1>3. b \in Seq(ChainIds) /\ Len(b) \in Nat
  BY DEF SyncTypes
<1> HIDE DEF d, b, st, rb
<1>4. S \subseteq Nat /\ S # {}
  BY <1>3
<1>5. d \in S /\ \A j \in S : d <= j
  BY <1>1, <1>4, LeastOf, Zenon
<1>6. ASSUME NEW h \in Nat, h >= st, h < st + Len(rb)
      PROVE  rb[h - st + 1] = c[h + 1]
  <2>1. h - st + 1 \in 1..Len(rb) /\ st + (h - st + 1) = h + 1
    BY <1>2, <1>6
  <2>2. rb[h - st + 1] = c[st + (h - st + 1)]
    BY <1>2, <2>1, Zenon
  <2>3. QED
    BY <2>1, <2>2, Zenon
<1>7. \A h \in upTo : h \in Nat /\ h < Len(b) /\ st < h /\ h < st + Len(rb)
  <2> SUFFICES ASSUME NEW h \in upTo
               PROVE  h \in Nat /\ h < Len(b) /\ st < h /\ h < st + Len(rb)
    BY Zenon
  <2>1. h \in Nat /\ h < Len(b) /\ h >= st /\ h < st + Len(rb) /\ b[h + 1] # rb[h - st + 1]
    BY <1>3
  <2>2. b[h + 1] # c[h + 1]
    BY <1>6, <2>1, Zenon
  <2>3. h # st
    <3>1. st + 1 \in 1..(st + 1)
      BY <1>2
    <3>2. b[st + 1] = c[st + 1]
      BY <1>2, <3>1, Zenon
    <3>3. QED
      BY <2>2, <3>2, Zenon
  <2>4. QED
    BY <1>2, <2>1, <2>3
<1>8. d \in Nat /\ st < d /\ d <= Len(b)
  BY <1>2, <1>3, <1>5, <1>7, Zenon
<1>9. d < Len(b) => d < AnswerEnd
  BY <1>2, <1>3, <1>5, <1>7
<1>10. ASSUME NEW k \in 1..d, k <= AnswerEnd
       PROVE  b[k] = c[k]
  <2>1. CASE k <= st + 1
    BY <1>2, <1>8, <2>1
  <2>2. CASE ~(k <= st + 1)
    <3>1. /\ k - 1 \in Nat /\ k - 1 >= st /\ k - 1 < st + Len(rb) /\ k - 1 < d
          /\ (k - 1) + 1 = k /\ k - 1 \in 0..Len(b) - 1
      BY <1>2, <1>3, <1>8, <1>10, <2>2, SMTT(40)
    <3>2. k - 1 \notin upTo
      BY <1>5, <1>8, <3>1
    <3>3. b[(k - 1) + 1] = rb[(k - 1) - st + 1]
      BY <3>1, <3>2, Zenon
    <3>4. rb[(k - 1) - st + 1] = c[(k - 1) + 1]
      BY <1>6, <3>1, Zenon
    <3>5. QED
      BY <3>1, <3>3, <3>4, Zenon
  <2>3. QED
    BY <2>1, <2>2, Zenon
<1>11. QED
  BY <1>8, <1>9, <1>10, Zenon DEF d, b, st

(* The answered chain up to the end of the answer.                         *)
Answered(c) == SubSeq(c, 1, AnswerEnd)

(* It is a sequence of blocks that begins the answered chain.               *)
LEMMA AnsweredFacts ==
    ASSUME NEW c \in NodeChains, AnswerOf(c)
    PROVE  /\ AnswerEnd \in Nat /\ AnswerEnd > 0
           /\ Answered(c) \in Seq(ChainIds) /\ Len(Answered(c)) = AnswerEnd
           /\ \A k \in 1..AnswerEnd : Answered(c)[k] = c[k]
           /\ Begins(Answered(c), c)
<1>1. c \in Seq(ChainIds) /\ Len(c) \in Nat
  BY ChainFacts, Zenon
<1>2. AnswerEnd \in Nat /\ AnswerEnd > 0 /\ AnswerEnd <= Len(c)
  <2>1. response.start \in Nat /\ Len(response.blocks) \in Nat /\ Len(response.blocks) > 0
    BY DEF AnswerOf
  <2>2. QED
    BY <2>1 DEF AnswerOf, AnswerEnd
<1>3. /\ Answered(c) \in Seq(ChainIds) /\ Len(Answered(c)) = AnswerEnd
      /\ \A k \in 1..AnswerEnd : Answered(c)[k] = c[k]
  BY <1>1, <1>2 DEF Answered
<1>4. QED
  BY <1>2, <1>3, Zenon DEF Begins

(* updateConsumers: a consumer that takes its blocks is on the answered    *)
(* chain, or was there before; one that refuses them has been detached to  *)
(* where it left that chain.                                               *)
LEMMA UpdateFacts ==
    ASSUME SyncTypes, NEW c \in NodeChains, AnswerOf(c), NEW i \in ConsumerIndices
    PROVE  /\ \/ Updated(i) = Answered(c)
              \/ Updated(i) = blocks[i] /\ Begins(Answered(c), blocks[i])
           /\ hasNewBlocks(i) => /\ Detached(i) \in Seq(ChainIds) /\ Len(Detached(i)) > 0
                                 /\ Begins(Detached(i), Answered(c))
                                 /\ Begins(Detached(i), blocks[i])
<1> DEFINE b == blocks[i]
           st == response.start
           rb == response.blocks
           d == detachHeight(i)
           e == AnswerEnd
           R == Answered(c)
<1>1. /\ d \in Nat /\ st < d /\ d <= Len(b)
      /\ \A k \in 1..d : k <= e => b[k] = c[k]
      /\ d < Len(b) => d < e
  BY DetachFacts, Zenon
<1>2. /\ e \in Nat /\ e > 0 /\ R \in Seq(ChainIds) /\ Len(R) = e
      /\ \A k \in 1..e : R[k] = c[k]
  BY AnsweredFacts, Zenon
<1>3. /\ st \in Nat /\ rb \in Seq(ChainIds) /\ Len(rb) \in Nat
      /\ \A k \in 1..Len(rb) : rb[k] = c[st + k]
      /\ e = st + Len(rb)
  BY DEF AnswerOf, AnswerEnd
<1>4. b \in Seq(ChainIds) /\ Len(b) \in Nat
  BY DEF SyncTypes
<1>5. Detached(i) = SubSeq(b, 1, d)
  BY Zenon DEF Detached
<1>6. hasNewBlocks(i) <=> d < Len(b) \/ e > Len(b)
  BY <1>3, Zenon DEF hasNewBlocks, AnswerEnd
<1>7. Updated(i) = IF hasNewBlocks(i) THEN Detached(i) \o SubSeq(rb, d - st + 1, Len(rb))
                   ELSE Detached(i)
  BY Zenon DEF Updated
<1> HIDE DEF b, st, rb, d, e, R
<1> DEFINE D == SubSeq(b, 1, d)
<1>8. /\ D \in Seq(ChainIds) /\ Len(D) = d /\ \A k \in 1..d : D[k] = b[k]
  BY <1>1, <1>4
<1> HIDE DEF D
<1>9. CASE hasNewBlocks(i)
  <2>1. d < e
    BY <1>1, <1>2, <1>4, <1>6, <1>9
  <2>2. \A k \in 1..d : D[k] = b[k] /\ D[k] = c[k] /\ D[k] = R[k]
    BY <1>1, <1>2, <1>8, <2>1
  <2>3. Len(D) > 0 /\ Begins(D, R) /\ Begins(D, b)
    BY <1>1, <1>2, <1>3, <1>8, <2>1, <2>2 DEF Begins
  <2> DEFINE T == SubSeq(rb, d - st + 1, Len(rb))
  <2>4. d - st + 1 \in Nat /\ d - st + 1 >= 1 /\ d - st + 1 <= Len(rb)
    BY <1>1, <1>2, <1>3, <2>1
  <2>5. /\ T \in Seq(ChainIds) /\ Len(T) = Len(rb) - (d - st + 1) + 1
        /\ \A k \in 1..(Len(rb) - (d - st + 1) + 1) : T[k] = rb[(d - st + 1) + k - 1]
    BY <1>3, <2>4, SMTT(40)
  <2> HIDE DEF T
  <2>6. Len(T) = e - d
    <3>1. Len(rb) - (d - st + 1) + 1 = e - d
      BY <1>1, <1>2, <1>3, <2>1
    <3>2. QED
      BY <2>5, <3>1, Zenon
  <2>7. \A k \in 1..(e - d) : T[k] = c[d + k]
    <3> SUFFICES ASSUME NEW k \in 1..(e - d) PROVE T[k] = c[d + k]
      BY Zenon
    <3>1. /\ k \in 1..(Len(rb) - (d - st + 1) + 1)
          /\ (d - st + 1) + k - 1 \in 1..Len(rb)
          /\ st + ((d - st + 1) + k - 1) = d + k
      BY <1>1, <1>2, <1>3, <2>1
    <3>2. T[k] = rb[(d - st + 1) + k - 1]
      BY <2>5, <3>1, Zenon
    <3>3. rb[(d - st + 1) + k - 1] = c[st + ((d - st + 1) + k - 1)]
      BY <1>3, <3>1, Zenon
    <3>4. QED
      BY <3>1, <3>2, <3>3, Zenon
  <2> DEFINE U == D \o T
  <2>8. /\ U \in Seq(ChainIds) /\ Len(U) = e
        /\ \A k \in 1..d : U[k] = D[k]
        /\ \A k \in 1..(e - d) : U[d + k] = T[k]
    <3>1. /\ U \in Seq(ChainIds) /\ Len(U) = Len(D) + Len(T)
          /\ \A k \in 1..(Len(D) + Len(T)) : U[k] = IF k <= Len(D) THEN D[k] ELSE T[k - Len(D)]
      <4>1. D \in Seq(ChainIds) /\ T \in Seq(ChainIds)
        BY <1>8, <2>5, Zenon
      <4>2. QED
        BY ONLY <4>1
    <3> HIDE DEF U
    <3>2. Len(D) = d /\ Len(D) + Len(T) = e
      BY <1>1, <1>2, <1>8, <2>1, <2>6
    <3>3. \A k \in 1..d : k \in 1..e /\ k <= d
      BY <1>1, <1>2, <2>1
    <3>4. \A k \in 1..(e - d) : d + k \in 1..e /\ ~(d + k <= d) /\ (d + k) - d = k
      BY <1>1, <1>2, <2>1
    <3>5. QED
      BY ONLY <3>1, <3>2, <3>3, <3>4
  <2> HIDE DEF U
  <2>9. \A k \in 1..e : U[k] = R[k]
    <3> SUFFICES ASSUME NEW k \in 1..e PROVE U[k] = R[k]
      BY Zenon
    <3>1. CASE k <= d
      BY <1>1, <2>2, <2>8, <3>1
    <3>2. CASE ~(k <= d)
      <4>1. k - d \in 1..(e - d) /\ d + (k - d) = k
        BY <1>1, <1>2, <2>1, <3>2
      <4>2. U[d + (k - d)] = c[d + (k - d)]
        BY <2>7, <2>8, <4>1, Zenon
      <4>3. QED
        BY <1>2, <4>1, <4>2, Zenon
    <3>3. QED
      BY <3>1, <3>2, Zenon
  <2>10. U = R
    BY <1>2, <2>8, <2>9, BeginsOrder, Zenon DEF Begins
  <2>11. QED
    BY <1>5, <1>7, <1>8, <1>9, <2>3, <2>10, Zenon DEF D, T, U, b, R
<1>10. CASE ~hasNewBlocks(i)
  <2>1. d = Len(b) /\ e <= Len(b)
    BY <1>1, <1>2, <1>4, <1>6, <1>10
  <2>2. D = b
    BY <1>4, <1>8, <2>1
  <2>3. Begins(R, b)
    BY <1>1, <1>2, <2>1 DEF Begins
  <2>4. QED
    BY <1>5, <1>7, <1>10, <2>2, <2>3, Zenon DEF D, b, R
<1>11. QED
  BY <1>9, <1>10, Zenon

(* A chain that the node may have had, from the genesis block on.          *)
Sound(s) ==
    /\ s \in Seq(ChainIds) /\ Len(s) > 0 /\ s[1] = nodeChain[1]
    /\ \E d \in NodeChains : Work[d] <= Work[nodeChain] /\ Begins(s, d)

(* HeldInv says that every consumer holds such a chain.                    *)
LEMMA SoundChains ==
    SyncTypes => (HeldInv <=> \A i \in ConsumerIndices : Sound(blocks[i]))
BY Zenon DEF SyncTypes, HeldInv, Sound

(* What begins a chain that the node has had is such a chain.              *)
LEMMA SoundBegins ==
    ASSUME NEW c \in NodeChains, Work[c] <= Work[nodeChain], nodeChain \in NodeChains,
           NEW s \in Seq(ChainIds), Len(s) > 0, Begins(s, c)
    PROVE  Sound(s)
<1>1. c[1] = nodeChain[1] /\ Len(c) \in Nat
  BY ChainFacts, Zenon
<1>2. s[1] = c[1]
  <2>1. Len(s) \in Nat
    OBVIOUS
  <2>2. 1 \in 1..Len(s)
    BY <2>1
  <2>3. QED
    BY <2>2, Zenon DEF Begins
<1>3. QED
  BY <1>1, <1>2, Zenon DEF Sound

(* Every consumer takes the answer: no two of them are newly apart.        *)
LEMMA UpdateAll ==
    ASSUME SyncTypes, BranchInv, HeldInv, NEW c \in NodeChains, AnswerOf(c),
           Work[c] <= Work[nodeChain],
           blocks' = [i \in ConsumerIndices |-> Updated(i)]
    PROVE  BranchInv' /\ \A i \in ConsumerIndices : Sound(blocks'[i])
<1> DEFINE R == Answered(c)
<1>1. /\ R \in Seq(ChainIds) /\ Len(R) > 0 /\ Begins(R, c)
  BY AnsweredFacts, Zenon
<1> HIDE DEF R
<1>2. \A i \in ConsumerIndices : \/ blocks'[i] = R
                                 \/ blocks'[i] = blocks[i] /\ Begins(R, blocks[i])
  BY UpdateFacts, Zenon DEF R
<1>3. \A i \in ConsumerIndices : blocks[i] \in Seq(ChainIds)
  BY Zenon DEF SyncTypes
<1>4. Begins(R, R)
  BY <1>1, BeginsOrder, Zenon
<1>5. Sound(R) /\ \A i \in ConsumerIndices : Sound(blocks[i])
  BY <1>1, SoundBegins, SoundChains, Zenon DEF SyncTypes
<1>6. \A i \in ConsumerIndices : Begins(R, blocks'[i])
  BY <1>2, <1>4, Zenon
<1>7. ASSUME NEW i \in ConsumerIndices, NEW j \in ConsumerIndices, i < j
      PROVE  \/ Begins(blocks'[i], blocks'[j])
             \/ Begins(blocks'[j], blocks'[i])
             \/ \E k \in ConsumerIndices : /\ i < k /\ k < j
                                           /\ Begins(blocks'[k], blocks'[i])
                                           /\ Begins(blocks'[k], blocks'[j])
  <2>1. CASE blocks'[i] = R \/ blocks'[j] = R
    BY <1>6, <2>1, Zenon
  <2>2. CASE blocks'[i] = blocks[i] /\ blocks'[j] = blocks[j]
    <3>1. CASE Begins(blocks[i], blocks[j]) \/ Begins(blocks[j], blocks[i])
      BY <2>2, <3>1, Zenon
    <3>2. ASSUME NEW k \in ConsumerIndices, i < k, k < j,
                 Begins(blocks[k], blocks[i]), Begins(blocks[k], blocks[j])
          PROVE  Begins(blocks'[k], blocks'[i]) /\ Begins(blocks'[k], blocks'[j])
      BY <1>2, <1>6, <2>2, <3>2, Zenon
    <3>3. QED
      BY <1>7, <3>1, <3>2, Zenon DEF BranchInv
  <2>3. QED
    BY <1>2, <2>1, <2>2, Zenon
<1>8. BranchInv'
  BY <1>7, Zenon DEF BranchInv
<1>9. QED
  BY <1>2, <1>5, <1>8, Zenon

(* Consumer f fails: those before it have the answer, it is detached to    *)
(* where it left the answered chain, and those after it stay.  It is the   *)
(* one between any two that the failure has set apart.                     *)
LEMMA UpdateUpTo ==
    ASSUME SyncTypes, BranchInv, HeldInv, NEW c \in NodeChains, AnswerOf(c),
           Work[c] <= Work[nodeChain],
           NEW f \in ConsumerIndices, hasNewBlocks(f),
           blocks' = [i \in ConsumerIndices |-> IF i < f THEN Updated(i)
                                                ELSE IF i = f THEN Detached(i) ELSE blocks[i]]
    PROVE  BranchInv' /\ \A i \in ConsumerIndices : Sound(blocks'[i])
<1> DEFINE R == Answered(c)
           D == Detached(f)
<1>1. /\ R \in Seq(ChainIds) /\ Len(R) > 0 /\ Begins(R, c)
  BY AnsweredFacts, Zenon
<1>2. /\ D \in Seq(ChainIds) /\ Len(D) > 0 /\ Begins(D, R) /\ Begins(D, blocks[f])
  BY UpdateFacts, Zenon
<1>3. \A i \in ConsumerIndices : i \in Nat
  BY SyncAssumption DEF ConsumerIndices
<1>4. \A i \in ConsumerIndices :
          i < f => \/ blocks'[i] = R
                   \/ blocks'[i] = blocks[i] /\ Begins(R, blocks[i])
  BY UpdateFacts, Zenon
<1>5. blocks'[f] = D /\ \A i \in ConsumerIndices : f < i => blocks'[i] = blocks[i]
  BY <1>3
<1> HIDE DEF R, D
<1>6. \A i \in ConsumerIndices : blocks[i] \in Seq(ChainIds)
  BY Zenon DEF SyncTypes
<1>7. \A i \in ConsumerIndices : i < f \/ i = f \/ f < i
  BY <1>3
<1>8. Begins(R, R)
  BY <1>1, BeginsOrder, Zenon
<1>9. \A i \in ConsumerIndices : i < f => Begins(R, blocks'[i]) /\ Begins(D, blocks'[i])
                                          /\ blocks'[i] \in Seq(ChainIds)
  BY <1>1, <1>2, <1>4, <1>6, <1>8, BeginsOrder, Zenon
<1>10. /\ Sound(R) /\ Sound(D)
       /\ \A i \in ConsumerIndices : Sound(blocks[i])
  <2>1. c \in Seq(ChainIds)
    BY ChainFacts, Zenon
  <2>2. Begins(D, c)
    BY <1>1, <1>2, <2>1, BeginsOrder, Zenon
  <2>3. QED
    BY <1>1, <1>2, <2>2, SoundBegins, SoundChains, Zenon DEF SyncTypes
(* One after f: it is on one branch with D, or one between f and it begins *)
(* both.                                                                   *)
<1>11. ASSUME NEW j \in ConsumerIndices, f < j
       PROVE  \/ Begins(D, blocks[j])
              \/ Begins(blocks[j], D)
              \/ \E k \in ConsumerIndices : /\ f < k /\ k < j /\ Begins(blocks[k], D)
                                            /\ Begins(blocks[k], blocks[j])
  <2>1. CASE Begins(blocks[f], blocks[j])
    BY <1>2, <1>6, <2>1, BeginsOrder, Zenon
  <2>2. CASE Begins(blocks[j], blocks[f])
    BY <1>2, <1>6, <2>2, BeginsOrder, Zenon
  <2>3. ASSUME NEW k \in ConsumerIndices, f < k, k < j,
               Begins(blocks[k], blocks[f]), Begins(blocks[k], blocks[j])
        PROVE  Begins(D, blocks[j]) \/ Begins(blocks[k], D)
    <3>1. Begins(D, blocks[k]) \/ Begins(blocks[k], D)
      BY <1>2, <1>6, <2>3, BeginsOrder, Zenon
    <3>2. QED
      BY <1>2, <1>6, <2>3, <3>1, BeginsOrder, Zenon
  <2>4. QED
    BY <1>11, <2>1, <2>2, <2>3, Zenon DEF BranchInv
<1>12. ASSUME NEW i \in ConsumerIndices, NEW j \in ConsumerIndices, i < j
       PROVE  \/ Begins(blocks'[i], blocks'[j])
              \/ Begins(blocks'[j], blocks'[i])
              \/ \E k \in ConsumerIndices : /\ i < k /\ k < j
                                            /\ Begins(blocks'[k], blocks'[i])
                                            /\ Begins(blocks'[k], blocks'[j])
  <2>1. CASE j < f
    <3>0. i < f
      BY <1>3, <1>12, <2>1
    <3>1. CASE blocks'[i] = R \/ blocks'[j] = R
      BY <1>9, <2>1, <3>0, <3>1, Zenon
    <3>2. CASE blocks'[i] = blocks[i] /\ blocks'[j] = blocks[j]
      <4>1. ASSUME NEW k \in ConsumerIndices, i < k, k < j,
                   Begins(blocks[k], blocks[i]), Begins(blocks[k], blocks[j])
            PROVE  Begins(blocks'[k], blocks'[i]) /\ Begins(blocks'[k], blocks'[j])
        <5>1. k < f
          BY <1>3, <2>1, <4>1
        <5>2. QED
          BY <1>4, <1>9, <2>1, <3>0, <3>2, <4>1, <5>1, Zenon
      <4>2. QED
        BY <1>12, <3>2, <4>1, Zenon DEF BranchInv
    <3>3. QED
      BY <1>4, <2>1, <3>0, <3>1, <3>2, Zenon
  <2>2. CASE j = f
    BY <1>5, <1>9, <1>12, <2>2, Zenon
  <2>3. CASE f < j /\ i < f
    <3>1. blocks'[j] = blocks[j]
      BY <1>5, <2>3, Zenon
    <3>2. CASE Begins(D, blocks[j])
      BY <1>5, <1>9, <2>3, <3>1, <3>2, Zenon
    <3>3. CASE Begins(blocks[j], D)
      BY <1>2, <1>6, <1>9, <2>3, <3>1, <3>3, BeginsOrder, Zenon
    <3>4. ASSUME NEW k \in ConsumerIndices, f < k, k < j,
                 Begins(blocks[k], D), Begins(blocks[k], blocks[j])
          PROVE  /\ i < k /\ Begins(blocks'[k], blocks'[i]) /\ Begins(blocks'[k], blocks'[j])
      <4>1. i < k /\ blocks'[k] = blocks[k]
        BY <1>3, <1>5, <2>3, <3>4, SMTT(40)
      <4>2. QED
        BY <1>2, <1>6, <1>9, <2>3, <3>1, <3>4, <4>1, BeginsOrder, SMTT(40)
    <3>5. QED
      BY <1>11, <2>3, <3>2, <3>3, <3>4, Zenon
  <2>4. CASE i = f
    <3>1. blocks'[j] = blocks[j] /\ blocks'[i] = D
      BY <1>5, <1>12, <2>4, Zenon
    <3>2. \A k \in ConsumerIndices : f < k => blocks'[k] = blocks[k]
      BY <1>5, Zenon
    <3>3. QED
      BY <1>11, <1>12, <2>4, <3>1, <3>2, Zenon
  <2>5. CASE f < i
    <3>1. \A k \in ConsumerIndices : i < k => f < k
      BY <1>3, <2>5, SMTT(40)
    <3>2. \A k \in ConsumerIndices : f < k => blocks'[k] = blocks[k]
      BY <1>5, Zenon
    <3>3. QED
      BY <1>12, <2>5, <3>1, <3>2, Zenon DEF BranchInv
  <2>6. QED
    BY <1>7, <2>1, <2>2, <2>3, <2>4, <2>5, Zenon
<1>13. BranchInv'
  BY <1>12, Zenon DEF BranchInv
<1>14. QED
  BY <1>4, <1>5, <1>7, <1>10, <1>13, Zenon

(* A round that changes no consumer has found all of them on the chain of  *)
(* the node.                                                               *)
LEMMA NothingChanged ==
    ASSUME SyncTypes, HeldInv, AnswerOf(nodeChain),
           blocks = [i \in ConsumerIndices |-> Updated(i)]
    PROVE  \A i \in ConsumerIndices : blocks[i] = nodeChain
<1> DEFINE c == nodeChain
           R == Answered(c)
<1>1. c \in NodeChains /\ c \in Seq(ChainIds) /\ Len(c) \in Nat
  BY ChainFacts, Zenon DEF SyncTypes
<1>2. R \in Seq(ChainIds) /\ AnswerEnd \in Nat /\ Len(R) = AnswerEnd
  BY <1>1, AnsweredFacts, Zenon
<1>3. \A i \in ConsumerIndices : blocks[i] \in Seq(ChainIds)
  BY Zenon DEF SyncTypes
<1>4. \A i \in ConsumerIndices : Begins(R, blocks[i])
  <2> SUFFICES ASSUME NEW i \in ConsumerIndices PROVE Begins(R, blocks[i])
    BY Zenon
  <2>1. blocks[i] = Updated(i)
    BY Zenon
  <2>2. Updated(i) = R \/ Begins(R, blocks[i])
    BY <1>1, UpdateFacts, Zenon
  <2>3. QED
    BY <1>2, <2>1, <2>2, BeginsOrder, Zenon
<1>5. R = c
  <2>1. AnswerEnd = Len(c)
    BY <1>1, <1>2, <1>4 DEF AnswerOf, Answered
  <2>2. QED
    BY <1>1, <2>1 DEF Answered
<1> HIDE DEF R, c
<1>6. ASSUME NEW i \in ConsumerIndices PROVE blocks[i] = c
  <2>1. PICK d \in NodeChains : Work[d] <= Work[c] /\ Begins(blocks[i], d)
    BY Zenon DEF HeldInv, c
  <2>2. d \in Seq(ChainIds) /\ Work[d] \in Nat /\ Work[c] \in Nat
    BY <1>1, ChainFacts, Zenon
  <2>3. Begins(c, blocks[i])
    BY <1>4, <1>5, Zenon
  <2>4. Begins(c, d)
    BY <1>1, <1>3, <2>1, <2>2, <2>3, BeginsOrder, Zenon
  <2>5. c = d
    <3>1. c # d => Work[c] < Work[d]
      BY <1>1, <2>4, ChainFacts, Zenon
    <3>2. ~(Work[c] < Work[d])
      BY <2>1, <2>2, SMTT(40)
    <3>3. QED
      BY <3>1, <3>2, Zenon
  <2>6. QED
    BY <1>1, <1>3, <2>1, <2>3, <2>5, BeginsOrder, Zenon
<1>7. QED
  BY <1>6, Zenon DEF c

-----------------------------------------------------------------------------
(* setFutureState never lowers the state.                                  *)
LEMMA RaisedFacts ==
    ASSUME m_futureState \in DOMAIN Rank, NEW s \in DOMAIN Rank
    PROVE  /\ Raised(s) \in DOMAIN Rank
           /\ Raised("stopped") = "stopped"
           /\ Raised("blockchainSync") \in {"blockchainSync", "stopped"}
           /\ Raised("poolSync") \in {"poolSync", "blockchainSync", "stopped"}
           /\ m_futureState = "stopped" => Raised(s) = "stopped"
           /\ m_futureState \in {"blockchainSync", "stopped"}
              => Raised(s) \in {"blockchainSync", "stopped"}
           /\ m_futureState \in {"poolSync", "blockchainSync", "stopped"}
              => Raised(s) \in {"poolSync", "blockchainSync", "stopped"}
BY DEF Raised, Rank

(* The steps of the node and of the clients.                               *)
envStep ==
    \/ nodeChanges \/ nodeCatchesUp \/ \E kind \in {"block", "pool"} : deliver(kind)
    \/ startSync \/ stopSync \/ joined \/ addUnconfirmedTransaction

(* A step is one of the working thread or one of those above.              *)
LEMMA NextSplit == SyncNext <=> threadStep \/ envStep
BY Zenon DEF SyncNext, envStep

(* They leave the consumers and the answer alone, keep a round due that    *)
(* was, and make one due by what they change: the node notifies whoever    *)
(* observes, and whoever does not is about to synchronize from the start.  *)
LEMMA EnvKeepsDue ==
    ASSUME SyncTypes, ControlInv, envStep
    PROVE  /\ UNCHANGED <<blocks, known, response, lastBlockId>>
           /\ at' = at \/ (at = "off" /\ at' = "loop")
           /\ nodeChain' \in NodeChains /\ Work[nodeChain] <= Work[nodeChain']
           /\ nodePool' \in SUBSET PoolIds /\ notices' \in SUBSET {"block", "pool"}
           /\ m_currentState' \in DOMAIN Rank /\ m_futureState' \in DOMAIN Rank
           /\ ControlInv'
           /\ BlocksDue => BlocksDue'
           /\ PoolDue => PoolDue'
           /\ nodeChain' # nodeChain => BlocksDue'
           /\ nodePool' # nodePool => PoolDue'
<1>0. Work[nodeChain] \in Nat /\ \A c \in NodeChains : Work[c] \in Nat
  BY ChainFacts, Zenon DEF SyncTypes
<1>1. CASE nodeChanges
  BY <1>0, <1>1, SMTT(40) DEF nodeChanges, Notify, clientVars, SyncTypes, ControlInv, BlocksDue, PoolDue
<1>2. CASE nodeCatchesUp
  BY <1>0, <1>2 DEF nodeCatchesUp, Notify, clientVars, SyncTypes, ControlInv, BlocksDue, PoolDue
<1>3. ASSUME NEW kind \in {"block", "pool"}, deliver(kind)
      PROVE  /\ UNCHANGED <<blocks, known, response, lastBlockId, at, nodeChain, nodePool,
                            m_currentState, observing>>
             /\ notices' \in SUBSET {"block", "pool"}
             /\ m_futureState' \in DOMAIN Rank
             /\ ControlInv'
             /\ BlocksDue => BlocksDue'
             /\ PoolDue => PoolDue'
  <2> DEFINE s == IF kind = "block" THEN "blockchainSync" ELSE "poolSync"
  <2>1. s \in DOMAIN Rank /\ m_futureState \in DOMAIN Rank
    BY Zenon DEF Rank, SyncTypes
  <2>2. /\ m_futureState' = Raised(s) /\ notices' = notices \ {kind}
        /\ missed' = IF kind = "block" THEN FALSE ELSE missed
        /\ UNCHANGED <<blocks, known, response, lastBlockId, at, nodeChain, nodePool,
                       m_currentState, observing>>
    BY <1>3, Zenon DEF deliver, nodeVars
  <2>3. /\ m_futureState' \in {"poolSync", "blockchainSync", "stopped"}
        /\ kind = "block" => m_futureState' \in {"blockchainSync", "stopped"}
        /\ m_futureState' \in DOMAIN Rank
        /\ m_futureState = "stopped" => m_futureState' = "stopped"
        /\ m_futureState \in {"blockchainSync", "stopped"}
           => m_futureState' \in {"blockchainSync", "stopped"}
    BY <2>1, <2>2, RaisedFacts, Zenon
  <2>4. QED
    BY <2>2, <2>3, Zenon DEF SyncTypes, ControlInv, BlocksDue, PoolDue
<1>4. CASE startSync
  BY <1>0, <1>4, SMTT(40) DEF startSync, nodeVars, SyncTypes, ControlInv, BlocksDue, PoolDue, Rank
<1>5. CASE stopSync
  <2>1. m_futureState' = "stopped"
    BY <1>5, RaisedFacts, Zenon DEF stopSync, SyncTypes, Rank
  <2>2. QED
    BY <1>0, <1>5, <2>1, SMTT(40) DEF stopSync, nodeVars, SyncTypes, ControlInv, BlocksDue, PoolDue, Rank
<1>6. CASE joined
  BY <1>0, <1>6, SMTT(40) DEF joined, nodeVars, SyncTypes, ControlInv, BlocksDue, PoolDue
<1>7. CASE addUnconfirmedTransaction
  BY <1>0, <1>7, SMTT(40) DEF addUnconfirmedTransaction, nodeVars, SyncTypes, ControlInv, BlocksDue, PoolDue
<1>8. CASE \E kind \in {"block", "pool"} : deliver(kind)
  BY <1>0, <1>3, <1>8 DEF SyncTypes
<1>9. QED
  BY <1>1, <1>2, <1>4, <1>5, <1>6, <1>7, <1>8, ZenonT(60) DEF envStep

(* The node and the clients keep the invariant.                            *)
LEMMA EnvInv ==
    ASSUME SyncInv, envStep
    PROVE  SyncInv'
<1> USE DEF SyncInv
<1>1. /\ UNCHANGED <<blocks, known, response, lastBlockId>>
      /\ at' = at \/ (at = "off" /\ at' = "loop")
      /\ nodeChain' \in NodeChains /\ Work[nodeChain] <= Work[nodeChain']
      /\ nodePool' \in SUBSET PoolIds /\ notices' \in SUBSET {"block", "pool"}
      /\ m_currentState' \in DOMAIN Rank /\ m_futureState' \in DOMAIN Rank
      /\ ControlInv'
      /\ BlocksDue => BlocksDue'
      /\ PoolDue => PoolDue'
      /\ nodeChain' # nodeChain => BlocksDue'
      /\ nodePool' # nodePool => PoolDue'
  BY EnvKeepsDue, Zenon
<1>2. nodeChain'[1] = nodeChain[1] /\ nodeChain \in NodeChains
  BY <1>1, ChainFacts, Zenon DEF SyncTypes
<1>3. SyncTypes'
  BY <1>1, <1>2, Zenon DEF SyncTypes
<1>4. BranchInv'
  BY <1>1, Zenon DEF BranchInv
<1>5. \A c \in NodeChains : Work[c] <= Work[nodeChain] => Work[c] <= Work[nodeChain']
  <2>1. \A c \in NodeChains : Work[c] \in Nat
    BY ChainFacts, Zenon
  <2>2. QED
    BY <1>1, <1>2, <2>1
<1>6. HeldInv'
  BY <1>1, <1>5, Zenon DEF HeldInv
<1>7. AnswerInv'
  <2>1. ASSUME at' = "processBlocks"
        PROVE  \E c \in NodeChains : /\ AnswerOf(c)' /\ Work[c] <= Work[nodeChain']
                                     /\ c = nodeChain' \/ BlocksDue'
    <3>1. PICK c \in NodeChains : /\ AnswerOf(c) /\ Work[c] <= Work[nodeChain]
                                  /\ c = nodeChain \/ BlocksDue
      BY <1>1, <2>1, Zenon DEF AnswerInv
    <3>2. AnswerOf(c)'
      BY <1>1, <3>1, Zenon DEF AnswerOf, AnswerEnd
    <3>3. QED
      BY <1>1, <1>5, <3>1, <3>2, Zenon
  <2>2. PoolUnion' = PoolUnion
    BY <1>1, Zenon DEF PoolUnion
  <2>3. QED
    BY <1>1, <2>1, <2>2, Zenon DEF AnswerInv
<1>8. DueInv'
  BY <1>1, Zenon DEF DueInv
<1>9. QED
  BY <1>1, <1>3, <1>4, <1>6, <1>7, <1>8, Zenon

-----------------------------------------------------------------------------
(* Steps that leave the chains alone.                                      *)
LEMMA ChainsStay ==
    ASSUME SyncInv, UNCHANGED <<nodeChain, blocks>>
    PROVE  BranchInv' /\ HeldInv'
BY Zenon DEF SyncInv, BranchInv, HeldInv

(* startBlockchainSync, from the query to the consumers.                   *)
LEMMA BlocksInv ==
    ASSUME SyncInv,
           \/ queryBlocks \/ processBlocks
           \/ \E k \in ConsumerIndices, throws \in BOOLEAN : consumerFails(k, throws)
    PROVE  SyncInv'
<1> USE DEF SyncInv
<1>1. CASE queryBlocks
  <2>1. /\ at = "queryBlocks" /\ at' = "processBlocks"
        /\ UNCHANGED <<nodeChain, nodePool, notices, observing, m_currentState, m_futureState,
                       blocks, known, missed>>
    BY <1>1, Zenon DEF queryBlocks, nodeVars
  <2>2. AnswerOf(nodeChain)'
    BY <1>1, QueryAnswers, Zenon
  <2>3. nodeChain \in NodeChains /\ Work[nodeChain] \in Nat
    BY ChainFacts, Zenon DEF SyncTypes
  <2>4. AnswerInv'
    <3>1. \E c \in NodeChains : AnswerOf(c)' /\ Work[c] <= Work[nodeChain'] /\ c = nodeChain'
      BY <2>1, <2>2, <2>3, SMTT(40) DEF AnswerOf, AnswerEnd
    <3>2. QED
      BY <2>1, <3>1, ZenonT(60) DEF AnswerInv
  <2>5. QED
    BY <2>1, <2>4, ChainsStay, Zenon DEF SyncTypes, ControlInv, DueInv, BlocksDue, PoolDue
<1>2. ASSUME at = "processBlocks", at' = "loop",
             UNCHANGED <<nodeChain, nodePool, notices, observing, m_currentState, known>>,
             m_futureState' \in DOMAIN Rank,
             m_futureState = "stopped" => m_futureState' = "stopped",
             BranchInv', \A i \in ConsumerIndices : Sound(blocks'[i]),
             blocks' \in [ConsumerIndices -> Seq(ChainIds)],
             BlocksDue' \/ \A i \in ConsumerIndices : blocks'[i] = nodeChain,
             PoolDue => PoolDue'
      PROVE  SyncInv'
  <2>1. SyncTypes' /\ HeldInv'
    BY <1>2, Zenon DEF SyncTypes, HeldInv, Sound
  <2>2. m_currentState # "stopped"
    BY <1>2, Zenon DEF ControlInv
  <2>3. QED
    BY <1>2, <2>1, <2>2, Zenon DEF ControlInv, AnswerInv, DueInv
<1>3. ASSUME at = "processBlocks"
      PROVE  \E c \in NodeChains : /\ AnswerOf(c) /\ Work[c] <= Work[nodeChain]
                                   /\ c = nodeChain \/ BlocksDue
  BY <1>3, Zenon DEF AnswerInv
<1>4. CASE processBlocks
  <2>1. /\ at = "processBlocks" /\ at' = "loop"
        /\ UNCHANGED <<nodeChain, nodePool, notices, observing, m_currentState, known, missed>>
    BY <1>4, Zenon DEF processBlocks, nodeVars
  <2>2. CASE m_futureState = "stopped"
    <3>1. blocks' = blocks /\ m_futureState' = m_futureState
      BY <1>4, <2>2, Zenon DEF processBlocks
    <3>2. BranchInv' /\ \A i \in ConsumerIndices : Sound(blocks'[i])
      BY <2>1, <3>1, ChainsStay, SoundChains, Zenon
    <3>3. QED
      BY <1>2, <2>1, <2>2, <3>1, <3>2, Zenon DEF SyncTypes, BlocksDue, PoolDue
  <2>3. CASE m_futureState # "stopped"
    <3>1. /\ blocks' = [i \in ConsumerIndices |-> Updated(i)]
          /\ m_futureState' = IF blocks' # blocks \/ ahead THEN Raised("blockchainSync")
                              ELSE m_futureState
      BY <1>4, <2>3, Zenon DEF processBlocks
    <3>2. PICK c \in NodeChains : /\ AnswerOf(c) /\ Work[c] <= Work[nodeChain]
                                  /\ c = nodeChain \/ BlocksDue
      BY <1>3, <2>1, Zenon
    <3>3. BranchInv' /\ \A i \in ConsumerIndices : Sound(blocks'[i])
      BY <3>1, <3>2, UpdateAll, Zenon
    <3>4. /\ Raised("blockchainSync") \in {"blockchainSync", "stopped"}
          /\ Raised("blockchainSync") \in DOMAIN Rank
      BY RaisedFacts, Zenon DEF SyncTypes, Rank
    <3>5. /\ m_futureState' \in DOMAIN Rank
          /\ BlocksDue => BlocksDue'
          /\ PoolDue => PoolDue'
          /\ blocks' # blocks => BlocksDue'
      BY <2>1, <3>1, <3>4, Zenon DEF SyncTypes, BlocksDue, PoolDue
    <3>6. BlocksDue' \/ \A i \in ConsumerIndices : blocks'[i] = nodeChain
      <4>1. CASE BlocksDue \/ blocks' # blocks
        BY <3>5, <4>1, Zenon
      <4>2. CASE ~BlocksDue /\ blocks' = blocks
        BY <3>1, <3>2, <4>2, NothingChanged, Zenon
      <4>3. QED
        BY <4>1, <4>2, Zenon
    <3>7. blocks' \in [ConsumerIndices -> Seq(ChainIds)]
      BY <3>1, <3>3, Zenon DEF Sound
    <3>8. QED
      BY <1>2, <2>1, <2>3, <3>3, <3>5, <3>6, <3>7, Zenon
  <2>4. QED
    BY <2>2, <2>3, Zenon
<1>5. ASSUME NEW k \in ConsumerIndices, NEW throws \in BOOLEAN, consumerFails(k, throws)
      PROVE  SyncInv'
  <2>1. /\ at = "processBlocks" /\ at' = "loop"
        /\ UNCHANGED <<nodeChain, nodePool, notices, observing, m_currentState, known>>
        /\ missed' = TRUE
        /\ m_futureState' = IF m_futureState = "stopped" THEN "stopped" ELSE "idle"
        /\ hasNewBlocks(k)
        /\ blocks' = [i \in ConsumerIndices |-> IF i < k THEN Updated(i)
                                                ELSE IF i = k THEN Detached(i) ELSE blocks[i]]
    BY <1>5, Zenon DEF consumerFails, Failed, nodeVars
  <2>2. PICK c \in NodeChains : AnswerOf(c) /\ Work[c] <= Work[nodeChain]
    BY <1>3, <2>1, Zenon
  <2>3. BranchInv' /\ \A i \in ConsumerIndices : Sound(blocks'[i])
    BY <2>1, <2>2, UpdateUpTo, Zenon
  <2>4. blocks' \in [ConsumerIndices -> Seq(ChainIds)]
    BY <2>1, <2>3, Zenon DEF Sound
  <2>5. BlocksDue' /\ PoolDue' /\ m_futureState' \in DOMAIN Rank
    BY <2>1, Zenon DEF BlocksDue, PoolDue, Rank
  <2>6. QED
    BY <1>2, <2>1, <2>3, <2>4, <2>5, Zenon
<1>6. QED
  BY <1>1, <1>4, <1>5, Zenon

(* The loop of the thread, and queries that fail.                          *)
LEMMA LoopInv ==
    ASSUME SyncInv, workingProcedure \/ actualizeFutureState \/ hasWork \/ queryFails
    PROVE  SyncInv'
<1> USE DEF SyncInv
<1>1. CASE workingProcedure
  <2>1. /\ at = "loop" /\ at' = IF m_futureState = "stopped" THEN "last" ELSE "actualize"
        /\ UNCHANGED <<nodeChain, nodePool, notices, observing, m_currentState, m_futureState,
                       blocks, known, missed>>
    BY <1>1, Zenon DEF workingProcedure, nodeVars
  <2>2. QED
    BY <2>1, ChainsStay, Zenon DEF SyncTypes, ControlInv, AnswerInv, DueInv, BlocksDue, PoolDue
<1>2. CASE actualizeFutureState
  <2>1. /\ at \in {"actualize", "last"}
        /\ UNCHANGED <<nodeChain, nodePool, notices, blocks, known, missed>>
        /\ m_currentState' = m_futureState /\ m_futureState' = Follows[m_futureState]
    BY <1>2, Zenon DEF actualizeFutureState, nodeVars
  <2>2. m_futureState \in {"idle", "poolSync", "blockchainSync", "stopped"}
    BY Zenon DEF SyncTypes, Rank
  <2>3. /\ m_futureState = "stopped" => m_futureState' = "stopped" /\ at' \in {"off", "loop"}
        /\ m_futureState = "blockchainSync" => m_futureState' = "poolSync" /\ at' = "queryBlocks"
        /\ m_futureState = "poolSync" => m_futureState' = "idle" /\ at' = "queryUnion"
        /\ m_futureState = "idle" => m_futureState' = "idle" /\ at' = "waiting"
    BY <1>2, <2>1 DEF actualizeFutureState, Follows
  <2>4. m_futureState # "stopped" => observing'
    <3>1. CASE m_currentState = "stopped"
      BY <1>2, <3>1, Zenon DEF actualizeFutureState, ControlInv
    <3>2. CASE m_currentState # "stopped" /\ m_futureState # "stopped"
      BY <1>2, <3>2, Zenon DEF actualizeFutureState, ControlInv
    <3>3. QED
      BY <3>1, <3>2, Zenon
  <2>5. SyncTypes'
    BY <2>1, <2>2, <2>3, Zenon DEF SyncTypes, Rank
  <2>6. ControlInv'
    BY <2>1, <2>2, <2>3, <2>4, Zenon DEF ControlInv
  <2>7. AnswerInv'
    BY <2>2, <2>3, Zenon DEF AnswerInv
  <2>8. DueInv'
    BY <2>1, <2>2, <2>3, Zenon DEF DueInv, BlocksDue, PoolDue
  <2>9. QED
    BY <2>1, <2>5, <2>6, <2>7, <2>8, ChainsStay, Zenon
<1>3. CASE hasWork
  <2>1. /\ at = "waiting" /\ at' = "loop"
        /\ UNCHANGED <<nodeChain, nodePool, notices, observing, m_currentState, m_futureState,
                       blocks, known, missed>>
    BY <1>3, Zenon DEF hasWork, nodeVars
  <2>2. QED
    BY <2>1, ChainsStay, Zenon DEF SyncTypes, ControlInv, AnswerInv, DueInv, BlocksDue, PoolDue
<1>4. CASE queryFails
  <2>1. /\ at \in {"queryBlocks", "queryUnion", "queryIntersection"} /\ at' = "loop"
        /\ UNCHANGED <<nodeChain, nodePool, notices, observing, m_currentState, blocks, known>>
        /\ missed' = TRUE
        /\ m_futureState' = IF m_futureState = "stopped" THEN "stopped" ELSE "idle"
    BY <1>4, Zenon DEF queryFails, Failed, nodeVars
  <2>2. QED
    BY <2>1, ChainsStay, Zenon
       DEF SyncTypes, ControlInv, AnswerInv, DueInv, BlocksDue, PoolDue, Rank
<1>5. QED
  BY <1>1, <1>2, <1>3, <1>4, Zenon

(* startPoolSync, from the queries to the consumers.                       *)
LEMMA PoolRoundInv ==
    ASSUME SyncInv,
           \/ queryUnion \/ queryIntersection \/ processPoolTxs
           \/ \E k \in ConsumerIndices : poolConsumerFails(k)
    PROVE  SyncInv'
<1> USE DEF SyncInv
<1>0. /\ \A i \in ConsumerIndices : known[i] \in SUBSET PoolIds /\ known[i] \subseteq PoolUnion
      /\ PoolUnion \in SUBSET PoolIds /\ nodePool \in SUBSET PoolIds
  BY Zenon DEF SyncTypes, PoolUnion
<1>1. /\ Raised("blockchainSync") \in {"blockchainSync", "stopped"}
      /\ Raised("blockchainSync") \in DOMAIN Rank
      /\ m_futureState = "stopped" => Raised("blockchainSync") = "stopped"
  BY RaisedFacts, Zenon DEF SyncTypes, Rank
<1>2. CASE queryUnion
  <2>1. /\ at = "queryUnion"
        /\ UNCHANGED <<nodeChain, nodePool, notices, observing, m_currentState, blocks, known, missed>>
    BY <1>2, Zenon DEF queryUnion, nodeVars
  <2>2. CASE ~isLastKnownBlockActual
    <3>1. at' = "loop" /\ m_futureState' = Raised("blockchainSync")
      BY <1>2, <2>2, Zenon DEF queryUnion
    <3>2. QED
      BY <1>1, <2>1, <3>1, ChainsStay, Zenon
         DEF SyncTypes, ControlInv, AnswerInv, DueInv, BlocksDue, PoolDue
  <2>3. CASE isLastKnownBlockActual
    <3>1. /\ response'.new = nodePool \ PoolUnion /\ response'.deleted = PoolUnion \ nodePool
          /\ at' = IF PoolUnion = PoolIntersection THEN "processPoolTxs" ELSE "queryIntersection"
          /\ m_futureState' = m_futureState
      BY <1>2, <2>3, Zenon DEF queryUnion, NoResponse
    <3>2. PoolUnion' = PoolUnion
      BY <2>1, Zenon DEF PoolUnion
    <3>3. ASSUME PoolUnion = PoolIntersection, NEW i \in ConsumerIndices
          PROVE  (known[i] \cup response'.new) \ response'.deleted = nodePool
      <4>1. known[i] = PoolUnion
        BY <1>0, <3>3, Zenon DEF PoolIntersection
      <4>2. QED
        BY <3>1, <4>1, Zenon
    <3>4. AnswerInv'
      BY <1>0, <2>1, <3>1, <3>2, <3>3, Zenon DEF AnswerInv
    <3>5. QED
      BY <2>1, <3>1, <3>4, ChainsStay, Zenon
         DEF SyncTypes, ControlInv, DueInv, BlocksDue, PoolDue
  <2>4. QED
    BY <2>2, <2>3, Zenon
<1>3. CASE queryIntersection
  <2>1. /\ at = "queryIntersection"
        /\ UNCHANGED <<nodeChain, nodePool, notices, observing, m_currentState, blocks, known, missed>>
    BY <1>3, Zenon DEF queryIntersection, nodeVars
  <2>2. CASE ~isLastKnownBlockActual
    <3>1. at' = "loop" /\ m_futureState' = Raised("blockchainSync")
      BY <1>3, <2>2, Zenon DEF queryIntersection
    <3>2. QED
      BY <1>1, <2>1, <3>1, ChainsStay, Zenon
         DEF SyncTypes, ControlInv, AnswerInv, DueInv, BlocksDue, PoolDue
  <2>3. CASE isLastKnownBlockActual
    <3>1. /\ response' = [response EXCEPT !.new = nodePool \ PoolIntersection]
          /\ at' = "processPoolTxs" /\ m_futureState' = m_futureState
      BY <1>3, <2>3, Zenon DEF queryIntersection
    <3>2. response'.new = nodePool \ PoolIntersection /\ response'.deleted = response.deleted
      BY <3>1, SMTT(40)
    <3>3. ASSUME ~PoolDue, NEW i \in ConsumerIndices
          PROVE  (known[i] \cup response'.new) \ response'.deleted = nodePool
      <4>1. response.deleted = PoolUnion \ nodePool
        BY <2>1, <3>3, Zenon DEF AnswerInv
      <4>2. nodePool \ PoolIntersection \in SUBSET PoolIds
        BY <1>0, Zenon
      <4>3. PoolIntersection \subseteq known[i]
        BY Zenon DEF PoolIntersection
      <4>4. QED
        BY <1>0, <3>2, <4>1, <4>2, <4>3, Zenon
    <3>4. AnswerInv'
      BY <1>0, <2>1, <3>1, <3>2, <3>3, Zenon DEF AnswerInv, PoolDue
    <3>5. QED
      BY <2>1, <3>1, <3>4, ChainsStay, Zenon
         DEF SyncTypes, ControlInv, DueInv, BlocksDue, PoolDue
  <2>4. QED
    BY <2>2, <2>3, Zenon
<1>4. CASE processPoolTxs
  <2>1. /\ at = "processPoolTxs" /\ at' = "loop"
        /\ UNCHANGED <<nodeChain, nodePool, notices, observing, m_currentState, m_futureState,
                       blocks, missed>>
    BY <1>4, Zenon DEF processPoolTxs, nodeVars
  <2>2. PICK k \in ConsumerIndices \cup {Len(Consumers) + 1} :
            /\ k <= Len(Consumers) => m_futureState = "stopped"
            /\ known' = PoolUpdatedBefore(k)
    BY <1>4, Zenon DEF processPoolTxs
  <2>3. response.new \in SUBSET PoolIds
    BY <2>1, Zenon DEF AnswerInv
  <2>4. known' \in [ConsumerIndices -> SUBSET PoolIds]
    BY <1>0, <2>2, <2>3, Zenon DEF PoolUpdatedBefore
  <2>5. ASSUME ~PoolDue, NEW i \in ConsumerIndices
        PROVE  known'[i] = nodePool
    <3>1. Len(Consumers) \in Nat /\ ConsumerIndices = 1..Len(Consumers)
      BY SyncAssumption DEF ConsumerIndices
    <3>2. m_futureState # "stopped"
      BY <2>5, Zenon DEF PoolDue
    <3>3. i < k
      BY <2>2, <3>1, <3>2, SMTT(40)
    <3>4. QED
      BY <2>1, <2>2, <2>5, <3>3, Zenon DEF PoolUpdatedBefore, AnswerInv
  <2>6. SyncTypes' /\ ControlInv' /\ AnswerInv'
    BY <2>1, <2>4, Zenon DEF SyncTypes, ControlInv, AnswerInv
  <2>7. DueInv'
    BY <2>1, <2>5, Zenon DEF DueInv, BlocksDue, PoolDue
  <2>8. QED
    BY <2>1, <2>6, <2>7, ChainsStay, Zenon
<1>5. ASSUME NEW k \in ConsumerIndices, poolConsumerFails(k)
      PROVE  SyncInv'
  <2>1. /\ at = "processPoolTxs" /\ at' = "loop" /\ missed' = TRUE
        /\ UNCHANGED <<nodeChain, nodePool, notices, observing, m_currentState, m_futureState,
                       blocks>>
    BY <1>5, Zenon DEF poolConsumerFails, nodeVars
  <2>2. PICK S \in SUBSET response.new : known' = [PoolUpdatedBefore(k) EXCEPT ![k] = @ \cup S]
    BY <1>5, Zenon DEF poolConsumerFails
  <2>3. response.new \in SUBSET PoolIds
    BY <2>1, ZenonT(60) DEF AnswerInv
  <2>4. known' \in [ConsumerIndices -> SUBSET PoolIds]
    BY <1>0, <2>2, <2>3, ZenonT(60) DEF PoolUpdatedBefore
  <2>5. QED
    BY <2>1, <2>4, ChainsStay, ZenonT(60)
       DEF SyncTypes, ControlInv, AnswerInv, DueInv, BlocksDue, PoolDue
<1>6. QED
  BY <1>2, <1>3, <1>4, <1>5, Zenon

-----------------------------------------------------------------------------
(* Every step keeps the invariant.                                         *)
LEMMA SyncNextInv ==
    ASSUME SyncInv, [SyncNext]_syncVars
    PROVE  SyncInv'
<1>1. CASE SyncNext
  BY <1>1, NextSplit, EnvInv, BlocksInv, LoopInv, PoolRoundInv, Zenon DEF threadStep
<1>2. CASE UNCHANGED syncVars
  <2>1. UNCHANGED <<nodeChain, nodePool, notices, observing, m_currentState, m_futureState, at,
                    blocks, known, response, missed>>
    BY <1>2, Zenon DEF syncVars
  <2>2. SyncTypes' /\ ControlInv' /\ DueInv'
    BY <2>1, Zenon DEF SyncInv, SyncTypes, ControlInv, DueInv, BlocksDue, PoolDue
  <2>3. AnswerInv'
    <3>1. \A c : AnswerOf(c)' = AnswerOf(c)
      BY <2>1, ZenonT(60) DEF AnswerOf, AnswerEnd
    <3>2. BlocksDue' = BlocksDue /\ PoolDue' = PoolDue /\ PoolUnion' = PoolUnion
      BY <2>1, Zenon DEF BlocksDue, PoolDue, PoolUnion
    <3>3. AnswerInv
      BY Zenon DEF SyncInv
    <3>4. QED
      BY <2>1, <3>1, <3>2, <3>3, ZenonT(60) DEF AnswerInv
  <2>4. QED
    BY <2>1, <2>2, <2>3, ChainsStay, Zenon DEF SyncInv
<1>3. QED
  BY <1>1, <1>2, Zenon

(* It holds when the synchronizer is created.                              *)
LEMMA SyncInitInv == SyncInit => SyncInv
<1> SUFFICES ASSUME SyncInit PROVE SyncInv
  BY Zenon
<1>1. /\ nodeChain \in NodeChains /\ blocks = [i \in ConsumerIndices |-> nodeChain]
      /\ nodePool = {} /\ known = [i \in ConsumerIndices |-> {}] /\ notices = {}
      /\ m_currentState = "stopped" /\ m_futureState = "stopped" /\ at = "off"
  BY Zenon DEF SyncInit
<1>2. nodeChain \in Seq(ChainIds) /\ Len(nodeChain) > 0 /\ Work[nodeChain] \in Nat
  BY <1>1, ChainFacts, Zenon
<1>3. Begins(nodeChain, nodeChain)
  BY <1>2, BeginsOrder, Zenon
<1>4. SyncTypes
  <2>1. m_currentState \in DOMAIN Rank /\ m_futureState \in DOMAIN Rank
    BY <1>1, Zenon DEF Rank
  <2>2. blocks \in [ConsumerIndices -> Seq(ChainIds)]
    BY ONLY <1>1, <1>2, Zenon
  <2>3. \A i \in ConsumerIndices : Len(blocks[i]) > 0 /\ blocks[i][1] = nodeChain[1]
    BY ONLY <1>1, <1>2, Zenon
  <2>4. known \in [ConsumerIndices -> SUBSET PoolIds]
    BY ONLY <1>1, Zenon
  <2>5. notices \in SUBSET {"block", "pool"} /\ nodePool \in SUBSET PoolIds
    BY ONLY <1>1, Zenon
  <2>6. QED
    BY ONLY <1>1, <2>1, <2>2, <2>3, <2>4, <2>5, Zenon DEF SyncTypes
<1>5. BranchInv /\ HeldInv
  BY <1>1, <1>2, <1>3 DEF BranchInv, HeldInv
<1>6. QED
  BY <1>1, <1>4, <1>5, Zenon DEF SyncInv, ControlInv, AnswerInv, DueInv, BlocksDue, PoolDue

(* So it always holds.                                                     *)
LEMMA SyncAlways == SyncSpec => []SyncInv
BY SyncInitInv, SyncNextInv, PTL DEF SyncSpec

(* The chain of the consumer that asks for the next blocks begins that of  *)
(* every other one, for any number of consumers and whatever failed.       *)
THEOREM ConsumersAlwaysAgree == SyncSpec => []ConsumersAgree
<1>1. SyncInv => ConsumersAgree
  BY ShortestBegins, Zenon DEF SyncInv, ConsumersAgree
<1>2. QED
  BY <1>1, SyncAlways, PTL

(* No wake-up is lost: when the thread waits with nothing on its way and   *)
(* no error behind it, every consumer has the chain and the pool of the    *)
(* node.                                                                   *)
THEOREM WaitingIsSynced == SyncSpec => []WaitingMeansSynced
<1>1. SyncInv => WaitingMeansSynced
  BY Zenon DEF SyncInv, DueInv, BlocksDue, PoolDue, WaitingMeansSynced
<1>2. QED
  BY <1>1, SyncAlways, PTL

=============================================================================
