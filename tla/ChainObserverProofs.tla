------------------------ MODULE ChainObserverProofs -------------------------
(***************************************************************************)
(* Theorems about the upgrade detectors and the deposit index: they follow *)
(* the chain block by block and must fit it after any pushes and pops.     *)
(***************************************************************************)
EXTENDS UpgradeDetector, DepositIndex, WellFoundedInduction, TLAPS

(***************************************************************************)
(* For any currency, any votes and any order of pushes, pops, rollbacks    *)
(* and restarts: a detector knows the first height at which the vote       *)
(* succeeded, and the blocks of the node pass its own init.                *)
(*                                                                         *)
(* A block gets its version from what the detectors knew when it was       *)
(* pushed.  What makes a restart safe is that this is also the version     *)
(* that they would give it now (VersionsAgree): a vote decides only on     *)
(* blocks that come after it.                                              *)
(***************************************************************************)

Block == [major : Nat, minor : {0, 1}]

CompleteHeights(c, v) == {h \in 0..(Len(c) - 1) : isVotingComplete(c, v, h)}

HeightsExact(c, vch) ==
    /\ \A v \in Targets \ Voted : vch[v] = UNDEF_HEIGHT
    /\ \A v \in Voted : vch[v] = First(CompleteHeights(c, v))

VersionsAgree(c, vch) ==
    \A h \in 0..(Len(c) - 1) : At(c, h).major = get_block_major_version_for_height(h, vch)

UpgradeTypes ==
    /\ versions \in Seq(Block) /\ Len(versions) > 0 /\ Len(versions) <= UNDEF_HEIGHT
    /\ votingCompleteHeight \in [Targets -> Nat]
    /\ outvoted \subseteq Voted

UpgradeInv ==
    /\ UpgradeTypes
    /\ running /\ outvoted = {} => /\ HeightsExact(versions, votingCompleteHeight)
                                   /\ VersionsAgree(versions, votingCompleteHeight)

-----------------------------------------------------------------------------
(* A set of naturals has a least element.                                  *)
LEMMA LeastNatural ==
    ASSUME NEW S, S \subseteq Nat, S # {}
    PROVE  \E k \in S : \A j \in S : k <= j
<1>1. \E k \in S : \A j \in S : ~(<<j, k>> \in OpToRel(<, Nat))
  BY NatLessThanWellFounded, WFMin, Zenon
<1>2. \A j, k \in Nat : j < k => <<j, k>> \in OpToRel(<, Nat)
  BY Zenon DEF OpToRel
<1>3. \E k \in S : \A j \in S : ~(j < k)
  BY <1>1, <1>2, Zenon
<1>4. QED
  BY ONLY <1>3, S \subseteq Nat

(* No vote is no vote.                                                     *)
LEMMA EmptyCount == Cardinality({}) = 0
<1> DEFINE G(f) == [T \in SUBSET {} |-> IF T = {} THEN 0 ELSE 1 + f[T \ {CHOOSE x : x \in T}]]
           CS == CHOOSE f : f = G(f)
           z == [T \in SUBSET {} |-> 0]
<1>1. z = G(z)
  BY \A T \in SUBSET {} : T = {}, Zenon
<1>2. Cardinality({}) = CS[{}]
  BY Zenon DEF Cardinality
<1> HIDE DEF G, z
<1>3. CS = G(CS)
  BY <1>1, Zenon
<1> HIDE DEF CS
<1>4. CS[{}] = 0
  BY <1>3, Zenon DEF G
<1>5. QED
  BY <1>2, <1>4, Zenon

(* A set of versions has a highest one: a version is a byte.               *)
LEMMA HighestVersion ==
    ASSUME NEW S, S \subseteq 2..255, S # {}
    PROVE  \E v \in S : \A w \in S : w <= v
<1> DEFINE T == {255 - x : x \in S}
<1>1. T \subseteq Nat /\ T # {}
  <2>1. \A x \in S : 255 - x \in Nat
    OBVIOUS
  <2>2. PICK x : x \in S
    BY Zenon
  <2>3. 255 - x \in T
    BY <2>2
  <2>4. QED
    BY <2>1, <2>3
<1>2. PICK t \in T : \A u \in T : t <= u
  BY <1>1, LeastNatural, Zenon
<1>3. PICK x \in S : t = 255 - x
  BY Zenon
<1>4. ASSUME NEW y \in S
      PROVE  y <= x
  <2>0. 255 - y \in T
    OBVIOUS
  <2> HIDE DEF T
  <2>1. 255 - x <= 255 - y
    BY <1>2, <1>3, <2>0
  <2>2. x \in Nat /\ y \in Nat
    OBVIOUS
  <2>3. QED
    BY ONLY <2>1, <2>2
<1>5. QED
  BY <1>4, Zenon

(* The search of a loop that goes up and returns at the first hit.         *)
LEMMA FirstFacts ==
    ASSUME NEW S, S \subseteq Nat
    PROVE  /\ S = {} => First(S) = UNDEF_HEIGHT
           /\ S # {} => First(S) \in S /\ \A k \in S : First(S) <= k
           /\ First(S) \in Nat
<1>1. S = {} => First(S) = UNDEF_HEIGHT
  BY Zenon DEF First
<1>2. ASSUME S # {}
      PROVE  First(S) \in S /\ \A k \in S : First(S) <= k
  <2>1. \E h \in S : \A k \in S : h <= k
    BY <1>2, LeastNatural, Zenon
  <2>2. First(S) = CHOOSE h \in S : \A k \in S : h <= k
    BY <1>2, Zenon DEF First
  <2>3. QED
    BY <2>1, <2>2, Zenon
<1>3. First(S) \in Nat
  BY <1>1, <1>2, UpgradeAssumption, Zenon
<1>4. QED
  BY <1>1, <1>2, <1>3, Zenon

(* It is the only one below all the others.                                *)
LEMMA FirstUnique ==
    ASSUME NEW S, S \subseteq Nat, NEW x \in S, \A k \in S : x <= k
    PROVE  First(S) = x
<1>1. First(S) \in S /\ First(S) <= x
  BY FirstFacts, Zenon
<1>2. x <= First(S) /\ x \in Nat /\ First(S) \in Nat
  BY <1>1, Zenon
<1>3. QED
  BY ONLY <1>1, <1>2

(* The version for a height is one, or the highest target that is reached. *)
LEMMA MajorFacts ==
    ASSUME NEW h \in Nat, NEW vch \in [Targets -> Nat],
           NEW m, m = get_block_major_version_for_height(h, vch)
    PROVE  /\ m \in Targets \cup {1}
           /\ m \in Targets => h > upgradeHeight(m, vch)
           /\ \A w \in Targets : h > upgradeHeight(w, vch) => w <= m
<1> DEFINE R == {v \in Targets : h > upgradeHeight(v, vch)}
<1>0. Targets \subseteq 2..255
  BY UpgradeAssumption, Zenon
<1>1. m = IF R = {} THEN 1 ELSE CHOOSE v \in R : \A w \in R : w <= v
  BY Zenon DEF get_block_major_version_for_height
<1>2. CASE R = {}
  <2>1. m = 1 /\ 1 \notin Targets
    BY <1>0, <1>1, <1>2
  <2>2. QED
    BY <1>2, <2>1, Zenon
<1>3. CASE R # {}
  <2>1. R \subseteq 2..255
    BY <1>0, Zenon
  <2>2. \E v \in R : \A w \in R : w <= v
    BY <1>3, <2>1, HighestVersion, Zenon
  <2>3. m = CHOOSE v \in R : \A w \in R : w <= v
    BY <1>1, <1>3, Zenon
  <2>4. m \in R /\ \A w \in R : w <= m
    <3> HIDE DEF R
    <3> QED
      BY <2>2, <2>3, Zenon
  <2>5. QED
    BY <2>4, Zenon
<1>4. QED
  BY <1>2, <1>3, Zenon

(* It depends on nothing but which targets are reached.                    *)
LEMMA SameMajor ==
    ASSUME NEW h, NEW vch, NEW wch,
           \A v \in Targets : (h > upgradeHeight(v, vch)) <=> (h > upgradeHeight(v, wch))
    PROVE  get_block_major_version_for_height(h, vch) = get_block_major_version_for_height(h, wch)
<1> DEFINE R == {v \in Targets : h > upgradeHeight(v, vch)}
           Q == {v \in Targets : h > upgradeHeight(v, wch)}
           Highest(S) == IF S = {} THEN 1 ELSE CHOOSE v \in S : \A w \in S : w <= v
<1>1. R = Q
  BY Zenon
<1>2. get_block_major_version_for_height(h, vch) = Highest(R)
  BY Zenon DEF get_block_major_version_for_height
<1>3. get_block_major_version_for_height(h, wch) = Highest(Q)
  BY Zenon DEF get_block_major_version_for_height
<1> HIDE DEF R, Q, Highest
<1>4. QED
  BY <1>1, <1>2, <1>3, Zenon

-----------------------------------------------------------------------------
(* Whether the vote is complete at a height depends on the blocks up to    *)
(* there, and takes at least one block of the version before.              *)
LEMMA VotesLocal ==
    ASSUME NEW c, NEW d, NEW v, NEW h \in Nat, \A k \in 1..(h + 1) : c[k] = d[k]
    PROVE  isVotingComplete(c, v, h) = isVotingComplete(d, v, h)
<1>0. VotingWindow \in Nat
  BY UpgradeAssumption, Zenon
<1>1. CASE h < VotingWindow - 1
  BY <1>1, Zenon DEF isVotingComplete, getNumberOfVotes
<1>2. CASE ~(h < VotingWindow - 1)
  <2> DEFINE I == (h + 1 - VotingWindow)..h
             P(e) == {i \in I : At(e, i).major = v - 1 /\ At(e, i).minor = 1}
  <2>1. \A i \in I : i + 1 \in 1..(h + 1)
    BY <1>0, <1>2
  <2>2. \A i \in I : At(c, i) = At(d, i)
    BY <2>1, Zenon DEF At
  <2>3. P(c) = P(d)
    BY <2>2, Zenon
  <2>4. getNumberOfVotes(c, v, h) = Cardinality(P(c)) /\ getNumberOfVotes(d, v, h) = Cardinality(P(d))
    BY <1>2, Zenon DEF getNumberOfVotes
  <2> HIDE DEF P
  <2>5. QED
    BY <2>3, <2>4, Zenon DEF isVotingComplete
<1>3. QED
  BY <1>1, <1>2, Zenon

(* A complete vote has a block of the version before among its voters.     *)
LEMMA VotesNeedBlock ==
    ASSUME NEW c, NEW v, NEW h \in Nat, isVotingComplete(c, v, h)
    PROVE  \E i \in 0..h : At(c, i).major = v - 1
<1>0. VotingWindow \in Nat /\ VotingWindow > 1 /\ VotingThreshold \in Nat /\ VotingThreshold > 0
  BY UpgradeAssumption
<1>1. VotingThreshold * VotingWindow > 0
  BY <1>0
<1>2. getNumberOfVotes(c, v, h) # 0
  <2> SUFFICES ASSUME getNumberOfVotes(c, v, h) = 0 PROVE FALSE
    BY Zenon
  <2>1. VotingThreshold * VotingWindow <= 0
    BY DEF isVotingComplete
  <2>2. VotingThreshold * VotingWindow \in Nat
    BY <1>0
  <2>3. QED
    BY <1>1, <2>1, <2>2
<1> DEFINE I == (h + 1 - VotingWindow)..h
           P == {i \in I : At(c, i).major = v - 1 /\ At(c, i).minor = 1}
<1>3. ~(h < VotingWindow - 1) /\ getNumberOfVotes(c, v, h) = Cardinality(P)
  BY <1>2, Zenon DEF getNumberOfVotes
<1>4. P # {}
  BY <1>2, <1>3, EmptyCount, Zenon
<1>5. I \subseteq 0..h
  BY <1>0, <1>3
<1>6. QED
  BY <1>4, <1>5, Zenon

(* The heights at which a vote is complete are heights of the chain.       *)
LEMMA CompleteTypes ==
    ASSUME NEW c \in Seq(Block), Len(c) <= UNDEF_HEIGHT, NEW v
    PROVE  /\ CompleteHeights(c, v) \subseteq Nat
           /\ \A h \in CompleteHeights(c, v) : h < Len(c) /\ h < UNDEF_HEIGHT
           /\ First(CompleteHeights(c, v)) = UNDEF_HEIGHT => CompleteHeights(c, v) = {}
<1> USE UpgradeAssumption
<1>0. Len(c) \in Nat
  OBVIOUS
<1>1. /\ CompleteHeights(c, v) \subseteq Nat
      /\ \A h \in CompleteHeights(c, v) : h < Len(c) /\ h < UNDEF_HEIGHT
  BY <1>0 DEF CompleteHeights
<1>2. CompleteHeights(c, v) # {} => First(CompleteHeights(c, v)) \in CompleteHeights(c, v)
  BY <1>1, FirstFacts, Zenon
<1>3. QED
  BY <1>1, <1>2

(* A chain cut off at length n has the votes below n.                      *)
LEMMA CompleteOfPrefix ==
    ASSUME NEW c \in Seq(Block), NEW n \in 1..Len(c), NEW v,
           NEW d \in Seq(Block), Len(d) = n, \A k \in 1..n : d[k] = c[k]
    PROVE  \A h : h \in CompleteHeights(d, v) <=> h \in CompleteHeights(c, v) /\ h < n
<1>1. Len(c) \in Nat /\ n \in Nat /\ n <= Len(c)
  OBVIOUS
<1>2. ASSUME NEW h \in 0..(n - 1)
      PROVE  isVotingComplete(d, v, h) = isVotingComplete(c, v, h)
  <2>1. h \in Nat /\ \A k \in 1..(h + 1) : d[k] = c[k]
    BY <1>1
  <2>2. QED
    BY <2>1, VotesLocal, ZenonT(60)
<1>3. \A h \in 0..(n - 1) : h \in 0..(Len(c) - 1) /\ h < n
  BY <1>1
<1>4. \A h \in 0..(Len(c) - 1) : h < n => h \in 0..(n - 1)
  BY <1>1
<1>5. QED
  BY <1>2, <1>3, <1>4, Zenon DEF CompleteHeights

-----------------------------------------------------------------------------
(* Only the highest target can be voted on.                                *)
LEMMA VotedIsHighest ==
    ASSUME NEW v \in Voted, NEW w \in Targets
    PROVE  v \in Targets /\ w <= v /\ (w # v => w \notin Voted /\ w < v)
<1>1. v \in Targets /\ UpgradeHeight[v] = UNDEF_HEIGHT
  BY Zenon DEF Voted
<1>2. v \in Nat /\ w \in Nat
  BY <1>1, UpgradeAssumption
<1>3. UpgradeHeight[w] \in Nat /\ UpgradeHeight[w] <= UNDEF_HEIGHT /\ UNDEF_HEIGHT \in Nat
  BY UpgradeAssumption
<1>4. ~(v < w)
  BY <1>1, <1>3, UpgradeAssumption
<1>5. w < v => UpgradeHeight[w] < UNDEF_HEIGHT
  BY <1>1, UpgradeAssumption, Zenon
<1>6. w <= v /\ (w # v => w < v)
  BY ONLY <1>2, <1>4
<1>7. w < v => w \notin Voted
  BY <1>3, <1>5 DEF Voted
<1>8. QED
  BY <1>1, <1>6, <1>7, Zenon

(* upgradeHeight, case by case.                                            *)
LEMMA UpgradeHeights ==
    ASSUME NEW vch, NEW v \in Targets
    PROVE  /\ v \notin Voted => upgradeHeight(v, vch) = UpgradeHeight[v]
           /\ v \in Voted /\ vch[v] = UNDEF_HEIGHT => upgradeHeight(v, vch) = UNDEF_HEIGHT
           /\ v \in Voted /\ vch[v] # UNDEF_HEIGHT => upgradeHeight(v, vch) = vch[v] + UpgradeWindow
BY Zenon DEF Voted, upgradeHeight

(* A vote is complete only above the height at which the version before    *)
(* it starts, which is fixed.                                              *)
LEMMA VoteAfterFixed ==
    ASSUME NEW c \in Seq(Block), Len(c) > 0, Len(c) <= UNDEF_HEIGHT,
           NEW vch \in [Targets -> Nat], HeightsExact(c, vch), VersionsAgree(c, vch),
           NEW v \in Targets \ Voted, NEW w \in Voted, vch[w] # UNDEF_HEIGHT
    PROVE  vch[w] > UpgradeHeight[v]
<1> DEFINE H == CompleteHeights(c, w)
<1>1. H \subseteq Nat /\ (H # {} => First(H) \in H) /\ (H = {} => First(H) = UNDEF_HEIGHT)
  BY CompleteTypes, FirstFacts, Zenon
<1>2. vch[w] \in H
  BY <1>1, Zenon DEF HeightsExact
<1>3. vch[w] \in 0..(Len(c) - 1) /\ isVotingComplete(c, w, vch[w])
  BY <1>2, Zenon DEF CompleteHeights
<1>4. vch[w] \in Nat /\ Len(c) \in Nat
  BY <1>1, <1>2
<1>5. PICK i \in 0..vch[w] : At(c, i).major = w - 1
  BY <1>3, <1>4, VotesNeedBlock, Zenon
<1>6. i \in Nat /\ i <= vch[w] /\ i \in 0..(Len(c) - 1)
  BY <1>3, <1>4
<1>7. w - 1 = get_block_major_version_for_height(i, vch)
  BY <1>5, <1>6, Zenon DEF VersionsAgree
<1>8. /\ w - 1 \in Targets \cup {1}
      /\ w - 1 \in Targets => i > upgradeHeight(w - 1, vch)
  BY <1>6, <1>7, MajorFacts, Zenon
<1>9. v < w /\ v \in Nat /\ w \in Nat /\ v > 1
  BY VotedIsHighest, UpgradeAssumption DEF Voted
<1>10. w - 1 \in Targets /\ v <= w - 1
  BY <1>8, <1>9
<1>11. w - 1 # w
  BY <1>9
<1>12. w - 1 \notin Voted
  BY <1>10, <1>11, VotedIsHighest, Zenon
<1>13. i > UpgradeHeight[w - 1]
  BY <1>8, <1>10, <1>12, UpgradeHeights, Zenon
<1>14. /\ UpgradeHeight[v] <= UpgradeHeight[w - 1]
       /\ UpgradeHeight[v] \in Nat /\ UpgradeHeight[w - 1] \in Nat
  <2>1. v = w - 1 \/ v < w - 1
    BY <1>9, <1>10
  <2>2. /\ \A x \in Targets : UpgradeHeight[x] \in Nat
        /\ \A x, y \in Targets : x < y => UpgradeHeight[x] < UpgradeHeight[y]
    BY UpgradeAssumption
  <2>3. UpgradeHeight[v] \in Nat /\ UpgradeHeight[w - 1] \in Nat
    BY <1>10, <2>2, Zenon
  <2>4. v < w - 1 => UpgradeHeight[v] < UpgradeHeight[w - 1]
    BY <1>10, <2>2, Zenon
  <2>5. QED
    BY <2>1, <2>3, <2>4
<1>15. QED
  BY ONLY <1>4, <1>6, <1>13, <1>14

(* At the height where a fixed target starts, no higher one has started.   *)
LEMMA NoHigherYet ==
    ASSUME NEW c \in Seq(Block), Len(c) > 0, Len(c) <= UNDEF_HEIGHT,
           NEW vch \in [Targets -> Nat], HeightsExact(c, vch), VersionsAgree(c, vch),
           NEW v \in Targets \ Voted, NEW w \in Targets, v < w,
           NEW h \in Nat, h <= UpgradeHeight[v] + 1, h < UNDEF_HEIGHT
    PROVE  ~(h > upgradeHeight(w, vch))
<1>1. UpgradeHeight[v] \in Nat /\ UpgradeHeight[w] \in Nat /\ UpgradeHeight[v] < UpgradeHeight[w]
  BY UpgradeAssumption
<1>2. UNDEF_HEIGHT \in Nat /\ UpgradeWindow \in Nat /\ vch[w] \in Nat
  BY UpgradeAssumption, Zenon
<1>3. CASE w \notin Voted
  BY <1>1, <1>3, UpgradeHeights
<1>4. CASE w \in Voted /\ vch[w] = UNDEF_HEIGHT
  BY <1>2, <1>4, UpgradeHeights
<1>5. CASE w \in Voted /\ vch[w] # UNDEF_HEIGHT
  <2>1. vch[w] > UpgradeHeight[v]
    BY <1>5, VoteAfterFixed, Zenon
  <2>2. upgradeHeight(w, vch) = vch[w] + UpgradeWindow
    BY <1>5, UpgradeHeights, Zenon
  <2>3. QED
    BY <1>1, <1>2, <2>1, <2>2
<1>6. QED
  BY <1>3, <1>4, <1>5, Zenon

(* init of a detector whose height is fixed.                               *)
LEMMA RestartFixed ==
    ASSUME NEW c \in Seq(Block), Len(c) > 0, Len(c) <= UNDEF_HEIGHT,
           NEW vch \in [Targets -> Nat], HeightsExact(c, vch), VersionsAgree(c, vch),
           NEW v \in Targets \ Voted
    PROVE  initSucceeds(c, v)
<1>0. /\ Len(c) \in Nat /\ UpgradeHeight[v] \in Nat /\ UNDEF_HEIGHT \in Nat
      /\ v \in Nat /\ v > 1 /\ Targets \subseteq Nat
      /\ UpgradeHeight[v] # UNDEF_HEIGHT
  BY UpgradeAssumption DEF Voted
<1>1. CASE Len(c) <= UpgradeHeight[v] + 1
  <2> DEFINE h == Len(c) - 1
             m == get_block_major_version_for_height(h, vch)
  <2>1. /\ h \in Nat /\ h \in 0..(Len(c) - 1)
        /\ h <= UpgradeHeight[v] /\ h <= UpgradeHeight[v] + 1 /\ h < UNDEF_HEIGHT
    BY <1>0, <1>1
  <2>2. At(c, h).major = m
    BY <2>1, Zenon DEF VersionsAgree
  <2> HIDE DEF h
  <2>3. m \in Targets \cup {1} /\ (m \in Targets => h > upgradeHeight(m, vch))
    BY <2>1, MajorFacts, Zenon
  <2> HIDE DEF m
  <2>4. m \in Targets => ~(v < m)
    BY <2>1, <2>3, NoHigherYet, Zenon
  <2>5. m # v
    <3>1. upgradeHeight(v, vch) = UpgradeHeight[v]
      BY UpgradeHeights, Zenon
    <3>2. QED
      BY <1>0, <2>1, <2>3, <3>1
  <2>6. m < v
    BY <1>0, <2>3, <2>4, <2>5
  <2>7. QED
    BY <1>0, <1>1, <2>2, <2>6, Zenon DEF initSucceeds, h
<1>2. CASE ~(Len(c) <= UpgradeHeight[v] + 1)
  <2> DEFINE h == UpgradeHeight[v] + 1
             m == get_block_major_version_for_height(h, vch)
  <2>1. h \in Nat /\ h \in 0..(Len(c) - 1) /\ h <= UpgradeHeight[v] + 1 /\ h < UNDEF_HEIGHT
    BY <1>0, <1>2
  <2>2. At(c, h).major = m
    BY <2>1, Zenon DEF VersionsAgree
  <2>3. h > upgradeHeight(v, vch)
    BY <1>0, UpgradeHeights
  <2> HIDE DEF h
  <2>4. /\ m \in Targets \cup {1} /\ (m \in Targets => h > upgradeHeight(m, vch))
        /\ v <= m
    BY <2>1, <2>3, MajorFacts, Zenon
  <2> HIDE DEF m
  <2>5. m \in Targets => ~(v < m)
    BY <2>1, <2>4, NoHigherYet, Zenon
  <2>6. m = v
    BY <1>0, <2>4, <2>5
  <2>7. QED
    BY <1>0, <1>2, <2>2, <2>6, Zenon DEF initSucceeds, h
<1>3. QED
  BY <1>1, <1>2, Zenon

-----------------------------------------------------------------------------
(* The blocks of a voted version are those after the upgrade.              *)
LEMMA VotedMajors ==
    ASSUME NEW c \in Seq(Block), Len(c) > 0, Len(c) <= UNDEF_HEIGHT,
           NEW vch \in [Targets -> Nat], VersionsAgree(c, vch),
           NEW v \in Voted, NEW h \in 0..(Len(c) - 1)
    PROVE  /\ At(c, h).major \in Targets \cup {1} /\ At(c, h).major \in Nat /\ At(c, h).major <= v
           /\ At(c, h).major = v <=> vch[v] # UNDEF_HEIGHT /\ h > vch[v] + UpgradeWindow
<1> DEFINE m == At(c, h).major
<1>0. /\ h \in Nat /\ h < UNDEF_HEIGHT /\ UNDEF_HEIGHT \in Nat
      /\ v \in Targets /\ v \in Nat /\ v > 1 /\ Targets \subseteq Nat
  BY UpgradeAssumption DEF Voted
<1>1. m = get_block_major_version_for_height(h, vch)
  BY Zenon DEF VersionsAgree
<1>2. /\ m \in Targets \cup {1} /\ (m \in Targets => h > upgradeHeight(m, vch))
      /\ h > upgradeHeight(v, vch) => v <= m
  BY <1>0, <1>1, MajorFacts, Zenon
<1> HIDE DEF m
<1>3. m \in Targets => m <= v
  BY VotedIsHighest, Zenon
<1>4. m \in Nat /\ m <= v
  BY <1>0, <1>2, <1>3
<1>5. m = v <=> h > upgradeHeight(v, vch)
  BY <1>0, <1>2, <1>4
<1>6. vch[v] = UNDEF_HEIGHT => ~(h > upgradeHeight(v, vch))
  BY <1>0, UpgradeHeights
<1>7. vch[v] # UNDEF_HEIGHT => upgradeHeight(v, vch) = vch[v] + UpgradeWindow
  BY <1>0, UpgradeHeights, Zenon
<1>8. m = v <=> vch[v] # UNDEF_HEIGHT /\ h > vch[v] + UpgradeWindow
  BY <1>5, <1>6, <1>7, Zenon
<1>9. QED
  BY <1>2, <1>4, <1>8, Zenon DEF m

(* An exact detector has the first height at which its vote is complete.   *)
LEMMA ExactHeight ==
    ASSUME NEW c \in Seq(Block), Len(c) <= UNDEF_HEIGHT, NEW vch, HeightsExact(c, vch), NEW v \in Voted
    PROVE  /\ vch[v] = UNDEF_HEIGHT => CompleteHeights(c, v) = {}
           /\ vch[v] # UNDEF_HEIGHT => /\ vch[v] \in CompleteHeights(c, v)
                                       /\ \A k \in CompleteHeights(c, v) : vch[v] <= k
                                       /\ vch[v] \in 0..(Len(c) - 1)
<1> DEFINE H == CompleteHeights(c, v)
<1>1. vch[v] = First(H)
  BY Zenon DEF HeightsExact
<1>2. H \subseteq Nat /\ (First(H) = UNDEF_HEIGHT => H = {})
  BY CompleteTypes, Zenon
<1> HIDE DEF H
<1>3. /\ H = {} => First(H) = UNDEF_HEIGHT
      /\ H # {} => First(H) \in H /\ \A k \in H : First(H) <= k
  BY <1>2, FirstFacts, Zenon
<1>4. H \subseteq 0..(Len(c) - 1)
  BY Zenon DEF H, CompleteHeights
<1>5. QED
  BY <1>1, <1>2, <1>3, <1>4, Zenon DEF H

(* The search that starts seven upgrade windows below p finds the height   *)
(* if p is at most one block past the upgrade.                             *)
LEMMA SearchExact ==
    ASSUME NEW c \in Seq(Block), Len(c) > 0, Len(c) <= UNDEF_HEIGHT,
           NEW vch \in [Targets -> Nat], HeightsExact(c, vch), NEW v \in Voted,
           NEW p \in 0..(Len(c) - 1),
           vch[v] # UNDEF_HEIGHT => vch[v] <= p /\ p <= vch[v] + UpgradeWindow + 1
    PROVE  findVotingCompleteHeight(c, v, p) = vch[v]
<1> DEFINE from == IF p > 7 * UpgradeWindow THEN p - 7 * UpgradeWindow ELSE 0
           S == {h \in from..p : isVotingComplete(c, v, h)}
<1>0. /\ Len(c) \in Nat /\ p \in Nat /\ p <= Len(c) - 1
      /\ UpgradeWindow \in Nat /\ UpgradeWindow > 0
      /\ v \in Targets /\ vch[v] \in Nat
  BY UpgradeAssumption DEF Voted
<1>1. findVotingCompleteHeight(c, v, p) = First(S)
  BY Zenon DEF findVotingCompleteHeight
<1>2. from \in Nat
  BY <1>0
<1>3. \A h \in from..p : h \in 0..(Len(c) - 1)
  BY <1>0, <1>2
<1>4. S \subseteq CompleteHeights(c, v) /\ S \subseteq Nat
  BY <1>3 DEF CompleteHeights
<1>5. CASE vch[v] = UNDEF_HEIGHT
  <2>1. S = {}
    BY <1>4, <1>5, ExactHeight, Zenon
  <2> HIDE DEF S
  <2>2. QED
    BY <1>1, <1>5, <2>1, Zenon DEF First
<1>6. CASE vch[v] # UNDEF_HEIGHT
  <2>1. /\ vch[v] \in CompleteHeights(c, v)
        /\ \A k \in CompleteHeights(c, v) : vch[v] <= k
    BY <1>6, ExactHeight, Zenon
  <2>2. from <= vch[v] /\ vch[v] <= p
    BY <1>0, <1>6
  <2>3. vch[v] \in from..p
    BY <1>0, <1>2, <2>2
  <2>4. vch[v] \in S
    BY <2>1, <2>3, Zenon DEF CompleteHeights
  <2>5. \A k \in S : vch[v] <= k
    BY <1>4, <2>1, Zenon
  <2> HIDE DEF S
  <2>6. First(S) = vch[v]
    BY <1>4, <2>4, <2>5, FirstUnique, Zenon
  <2>7. QED
    BY <1>1, <2>6, Zenon
<1>7. QED
  BY <1>5, <1>6, Zenon

(* The first block of a voted version is the one after the upgrade.        *)
LEMMA FirstBlockExact ==
    ASSUME NEW c \in Seq(Block), Len(c) > 0, Len(c) <= UNDEF_HEIGHT,
           NEW vch \in [Targets -> Nat], HeightsExact(c, vch), VersionsAgree(c, vch),
           NEW v \in Voted, At(c, Len(c) - 1).major >= v
    PROVE  /\ vch[v] # UNDEF_HEIGHT /\ vch[v] + UpgradeWindow + 1 \in 0..(Len(c) - 1)
           /\ firstBlockOf(c, v) = vch[v] + UpgradeWindow + 1
           /\ At(c, vch[v] + UpgradeWindow + 1).major = v
<1> DEFINE t == Len(c) - 1
           S == {h \in 0..t : At(c, h).major >= v}
           p == vch[v] + UpgradeWindow + 1
<1>0. /\ Len(c) \in Nat /\ t \in Nat /\ t \in 0..(Len(c) - 1)
      /\ UpgradeWindow \in Nat /\ v \in Targets /\ v \in Nat /\ vch[v] \in Nat
  BY UpgradeAssumption DEF Voted
<1>1. \A h \in 0..(Len(c) - 1) :
          /\ At(c, h).major \in Nat /\ At(c, h).major <= v
          /\ At(c, h).major = v <=> vch[v] # UNDEF_HEIGHT /\ h > vch[v] + UpgradeWindow
  BY VotedMajors, Zenon
<1>2. \A h \in 0..(Len(c) - 1) : At(c, h).major >= v => At(c, h).major = v
  BY <1>0, <1>1
<1>3. vch[v] # UNDEF_HEIGHT /\ t > vch[v] + UpgradeWindow
  BY <1>0, <1>1, <1>2, Zenon
<1>4. p \in 0..(Len(c) - 1) /\ p > vch[v] + UpgradeWindow
  BY <1>0, <1>3
<1>5. At(c, p).major = v
  BY <1>1, <1>3, <1>4, Zenon
<1>6. p \in S
  BY <1>0, <1>4, <1>5
<1>7. \A h \in S : h > vch[v] + UpgradeWindow /\ h \in Nat
  BY <1>1, <1>2
<1>8. \A h \in S : p <= h
  BY <1>0, <1>7
<1>9. S \subseteq Nat
  BY <1>7, Zenon
<1>10. firstBlockOf(c, v) = First(S)
  BY Zenon DEF firstBlockOf
<1> HIDE DEF S, p
<1>11. First(S) = p
  BY <1>6, <1>8, <1>9, FirstUnique, Zenon
<1>12. QED
  BY <1>3, <1>4, <1>5, <1>10, <1>11, Zenon DEF p

(* init of a detector with a vote finds what the detector knew.            *)
LEMMA RestartVoted ==
    ASSUME NEW c \in Seq(Block), Len(c) > 0, Len(c) <= UNDEF_HEIGHT,
           NEW vch \in [Targets -> Nat], HeightsExact(c, vch), VersionsAgree(c, vch),
           NEW v \in Voted
    PROVE  initHeight(c, v) = vch[v] /\ initSucceeds(c, v)
<1> DEFINE t == Len(c) - 1
           tip == At(c, t).major
<1>0. /\ Len(c) \in Nat /\ t \in Nat /\ t \in 0..(Len(c) - 1)
      /\ UpgradeWindow \in Nat /\ UNDEF_HEIGHT \in Nat
      /\ v \in Targets /\ v \in Nat /\ v > 1 /\ Targets \subseteq Nat /\ 1 \notin Targets
      /\ vch[v] \in Nat /\ UpgradeHeight[v] = UNDEF_HEIGHT
  BY UpgradeAssumption DEF Voted
<1>1. /\ tip \in Targets \cup {1} /\ tip \in Nat /\ tip <= v
      /\ tip = v <=> vch[v] # UNDEF_HEIGHT /\ t > vch[v] + UpgradeWindow
  <2>1. \A h \in 0..(Len(c) - 1) :
            /\ At(c, h).major \in Targets \cup {1} /\ At(c, h).major \in Nat /\ At(c, h).major <= v
            /\ At(c, h).major = v <=> vch[v] # UNDEF_HEIGHT /\ h > vch[v] + UpgradeWindow
    BY VotedMajors, Zenon
  <2>2. QED
    BY <1>0, <2>1, Zenon
<1>2. vch[v] # UNDEF_HEIGHT => vch[v] \in CompleteHeights(c, v) /\ vch[v] \in 0..(Len(c) - 1)
  BY ExactHeight, Zenon
<1>3. CASE v - 1 = tip
  <2>1. tip # v /\ ~(v <= tip)
    BY <1>0, <1>3
  <2>2. vch[v] # UNDEF_HEIGHT => vch[v] <= t /\ t <= vch[v] + UpgradeWindow + 1
    BY <1>0, <1>1, <1>2, <2>1
  <2>3. findVotingCompleteHeight(c, v, t) = vch[v]
    BY <1>0, <2>2, SearchExact, Zenon
  <2>4. QED
    BY <1>0, <1>3, <2>1, <2>3, Zenon DEF initHeight, initSucceeds
<1>4. CASE v <= tip
  <2> DEFINE p == vch[v] + UpgradeWindow + 1
  <2>1. tip >= v /\ v - 1 # tip
    BY <1>0, <1>1, <1>4
  <2>2. /\ vch[v] # UNDEF_HEIGHT /\ p \in 0..(Len(c) - 1)
        /\ firstBlockOf(c, v) = p /\ At(c, p).major = v
    BY <2>1, FirstBlockExact, Zenon
  <2>3. vch[v] <= p /\ p <= vch[v] + UpgradeWindow + 1
    BY <1>0
  <2>4. findVotingCompleteHeight(c, v, p) = vch[v]
    BY <2>2, <2>3, SearchExact, Zenon
  <2> HIDE DEF p
  <2>5. initHeight(c, v) = vch[v]
    BY <1>0, <1>4, <2>1, <2>2, <2>4, Zenon DEF initHeight
  <2>6. QED
    BY <1>0, <2>2, <2>5, Zenon DEF initSucceeds
<1>5. CASE v - 1 # tip /\ ~(v <= tip)
  <2>1. tip < v - 1
    BY <1>0, <1>1, <1>5
  <2>2. vch[v] = UNDEF_HEIGHT
    <3> SUFFICES ASSUME vch[v] # UNDEF_HEIGHT PROVE FALSE
      BY Zenon
    <3>1. isVotingComplete(c, v, vch[v])
      BY <1>2, Zenon DEF CompleteHeights
    <3>2. PICK i \in 0..vch[v] : At(c, i).major = v - 1
      BY <1>0, <3>1, VotesNeedBlock, Zenon
    <3>3. i \in Nat /\ i \in 0..(Len(c) - 1) /\ i <= t
      BY <1>0, <1>2
    <3>4. v - 1 = get_block_major_version_for_height(i, vch)
      BY <3>2, <3>3, Zenon DEF VersionsAgree
    <3>5. v - 1 \in Targets \cup {1} /\ (v - 1 \in Targets => i > upgradeHeight(v - 1, vch))
      BY <3>3, <3>4, MajorFacts, Zenon
    <3>6. CASE v - 1 \in Targets
      <4>1. v - 1 # v
        BY <1>0
      <4>2. upgradeHeight(v - 1, vch) = UpgradeHeight[v - 1]
        BY <3>6, <4>1, VotedIsHighest, UpgradeHeights, Zenon
      <4>3. \A x \in Targets : UpgradeHeight[x] \in Nat
        BY UpgradeAssumption
      <4>4. UpgradeHeight[v - 1] \in Nat
        BY <3>6, <4>3, Zenon
      <4>5. t > upgradeHeight(v - 1, vch)
        BY <1>0, <3>3, <3>5, <3>6, <4>2, <4>4
      <4>6. tip = get_block_major_version_for_height(t, vch)
        BY <1>0, Zenon DEF VersionsAgree
      <4>7. v - 1 <= tip
        BY <1>0, <3>6, <4>5, <4>6, MajorFacts, Zenon
      <4>8. QED
        BY <1>0, <1>1, <2>1, <4>7
    <3>7. CASE v - 1 = 1
      BY <1>0, <1>1, <2>1, <3>7, SMTT(40)
    <3>8. QED
      BY <3>5, <3>6, <3>7, Zenon
  <2>3. QED
    BY <1>0, <1>5, <2>2, Zenon DEF initHeight, initSucceeds
<1>6. QED
  BY <1>3, <1>4, <1>5, Zenon

(* init gives a height.                                                    *)
LEMMA InitTypes ==
    ASSUME NEW c \in Seq(Block), Len(c) > 0, NEW v \in Targets
    PROVE  initHeight(c, v) \in Nat
<1>1. UNDEF_HEIGHT \in Nat /\ Len(c) \in Nat /\ UpgradeWindow \in Nat
  BY UpgradeAssumption
<1>2. ASSUME NEW p \in Nat
      PROVE  findVotingCompleteHeight(c, v, p) \in Nat
  <2> DEFINE from == IF p > 7 * UpgradeWindow THEN p - 7 * UpgradeWindow ELSE 0
             S == {h \in from..p : isVotingComplete(c, v, h)}
  <2>1. from \in Nat
    BY <1>1
  <2>2. S \subseteq Nat
    BY <2>1
  <2>3. findVotingCompleteHeight(c, v, p) = First(S)
    BY Zenon DEF findVotingCompleteHeight
  <2> HIDE DEF S
  <2>4. QED
    BY <2>2, <2>3, FirstFacts, Zenon
<1>3. Len(c) - 1 \in Nat
  BY <1>1
<1>4. firstBlockOf(c, v) \in Nat
  <2>1. {h \in 0..(Len(c) - 1) : At(c, h).major >= v} \subseteq Nat
    BY <1>3
  <2>2. QED
    BY <2>1, FirstFacts, Zenon DEF firstBlockOf
<1>5. QED
  BY <1>1, <1>2, <1>3, <1>4, Zenon DEF initHeight

-----------------------------------------------------------------------------
(* Two records of the votes that differ only in a vote that is complete at *)
(* height n or above give the blocks below n the same version.             *)
LEMMA LaterVote ==
    ASSUME NEW vch \in [Targets -> Nat], NEW wch \in [Targets -> Nat],
           NEW h \in Nat, h < UNDEF_HEIGHT,
           \A v \in Voted : \/ wch[v] = vch[v]
                            \/ /\ vch[v] = UNDEF_HEIGHT \/ vch[v] >= h
                               /\ wch[v] = UNDEF_HEIGHT \/ wch[v] >= h
    PROVE  get_block_major_version_for_height(h, vch) = get_block_major_version_for_height(h, wch)
<1>0. UNDEF_HEIGHT \in Nat /\ UpgradeWindow \in Nat
  BY UpgradeAssumption, Zenon
<1>1. ASSUME NEW x \in [Targets -> Nat], NEW v \in Voted, x[v] = UNDEF_HEIGHT \/ x[v] >= h
      PROVE  ~(h > upgradeHeight(v, x))
  <2>1. v \in Targets /\ x[v] \in Nat
    BY Zenon DEF Voted
  <2>2. CASE x[v] = UNDEF_HEIGHT
    BY <1>0, <2>1, <2>2, UpgradeHeights
  <2>3. CASE x[v] # UNDEF_HEIGHT
    <3>1. upgradeHeight(v, x) = x[v] + UpgradeWindow
      BY <2>1, <2>3, UpgradeHeights, Zenon
    <3>2. QED
      BY <1>0, <1>1, <2>1, <2>3, <3>1
  <2>4. QED
    BY <2>2, <2>3, Zenon
<1>2. ASSUME NEW v \in Targets
      PROVE  (h > upgradeHeight(v, vch)) <=> (h > upgradeHeight(v, wch))
  <2>1. CASE v \notin Voted
    BY <2>1, UpgradeHeights, Zenon
  <2>2. CASE v \in Voted /\ wch[v] = vch[v]
    BY <2>2, Zenon DEF upgradeHeight
  <2>3. CASE v \in Voted /\ wch[v] # vch[v]
    BY <1>1, <2>3, Zenon
  <2>4. QED
    BY <2>1, <2>2, <2>3, Zenon
<1>3. QED
  BY <1>2, SameMajor, Zenon

(* A chain cut off at length n, with the votes forgotten that were         *)
(* complete in what was cut off.                                           *)
CutOff(c, vch, n, d, wch) ==
    /\ d \in Seq(Block) /\ Len(d) = n /\ \A k \in 1..n : d[k] = c[k]
    /\ wch \in [Targets -> Nat]
    /\ \A v \in Targets : wch[v] = IF vch[v] >= n THEN UNDEF_HEIGHT ELSE vch[v]

(* A shorter chain and detectors that forget what is above it agree.       *)
LEMMA CutKeeps ==
    ASSUME NEW c \in Seq(Block), Len(c) <= UNDEF_HEIGHT,
           NEW vch \in [Targets -> Nat], HeightsExact(c, vch), VersionsAgree(c, vch),
           NEW n \in 1..Len(c), NEW d, NEW wch, CutOff(c, vch, n, d, wch)
    PROVE  HeightsExact(d, wch) /\ VersionsAgree(d, wch)
<1> USE DEF CutOff
<1>0. /\ Len(c) \in Nat /\ n \in Nat /\ n > 0 /\ n <= Len(c) /\ n <= UNDEF_HEIGHT
      /\ UNDEF_HEIGHT \in Nat /\ Voted \subseteq Targets
  BY UpgradeAssumption DEF Voted
<1>1. \A v \in Targets \ Voted : wch[v] = UNDEF_HEIGHT
  BY <1>0, Zenon DEF HeightsExact
<1>2. ASSUME NEW v \in Voted
      PROVE  wch[v] = First(CompleteHeights(d, v))
  <2> DEFINE H == CompleteHeights(c, v)
             G == CompleteHeights(d, v)
  <2>0. v \in Targets /\ vch[v] \in Nat
    BY <1>0, Zenon
  <2>1. \A h : h \in G <=> h \in H /\ h < n
    BY CompleteOfPrefix, Zenon
  <2>2. H \subseteq Nat
    BY CompleteTypes, Zenon
  <2>3. /\ vch[v] = UNDEF_HEIGHT => H = {}
        /\ vch[v] # UNDEF_HEIGHT => vch[v] \in H /\ \A k \in H : vch[v] <= k
    BY ExactHeight, ZenonT(60)
  <2> HIDE DEF H, G
  <2>4. CASE vch[v] >= n
    <3>1. ASSUME NEW k \in H
          PROVE  ~(k < n)
      <4>1. vch[v] <= k /\ k \in Nat
        BY <2>2, <2>3, Zenon
      <4>2. QED
        BY ONLY <1>0, <2>0, <2>4, <4>1
    <3>2. wch[v] = UNDEF_HEIGHT
      BY <2>0, <2>4, Zenon
    <3>3. G = {}
      BY <2>1, <3>1, Zenon
    <3>4. QED
      BY <3>2, <3>3, Zenon DEF First, G
  <2>5. CASE ~(vch[v] >= n)
    <3>1. vch[v] # UNDEF_HEIGHT /\ vch[v] < n
      BY <1>0, <2>0, <2>5
    <3>2. vch[v] \in G /\ (\A k \in G : vch[v] <= k) /\ G \subseteq Nat
      BY <2>1, <2>2, <2>3, <3>1, Zenon
    <3>3. First(G) = vch[v]
      BY <3>2, FirstUnique, Zenon
    <3>4. wch[v] = vch[v]
      BY <2>0, <2>5, Zenon
    <3>5. QED
      BY <3>3, <3>4, Zenon DEF G
  <2>6. QED
    BY <2>4, <2>5, Zenon
<1>3. ASSUME NEW h \in 0..(Len(d) - 1)
      PROVE  At(d, h).major = get_block_major_version_for_height(h, wch)
  <2>1. h \in Nat /\ h < n /\ h < UNDEF_HEIGHT /\ h \in 0..(Len(c) - 1) /\ h + 1 \in 1..n
    BY <1>0
  <2>2. At(d, h) = At(c, h)
    BY <2>1, Zenon DEF At
  <2>3. At(c, h).major = get_block_major_version_for_height(h, vch)
    BY <2>1, Zenon DEF VersionsAgree
  <2>4. ASSUME NEW v \in Voted
        PROVE  \/ wch[v] = vch[v]
               \/ /\ vch[v] = UNDEF_HEIGHT \/ vch[v] >= h
                  /\ wch[v] = UNDEF_HEIGHT \/ wch[v] >= h
    <3>1. v \in Targets /\ vch[v] \in Nat
      BY <1>0, Zenon
    <3>2. QED
      BY <1>0, <2>1, <3>1
  <2>5. get_block_major_version_for_height(h, vch) = get_block_major_version_for_height(h, wch)
    BY <2>1, <2>4, LaterVote, Zenon
  <2>6. QED
    BY <2>2, <2>3, <2>5, Zenon
<1>4. QED
  BY <1>1, <1>2, <1>3, Zenon DEF HeightsExact, VersionsAgree

-----------------------------------------------------------------------------
(* A block pushed on chain c, of the version for its height.               *)
Pushed(c, vch, d, wch) ==
    /\ d \in Seq(Block) /\ Len(d) = Len(c) + 1 /\ \A k \in 1..Len(c) : c[k] = d[k]
    /\ At(d, Len(c)).major = get_block_major_version_for_height(Len(c), vch)
    /\ wch \in [Targets -> Nat]
    /\ \A v \in Targets :
          wch[v] = IF v \in Voted /\ vch[v] = UNDEF_HEIGHT /\ isVotingComplete(d, v, Len(c))
                   THEN Len(c) ELSE vch[v]

(* A longer chain and detectors that have counted its last block agree.    *)
LEMMA PushKeeps ==
    ASSUME NEW c \in Seq(Block), Len(c) < UNDEF_HEIGHT, Len(c) > 0,
           NEW vch \in [Targets -> Nat], HeightsExact(c, vch), VersionsAgree(c, vch),
           NEW d, NEW wch, Pushed(c, vch, d, wch)
    PROVE  HeightsExact(d, wch) /\ VersionsAgree(d, wch)
<1> USE DEF Pushed
<1> DEFINE n == Len(c)
<1>0. /\ n \in Nat /\ n > 0 /\ n < UNDEF_HEIGHT /\ Len(d) <= UNDEF_HEIGHT /\ n \in 1..Len(d)
      /\ Len(c) <= UNDEF_HEIGHT
      /\ UNDEF_HEIGHT \in Nat /\ Voted \subseteq Targets /\ Len(d) = n + 1 /\ n \in 0..(Len(d) - 1)
  BY UpgradeAssumption DEF Voted
<1>1. \A v \in Targets \ Voted : wch[v] = UNDEF_HEIGHT
  BY Zenon DEF HeightsExact
<1>2. ASSUME NEW v \in Voted
      PROVE  wch[v] = First(CompleteHeights(d, v))
  <2> DEFINE H == CompleteHeights(c, v)
             G == CompleteHeights(d, v)
  <2>0. v \in Targets /\ vch[v] \in Nat
    BY <1>0, Zenon
  <2>1. \A h : h \in H <=> h \in G /\ h < n
    <3>1. Len(c) = n /\ \A k \in 1..n : c[k] = d[k]
      BY Zenon
    <3> HIDE DEF n
    <3>2. QED
      BY <1>0, <3>1, CompleteOfPrefix, Zenon
  <2>2. G \subseteq Nat /\ \A k \in G : k <= n
    BY <1>0 DEF CompleteHeights
  <2>3. n \in G <=> isVotingComplete(d, v, n)
    BY <1>0, Zenon DEF CompleteHeights
  <2>4. /\ vch[v] = UNDEF_HEIGHT => H = {}
        /\ vch[v] # UNDEF_HEIGHT => /\ vch[v] \in H /\ \A k \in H : vch[v] <= k
                                    /\ vch[v] \in 0..(n - 1)
    BY <1>0, ExactHeight, ZenonT(60)
  <2>5. wch[v] = IF vch[v] = UNDEF_HEIGHT /\ isVotingComplete(d, v, n) THEN n ELSE vch[v]
    BY <2>0, Zenon
  <2> HIDE DEF H, G, n
  <2>6. \A k \in G : k = n \/ k \in H
    BY <1>0, <2>1, <2>2
  <2>7. CASE vch[v] = UNDEF_HEIGHT /\ isVotingComplete(d, v, n)
    <3>0. n \in G /\ (\A k \in G : k = n) /\ n <= n
      BY <1>0, <2>3, <2>4, <2>6, <2>7
    <3>1. n \in G /\ \A k \in G : n <= k
      BY <3>0, Zenon
    <3>2. First(G) = n
      BY <2>2, <3>1, FirstUnique, Zenon
    <3>3. QED
      BY <2>5, <2>7, <3>2, Zenon DEF G
  <2>8. CASE vch[v] = UNDEF_HEIGHT /\ ~isVotingComplete(d, v, n)
    <3>1. G = {}
      BY <2>3, <2>4, <2>6, <2>8, Zenon
    <3>2. QED
      BY <2>5, <2>8, <3>1, Zenon DEF G, First
  <2>9. CASE vch[v] # UNDEF_HEIGHT
    <3>1. vch[v] <= n
      BY <1>0, <2>4, <2>9
    <3>2. vch[v] \in G /\ \A k \in G : vch[v] <= k
      BY <2>1, <2>4, <2>6, <2>9, <3>1, Zenon
    <3>3. First(G) = vch[v]
      BY <2>2, <3>2, FirstUnique, Zenon
    <3>4. QED
      BY <2>5, <2>9, <3>3, Zenon DEF G
  <2>10. QED
    BY <2>7, <2>8, <2>9, Zenon
<1>3. ASSUME NEW h \in 0..(Len(d) - 1)
      PROVE  At(d, h).major = get_block_major_version_for_height(h, wch)
  <2>1. h \in Nat /\ h <= n /\ h < UNDEF_HEIGHT
    BY <1>0
  <2>2. ASSUME NEW v \in Voted
        PROVE  \/ wch[v] = vch[v]
               \/ /\ vch[v] = UNDEF_HEIGHT \/ vch[v] >= h
                  /\ wch[v] = UNDEF_HEIGHT \/ wch[v] >= h
    <3>1. v \in Targets /\ vch[v] \in Nat
      BY <1>0, Zenon
    <3>2. QED
      BY <1>0, <2>1, <3>1, Zenon
  <2>3. get_block_major_version_for_height(h, vch) = get_block_major_version_for_height(h, wch)
    BY <2>1, <2>2, LaterVote, Zenon
  <2>4. CASE h = n
    BY <2>3, <2>4, Zenon
  <2>5. CASE h # n
    <3>1. h \in 0..(Len(c) - 1) /\ h + 1 \in 1..Len(c)
      BY <1>0, <2>1, <2>5
    <3>2. At(d, h) = At(c, h)
      BY <3>1, Zenon DEF At
    <3>3. QED
      BY <2>3, <3>1, <3>2, Zenon DEF VersionsAgree
  <2>6. QED
    BY <2>4, <2>5, Zenon
<1>4. QED
  BY <1>1, <1>2, <1>3, Zenon DEF HeightsExact, VersionsAgree

(* pushBlock and blockPushed keep the invariant.                           *)
LEMMA PushInv ==
    ASSUME UpgradeInv, pushVersion
    PROVE  UpgradeInv'
<1> DEFINE major == get_block_major_version_for_height(Len(versions), votingCompleteHeight)
<1>0. /\ versions \in Seq(Block) /\ Len(versions) \in Nat /\ Len(versions) > 0
      /\ votingCompleteHeight \in [Targets -> Nat] /\ outvoted \subseteq Voted
  BY DEF UpgradeInv, UpgradeTypes
<1>1. PICK minor \in {0, 1} : versions' = Append(versions, [major |-> major, minor |-> minor])
  BY Zenon DEF pushVersion
<1>2. /\ votingCompleteHeight' = [v \in Targets |-> blockPushed(versions', v)]
      /\ Len(versions) < MaxVersions /\ running' = running /\ outvoted' = outvoted
  BY Zenon DEF pushVersion
<1>3. Len(versions) < UNDEF_HEIGHT /\ UNDEF_HEIGHT \in Nat
  BY <1>0, <1>2, UpgradeAssumption
<1>4. major \in Nat
  <2>1. major \in Targets \cup {1}
    BY <1>0, MajorFacts, Zenon
  <2>2. Targets \subseteq Nat
    BY UpgradeAssumption
  <2> HIDE DEF major
  <2>3. QED
    BY <2>1, <2>2
<1> HIDE DEF major
<1>5. [major |-> major, minor |-> minor] \in Block
  BY <1>4, Zenon DEF Block
<1>6. /\ versions' \in Seq(Block) /\ Len(versions') = Len(versions) + 1
      /\ \A k \in 1..Len(versions) : versions[k] = versions'[k]
      /\ At(versions', Len(versions)).major = major
  BY <1>0, <1>1, <1>5 DEF At
<1>7. Len(versions') - 1 = Len(versions)
  BY <1>0, <1>6
<1>8. \A v \in Targets :
          votingCompleteHeight'[v] =
              IF v \in Voted /\ votingCompleteHeight[v] = UNDEF_HEIGHT
                 /\ isVotingComplete(versions', v, Len(versions))
              THEN Len(versions) ELSE votingCompleteHeight[v]
  BY <1>2, <1>7, Zenon DEF blockPushed, Voted
<1>9. votingCompleteHeight' \in [Targets -> Nat]
  <2>1. \A v \in Targets : votingCompleteHeight'[v] \in Nat
    BY <1>0, <1>8, Zenon
  <2>2. QED
    BY <1>2, <2>1, Zenon
<1>10. UpgradeTypes'
  BY <1>0, <1>2, <1>3, <1>6, <1>9 DEF UpgradeTypes
<1>11. ASSUME running, outvoted = {}
       PROVE  /\ HeightsExact(versions', votingCompleteHeight')
              /\ VersionsAgree(versions', votingCompleteHeight')
  <2>1. HeightsExact(versions, votingCompleteHeight) /\ VersionsAgree(versions, votingCompleteHeight)
    BY <1>11, Zenon DEF UpgradeInv
  <2>2. At(versions', Len(versions)).major
            = get_block_major_version_for_height(Len(versions), votingCompleteHeight)
    BY <1>6, Zenon DEF major
  <2>3. Pushed(versions, votingCompleteHeight, versions', votingCompleteHeight')
    BY <1>6, <1>8, <1>9, <2>2, Zenon DEF Pushed
  <2>4. QED
    BY <1>0, <1>3, <2>1, <2>3, PushKeeps, Zenon
<1>12. QED
  BY <1>2, <1>10, <1>11, Zenon DEF UpgradeInv

(* popBlock and blockPopped keep it.                                       *)
LEMMA PopInv ==
    ASSUME UpgradeInv, popVersion
    PROVE  UpgradeInv'
<1> DEFINE n == Len(versions) - 1
<1>0. /\ versions \in Seq(Block) /\ Len(versions) \in Nat /\ Len(versions) <= UNDEF_HEIGHT
      /\ votingCompleteHeight \in [Targets -> Nat] /\ outvoted \subseteq Voted
      /\ UNDEF_HEIGHT \in Nat /\ Voted \subseteq Targets
  BY UpgradeAssumption DEF UpgradeInv, UpgradeTypes, Voted
<1>1. /\ Len(versions) > 1 /\ versions' = SubSeq(versions, 1, Len(versions) - 1)
      /\ votingCompleteHeight' = [v \in Targets |-> blockPopped(versions', v)]
      /\ running' = running /\ outvoted' = outvoted
  BY Zenon DEF popVersion
<1>2. n \in Nat /\ n > 0 /\ n < UNDEF_HEIGHT /\ n \in 1..Len(versions)
  BY <1>0, <1>1
<1>3. /\ versions' \in Seq(Block) /\ Len(versions') = n
      /\ \A k \in 1..n : versions'[k] = versions[k]
  BY <1>0, <1>1, <1>2
<1> HIDE DEF n
<1>4. \A v \in Targets :
          votingCompleteHeight'[v]
              = IF votingCompleteHeight[v] = n THEN UNDEF_HEIGHT ELSE votingCompleteHeight[v]
  BY <1>1, <1>3, Zenon DEF blockPopped
<1>5. votingCompleteHeight' \in [Targets -> Nat]
  <2>1. \A v \in Targets : votingCompleteHeight'[v] \in Nat
    BY <1>0, <1>4, Zenon
  <2>2. QED
    BY <1>1, <2>1, Zenon
<1>6. UpgradeTypes'
  BY <1>0, <1>1, <1>2, <1>3, <1>5 DEF UpgradeTypes
<1>7. ASSUME running, outvoted = {}
      PROVE  /\ HeightsExact(versions', votingCompleteHeight')
             /\ VersionsAgree(versions', votingCompleteHeight')
  <2>1. HeightsExact(versions, votingCompleteHeight) /\ VersionsAgree(versions, votingCompleteHeight)
    BY <1>7, Zenon DEF UpgradeInv
  <2>2. ASSUME NEW v \in Targets
        PROVE  votingCompleteHeight'[v]
                   = IF votingCompleteHeight[v] >= n THEN UNDEF_HEIGHT ELSE votingCompleteHeight[v]
    <3>1. votingCompleteHeight[v] = UNDEF_HEIGHT \/ votingCompleteHeight[v] \in 0..(Len(versions) - 1)
      <4>1. CASE v \in Voted
        BY <1>0, <2>1, <4>1, ExactHeight, Zenon
      <4>2. CASE v \notin Voted
        BY <2>1, <4>2, Zenon DEF HeightsExact
      <4>3. QED
        BY <4>1, <4>2, Zenon
    <3>2. QED
      BY <1>0, <1>2, <1>4, <3>1 DEF n
  <2>3. CutOff(versions, votingCompleteHeight, n, versions', votingCompleteHeight')
    BY <1>3, <1>5, <2>2, Zenon DEF CutOff
  <2>4. QED
    BY <1>0, <1>2, <2>1, <2>3, CutKeeps, Zenon
<1>8. QED
  BY <1>1, <1>6, <1>7, Zenon DEF UpgradeInv

(* rollbackBlockchainTo keeps it.                                          *)
LEMMA RollbackInv ==
    ASSUME UpgradeInv, NEW height \in 0..(MaxVersions - 1), rollbackVersionsTo(height)
    PROVE  UpgradeInv'
<1> DEFINE n == height + 1
<1>0. /\ versions \in Seq(Block) /\ Len(versions) \in Nat /\ Len(versions) <= UNDEF_HEIGHT
      /\ votingCompleteHeight \in [Targets -> Nat] /\ outvoted \subseteq Voted
      /\ UNDEF_HEIGHT \in Nat /\ Voted \subseteq Targets
      /\ height \in Nat
  BY UpgradeAssumption DEF UpgradeInv, UpgradeTypes, Voted
<1>1. /\ height < Len(versions) - 1 /\ versions' = SubSeq(versions, 1, height + 1)
      /\ outvoted' = outvoted \cup {v \in Voted : votingCompleteHeight[v] # UNDEF_HEIGHT
                                                  /\ votingCompleteHeight[v] > height}
      /\ votingCompleteHeight' = votingCompleteHeight /\ running' = running
  BY Zenon DEF rollbackVersionsTo
<1>2. n \in Nat /\ n > 0 /\ n < UNDEF_HEIGHT /\ n \in 1..Len(versions)
  BY <1>0, <1>1
<1>3. /\ versions' \in Seq(Block) /\ Len(versions') = n
      /\ \A k \in 1..n : versions'[k] = versions[k]
  BY <1>0, <1>1, <1>2
<1>4. UpgradeTypes'
  BY <1>0, <1>1, <1>2, <1>3 DEF UpgradeTypes
<1>5. ASSUME running, outvoted' = {}
      PROVE  /\ HeightsExact(versions', votingCompleteHeight)
             /\ VersionsAgree(versions', votingCompleteHeight)
  <2>0. /\ outvoted = {}
        /\ \A v \in Voted : votingCompleteHeight[v] = UNDEF_HEIGHT \/ ~(votingCompleteHeight[v] > height)
    BY <1>1, <1>5, Zenon
  <2>1. HeightsExact(versions, votingCompleteHeight) /\ VersionsAgree(versions, votingCompleteHeight)
    BY <1>5, <2>0, Zenon DEF UpgradeInv
  <2>2. ASSUME NEW v \in Targets
        PROVE  votingCompleteHeight[v]
                   = IF votingCompleteHeight[v] >= n THEN UNDEF_HEIGHT ELSE votingCompleteHeight[v]
    <3>1. votingCompleteHeight[v] = UNDEF_HEIGHT \/ ~(votingCompleteHeight[v] > height)
      BY <2>0, <2>1, Zenon DEF HeightsExact
    <3>2. votingCompleteHeight[v] \in Nat
      BY <1>0, Zenon
    <3>3. QED
      BY <1>0, <1>2, <3>1, <3>2
  <2> HIDE DEF n
  <2>3. CutOff(versions, votingCompleteHeight, n, versions', votingCompleteHeight)
    BY <1>0, <1>3, <2>2, Zenon DEF CutOff
  <2>4. QED
    BY <1>0, <1>2, <2>1, <2>3, CutKeeps, Zenon
<1>6. QED
  BY <1>1, <1>4, <1>5, Zenon DEF UpgradeInv

(* A restart keeps it: every detector is set up by init again.             *)
LEMMA RestartInv ==
    ASSUME UpgradeInv, initDetectors
    PROVE  UpgradeInv'
<1>0. /\ versions \in Seq(Block) /\ Len(versions) > 0 /\ Len(versions) <= UNDEF_HEIGHT
      /\ votingCompleteHeight \in [Targets -> Nat] /\ outvoted \subseteq Voted
  BY Zenon DEF UpgradeInv, UpgradeTypes
<1>1. /\ running /\ votingCompleteHeight' = [v \in Targets |-> initHeight(versions, v)]
      /\ versions' = versions /\ outvoted' = outvoted
  BY Zenon DEF initDetectors
<1>2. votingCompleteHeight' \in [Targets -> Nat]
  <2>1. \A v \in Targets : initHeight(versions, v) \in Nat
    BY <1>0, InitTypes, Zenon
  <2>2. QED
    BY <1>1, <2>1, Zenon
<1>3. UpgradeTypes'
  BY <1>0, <1>1, <1>2, Zenon DEF UpgradeTypes
<1>4. ASSUME outvoted = {}
      PROVE  /\ HeightsExact(versions, votingCompleteHeight)
             /\ VersionsAgree(versions, votingCompleteHeight)
             /\ votingCompleteHeight' = votingCompleteHeight
  <2>1. HeightsExact(versions, votingCompleteHeight) /\ VersionsAgree(versions, votingCompleteHeight)
    BY <1>1, <1>4, Zenon DEF UpgradeInv
  <2>2. \A v \in Voted : initHeight(versions, v) = votingCompleteHeight[v]
    BY <1>0, <2>1, RestartVoted, Zenon
  <2>3. \A v \in Targets \ Voted : initHeight(versions, v) = UNDEF_HEIGHT
    BY Zenon DEF initHeight, Voted
  <2>4. \A v \in Targets : initHeight(versions, v) = votingCompleteHeight[v]
    BY <2>1, <2>2, <2>3, Zenon DEF HeightsExact
  <2>5. QED
    BY <1>0, <1>1, <2>1, <2>4, Zenon
<1>5. QED
  BY <1>1, <1>3, <1>4, Zenon DEF UpgradeInv

(* It holds of the genesis block.                                          *)
LEMMA UpgradeInitInv == UpgradeInit => UpgradeInv
<1> SUFFICES ASSUME UpgradeInit PROVE UpgradeInv
  BY Zenon
<1>0. /\ UNDEF_HEIGHT \in Nat /\ UNDEF_HEIGHT > 0 /\ Targets \subseteq Nat /\ 1 \notin Targets
      /\ VotingWindow \in Nat /\ VotingWindow > 1 /\ VotingThreshold \in Nat /\ VotingThreshold > 0
  BY UpgradeAssumption
<1>1. /\ versions = <<[major |-> 1, minor |-> 0]>>
      /\ votingCompleteHeight = [v \in Targets |-> UNDEF_HEIGHT] /\ outvoted = {}
  BY Zenon DEF UpgradeInit
<1>2. versions \in Seq(Block) /\ Len(versions) = 1 /\ At(versions, 0).major = 1
  BY <1>1 DEF Block, At
<1>3. votingCompleteHeight \in [Targets -> Nat]
  BY <1>0, <1>1, Zenon
<1>4. UpgradeTypes
  BY <1>0, <1>1, <1>2, <1>3 DEF UpgradeTypes
<1>5. ASSUME NEW v \in Voted
      PROVE  CompleteHeights(versions, v) = {}
  <2>1. getNumberOfVotes(versions, v, 0) = 0
    BY <1>0 DEF getNumberOfVotes
  <2>2. VotingThreshold * VotingWindow > 0
    BY <1>0
  <2>3. ~isVotingComplete(versions, v, 0)
    BY <1>0, <2>1, <2>2 DEF isVotingComplete
  <2>4. \A h \in 0..(Len(versions) - 1) : h = 0
    BY <1>2
  <2>5. QED
    BY <2>3, <2>4, Zenon DEF CompleteHeights
<1>6. HeightsExact(versions, votingCompleteHeight)
  BY <1>1, <1>5, Zenon DEF HeightsExact, First, Voted
<1>7. VersionsAgree(versions, votingCompleteHeight)
  <2> DEFINE m == get_block_major_version_for_height(0, votingCompleteHeight)
  <2>1. m \in Targets \cup {1} /\ (m \in Targets => 0 > upgradeHeight(m, votingCompleteHeight))
    BY <1>3, MajorFacts, Zenon
  <2> HIDE DEF m
  <2>2. \A v \in Targets : upgradeHeight(v, votingCompleteHeight) \in Nat
    BY <1>3, UpgradeAssumption DEF upgradeHeight
  <2>3. m = 1
    BY <2>1, <2>2
  <2>4. \A h \in 0..(Len(versions) - 1) : h = 0
    BY <1>2
  <2>5. QED
    BY <1>2, <2>3, <2>4, Zenon DEF VersionsAgree, m
<1>8. QED
  BY <1>4, <1>6, <1>7, Zenon DEF UpgradeInv

(* Every step keeps it.                                                    *)
LEMMA UpgradeNextInv ==
    ASSUME UpgradeInv, [UpgradeNext]_upgradeVars
    PROVE  UpgradeInv'
<1>1. CASE UpgradeNext
  BY <1>1, PushInv, PopInv, RollbackInv, RestartInv, Zenon DEF UpgradeNext
<1>2. CASE UNCHANGED upgradeVars
  BY <1>2, Zenon DEF upgradeVars, UpgradeInv, UpgradeTypes
<1>3. QED
  BY <1>1, <1>2, Zenon

(* So it always holds.                                                     *)
LEMMA UpgradeAlways == UpgradeSpec => []UpgradeInv
BY UpgradeInitInv, UpgradeNextInv, PTL DEF UpgradeSpec

-----------------------------------------------------------------------------
(* A detector knows the first height at which its vote succeeded, through  *)
(* pushes, pops, rollbacks below it and restarts: init's search, seven     *)
(* upgrade windows deep, never misses it.                                  *)
THEOREM VotingCompleteAlwaysExact == UpgradeSpec => []VotingCompleteExact
<1>1. UpgradeInv => VotingCompleteExact
  <2> SUFFICES ASSUME UpgradeInv, running, NEW v \in Voted \ outvoted
               PROVE  votingCompleteHeight[v] = First(CompleteHeights(versions, v))
    BY Zenon DEF VotingCompleteExact, CompleteHeights
  <2>1. outvoted \subseteq Voted /\ Voted \subseteq Targets
    BY Zenon DEF UpgradeInv, UpgradeTypes, Voted
  <2>2. \A w \in Voted : w = v
    BY <2>1, VotedIsHighest, Zenon
  <2>3. outvoted = {}
    BY <2>1, <2>2, Zenon
  <2>4. QED
    BY <2>3, Zenon DEF UpgradeInv, HeightsExact
<1>2. QED
  BY <1>1, UpgradeAlways, PTL

(* The node starts again on any chain that it has built: no detector       *)
(* refuses the versions of its blocks.                                     *)
THEOREM AlwaysCanRestart == UpgradeSpec => []CanRestart
<1>1. UpgradeInv => CanRestart
  <2> SUFFICES ASSUME UpgradeInv, running, outvoted = {}, NEW v \in Targets
               PROVE  initSucceeds(versions, v)
    BY Zenon DEF CanRestart
  <2>1. /\ versions \in Seq(Block) /\ Len(versions) > 0 /\ Len(versions) <= UNDEF_HEIGHT
        /\ votingCompleteHeight \in [Targets -> Nat]
        /\ HeightsExact(versions, votingCompleteHeight)
        /\ VersionsAgree(versions, votingCompleteHeight)
    BY Zenon DEF UpgradeInv, UpgradeTypes
  <2>2. CASE v \in Voted
    BY <2>1, <2>2, RestartVoted, Zenon
  <2>3. CASE v \notin Voted
    BY <2>1, <2>3, RestartFixed, Zenon
  <2>4. QED
    BY <2>2, <2>3, Zenon
<1>2. QED
  BY <1>1, UpgradeAlways, PTL

-----------------------------------------------------------------------------
(***************************************************************************)
(* Theorems about the deposit index, for all amounts, interests and chain  *)
(* lengths: the index stays sorted, and it implements the ledger.          *)
(***************************************************************************)

(* The binary search has an answer for every height.  This follows from    *)
(* the order by an induction on the length of the index, which is made     *)
(* here along the steps, as a part of the inductive invariant.             *)
HasUpperBound(idx) == \A h \in Int : \E p \in 0 .. Len(idx) : IsUpperBound(idx, p, h)

IInv == TypeOK /\ IndexSorted /\ HasUpperBound(index)

(* The fields of an entry have the types of DepositIndexEntry.             *)
LEMMA EntryFields ==
    ASSUME NEW idx \in Seq(Entry)
    PROVE  /\ Len(idx) \in Nat
           /\ \A k \in 1 .. Len(idx) : /\ idx[k].height \in Nat
                                       /\ idx[k].amount \in Int
                                       /\ idx[k].interest \in Nat
<1>1. Len(idx) \in Nat /\ \A k \in 1 .. Len(idx) : idx[k] \in Entry
  OBVIOUS
<1>2. \A e \in Entry : e.height \in Nat /\ e.amount \in Int /\ e.interest \in Nat
  BY Zenon DEF Entry
<1> QED
  BY <1>1, <1>2, Zenon

(* upperBound(idx, h) is the only position that splits the index at h.     *)
LEMMA UpperBoundUnique ==
    ASSUME NEW idx \in Seq(Entry), HasUpperBound(idx), NEW h \in Int
    PROVE  /\ IsUpperBound(idx, upperBound(idx, h), h)
           /\ \A p \in Int : IsUpperBound(idx, p, h) => upperBound(idx, h) = p
<1> DEFINE q == upperBound(idx, h)
<1>1. IsUpperBound(idx, q, h)
  BY Zenon DEF HasUpperBound, upperBound
<1> HIDE DEF q
<1>2. ASSUME NEW p \in Int, IsUpperBound(idx, p, h)
      PROVE  q = p
  <2>1. p \in 0 .. Len(idx) /\ q \in 0 .. Len(idx) /\ Len(idx) \in Nat
    BY <1>1, <1>2, EntryFields, Zenon DEF IsUpperBound
  <2>2. ~(p < q)
    <3> SUFFICES ASSUME p < q PROVE FALSE
      BY Zenon
    <3>1. q \in 1 .. q /\ q \in p + 1 .. Len(idx) /\ q \in 1 .. Len(idx)
      BY <2>1
    <3> QED
      BY <3>1, <1>1, <1>2, EntryFields DEF IsUpperBound
  <2>3. ~(q < p)
    <3> SUFFICES ASSUME q < p PROVE FALSE
      BY Zenon
    <3>1. p \in 1 .. p /\ p \in q + 1 .. Len(idx) /\ p \in 1 .. Len(idx)
      BY <2>1
    <3> QED
      BY <3>1, <1>1, <1>2, EntryFields DEF IsUpperBound
  <2> QED
    BY <2>1, <2>2, <2>3
<1> QED
  BY <1>1, <1>2, Zenon DEF q

(* Appending an entry above all others keeps the search answerable.        *)
LEMMA AppendUpperBound ==
    ASSUME NEW idx \in Seq(Entry), HasUpperBound(idx), NEW e \in Entry,
           \A k \in 1 .. Len(idx) : idx[k].height < e.height
    PROVE  HasUpperBound(Append(idx, e))
<1> DEFINE new == Append(idx, e)
<1>1. /\ Len(idx) \in Nat
      /\ Len(new) = Len(idx) + 1
      /\ \A k \in 1 .. Len(idx) : new[k] = idx[k]
      /\ new[Len(idx) + 1] = e
  OBVIOUS
<1>2. e.height \in Nat
  BY Zenon DEF Entry
<1> HIDE DEF new
<1>3. ASSUME NEW h \in Int
      PROVE  \E p \in 0 .. Len(new) : IsUpperBound(new, p, h)
  <2>1. CASE h >= e.height
    <3>1. \A k \in 1 .. Len(new) : k \in 1 .. Len(idx) \/ k = Len(idx) + 1
      BY <1>1
    <3>2. \A k \in 1 .. Len(new) : new[k].height <= h
      BY <3>1, <2>1, <1>1, <1>2, EntryFields, SMTT(40)
    <3>3. IsUpperBound(new, Len(new), h)
      BY <3>2, <1>1 DEF IsUpperBound
    <3> QED
      BY <3>3, <1>1
  <2>2. CASE h < e.height
    <3>1. PICK p \in 0 .. Len(idx) : IsUpperBound(idx, p, h)
      BY Zenon DEF HasUpperBound
    <3>2. \A k \in 1 .. p : new[k].height <= h
      BY <3>1, <1>1 DEF IsUpperBound
    <3>3. \A k \in p + 1 .. Len(new) : k \in p + 1 .. Len(idx) \/ k = Len(idx) + 1
      BY <1>1
    <3>4. \A k \in p + 1 .. Len(new) : h < new[k].height
      BY <3>1, <3>3, <2>2, <1>1 DEF IsUpperBound
    <3> QED
      BY <3>2, <3>4, <1>1 DEF IsUpperBound
  <2> QED
    BY <2>1, <2>2, <1>2
<1> QED
  BY <1>3, Zenon DEF HasUpperBound, new

(* A prefix of the index keeps the search answerable.                      *)
LEMMA PrefixUpperBound ==
    ASSUME NEW idx \in Seq(Entry), HasUpperBound(idx), NEW n \in 0 .. Len(idx)
    PROVE  HasUpperBound(SubSeq(idx, 1, n))
<1> DEFINE new == SubSeq(idx, 1, n)
<1>1. Len(idx) \in Nat /\ Len(new) = n /\ \A k \in 1 .. n : new[k] = idx[k]
  OBVIOUS
<1> HIDE DEF new
<1>2. ASSUME NEW h \in Int
      PROVE  \E p \in 0 .. Len(new) : IsUpperBound(new, p, h)
  <2>1. PICK p \in 0 .. Len(idx) : IsUpperBound(idx, p, h)
    BY Zenon DEF HasUpperBound
  <2>2. CASE p <= n
    <3>1. /\ \A k \in 1 .. p : k \in 1 .. n /\ idx[k].height <= h
          /\ \A k \in p + 1 .. n : k \in 1 .. n /\ h < idx[k].height
      BY <1>1, <2>1, <2>2 DEF IsUpperBound
    <3>2. IsUpperBound(new, p, h)
      BY <1>1, <2>2, <3>1 DEF IsUpperBound
    <3> QED
      BY <3>2, <2>2, <1>1
  <2>3. CASE p > n
    <3>1. IsUpperBound(new, n, h)
      BY <1>1, <2>1, <2>3 DEF IsUpperBound
    <3> QED
      BY <3>1, <1>1
  <2> QED
    BY <2>1, <2>2, <2>3, <1>1
<1> QED
  BY <1>2, Zenon DEF HasUpperBound, new

(* Init establishes the invariant.                                         *)
LEMMA InitIInv == Init => IInv
<1> SUFFICES ASSUME Init PROVE IInv
  BY Zenon
<1>1. TypeOK /\ IndexSorted
  BY DEF Init, TypeOK, IndexSorted
<1>2. HasUpperBound(index)
  BY DEF Init, HasUpperBound, IsUpperBound
<1> QED
  BY <1>1, <1>2, Zenon DEF IInv

(* What pushBlock appends when the net deposit is not zero.                *)
NewEntry(a, i) == [height   |-> blockCount,
                   amount   |-> a + fullDepositAmount,
                   interest |-> i + fullInterestAmount]

(* The entry that pushBlock appends is an entry, whatever the amounts.     *)
LEMMA NewEntryType ==
    ASSUME IInv, NEW a \in Amounts, NEW i \in Interests
    PROVE  /\ NewEntry(a, i) \in Entry
           /\ fullDepositAmount \in Int
           /\ fullInterestAmount \in Nat
<1>1. fullDepositAmount \in Int /\ fullInterestAmount \in Nat
  BY EntryFields DEF IInv, TypeOK, fullDepositAmount, fullInterestAmount
<1> QED
  BY <1>1, DepositAssumption DEF IInv, TypeOK, Entry, NewEntry

(* pushBlock preserves the invariant.                                      *)
LEMMA PushIInv ==
    ASSUME IInv, NEW a \in Amounts, NEW i \in Interests, pushBlock(a, i)
    PROVE  IInv'
<1>1. CASE a = 0
  <2>1. index' = index /\ blockCount' = blockCount + 1
    BY <1>1, Zenon DEF pushBlock
  <2>2. TypeOK' /\ HasUpperBound(index)'
    BY <2>1 DEF IInv, TypeOK
  <2>3. IndexSorted'
    BY <2>1, EntryFields DEF IInv, TypeOK, IndexSorted
  <2> QED
    BY <2>2, <2>3, Zenon DEF IInv
<1>2. CASE a # 0
  <2> DEFINE e == NewEntry(a, i)
  <2>1. index' = Append(index, e) /\ blockCount' = blockCount + 1
    BY <1>2, Zenon DEF pushBlock, NewEntry
  <2>2. e \in Entry /\ e.height = blockCount
    BY NewEntryType, Zenon DEF NewEntry
  <2> HIDE DEF e
  <2>3. TypeOK'
    BY <2>1, <2>2 DEF IInv, TypeOK
  <2>4. /\ Len(index') = Len(index) + 1
        /\ \A k \in 1 .. Len(index) : index'[k] = index[k]
        /\ index'[Len(index) + 1] = e
    BY <2>1 DEF IInv, TypeOK
  <2>5. IndexSorted'
    BY <2>1, <2>2, <2>4, EntryFields, SMTT(40) DEF IInv, TypeOK, IndexSorted
  <2>6. HasUpperBound(index')
    BY <2>1, <2>2, AppendUpperBound, Zenon DEF IInv, TypeOK, IndexSorted
  <2> QED
    BY <2>3, <2>5, <2>6, Zenon DEF IInv
<1> QED
  BY <1>1, <1>2, Zenon

(* A pop keeps the n first entries and m blocks, and the entries it erases *)
(* are those of the blocks from m on.                                      *)
PrefixStep(n, m) ==
    /\ n \in 0 .. Len(index)
    /\ m \in 0 .. blockCount - 1
    /\ index' = SubSeq(index, 1, n)
    /\ blockCount' = m
    /\ \A k \in 1 .. n : index[k].height < m
    /\ \A k \in n + 1 .. Len(index) : m <= index[k].height

(* popBlock keeps a prefix of the index and takes one block off.           *)
LEMMA PopIsPrefix ==
    ASSUME IInv, popBlock
    PROVE  \E n \in Int : PrefixStep(n, blockCount - 1)
<1>1. /\ Len(index) \in Nat /\ blockCount \in Nat
      /\ \A k \in 1 .. Len(index) : index[k].height \in Nat
      /\ index \in Seq(Entry)
  BY EntryFields, Zenon DEF IInv, TypeOK
<1>2. CASE index # <<>> /\ index[Len(index)].height = blockCount - 1
  <2>1. Len(index) >= 1
    BY <1>1, <1>2
  <2>2. index' = SubSeq(index, 1, Len(index) - 1) /\ blockCount' = blockCount - 1
    BY <1>2, Zenon DEF popBlock
  <2>3. \A k \in 1 .. Len(index) - 1 : index[k].height < blockCount - 1
    BY <1>1, <1>2, <2>1 DEF IInv, IndexSorted
  <2>4. \A k \in Len(index) - 1 + 1 .. Len(index) : blockCount - 1 <= index[k].height
    BY <1>1, <1>2, <2>1
  <2>5. blockCount - 1 \in 0 .. blockCount - 1
    BY <1>1, <1>2, <2>1
  <2>6. PrefixStep(Len(index) - 1, blockCount - 1)
    BY ONLY <1>1, <2>1, <2>2, <2>3, <2>4, <2>5 DEF PrefixStep
  <2> QED
    BY <2>6, <1>1
<1>3. CASE ~(index # <<>> /\ index[Len(index)].height = blockCount - 1)
  <2>1. index' = SubSeq(index, 1, Len(index)) /\ blockCount' = blockCount - 1
    BY <1>1, <1>3 DEF popBlock
  <2>2. \A k \in 1 .. Len(index) : index[k].height < blockCount - 1
    <3> SUFFICES ASSUME NEW k \in 1 .. Len(index)
                 PROVE  index[k].height < blockCount - 1
      BY Zenon
    <3>1. Len(index) >= 1 /\ index # <<>>
      BY <1>1
    <3>2. index[Len(index)].height < blockCount - 1
      BY <3>1, <1>1, <1>3 DEF IInv, IndexSorted
    <3> QED
      BY <3>2, <1>1 DEF IInv, IndexSorted
  <2>3. PrefixStep(Len(index), blockCount - 1)
    BY <1>1, <2>1, <2>2 DEF PrefixStep, popBlock
  <2> QED
    BY <2>3, <1>1
<1> QED
  BY <1>2, <1>3, Zenon

(* popBlocks keeps the prefix of the index that lies below the height it   *)
(* is given.                                                               *)
LEMMA PopBlocksIsPrefix ==
    ASSUME IInv, NEW from \in 0 .. blockCount, popBlocks(from)
    PROVE  \E n \in Int : PrefixStep(n, from)
<1> DEFINE p == upperBound(index, from)
<1>1. /\ Len(index) \in Nat /\ blockCount \in Nat /\ from \in Int
      /\ \A k \in 1 .. Len(index) : index[k].height \in Nat
  BY EntryFields DEF IInv, TypeOK
<1>2. IsUpperBound(index, p, from)
  BY <1>1, UpperBoundUnique, Zenon DEF IInv, TypeOK
<1>3. keptBelow(from) = IF p > 0 /\ index[p].height = from THEN p - 1 ELSE p
  BY Zenon DEF keptBelow
<1> HIDE DEF p
<1>4. p \in 0 .. Len(index)
  BY <1>2, Zenon DEF IsUpperBound
<1>5. CASE p > 0 /\ index[p].height = from
  <2>1. \A k \in 1 .. p - 1 : index[k].height < from
    BY <1>1, <1>4, <1>5 DEF IInv, IndexSorted
  <2>2. \A k \in p .. Len(index) : k = p \/ k \in p + 1 .. Len(index)
    BY <1>1, <1>4
  <2>3. \A k \in p .. Len(index) : from <= index[k].height
    BY <2>2, <1>1, <1>2, <1>4, <1>5 DEF IsUpperBound
  <2>4. PrefixStep(p - 1, from)
    BY <1>1, <1>3, <1>4, <1>5, <2>1, <2>3 DEF PrefixStep, popBlocks
  <2> QED
    BY <2>4, <1>4
<1>6. CASE ~(p > 0 /\ index[p].height = from)
  <2>1. \A k \in 1 .. p : index[k].height < from
    <3> SUFFICES ASSUME NEW k \in 1 .. p PROVE index[k].height < from
      BY Zenon
    <3>1. index[p].height < from
      BY <1>1, <1>2, <1>4, <1>6 DEF IsUpperBound
    <3> QED
      BY <3>1, <1>1, <1>4 DEF IInv, IndexSorted
  <2>2. \A k \in p + 1 .. Len(index) : from <= index[k].height
    BY <1>1, <1>2, <1>4 DEF IsUpperBound
  <2>3. PrefixStep(p, from)
    BY <1>1, <1>3, <1>4, <1>6, <2>1, <2>2 DEF PrefixStep, popBlocks
  <2> QED
    BY <2>3, <1>4
<1> QED
  BY <1>5, <1>6, Zenon

(* popBlock and popBlocks preserve the invariant.                          *)
LEMMA PrefixIInv ==
    ASSUME IInv, NEW n \in Int, NEW m \in Int, PrefixStep(n, m)
    PROVE  IInv'
<1>1. Len(index) \in Nat /\ n \in 0 .. Len(index) /\ index \in Seq(Entry) /\ m \in Nat
  BY EntryFields DEF IInv, TypeOK, PrefixStep
<1>2. index' = SubSeq(index, 1, n) /\ blockCount' = m
  BY Zenon DEF PrefixStep
<1>3. Len(index') = n /\ \A k \in 1 .. n : index'[k] = index[k]
  BY <1>1, <1>2
<1>4. TypeOK'
  BY <1>1, <1>2 DEF TypeOK
<1>5. IndexSorted'
  <2>1. \A k \in 1 .. n : k \in 1 .. Len(index)
    BY <1>1
  <2>2. \A k \in 1 .. n : index'[k].height < blockCount'
    BY <1>2, <1>3, Zenon DEF PrefixStep
  <2>3. \A j, k \in 1 .. n : j < k => index'[j].height < index'[k].height
    BY <1>3, <2>1, Zenon DEF IInv, IndexSorted
  <2> QED
    BY <1>3, <2>2, <2>3, Zenon DEF IndexSorted
<1>6. HasUpperBound(index')
  BY <1>1, <1>2, PrefixUpperBound, Zenon DEF IInv
<1> QED
  BY <1>4, <1>5, <1>6, Zenon DEF IInv

(* Every step of the index preserves the invariant.                        *)
LEMMA NextIInv == IInv /\ [Next]_vars => IInv'
<1> SUFFICES ASSUME IInv, [Next]_vars PROVE IInv'
  BY Zenon
<1>1. ASSUME NEW a \in Amounts, NEW i \in Interests, pushBlock(a, i) PROVE IInv'
  BY <1>1, PushIInv, Zenon
<1>2. CASE popBlock
  <2>1. PICK n \in Int : PrefixStep(n, blockCount - 1)
    BY <1>2, PopIsPrefix, Zenon
  <2>2. blockCount - 1 \in Int
    BY DEF IInv, TypeOK
  <2> QED
    BY <2>1, <2>2, PrefixIInv, Zenon
<1>3. ASSUME NEW from \in 0 .. blockCount, popBlocks(from) PROVE IInv'
  <2>1. PICK n \in Int : PrefixStep(n, from)
    BY <1>3, PopBlocksIsPrefix, Zenon
  <2> QED
    BY <2>1, PrefixIInv
<1>4. CASE UNCHANGED vars
  BY <1>4, Zenon DEF vars, IInv, TypeOK, IndexSorted, HasUpperBound, IsUpperBound
<1> QED
  BY <1>1, <1>2, <1>3, <1>4, Zenon DEF Next

(* The index is sorted and bounded by blockCount in every reachable state. *)
THEOREM IndexAlwaysSorted == Spec => [](TypeOK /\ IndexSorted)
<1>1. IInv => TypeOK /\ IndexSorted
  BY Zenon DEF IInv
<1> QED
  BY InitIInv, NextIInv, <1>1, PTL DEF Spec

-----------------------------------------------------------------------------
(* Two indices with the same first n entries and none of the others below  *)
(* height m, searched for a height h below m.                              *)
AgreeBelow(idx, new, n, m, h) ==
    /\ idx \in Seq(Entry) /\ new \in Seq(Entry)
    /\ n \in Nat /\ m \in Nat /\ h \in Nat
    /\ HasUpperBound(idx) /\ HasUpperBound(new)
    /\ n <= Len(idx) /\ n <= Len(new) /\ h < m
    /\ \A k \in 1 .. n : new[k] = idx[k]
    /\ \A k \in n + 1 .. Len(idx) : m <= idx[k].height
    /\ \A k \in n + 1 .. Len(new) : m <= new[k].height

(* Two indexes that agree on their n first entries, and have only entries  *)
(* of height m or more after these, give the same lookups below m.         *)
LEMMA SameLookup ==
    ASSUME NEW idx, NEW new, NEW n, NEW m, NEW h, AgreeBelow(idx, new, n, m, h)
    PROVE  /\ amountUpTo(new, h) = amountUpTo(idx, h)
           /\ interestUpTo(new, h) = interestUpTo(idx, h)
<1> USE DEF AgreeBelow
<1>1. /\ Len(idx) \in Nat /\ Len(new) \in Nat
      /\ \A k \in 1 .. Len(idx) : idx[k].height \in Nat
      /\ \A k \in 1 .. Len(new) : new[k].height \in Nat
  BY EntryFields, Zenon
<1>2. PICK p \in 0 .. Len(idx) : IsUpperBound(idx, p, h) /\ upperBound(idx, h) = p
  <2>1. IsUpperBound(idx, upperBound(idx, h), h)
    BY UpperBoundUnique
  <2>2. upperBound(idx, h) \in 0 .. Len(idx)
    BY <2>1, Zenon DEF IsUpperBound
  <2> QED
    BY <2>1, <2>2, Zenon
<1>3. p <= n
  <2> SUFFICES ASSUME n < p PROVE FALSE
    BY <1>1
  <2>1. p \in n + 1 .. Len(idx) /\ p \in 1 .. p /\ p \in 1 .. Len(idx)
    BY <1>1
  <2> QED
    BY <2>1, <1>1, <1>2 DEF IsUpperBound
<1>4. IsUpperBound(new, p, h)
  <2>1. p \in 0 .. Len(new) /\ \A k \in 1 .. p : k \in 1 .. n
    BY <1>1, <1>3
  <2>2. \A k \in 1 .. p : new[k].height <= h
    BY <1>2, <2>1, Zenon DEF IsUpperBound
  <2>3. ASSUME NEW k \in p + 1 .. Len(new) PROVE h < new[k].height
    <3>1. CASE k <= n
      <4>1. k \in 1 .. n /\ k \in p + 1 .. Len(idx)
        BY <1>1, <1>3, <3>1
      <4> QED
        BY <4>1, <1>2, Zenon DEF IsUpperBound
    <3>2. CASE n < k
      <4>1. k \in n + 1 .. Len(new) /\ k \in 1 .. Len(new)
        BY <1>1, <3>2
      <4> QED
        BY <4>1, <1>1
    <3> QED
      BY <3>1, <3>2, <1>1
  <2> QED
    BY <2>1, <2>2, <2>3, Zenon DEF IsUpperBound
<1>5. upperBound(new, h) = p
  BY <1>1, <1>3, <1>4, UpperBoundUnique
<1>6. p = 0 \/ p \in 1 .. n
  BY <1>3
<1> QED
  BY <1>2, <1>5, <1>6, Zenon DEF amountUpTo, interestUpTo

(* At or above the height of the last entry a lookup gives the last entry. *)
LEMMA LastLookup ==
    ASSUME NEW idx \in Seq(Entry), NEW h \in Nat, HasUpperBound(idx),
           \A k \in 1 .. Len(idx) : idx[k].height <= h
    PROVE  /\ amountUpTo(idx, h) = IF idx = <<>> THEN 0 ELSE idx[Len(idx)].amount
           /\ interestUpTo(idx, h) = IF idx = <<>> THEN 0 ELSE idx[Len(idx)].interest
<1>1. Len(idx) \in Nat /\ (idx = <<>> <=> Len(idx) = 0)
  OBVIOUS
<1>2. IsUpperBound(idx, Len(idx), h)
  BY <1>1 DEF IsUpperBound
<1>3. upperBound(idx, h) = Len(idx)
  BY <1>1, <1>2, UpperBoundUnique
<1> QED
  BY <1>1, <1>3, Zenon DEF amountUpTo, interestUpTo

(* The lookup past the tip gives the running totals.                       *)
THEOREM TipLookupAlways == Spec => []TipLookup
<1>1. IInv => TipLookup
  <2> SUFFICES ASSUME IInv, NEW h \in blockCount .. MaxBlocks
               PROVE  /\ depositAmountAtHeight(h) = fullDepositAmount
                      /\ depositInterestAtHeight(h) = fullInterestAmount
    BY Zenon DEF TipLookup
  <2>1. /\ index \in Seq(Entry) /\ blockCount \in Nat /\ h \in Nat /\ blockCount <= h
        /\ \A k \in 1 .. Len(index) : index[k].height \in Nat
        /\ \A k \in 1 .. Len(index) : index[k].height < blockCount
    BY EntryFields, DepositAssumption DEF IInv, TypeOK, IndexSorted
  <2>2. \A k \in 1 .. Len(index) : index[k].height <= h
    BY <2>1
  <2>3. /\ amountUpTo(index, h) = fullDepositAmount
        /\ interestUpTo(index, h) = fullInterestAmount
    BY <2>1, <2>2, LastLookup, Zenon DEF IInv, fullDepositAmount, fullInterestAmount
  <2>4. blockCount = 0 => index = <<>>
    <3> SUFFICES ASSUME blockCount = 0, Len(index) # 0 PROVE FALSE
      BY <2>1
    <3>1. 1 \in 1 .. Len(index)
      BY <2>1
    <3> QED
      BY <3>1, <2>1
  <2> QED
    BY <2>3, <2>4, Zenon DEF depositAmountAtHeight, depositInterestAtHeight,
                      fullDepositAmount, fullInterestAmount
<1> QED
  BY InitIInv, NextIInv, <1>1, PTL DEF Spec

-----------------------------------------------------------------------------
(* The refinement mapping, as an operator of the index and its block count. *)
Looked(idx, h) == [amount |-> amountUpTo(idx, h), interest |-> interestUpTo(idx, h)]

TotalsOf(idx, n) == [k \in 1 .. n |-> Looked(idx, k - 1)]

(* The refinement mapping is the sequence of lookups in the index.         *)
LEMMA TotalsIsTotalsOf ==
    ASSUME IInv
    PROVE  Totals = TotalsOf(index, blockCount)
<1>1. blockCount \in Nat
  BY Zenon DEF IInv, TypeOK
<1>2. \A k \in 1 .. blockCount :
         [amount |-> depositAmountAtHeight(k - 1),
          interest |-> depositInterestAtHeight(k - 1)] = Looked(index, k - 1)
  BY <1>1 DEF depositAmountAtHeight, depositInterestAtHeight, Looked
<1> QED
  BY <1>2, Zenon DEF Totals, TotalsOf

(* The same in the next state.                                             *)
LEMMA TotalsIsTotalsOfPrime ==
    ASSUME IInv'
    PROVE  Totals' = TotalsOf(index', blockCount')
<1>1. blockCount' \in Nat
  BY Zenon DEF IInv, TypeOK
<1>2. \A k \in 1 .. blockCount' :
         [amount |-> depositAmountAtHeight(k - 1)',
          interest |-> depositInterestAtHeight(k - 1)'] = Looked(index', k - 1)
  BY <1>1 DEF depositAmountAtHeight, depositInterestAtHeight, Looked
<1> QED
  BY <1>2, Zenon DEF Totals, TotalsOf

(* A function on 1 .. n is a sequence of length n, its restriction to      *)
(* 1 .. m is a prefix, and one on 1 .. n + 1 that extends it appends to it. *)
LEMMA FunctionIsSeq ==
    ASSUME NEW S, NEW n \in Nat, NEW f \in [1 .. n -> S]
    PROVE  f \in Seq(S) /\ Len(f) = n
  OBVIOUS

(* Two functions on 1..n and 1..n+1 that agree on 1..n differ by an        *)
(* Append.                                                                 *)
LEMMA FunctionAppend ==
    ASSUME NEW S, NEW n \in Nat, NEW f \in [1 .. n -> S], NEW g \in [1 .. n + 1 -> S],
           \A k \in 1 .. n : g[k] = f[k]
    PROVE  g = Append(f, g[n + 1])
<1>1. /\ f \in Seq(S) /\ Len(f) = n /\ g \in Seq(S) /\ Len(g) = n + 1
      /\ g[n + 1] \in S
  BY FunctionIsSeq
<1> DEFINE e == Append(f, g[n + 1])
<1>2. /\ e \in Seq(S) /\ Len(e) = n + 1
      /\ \A k \in 1 .. n : e[k] = f[k]
      /\ e[n + 1] = g[n + 1]
  BY <1>1
<1> HIDE DEF e
<1>3. \A k \in 1 .. n + 1 : g[k] = e[k]
  BY <1>2
<1>4. g = e
  BY <1>1, <1>2, <1>3
<1> QED
  BY <1>4, Zenon DEF e

(* A function on 1..m that agrees with one on 1..n is its prefix.          *)
LEMMA FunctionPrefix ==
    ASSUME NEW S, NEW n \in Nat, NEW m \in 0 .. n,
           NEW f \in [1 .. n -> S], NEW g \in [1 .. m -> S],
           \A k \in 1 .. m : g[k] = f[k]
    PROVE  g = SubSeq(f, 1, m)
<1>1. f \in Seq(S) /\ Len(f) = n /\ g \in Seq(S) /\ Len(g) = m
  BY FunctionIsSeq
<1> DEFINE e == SubSeq(f, 1, m)
<1>2. e \in Seq(S) /\ Len(e) = m /\ \A k \in 1 .. m : e[k] = f[k]
  BY <1>1
<1> HIDE DEF e
<1>3. g = e
  BY <1>1, <1>2
<1> QED
  BY <1>3, Zenon DEF e

(* The lookups of two indexes, as a set that holds all their totals.       *)
LookedIn(idx) == {Looked(idx, h) : h \in Int}

(* The lookups at the heights below n are a function on 1..n.              *)
LEMMA TotalsOfType ==
    ASSUME NEW idx, NEW n \in Nat
    PROVE  /\ TotalsOf(idx, n) \in [1 .. n -> LookedIn(idx)]
           /\ \A k \in 1 .. n : TotalsOf(idx, n)[k] = Looked(idx, k - 1)
<1>1. \A k \in 1 .. n : Looked(idx, k - 1) \in LookedIn(idx)
  BY DEF LookedIn
<1> QED
  BY <1>1, Zenon DEF TotalsOf

(* What the push of one block appends to the totals.                       *)
LEMMA PushTotals ==
    ASSUME IInv, IInv', NEW a \in Amounts, NEW i \in Interests, pushBlock(a, i)
    PROVE  Ledger!Push(a, i)
<1> DEFINE n == blockCount
           last == IF n = 0 THEN [amount |-> 0, interest |-> 0] ELSE Looked(index, n - 1)
<1>1. /\ n \in Nat /\ index \in Seq(Entry) /\ index' \in Seq(Entry)
      /\ HasUpperBound(index) /\ HasUpperBound(index')
      /\ \A k \in 1 .. Len(index) : index[k].height \in Nat /\ index[k].height < n
      /\ blockCount' = n + 1
  BY EntryFields, Zenon DEF IInv, TypeOK, IndexSorted, pushBlock
<1>2. last = [amount |-> fullDepositAmount, interest |-> fullInterestAmount]
  <2>1. CASE n = 0
    <3>1. Len(index) = 0
      <4> SUFFICES ASSUME Len(index) # 0 PROVE FALSE
        BY Zenon
      <4>1. 1 \in 1 .. Len(index)
        BY <1>1
      <4> QED
        BY <4>1, <1>1, <2>1
    <3> QED
      BY <3>1, <2>1, <1>1 DEF fullDepositAmount, fullInterestAmount
  <2>2. CASE n # 0
    <3>1. n - 1 \in Nat /\ \A k \in 1 .. Len(index) : index[k].height <= n - 1
      BY <1>1, <2>2
    <3> QED
      BY <3>1, <2>2, <1>1, LastLookup, Zenon DEF Looked, fullDepositAmount, fullInterestAmount
  <2> QED
    BY <2>1, <2>2, Zenon
<1>3. \A h \in 0 .. n - 1 : Looked(index', h) = Looked(index, h)
  <2>1. CASE a = 0
    BY <2>1, Zenon DEF pushBlock
  <2>2. CASE a # 0
    <3>1. index' = Append(index, NewEntry(a, i)) /\ NewEntry(a, i).height = n
      BY <2>2, Zenon DEF pushBlock, NewEntry
    <3>2. /\ Len(index) \in Nat /\ Len(index') = Len(index) + 1
          /\ \A k \in 1 .. Len(index) : index'[k] = index[k]
          /\ index'[Len(index) + 1] = NewEntry(a, i)
      BY <3>1, <1>1
    <3>3. \A k \in Len(index) + 1 .. Len(index') : n <= index'[k].height
      BY <3>1, <3>2, <1>1
    <3>4. ASSUME NEW h \in 0 .. n - 1 PROVE Looked(index', h) = Looked(index, h)
      <4>1. \A k \in Len(index) + 1 .. Len(index) : n <= index[k].height
        BY <3>2
      <4>2. Len(index) <= Len(index) /\ Len(index) <= Len(index') /\ h \in Nat /\ h < n
        BY <3>2, <1>1
      <4>3. AgreeBelow(index, index', Len(index), n, h)
        <5> HIDE DEF n
        <5> QED
          BY ONLY <4>1, <4>2, <3>2, <3>3, <1>1, Zenon DEF AgreeBelow
      <4>4. /\ amountUpTo(index', h) = amountUpTo(index, h)
            /\ interestUpTo(index', h) = interestUpTo(index, h)
        BY ONLY <4>3, SameLookup
      <4> QED
        BY <4>4, Zenon DEF Looked
    <3> QED
      BY <3>4, Zenon
  <2> QED
    BY <2>1, <2>2, Zenon
<1>4. Looked(index', n) = Ledger!Plus(last, a, i)
  <2>1. \A k \in 1 .. Len(index') : index'[k].height <= n
    BY <1>1, EntryFields DEF IInv, IndexSorted, TypeOK
  <2>2. Looked(index', n) = [amount |-> fullDepositAmount', interest |-> fullInterestAmount']
    BY <1>1, <2>1, LastLookup, Zenon DEF Looked, fullDepositAmount, fullInterestAmount
  <2>3. CASE a = 0
    BY <2>2, <2>3, <1>2, Zenon DEF pushBlock, fullDepositAmount, fullInterestAmount, Ledger!Plus
  <2>4. CASE a # 0
    <3>1. index' = Append(index, NewEntry(a, i))
      BY <2>4, Zenon DEF pushBlock, NewEntry
    <3>2. /\ index' # <<>> /\ index'[Len(index')] = NewEntry(a, i)
      BY <3>1, <1>1
    <3>3. fullDepositAmount' = a + fullDepositAmount /\ fullInterestAmount' = i + fullInterestAmount
      BY <3>2 DEF NewEntry, fullDepositAmount, fullInterestAmount
    <3>4. fullDepositAmount \in Int /\ fullInterestAmount \in Nat /\ a \in Int /\ i \in Int
      BY NewEntryType, DepositAssumption
    <3> QED
      BY <3>3, <3>4, <2>2, <2>4, <1>2 DEF Ledger!Plus
  <2> QED
    BY <2>3, <2>4, Zenon
<1>5. Totals = TotalsOf(index, n) /\ Totals' = TotalsOf(index', n + 1)
  BY TotalsIsTotalsOf, TotalsIsTotalsOfPrime, <1>1, Zenon
<1> DEFINE S == LookedIn(index) \cup LookedIn(index')
<1>6. /\ Totals \in [1 .. n -> S] /\ Totals' \in [1 .. n + 1 -> S]
      /\ \A k \in 1 .. n : Totals[k] = Looked(index, k - 1)
      /\ \A k \in 1 .. n + 1 : Totals'[k] = Looked(index', k - 1)
  <2>1. n + 1 \in Nat
    BY <1>1
  <2> QED
    BY <1>1, <1>5, <2>1, TotalsOfType, Zenon
<1> HIDE DEF S
<1>7. Ledger!Last = last
  <2>1. Len(Totals) = n /\ (Totals = <<>> <=> n = 0)
    <3>1. Totals \in Seq(S) /\ Len(Totals) = n
      BY <1>1, <1>6, FunctionIsSeq, Zenon
    <3> QED
      BY <3>1
  <2> QED
    BY <1>1, <1>6, <2>1 DEF Ledger!Last, Ledger!Zero
<1>8. Totals' = Append(Totals, Totals'[n + 1])
  <2>1. \A k \in 1 .. n : Totals'[k] = Totals[k]
    BY <1>1, <1>3, <1>6
  <2> QED
    BY <1>1, <1>6, <2>1, FunctionAppend
<1>9. Totals'[n + 1] = Ledger!Plus(last, a, i)
  BY <1>1, <1>4, <1>6
<1> QED
  BY <1>7, <1>8, <1>9, Zenon DEF Ledger!Push

(* A pop truncates the totals.                                             *)
LEMMA PrefixTotals ==
    ASSUME IInv, IInv', NEW n \in Int, NEW m \in Int, PrefixStep(n, m)
    PROVE  \E j \in 0 .. Len(Totals) : Ledger!Truncate(j)
<1> DEFINE c == blockCount
           S == LookedIn(index) \cup LookedIn(index')
<1>1. /\ c \in Nat /\ m \in 0 .. c - 1 /\ m \in Nat /\ n \in Nat /\ n <= Len(index)
      /\ index \in Seq(Entry) /\ index' \in Seq(Entry) /\ Len(index) \in Nat
      /\ HasUpperBound(index) /\ HasUpperBound(index')
      /\ blockCount' = m
      /\ \A k \in n + 1 .. Len(index) : m <= index[k].height
  BY DEF IInv, TypeOK, PrefixStep
<1>2. Len(index') = n /\ \A k \in 1 .. n : index'[k] = index[k]
  BY <1>1 DEF PrefixStep
<1>3. ASSUME NEW h \in 0 .. m - 1 PROVE Looked(index', h) = Looked(index, h)
  <2>1. /\ n <= Len(index') /\ h \in Nat /\ h < m
        /\ \A k \in n + 1 .. Len(index') : m <= index'[k].height
    BY <1>1, <1>2
  <2>2. AgreeBelow(index, index', n, m, h)
    BY <1>1, <1>2, <2>1, Zenon DEF AgreeBelow
  <2>3. /\ amountUpTo(index', h) = amountUpTo(index, h)
        /\ interestUpTo(index', h) = interestUpTo(index, h)
    BY ONLY <2>2, SameLookup
  <2> QED
    BY <2>3, Zenon DEF Looked
<1>4. Totals = TotalsOf(index, c) /\ Totals' = TotalsOf(index', m)
  BY TotalsIsTotalsOf, TotalsIsTotalsOfPrime, <1>1, Zenon
<1>5. /\ Totals \in [1 .. c -> S] /\ Totals' \in [1 .. m -> S]
      /\ \A k \in 1 .. c : Totals[k] = Looked(index, k - 1)
      /\ \A k \in 1 .. m : Totals'[k] = Looked(index', k - 1)
  BY <1>1, <1>4, TotalsOfType
<1> HIDE DEF S
<1>6. \A k \in 1 .. m : Totals'[k] = Totals[k]
  BY <1>1, <1>3, <1>5
<1>7. m \in 0 .. c /\ Totals' = SubSeq(Totals, 1, m)
  BY <1>1, <1>5, <1>6, FunctionPrefix
<1>8. Len(Totals) = c
  BY <1>1, <1>5, FunctionIsSeq, Zenon
<1>9. Ledger!Truncate(m) /\ m \in 0 .. Len(Totals)
  BY <1>1, <1>7, <1>8 DEF Ledger!Truncate
<1> QED
  BY <1>9, Zenon

(* The compressed index implements the ledger: after any pushes and pops   *)
(* its lookups give, for every block, the totals up to that block.         *)
THEOREM IndexImplementsLedger == Spec => ImplementsLedger
<1>1. Init => Ledger!Init
  <2> SUFFICES ASSUME Init PROVE Totals = <<>>
    BY Zenon DEF Ledger!Init
  <2>1. Totals = TotalsOf(index, 0)
    BY InitIInv, TotalsIsTotalsOf, Zenon DEF Init
  <2>2. Totals \in Seq(LookedIn(index)) /\ Len(Totals) = 0
    BY <2>1, TotalsOfType, FunctionIsSeq
  <2> QED
    BY <2>2
<1>2. IInv /\ IInv' /\ [Next]_vars => [Ledger!Next]_Totals
  <2> SUFFICES ASSUME IInv, IInv', [Next]_vars PROVE [Ledger!Next]_Totals
    BY Zenon
  <2>1. ASSUME NEW a \in Amounts, NEW i \in Interests, pushBlock(a, i)
        PROVE  Ledger!Next
    BY <2>1, PushTotals, Zenon DEF Ledger!Next
  <2>2. CASE popBlock
    <3>1. PICK n \in Int : PrefixStep(n, blockCount - 1)
      BY <2>2, PopIsPrefix, Zenon
    <3>2. blockCount - 1 \in Int
      BY DEF IInv, TypeOK
    <3> QED
      BY <3>1, <3>2, PrefixTotals, Zenon DEF Ledger!Next
  <2>3. ASSUME NEW from \in 0 .. blockCount, popBlocks(from)
        PROVE  Ledger!Next
    <3>1. PICK n \in Int : PrefixStep(n, from)
      BY <2>3, PopBlocksIsPrefix, Zenon
    <3> QED
      BY <3>1, PrefixTotals DEF Ledger!Next
  <2>4. CASE UNCHANGED vars
    BY <2>4 DEF vars, Totals, depositAmountAtHeight, depositInterestAtHeight,
                amountUpTo, interestUpTo, upperBound, IsUpperBound
  <2> QED
    BY <2>1, <2>2, <2>3, <2>4, Zenon DEF Next
<1> QED
  BY <1>1, <1>2, InitIInv, NextIInv, PTL DEF Spec, ImplementsLedger, Ledger!Spec
=============================================================================
