---------------------- MODULE BlockchainAlternativeProofs ----------------------
(***************************************************************************)
(* What m_alternative_chains has to do with the main chain, proved for     *)
(* every tree of blocks, blocks that fail half way through pushBlock       *)
(* included: a switch undoes no checkpoint and no more blocks than the     *)
(* unlock window allows, none starts inside another, and a block is not on *)
(* both sides.                                                             *)
(*                                                                         *)
(* The invariants speak of the chain a switch started from as a set of     *)
(* blocks, OldChain, that no step of the switch changes: the blocks up to  *)
(* the split height, those above it that are still to be disconnected, and *)
(* disconnected_chain.                                                     *)
(***************************************************************************)
EXTENDS BlockchainProofs

FirstBlocks(s, h) == {s[i] : i \in 1 .. h}
BlocksAbove(s, h) == {s[i] : i \in h + 1 .. Len(s)}

OldChain ==
    (IF op = "disconnect" THEN Elements(blocks) ELSE FirstBlocks(blocks, splitHeight))
    \cup Elements(disconnected)

(* Above the split height there is nothing but blocks of alt_chain, or,    *)
(* while the original chain is put back, of disconnected_chain.            *)
GrownInv ==
    /\ op = "idle" => disconnected = <<>>
    /\ op \in {"connect", "demote", "rollback"} =>
          BlocksAbove(blocks, splitHeight) \subseteq Elements(altChain)
    /\ op = "restore" => BlocksAbove(blocks, splitHeight) \subseteq Elements(disconnected)
    /\ op \in {"disconnect", "connect"} => pos = 1
    /\ op \notin {"idle", "disconnect"} => disconnected # <<>>

(* Every alternative block has passed check_block, and a checkpoint is not *)
(* both on the chain and an alternative.  So an alternative chain that     *)
(* goes past the height of a checkpoint goes through it, and leaves the    *)
(* main chain above it.                                                    *)
CheckInv ==
    /\ \A b \in alternatives : check_block(b)
    /\ op = "idle" => Checkpoints \cap alternatives \cap Elements(blocks) = {}
    /\ op # "idle" => Checkpoints \cap alternatives \cap OldChain = {}
    /\ op = "disconnect" => Checkpoints \cap BlocksAbove(blocks, splitHeight) = {}
    /\ Checkpoints \cap Elements(disconnected) = {}

(* The first block demoted was allowed as an alternative below the new     *)
(* tail.                                                                   *)
DepthInv ==
    op = "demote" /\ pos > 1 =>
        is_alternative_block_allowed(Len(blocks), Height(disconnected[1]))

PlaceInv == GrownInv /\ CheckInv /\ DepthInv

-----------------------------------------------------------------------------
(* pushBlock and popBlock, as changes of the sets of blocks up to a height *)
(* and above it.                                                           *)
LEMMA PushSets ==
    ASSUME ChainInv, NEW b \in Blocks, pushBlock(b), NEW h \in Nat, h <= Len(blocks)
    PROVE  /\ FirstBlocks(blocks', h) = FirstBlocks(blocks, h)
           /\ BlocksAbove(blocks', h) = BlocksAbove(blocks, h) \cup {b}
           /\ Elements(blocks') = Elements(blocks) \cup {b}
<1> DEFINE n == Len(blocks)
<1>1. blocks \in Seq(Blocks) /\ n \in Nat /\ blocks' = Append(blocks, b)
  BY TailFacts, Zenon DEF pushBlock
<1>2. Len(blocks') = n + 1 /\ blocks'[n + 1] = b /\ \A i \in 1 .. n : blocks'[i] = blocks[i]
  BY <1>1
<1>3. Elements(blocks') = Elements(blocks) \cup {b}
  BY <1>1, ElementsAppend
<1> HIDE DEF n
<1>4. /\ \A i \in 1 .. h : i \in 1 .. n
      /\ \A i \in h + 1 .. n + 1 : i \in h + 1 .. n \/ i = n + 1
      /\ \A i \in h + 1 .. n : i \in h + 1 .. n + 1 /\ i \in 1 .. n
      /\ n + 1 \in h + 1 .. n + 1
  BY <1>1 DEF n
<1>5. FirstBlocks(blocks', h) = FirstBlocks(blocks, h)
  <2>1. \A i \in 1 .. h : blocks'[i] = blocks[i]
    BY <1>2, <1>4, Zenon
  <2>2. QED
    BY ONLY <2>1, Zenon DEF FirstBlocks
<1>6. BlocksAbove(blocks', h) = BlocksAbove(blocks, h) \cup {b}
  <2>1. \A x : x \in BlocksAbove(blocks', h) <=> \E i \in h + 1 .. n + 1 : x = blocks'[i]
    BY ONLY <1>2, Zenon DEF BlocksAbove
  <2>2. \A x : x \in BlocksAbove(blocks, h) <=> \E i \in h + 1 .. n : x = blocks[i]
    BY ONLY Zenon DEF BlocksAbove, n
  <2>3. QED
    BY ONLY <1>2, <1>4, <2>1, <2>2
<1>7. QED
  BY <1>3, <1>5, <1>6, Zenon

(* Removing the last block.                                                *)
LEMMA PopSets ==
    ASSUME ChainInv, popBlock, NEW h \in Nat, h < Len(blocks)
    PROVE  /\ FirstBlocks(blocks', h) = FirstBlocks(blocks, h)
           /\ BlocksAbove(blocks, h) = BlocksAbove(blocks', h) \cup {tail}
           /\ Elements(blocks) = Elements(blocks') \cup {tail}
           /\ Len(blocks') = h => Elements(blocks') = FirstBlocks(blocks, h) /\ BlocksAbove(blocks', h) = {}
<1> DEFINE n == Len(blocks)
<1>1. /\ blocks \in Seq(Blocks) /\ n \in Nat /\ n >= 1 /\ tail = blocks[n]
      /\ blocks' = SubSeq(blocks, 1, n - 1) /\ n - 1 \in 0 .. n
  BY TailFacts DEF popBlock
<1> HIDE DEF n
<1>2. Len(blocks') = n - 1 /\ \A i \in 1 .. n - 1 : blocks'[i] = blocks[i]
  BY ONLY <1>1, ElementsPrefix, Zenon DEF n
<1>3. /\ \A i \in 1 .. h : i \in 1 .. n - 1
      /\ \A i \in h + 1 .. n : i \in h + 1 .. n - 1 \/ i = n
      /\ \A i \in h + 1 .. n - 1 : i \in h + 1 .. n /\ i \in 1 .. n - 1
      /\ \A i \in 1 .. n : i \in 1 .. n - 1 \/ i = n
      /\ \A i \in 1 .. n - 1 : i \in 1 .. n
      /\ n \in h + 1 .. n /\ n \in 1 .. n
      /\ n - 1 = h => h + 1 .. n - 1 = {}
  BY <1>1 DEF n
<1>4. FirstBlocks(blocks', h) = FirstBlocks(blocks, h)
  <2>1. \A i \in 1 .. h : blocks'[i] = blocks[i]
    BY <1>2, <1>3, Zenon
  <2>2. QED
    BY ONLY <2>1, Zenon DEF FirstBlocks
<1>5. \A x : x \in BlocksAbove(blocks', h) <=> \E i \in h + 1 .. n - 1 : x = blocks'[i]
  BY ONLY <1>2, Zenon DEF BlocksAbove
<1>6. \A x : x \in BlocksAbove(blocks, h) <=> \E i \in h + 1 .. n : x = blocks[i]
  BY ONLY Zenon DEF BlocksAbove, n
<1>7. BlocksAbove(blocks, h) = BlocksAbove(blocks', h) \cup {tail}
  BY ONLY <1>1, <1>2, <1>3, <1>5, <1>6
<1>8. \A x : x \in Elements(blocks') <=> \E i \in 1 .. n - 1 : x = blocks'[i]
  BY ONLY <1>2, Zenon DEF Elements
<1>9. \A x : x \in Elements(blocks) <=> \E i \in 1 .. n : x = blocks[i]
  BY ONLY Zenon DEF Elements, n
<1>10. Elements(blocks) = Elements(blocks') \cup {tail}
  BY ONLY <1>1, <1>2, <1>3, <1>8, <1>9
<1>11. ASSUME Len(blocks') = h
       PROVE  Elements(blocks') = FirstBlocks(blocks, h) /\ BlocksAbove(blocks', h) = {}
  <2>1. n - 1 = h
    BY ONLY <1>2, <1>11, Zenon
  <2>2. BlocksAbove(blocks', h) = {}
    BY ONLY <1>3, <1>5, <2>1, Zenon
  <2>3. Elements(blocks') = FirstBlocks(blocks', h)
    BY ONLY <1>11, Zenon DEF Elements, FirstBlocks
  <2>4. QED
    BY ONLY <1>4, <2>2, <2>3, Zenon
<1>12. QED
  BY <1>4, <1>7, <1>10, <1>11, Zenon

(* The chain is its blocks up to a height and those above.                 *)
LEMMA SplitChain ==
    ASSUME ChainInv, NEW h \in Nat, h <= Len(blocks)
    PROVE  Elements(blocks) = FirstBlocks(blocks, h) \cup BlocksAbove(blocks, h)
<1>1. Len(blocks) \in Nat
  BY TailFacts, Zenon
<1>2. /\ \A i \in 1 .. Len(blocks) : i \in 1 .. h \/ i \in h + 1 .. Len(blocks)
      /\ \A i \in 1 .. h : i \in 1 .. Len(blocks)
      /\ \A i \in h + 1 .. Len(blocks) : i \in 1 .. Len(blocks)
  BY <1>1
<1>3. QED
  BY ONLY <1>2, Zenon DEF Elements, FirstBlocks, BlocksAbove

-----------------------------------------------------------------------------
(* The loops of a switch leave OldChain as it is.  disconnect moves the    *)
(* tail to disconnected_chain.                                             *)
LEMMA DisconnectSets ==
    ASSUME Inv, disconnect
    PROVE  /\ splitHeight' = splitHeight /\ OldChain' = OldChain
           /\ tail \in BlocksAbove(blocks, splitHeight)
           /\ BlocksAbove(blocks', splitHeight) \subseteq BlocksAbove(blocks, splitHeight)
           /\ op' = "connect" => BlocksAbove(blocks', splitHeight) = {}
           /\ Elements(disconnected') = {tail} \cup Elements(disconnected)
           /\ disconnected' # <<>>
<1> DEFINE h == splitHeight
<1>1. /\ op = "disconnect" /\ popBlock /\ disconnected' = <<tail>> \o disconnected
      /\ op' = IF Len(blocks) - 1 > h THEN "disconnect" ELSE "connect"
      /\ altChain' = altChain
  BY Zenon DEF disconnect
<1>2. h \in Nat /\ h < Len(blocks) /\ Len(blocks) \in Nat /\ disconnected \in Seq(Blocks)
  BY <1>1, TailFacts, Zenon DEF Inv, SwitchInv
<1>3. splitHeight' = h /\ ChainInv /\ tail \in Blocks
  BY <1>1, TailFacts, Zenon DEF splitHeight, Inv
<1>4. Len(blocks') = Len(blocks) - 1
  BY <1>1, <1>2, <1>3, TailFacts DEF popBlock
<1> HIDE DEF h
<1>5. /\ FirstBlocks(blocks', h) = FirstBlocks(blocks, h)
      /\ BlocksAbove(blocks, h) = BlocksAbove(blocks', h) \cup {tail}
      /\ Elements(blocks) = Elements(blocks') \cup {tail}
      /\ Len(blocks') = h => Elements(blocks') = FirstBlocks(blocks, h) /\ BlocksAbove(blocks', h) = {}
  BY ONLY <1>1, <1>2, <1>3, PopSets, Zenon
<1>6. Elements(disconnected') = {tail} \cup Elements(disconnected) /\ disconnected' # <<>>
  <2>1. /\ Len(disconnected') = Len(disconnected) + 1 /\ disconnected'[1] = tail
        /\ \A i \in 2 .. Len(disconnected) + 1 : disconnected'[i] = disconnected[i - 1]
        /\ Len(disconnected) \in Nat
    BY <1>1, <1>2, <1>3
  <2>2. /\ \A i \in 1 .. Len(disconnected') : i = 1 \/ i \in 2 .. Len(disconnected) + 1
        /\ \A i \in 2 .. Len(disconnected) + 1 : i - 1 \in 1 .. Len(disconnected)
        /\ \A i \in 1 .. Len(disconnected) :
              i + 1 \in 2 .. Len(disconnected) + 1 /\ (i + 1) - 1 = i /\ i + 1 \in 1 .. Len(disconnected')
        /\ 1 \in 1 .. Len(disconnected')
    BY ONLY <2>1
  <2>3. Elements(disconnected') \subseteq {tail} \cup Elements(disconnected)
    BY ONLY <2>1, <2>2 DEF Elements
  <2>4. {tail} \cup Elements(disconnected) \subseteq Elements(disconnected')
    <3>1. tail \in Elements(disconnected')
      BY ONLY <2>1, <2>2, Zenon DEF Elements
    <3>2. ASSUME NEW i \in 1 .. Len(disconnected)
          PROVE  disconnected[i] \in Elements(disconnected')
      <4>1. disconnected'[i + 1] = disconnected[i] /\ i + 1 \in 1 .. Len(disconnected')
        BY ONLY <2>1, <2>2, i \in 1 .. Len(disconnected), Zenon
      <4>2. QED
        BY ONLY <4>1, Zenon DEF Elements
    <3>3. QED
      BY ONLY <3>1, <3>2, Zenon DEF Elements
  <2>5. disconnected' # <<>>
    BY ONLY <2>1
  <2>6. QED
    BY ONLY <2>3, <2>4, <2>5, Zenon
<1>7. op' = "connect" => Len(blocks') = h
  BY <1>1, <1>2, <1>4
<1>8. OldChain' = OldChain
  <2>1. OldChain = Elements(blocks) \cup Elements(disconnected)
    BY <1>1, Zenon DEF OldChain
  <2>2. CASE op' = "disconnect"
    <3>1. OldChain' = Elements(blocks') \cup Elements(disconnected')
      BY <2>2, Zenon DEF OldChain
    <3>2. QED
      BY ONLY <1>5, <1>6, <2>1, <3>1, Zenon
  <2>3. CASE op' = "connect"
    <3>1. OldChain' = FirstBlocks(blocks', h) \cup Elements(disconnected')
      BY <1>3, <2>3, Zenon DEF OldChain
    <3>2. QED
      BY ONLY <1>5, <1>6, <1>7, <2>1, <2>3, <3>1, Zenon
  <2>4. QED
    BY <1>1, <2>2, <2>3, Zenon
<1>9. QED
  BY <1>3, <1>5, <1>6, <1>7, <1>8, Zenon DEF h

(* connect and restore put a block on top.                                 *)
LEMMA GrowSets ==
    ASSUME Inv, op \in {"connect", "restore"}, NEW b \in Blocks, pushBlock(b),
           altChain' = altChain, disconnected' = disconnected,
           op' \in {"connect", "demote", "restore"}
    PROVE  /\ splitHeight' = splitHeight /\ OldChain' = OldChain
           /\ BlocksAbove(blocks', splitHeight) = BlocksAbove(blocks, splitHeight) \cup {b}
<1> DEFINE h == splitHeight
<1>1. h \in Nat /\ h <= Len(blocks) /\ ChainInv
  BY Zenon DEF Inv, SwitchInv
<1>2. splitHeight' = h
  BY Zenon DEF splitHeight
<1> HIDE DEF h
<1>3. FirstBlocks(blocks', h) = FirstBlocks(blocks, h) /\ BlocksAbove(blocks', h) = BlocksAbove(blocks, h) \cup {b}
  BY <1>1, PushSets, Zenon
<1>4. OldChain' = OldChain
  BY <1>2, <1>3, Zenon DEF OldChain, h
<1>5. QED
  BY <1>2, <1>3, <1>4, Zenon DEF h

(* rollback takes one off.                                                 *)
LEMMA ShrinkSets ==
    ASSUME Inv, rollback
    PROVE  /\ splitHeight' = splitHeight /\ OldChain' = OldChain
           /\ BlocksAbove(blocks', splitHeight) \subseteq BlocksAbove(blocks, splitHeight)
           /\ op' = "restore" => BlocksAbove(blocks', splitHeight) = {}
<1> DEFINE h == splitHeight
<1>1. /\ op = "rollback" /\ popBlock /\ disconnected' = disconnected
      /\ op' = IF Len(blocks) - 1 > h THEN "rollback" ELSE "restore"
      /\ altChain' = altChain
  BY Zenon DEF rollback
<1>2. h \in Nat /\ h < Len(blocks) /\ Len(blocks) \in Nat /\ Len(blocks) >= 2 /\ ChainInv
  BY <1>1, TailFacts DEF Inv, SwitchInv
<1>3. splitHeight' = h
  BY <1>1, Zenon DEF splitHeight
<1>4. Len(blocks') = Len(blocks) - 1
  BY <1>1, <1>2, PopIsCut, Zenon
<1> HIDE DEF h
<1>5. /\ FirstBlocks(blocks', h) = FirstBlocks(blocks, h)
      /\ BlocksAbove(blocks, h) = BlocksAbove(blocks', h) \cup {tail}
      /\ Len(blocks') = h => BlocksAbove(blocks', h) = {}
  BY <1>1, <1>2, PopSets, Zenon
<1>6. op' = "restore" => Len(blocks') = h
  BY <1>1, <1>2, <1>4
<1>7. OldChain' = OldChain
  <2>1. op # "disconnect" /\ op' # "disconnect"
    BY <1>1, Zenon
  <2>2. QED
    BY <1>1, <1>3, <1>5, <2>1, Zenon DEF OldChain, h
<1>8. QED
  BY <1>3, <1>5, <1>6, <1>7, Zenon DEF h

(* The other steps of a switch change neither.                             *)
LEMMA StaySets ==
    ASSUME blocks' = blocks, altChain' = altChain, disconnected' = disconnected,
           op # "disconnect", op' # "disconnect"
    PROVE  /\ splitHeight' = splitHeight /\ OldChain' = OldChain
           /\ BlocksAbove(blocks', splitHeight) = BlocksAbove(blocks, splitHeight)
  BY Zenon DEF splitHeight, OldChain, FirstBlocks, BlocksAbove

(* What is on the main chain when a switch ends.                           *)
LEMMA EndSets ==
    ASSUME Inv, GrownInv
    PROVE  /\ op = "demote" => Elements(blocks) \subseteq OldChain \cup Elements(altChain)
           /\ op = "restore" => Elements(blocks) \subseteq OldChain
<1>1. ASSUME op # "idle"
      PROVE  Elements(blocks) = FirstBlocks(blocks, splitHeight) \cup BlocksAbove(blocks, splitHeight)
  <2>1. splitHeight \in Nat /\ splitHeight <= Len(blocks) /\ ChainInv
    BY <1>1, Zenon DEF Inv, SwitchInv
  <2>2. QED
    BY ONLY <2>1, SplitChain, Zenon
<1>2. QED
  BY <1>1, Zenon DEF GrownInv, OldChain
-----------------------------------------------------------------------------
(* A checkpoint on the main chain above the fork would have refused the    *)
(* alternative chain: it is_alternative_block_allowed only above the       *)
(* checkpoint, and each of its blocks passed check_block.                  *)
LEMMA StartSets ==
    ASSUME Inv, CheckInv, NEW b \in Blocks \ {Genesis}, startSwitch(b)
    PROVE  /\ OldChain' = Elements(blocks)
           /\ Checkpoints \cap BlocksAbove(blocks', splitHeight') = {}
<1> DEFINE p == Path[b]
           k == altFront(b)
<1>1. /\ op = "idle" /\ op' = "disconnect" /\ altChain' = SubSeq(p, k, Len(p))
      /\ disconnected' = <<>> /\ blocks' = blocks
      /\ is_alternative_block_allowed(Len(blocks), Height(b))
  BY Zenon DEF startSwitch, altChainOf, chain, alternativeAccepted
<1>2. OldChain' = Elements(blocks)
  <2>1. OldChain' = Elements(blocks') \cup Elements(disconnected')
    BY <1>1, Zenon DEF OldChain
  <2>2. Elements(disconnected') = {}
    BY <1>1 DEF Elements
  <2>3. QED
    BY ONLY <1>1, <2>1, <2>2, Zenon
<1>3. IsAltFront(b, k) /\ k \in 2 .. Len(p) /\ p \in Seq(Blocks) /\ Len(p) \in Nat
  BY AltFrontExists, PathFacts, Zenon DEF Inv, SwitchInv
<1>4. splitHeight' = k - 1
  <2>1. Len(Path[p[k]]) = k
    BY <1>3, PathFacts
  <2> HIDE DEF p, k
  <2>2. k \in 1 .. Len(p)
    BY <1>3
  <2>3. SubSeq(p, k, Len(p))[1] = p[k]
    BY ONLY <1>3, <2>2, SuffixOfBlocks, Zenon
  <2>4. QED
    BY ONLY <1>1, <2>1, <2>3, <2>2, Zenon DEF splitHeight, Height
<1>5. /\ blocks \in Seq(Blocks) /\ Len(blocks) \in Nat /\ tail \in Blocks
      /\ blocks = Path[tail] /\ Len(Path[tail]) = Len(blocks)
  BY TailFacts, Zenon DEF Inv
<1>6. ASSUME NEW i \in (k - 1) + 1 .. Len(blocks), blocks[i] \in Checkpoints
      PROVE  FALSE
  <2> DEFINE c == blocks[i]
  <2>1. i \in 1 .. Len(blocks) /\ i \in Nat /\ i >= k
    BY <1>3, <1>5
  <2>2. Len(Path[c]) = i
    <3>1. Len(Path[Path[tail][i]]) = i
      BY <1>5, <2>1, PathFacts, Zenon
    <3>2. QED
      BY ONLY <1>5, <3>1, Zenon
  <2>3. Height(c) = i - 1 /\ Height(b) = Len(p) - 1
    BY ONLY <2>2, Zenon DEF Height
  <2>4. i - 1 <= Len(blocks) => i - 1 < Len(p) - 1
    BY ONLY <1>1, <1>6, <2>3, Zenon DEF is_alternative_block_allowed
  <2>5. i \in k .. Len(p) - 1 /\ i \in 1 .. Len(p)
    BY <1>3, <1>5, <2>1, <2>4, SMTT(40)
  <2>6. p[i] \in alternatives
    BY ONLY <1>3, <2>5, Zenon DEF IsAltFront
  <2>7. Height(p[i]) = i - 1
    BY <2>5, PathFacts, Zenon DEF Height
  <2>8. c = p[i]
    BY ONLY <1>6, <2>3, <2>6, <2>7, CheckInv, Zenon DEF CheckInv, check_block
  <2>9. c \in Elements(blocks)
    BY ONLY <2>1, Zenon DEF Elements
  <2>10. QED
    BY ONLY <1>1, <1>6, <2>6, <2>8, <2>9, CheckInv, Zenon DEF CheckInv
<1>7. Checkpoints \cap BlocksAbove(blocks', splitHeight') = {}
  BY ONLY <1>1, <1>4, <1>6, Zenon DEF BlocksAbove
<1>8. QED
  BY <1>2, <1>7, Zenon

(* What keeps PlaceInv: a step outside a switch, and the end of a switch.  *)
LEMMA IdlePlaces ==
    ASSUME PlaceInv, op = "idle", UNCHANGED locals,
           \A b \in alternatives' : check_block(b),
           Checkpoints \cap alternatives' \cap Elements(blocks') = {}
    PROVE  PlaceInv'
<1>1. op' = "idle" /\ disconnected' = disconnected
  BY Zenon DEF locals
<1>2. GrownInv' /\ DepthInv'
  BY <1>1, Zenon DEF PlaceInv, GrownInv, DepthInv
<1>3. Checkpoints \cap Elements(disconnected') = {}
  BY <1>1, Zenon DEF PlaceInv, CheckInv
<1>4. CheckInv'
  BY <1>1, <1>3, Zenon DEF CheckInv
<1>5. QED
  BY <1>2, <1>4, Zenon DEF PlaceInv

(* The return from a switch keeps PlaceInv if it leaves no checkpoint in   *)
(* both places.                                                            *)
LEMMA EndPlaces ==
    ASSUME PlaceInv, NEW first, endSwitch(first),
           Checkpoints \cap alternatives' \cap Elements(blocks') = {}
    PROVE  PlaceInv'
<1>1. op' = "idle" /\ disconnected' = <<>> /\ alternatives' \subseteq alternatives
  BY Zenon DEF endSwitch
<1>2. GrownInv' /\ DepthInv'
  BY <1>1, Zenon DEF GrownInv, DepthInv
<1>3. Checkpoints \cap Elements(disconnected') = {}
  BY <1>1 DEF Elements
<1>4. \A b \in alternatives' : check_block(b)
  BY <1>1, Zenon DEF PlaceInv, CheckInv
<1>5. CheckInv'
  BY <1>1, <1>3, <1>4, Zenon DEF CheckInv
<1>6. QED
  BY <1>2, <1>5, Zenon DEF PlaceInv

(* A step inside a switch that moves blocks but changes no set of them.    *)
LEMMA LoopChecks ==
    ASSUME CheckInv, op # "idle", op' # "idle", OldChain' = OldChain,
           alternatives' = alternatives, op' # "disconnect", disconnected' = disconnected
    PROVE  CheckInv'
  BY Zenon DEF CheckInv

(* Every step keeps PlaceInv.                                              *)
LEMMA NextPlaces ==
    ASSUME Inv, PlaceInv, [OperatorNext]_vars
    PROVE  PlaceInv'
<1>1. /\ blocks \in Seq(Blocks) /\ Len(blocks) \in Nat /\ ChainInv /\ pos \in Nat
      /\ altChain \in Seq(Blocks) /\ disconnected \in Seq(Blocks)
      /\ Len(altChain) \in Nat /\ Len(disconnected) \in Nat
  BY TailFacts DEF Inv, SwitchInv
<1>2. op # "idle" => splitHeight \in Nat /\ splitHeight <= Len(blocks)
  BY Zenon DEF Inv, SwitchInv
<1>3. GrownInv /\ CheckInv /\ DepthInv /\ \A b \in alternatives : check_block(b)
  BY Zenon DEF PlaceInv, CheckInv
<1>4. ASSUME op = "idle", UNCHANGED locals, alternatives' = alternatives,
             Elements(blocks') \subseteq Elements(blocks)
      PROVE  PlaceInv'
  <2>1. Checkpoints \cap alternatives' \cap Elements(blocks') = {}
    BY <1>3, <1>4, Zenon DEF CheckInv
  <2>2. QED
    BY <1>3, <1>4, <2>1, IdlePlaces, Zenon
<1>5. ASSUME NEW b \in Blocks \ {Genesis}, addToMainChain(b)
      PROVE  PlaceInv'
  <2>1. /\ op = "idle" /\ b \notin alternatives /\ alternatives' = alternatives
        /\ UNCHANGED locals /\ (pushBlock(b) \/ pushBlockFails(b))
    BY <1>5, Zenon DEF addToMainChain, haveBlock
  <2>2. CASE pushBlock(b)
    <3>1. Elements(blocks') = Elements(blocks) \cup {b}
      BY <1>1, <2>2, PushSets
    <3>2. Checkpoints \cap alternatives' \cap Elements(blocks') = {}
      BY <1>3, <2>1, <3>1, Zenon DEF CheckInv
    <3>3. QED
      BY <1>3, <2>1, <3>2, IdlePlaces, Zenon
  <2>3. CASE pushBlockFails(b)
    BY <1>4, <2>1, <2>3, Zenon DEF pushBlockFails
  <2>4. QED
    BY <2>1, <2>2, <2>3, Zenon
<1>6. ASSUME NEW b \in Blocks \ {Genesis}, addAlternative(b)
      PROVE  PlaceInv'
  <2>1. /\ op = "idle" /\ b \notin Elements(blocks) /\ alternatives' = alternatives \cup {b}
        /\ UNCHANGED locals /\ blocks' = blocks /\ check_block(b)
    BY <1>6, Zenon DEF addAlternative, haveBlock, hasBlock, alternativeAccepted, chain
  <2>2. Checkpoints \cap alternatives' \cap Elements(blocks') = {}
    BY <1>3, <2>1, Zenon DEF CheckInv
  <2>3. QED
    BY <1>3, <2>1, <2>2, IdlePlaces, Zenon
<1>7. ASSUME NEW b \in Blocks \ {Genesis}, startSwitch(b)
      PROVE  PlaceInv'
  <2>1. /\ op = "idle" /\ op' = "disconnect" /\ disconnected' = <<>> /\ pos' = 1
        /\ b \notin Elements(blocks) /\ alternatives' = alternatives \cup {b} /\ check_block(b)
    BY <1>7, Zenon DEF startSwitch, haveBlock, hasBlock, alternativeAccepted
  <2>2. OldChain' = Elements(blocks) /\ Checkpoints \cap BlocksAbove(blocks', splitHeight') = {}
    BY <1>3, <1>7, StartSets, Zenon
  <2>3. Checkpoints \cap alternatives' \cap OldChain' = {}
    BY <1>3, <2>1, <2>2, Zenon DEF CheckInv
  <2>4. Checkpoints \cap Elements(disconnected') = {}
    BY <2>1 DEF Elements
  <2>5. CheckInv'
    BY <1>3, <2>1, <2>2, <2>3, <2>4, Zenon DEF CheckInv
  <2>6. QED
    BY <2>1, <2>5, Zenon DEF PlaceInv, GrownInv, DepthInv
<1>8. CASE disconnect
  <2>1. /\ op = "disconnect" /\ op' \in {"disconnect", "connect"} /\ pos' = pos
        /\ alternatives' = alternatives
    BY <1>8, Zenon DEF disconnect
  <2>2. /\ splitHeight' = splitHeight /\ OldChain' = OldChain
        /\ tail \in BlocksAbove(blocks, splitHeight)
        /\ BlocksAbove(blocks', splitHeight) \subseteq BlocksAbove(blocks, splitHeight)
        /\ op' = "connect" => BlocksAbove(blocks', splitHeight) = {}
        /\ Elements(disconnected') = {tail} \cup Elements(disconnected)
        /\ disconnected' # <<>>
    BY <1>8, DisconnectSets, Zenon
  <2>3. GrownInv'
    BY <1>3, <2>1, <2>2, Zenon DEF GrownInv
  <2>4. Checkpoints \cap BlocksAbove(blocks, splitHeight) = {} /\ Checkpoints \cap Elements(disconnected) = {}
    BY <1>3, <2>1, Zenon DEF CheckInv
  <2>5. CheckInv'
    BY <1>3, <2>1, <2>2, <2>4, Zenon DEF CheckInv
  <2>6. QED
    BY <2>1, <2>3, <2>5, Zenon DEF PlaceInv, DepthInv
<1>9. CASE connect
  <2>1. /\ op = "connect" /\ pushBlock(altChain[next]) /\ op' \in {"connect", "demote"}
        /\ altChain' = altChain /\ disconnected' = disconnected /\ pos' = pos
        /\ alternatives' = alternatives
    BY <1>9, Zenon DEF connect
  <2>2. next \in 1 .. Len(altChain)
    BY <1>1, <1>2, <2>1 DEF next, Inv, SwitchInv
  <2>3. altChain[next] \in Blocks /\ altChain[next] \in Elements(altChain)
    BY <1>1, <2>2 DEF Elements
  <2>4. /\ splitHeight' = splitHeight /\ OldChain' = OldChain
        /\ BlocksAbove(blocks', splitHeight) = BlocksAbove(blocks, splitHeight) \cup {altChain[next]}
    BY <2>1, <2>3, GrowSets, Zenon
  <2>5. GrownInv'
    BY <1>3, <2>1, <2>3, <2>4, Zenon DEF GrownInv
  <2>6. CheckInv'
    BY <1>3, <2>1, <2>4, LoopChecks, Zenon
  <2>7. pos' = 1
    BY <1>3, <2>1, Zenon DEF GrownInv
  <2>8. QED
    BY <2>5, <2>6, <2>7 DEF PlaceInv, DepthInv
<1>10. CASE connectFails
  <2>1. /\ op = "connect" /\ pushBlockFails(altChain[next])
        /\ op' = IF Len(blocks) > splitHeight THEN "rollback" ELSE "restore"
        /\ altChain' = altChain /\ disconnected' = disconnected /\ alternatives' = alternatives
    BY <1>10, Zenon DEF connectFails
  <2>2. blocks' = blocks
    BY <2>1, Zenon DEF pushBlockFails
  <2>3. /\ splitHeight' = splitHeight /\ OldChain' = OldChain
        /\ BlocksAbove(blocks', splitHeight') = BlocksAbove(blocks, splitHeight)
    BY <2>1, <2>2, StaySets, Zenon
  <2>4. op' = "restore" => BlocksAbove(blocks, splitHeight) = {}
    <3>1. op' = "restore" => splitHeight + 1 .. Len(blocks) = {}
      BY <1>1, <1>2, <2>1
    <3>2. QED
      BY ONLY <3>1, Zenon DEF BlocksAbove
  <2>5. op' \in {"rollback", "restore"}
    BY <2>1, Zenon
  <2>6. GrownInv'
    BY <1>3, <2>1, <2>3, <2>4, <2>5, Zenon DEF GrownInv
  <2>7. CheckInv'
    BY <1>3, <2>1, <2>3, <2>5, LoopChecks, Zenon
  <2>8. QED
    BY <2>5, <2>6, <2>7, Zenon DEF PlaceInv, DepthInv
<1>11. CASE demote
  <2>1. /\ op = "demote" /\ op' = "demote" /\ pos <= Len(disconnected)
        /\ alternativeAccepted(disconnected[pos])
        /\ alternatives' = alternatives \cup {disconnected[pos]} /\ pos' = pos + 1
        /\ altChain' = altChain /\ disconnected' = disconnected /\ blocks' = blocks
    BY <1>11, Zenon DEF demote, chain
  <2>2. /\ splitHeight' = splitHeight /\ OldChain' = OldChain
        /\ BlocksAbove(blocks', splitHeight') = BlocksAbove(blocks, splitHeight)
    BY <2>1, StaySets, Zenon
  <2>3. GrownInv'
    BY <1>3, <2>1, <2>2, Zenon DEF GrownInv
  <2>4. /\ check_block(disconnected[pos])
        /\ is_alternative_block_allowed(Len(blocks), Height(disconnected[pos]))
    BY <2>1, Zenon DEF alternativeAccepted
  <2>5. disconnected[pos] \notin Checkpoints
    <3>1. pos \in 1 .. Len(disconnected)
      BY <1>1, <2>1 DEF Inv, SwitchInv
    <3>2. disconnected[pos] \in Elements(disconnected)
      BY ONLY <3>1, Zenon DEF Elements
    <3>3. QED
      BY ONLY <1>3, <3>2, Zenon DEF CheckInv
  <2>6. CheckInv'
    BY ONLY <1>3, <2>1, <2>2, <2>4, <2>5, Zenon DEF CheckInv
  <2>7. DepthInv'
    <3>1. pos = 1 \/ pos > 1
      BY <1>1 DEF Inv, SwitchInv
    <3>2. QED
      BY ONLY <1>3, <2>1, <2>4, <3>1, Zenon DEF DepthInv
  <2>8. QED
    BY <2>3, <2>6, <2>7, Zenon DEF PlaceInv
<1>12. CASE demoteFails
  <2>1. /\ op = "demote" /\ op' = "rollback" /\ alternatives' = alternatives
        /\ altChain' = altChain /\ disconnected' = disconnected /\ blocks' = blocks
    BY <1>12, Zenon DEF demoteFails, chain
  <2>2. /\ splitHeight' = splitHeight /\ OldChain' = OldChain
        /\ BlocksAbove(blocks', splitHeight') = BlocksAbove(blocks, splitHeight)
    BY <2>1, StaySets, Zenon
  <2>3. GrownInv'
    BY <1>3, <2>1, <2>2, Zenon DEF GrownInv
  <2>4. CheckInv'
    BY <1>3, <2>1, <2>2, LoopChecks, Zenon
  <2>5. QED
    BY <2>1, <2>3, <2>4, Zenon DEF PlaceInv, DepthInv
<1>13. CASE switched
  <2>1. /\ op = "demote" /\ endSwitch(1) /\ blocks' = blocks
        /\ alternatives' = alternatives \ Elements(altChain)
    BY <1>13, Zenon DEF switched, endSwitch, chain, Elements
  <2>2. Elements(blocks) \subseteq OldChain \cup Elements(altChain)
    BY <1>3, <2>1, EndSets, Zenon
  <2>3. Checkpoints \cap alternatives \cap OldChain = {}
    BY <1>3, <2>1, Zenon DEF CheckInv
  <2>4. Checkpoints \cap alternatives' \cap Elements(blocks') = {}
    BY ONLY <2>1, <2>2, <2>3, Zenon
  <2>5. QED
    BY <2>1, <2>4, EndPlaces, Zenon
<1>14. CASE rollback
  <2>1. /\ op = "rollback" /\ op' \in {"rollback", "restore"} /\ alternatives' = alternatives
        /\ altChain' = altChain /\ disconnected' = disconnected
    BY <1>14, Zenon DEF rollback
  <2>2. /\ splitHeight' = splitHeight /\ OldChain' = OldChain
        /\ BlocksAbove(blocks', splitHeight) \subseteq BlocksAbove(blocks, splitHeight)
        /\ op' = "restore" => BlocksAbove(blocks', splitHeight) = {}
    BY <1>14, ShrinkSets, Zenon
  <2>3. GrownInv'
    BY <1>3, <2>1, <2>2, Zenon DEF GrownInv
  <2>4. CheckInv'
    BY <1>3, <2>1, <2>2, LoopChecks, Zenon
  <2>5. QED
    BY <2>1, <2>3, <2>4, Zenon DEF PlaceInv, DepthInv
<1>15. CASE restore
  <2>1. /\ op = "restore" /\ op' = "restore" /\ next <= Len(disconnected)
        /\ pushBlock(disconnected[next]) /\ alternatives' = alternatives
        /\ altChain' = altChain /\ disconnected' = disconnected
    BY <1>15, Zenon DEF restore, locals
  <2>2. next \in 1 .. Len(disconnected)
    BY <1>1, <1>2, <2>1 DEF next
  <2>3. disconnected[next] \in Blocks /\ disconnected[next] \in Elements(disconnected)
    BY <1>1, <2>2 DEF Elements
  <2>4. /\ splitHeight' = splitHeight /\ OldChain' = OldChain
        /\ BlocksAbove(blocks', splitHeight)
              = BlocksAbove(blocks, splitHeight) \cup {disconnected[next]}
    BY <2>1, <2>3, GrowSets, Zenon
  <2>5. GrownInv'
    BY <1>3, <2>1, <2>3, <2>4, Zenon DEF GrownInv
  <2>6. CheckInv'
    BY <1>3, <2>1, <2>4, LoopChecks, Zenon
  <2>7. QED
    BY <2>1, <2>5, <2>6, Zenon DEF PlaceInv, DepthInv
<1>16. CASE restoreFails \/ restored
  <2>1. op = "restore" /\ endSwitch(pos) /\ blocks' = blocks /\ alternatives' \subseteq alternatives
    BY <1>16, Zenon DEF restoreFails, restored, endSwitch, chain, pushBlockFails
  <2>2. Elements(blocks) \subseteq OldChain /\ Checkpoints \cap alternatives \cap OldChain = {}
    BY <1>3, <2>1, EndSets, Zenon DEF CheckInv
  <2>3. Checkpoints \cap alternatives' \cap Elements(blocks') = {}
    BY ONLY <2>1, <2>2, Zenon
  <2>4. QED
    BY <2>1, <2>3, EndPlaces, Zenon
<1>17. CASE poolStep
  <2>1. op = "idle" /\ UNCHANGED locals /\ alternatives' = alternatives /\ blocks' = blocks
    BY <1>17, Zenon DEF poolStep, add_new_tx, removeExpiredTransaction
  <2>2. QED
    BY <1>4, <2>1, Zenon
<1>18. ASSUME NEW height \in 0 .. Len(blocks), rollbackBlockchainTo(height)
       PROVE  PlaceInv'
  <2>1. /\ op = "idle" /\ UNCHANGED locals /\ alternatives' = alternatives
        /\ Len(blocks) > height + 1 /\ blocks' = SubSeq(blocks, 1, height + 1)
    BY <1>18, Zenon DEF rollbackBlockchainTo
  <2>2. height + 1 \in 0 .. Len(blocks) /\ \A i \in 1 .. height + 1 : i \in 1 .. Len(blocks)
    BY <1>1, <2>1
  <2>3. Elements(blocks') = {blocks[i] : i \in 1 .. height + 1}
    BY ONLY <1>1, <2>1, <2>2, ElementsPrefix, Zenon
  <2>4. Elements(blocks') \subseteq Elements(blocks)
    BY ONLY <2>2, <2>3, Zenon DEF Elements
  <2>5. QED
    BY <1>4, <2>1, <2>4, Zenon
<1>19. CASE UNCHANGED vars
  BY <1>19, Zenon DEF vars, PlaceInv, GrownInv, CheckInv, DepthInv, OldChain, splitHeight
<1>20. QED
  BY <1>5, <1>6, <1>7, <1>8, <1>9, <1>10, <1>11, <1>12, <1>13, <1>14, <1>15, <1>16, <1>17,
     <1>18, <1>19, SMTT(40)
     DEF OperatorNext, Next, addNewBlock, switchStep, operatorStep

-----------------------------------------------------------------------------
(* PlaceInv holds at the start.                                            *)
LEMMA InitPlaces == Init => PlaceInv
<1> SUFFICES ASSUME Init PROVE PlaceInv
  BY Zenon
<1>1. op = "idle" /\ disconnected = <<>> /\ alternatives = {}
  BY Zenon DEF Init
<1>2. Elements(disconnected) = {}
  BY <1>1 DEF Elements
<1>3. QED
  BY <1>1, <1>2, Zenon DEF PlaceInv, GrownInv, CheckInv, DepthInv

(* The invariants hold together in every state.                            *)
LEMMA PlacesAlways == OperatorSpec => [](Inv /\ ResumeInv /\ PlaceInv)
<1>1. Init => PlaceInv
  BY InitPlaces, Zenon
<1>2. Inv /\ PlaceInv /\ [OperatorNext]_vars => PlaceInv'
  BY NextPlaces, Zenon
<1>3. QED
  BY <1>1, <1>2, ResumeAlways, PTL DEF OperatorSpec

(* No switch disconnects a checkpointed block, whatever alternatives the   *)
(* node has and wherever the operator rolled the chain back to.            *)
THEOREM CheckpointsNeverUndone == OperatorSpec => []NoCheckpointUndone
<1>1. PlaceInv => NoCheckpointUndone
  BY Zenon DEF PlaceInv, CheckInv, NoCheckpointUndone
<1>2. QED
  BY <1>1, PlacesAlways, PTL

(* A switch that completes ends with a demotion loop that ran: it replaced *)
(* no block deeper than the unlock window below the new tail, unless a     *)
(* checkpoint is still ahead.                                              *)
THEOREM ReorganizationIsShallow == OperatorSpec => ReorgDepthBounded
<1>1. Inv /\ PlaceInv /\ [OperatorNext]_vars =>
         [op = "demote" /\ SwitchEnds /\ ~discard =>
             \/ Height(disconnected[1]) >= Len(blocks') - UnlockWindow
             \/ is_in_checkpoint_zone(Height(disconnected[1]))]_vars
  <2> SUFFICES ASSUME Inv, PlaceInv, OperatorNext, op = "demote", SwitchEnds, ~discard
               PROVE  \/ Height(disconnected[1]) >= Len(blocks') - UnlockWindow
                      \/ is_in_checkpoint_zone(Height(disconnected[1]))
    BY Zenon
  <2>1. switched
    <3>1. op' = "idle"
      BY Zenon DEF SwitchEnds
    <3>2. ~(\E b \in Blocks \ {Genesis} : addNewBlock(b)) /\ ~poolStep /\ ~operatorStep
      BY Zenon DEF addNewBlock, addToMainChain, addAlternative, startSwitch, poolStep, add_new_tx,
             removeExpiredTransaction, operatorStep, rollbackBlockchainTo
    <3>3. /\ ~disconnect /\ ~connect /\ ~connectFails /\ ~demote /\ ~demoteFails
          /\ ~rollback /\ ~restore /\ ~restoreFails /\ ~restored
      BY <3>1, Zenon DEF disconnect, connect, connectFails, demote, demoteFails, rollback, restore,
                  restoreFails, restored
    <3>4. QED
      BY <3>2, <3>3, Zenon DEF OperatorNext, Next, switchStep
  <2>2. pos > Len(disconnected) /\ blocks' = blocks
    BY <2>1, Zenon DEF switched, chain
  <2>3. disconnected # <<>> /\ disconnected \in Seq(Blocks) /\ pos \in Nat
    BY Zenon DEF Inv, SwitchInv, PlaceInv, GrownInv
  <2>4. pos > 1 /\ 1 \in 1 .. Len(disconnected) /\ disconnected[1] \in Blocks
    BY <2>2, <2>3
  <2>5. is_alternative_block_allowed(Len(blocks), Height(disconnected[1]))
    BY <2>4, Zenon DEF PlaceInv, DepthInv
  <2>6. Height(disconnected[1]) \in Nat /\ Len(blocks) \in Nat /\ UnlockWindow \in Nat
    BY <2>4, PathFacts, TailFacts, CheckAssumption, SMTT(40) DEF Height, Inv
  <2>7. QED
    BY ONLY <2>2, <2>5, <2>6 DEF is_alternative_block_allowed
<1>2. QED
  BY <1>1, PlacesAlways, PTL DEF OperatorSpec, ReorgDepthBounded

-----------------------------------------------------------------------------
(* The parent of a block on a path is the block before it.                 *)
LEMMA PrevOnPath ==
    ASSUME NEW x \in Blocks, NEW k \in 2 .. Len(Path[x])
    PROVE  Prev(Path[x][k]) = Path[x][k - 1] /\ Path[x][k] \in Blocks \ {Genesis}
<1> DEFINE p == Path[x]
<1>1. p \in Seq(Blocks) /\ Len(p) \in Nat
  BY PathFacts, Zenon
<1>2. k \in 1 .. Len(p) /\ k \in 0 .. Len(p) /\ k - 1 \in 1 .. k /\ k # 1
  BY <1>1
<1>3. Path[p[k]] = SubSeq(p, 1, k) /\ Len(Path[p[k]]) = k /\ p[k] \in Blocks
  BY <1>2, PathFacts, Zenon
<1>4. p[k] # Genesis
  <2>1. Len(Path[Genesis]) = 1
    BY PathAssumption
  <2>2. QED
    BY ONLY <1>2, <1>3, <2>1, Zenon
<1> HIDE DEF p
<1>5. SubSeq(p, 1, k)[k - 1] = p[k - 1]
  BY ONLY <1>1, <1>2, ElementsPrefix, Zenon
<1>6. Prev(p[k]) = SubSeq(p, 1, k)[k - 1]
  BY ONLY <1>3, Zenon DEF Prev
<1>7. QED
  BY <1>3, <1>4, <1>5, <1>6, Zenon DEF p

(* Cumulative difficulty does not decrease along a path: of the blocks     *)
(* with more than the last has, take the nearest to the end.               *)
LEMMA WorkGrows ==
    ASSUME NEW x \in Blocks, NEW k \in 1 .. Len(Path[x])
    PROVE  Work[Path[x][k]] <= Work[x]
<1> DEFINE p == Path[x]
           n == Len(p)
           S == {d \in 0 .. n - 1 : ~(Work[p[n - d]] <= Work[x])}
<1>1. n \in Nat /\ n >= 1 /\ p[n] = x /\ \A i \in 1 .. n : p[i] \in Blocks
  BY PathFacts, Zenon
<1>2. \A i \in 1 .. n : Work[p[i]] \in Nat
  BY <1>1, WorkAssumption, Zenon
<1>3. \A i \in 2 .. n : Work[p[i - 1]] < Work[p[i]]
  BY PrevOnPath, WorkAssumption, Zenon
<1> HIDE DEF p, n
<1>4. S = {}
  <2> SUFFICES ASSUME S # {} PROVE FALSE
    BY Zenon
  <2>1. S \subseteq Nat
    BY <1>1
  <2>2. PICK d \in S : \A j \in S : d <= j
    BY <2>1, LeastNatural, Zenon
  <2>3. d \in 0 .. n - 1 /\ ~(Work[p[n - d]] <= Work[x])
    BY <2>2, Zenon
  <2>4. d # 0
    <3>1. d = 0 => n - d = n
      BY <1>1
    <3>2. Work[x] \in Nat
      BY WorkAssumption, Zenon
    <3>3. QED
      BY <1>1, <2>3, <3>1, <3>2
  <2>5. d - 1 \in 0 .. n - 1 /\ n - (d - 1) \in 2 .. n /\ (n - (d - 1)) - 1 = n - d
        /\ n - d \in 1 .. n /\ n - (d - 1) \in 1 .. n
    BY <1>1, <2>3, <2>4
  <2>6. Work[p[n - d]] < Work[p[n - (d - 1)]]
    BY ONLY <1>3, <2>5, Zenon
  <2>7. /\ Work[p[n - d]] \in Nat /\ Work[p[n - (d - 1)]] \in Nat /\ Work[x] \in Nat
    BY <1>2, <2>5, WorkAssumption, Zenon
  <2>8. d - 1 \in S
    BY ONLY <2>3, <2>5, <2>6, <2>7
  <2>9. d <= d - 1
    BY <2>2, <2>8, Zenon
  <2>10. QED
    BY ONLY <1>1, <2>3, <2>9
<1>5. n - k \in 0 .. n - 1 /\ n - (n - k) = k
  BY <1>1 DEF n, p
<1>6. Work[p[n - (n - k)]] <= Work[x]
  BY ONLY <1>4, <1>5, Zenon
<1>7. QED
  BY ONLY <1>5, <1>6, Zenon DEF p

(* While the old chain is demoted, the main chain is the path to the new   *)
(* tail, it shares the blocks up to the fork with the old chain, and it    *)
(* has the transactions of the disconnected blocks.                        *)
DemotedFrom(old) ==
    /\ Len(Path[old]) = splitHeight + Len(disconnected)
    /\ \A i \in 1 .. Len(disconnected) : disconnected[i] = Path[old][splitHeight + i]
    /\ \A i \in 1 .. splitHeight : blocks[i] = Path[old][i]
    /\ \A i \in 1 .. Len(disconnected) : TxsOf[disconnected[i]] \subseteq ChainTxs
    /\ VettedAlong(Path[old])
    /\ ~discard => Work[old] < Work[tail]

(* ResumeInv, read in the demotion loop.                                   *)
LEMMA DemoteFacts ==
    ASSUME Inv, ResumeInv, op = "demote"
    PROVE  \E old \in Blocks : DemotedFrom(old)
<1>1. PICK old \in Blocks, new \in Blocks :
         SwitchFrom(old, new, altChain, discard) /\ Between(old, new)
  BY Zenon DEF ResumeInv
<1>2. Removed(old, splitHeight, disconnected) /\ Below(tail, new)
  BY <1>1, Zenon DEF Between
<1>3. /\ splitHeight \in Nat \ {0} /\ Len(blocks) = splitHeight + Len(altChain)
      /\ Len(altChain) \in Nat /\ Len(disconnected) \in Nat
  BY DEF Inv, SwitchInv
<1>4. /\ splitHeight < Len(Path[old]) /\ Len(Path[new]) = splitHeight + Len(altChain)
      /\ Path[old][splitHeight] = Path[new][splitHeight]
      /\ \A i \in 1 .. Len(altChain) : altChain[i] = Path[new][splitHeight + i]
      /\ VettedAlong(Path[old])
      /\ \A i \in splitHeight + 1 .. Len(Path[old]) :
             TxsOf[Path[old][i]] \subseteq TxsIn(Elements(altChain))
      /\ ~discard => Work[old] < Work[new]
  BY <1>1, Zenon DEF SwitchFrom, splitHeight
<1>5. tail = new /\ blocks = Path[new]
  <2>1. tail \in Blocks /\ Len(Path[tail]) = Len(blocks) /\ Len(blocks) \in Nat /\ blocks = Path[tail]
    BY TailFacts, Zenon DEF Inv
  <2>2. Len(Path[tail]) >= Len(Path[new])
    BY <1>3, <1>4, <2>1
  <2>3. tail = new
    BY <1>2, <2>1, <2>2, BelowSameLength, Zenon
  <2>4. QED
    BY ONLY <2>1, <2>3, Zenon
<1>6. \A i \in 1 .. splitHeight : blocks[i] = Path[old][i]
  <2> DEFINE f == Path[new][splitHeight]
  <2>1. splitHeight \in 1 .. Len(Path[old]) /\ splitHeight \in 1 .. Len(Path[new])
    BY <1>1, ForkFacts, Zenon
  <2>2. f \in Blocks /\ Len(Path[f]) = splitHeight
    BY <2>1, PathFacts, Zenon
  <2>3. Below(f, new) /\ Below(f, old)
    BY ONLY <1>4, <2>1, old \in Blocks, new \in Blocks, OnPath, Zenon
  <2>4. /\ \A i \in 1 .. Len(Path[f]) : Path[f][i] = Path[new][i]
        /\ \A i \in 1 .. Len(Path[f]) : Path[f][i] = Path[old][i]
    BY ONLY <2>2, <2>3, old \in Blocks, new \in Blocks, BelowPrefix, Zenon
  <2>5. QED
    BY ONLY <1>5, <2>2, <2>4, Zenon
<1>7. Elements(altChain) \subseteq Elements(blocks)
  <2>1. \A i \in 1 .. Len(altChain) : splitHeight + i \in 1 .. Len(blocks)
    BY <1>3
  <2>2. QED
    BY ONLY <1>4, <1>5, <2>1, Zenon DEF Elements
<1>8. \A i \in 1 .. Len(disconnected) : TxsOf[disconnected[i]] \subseteq ChainTxs
  <2>1. TxsIn(Elements(altChain)) \subseteq ChainTxs
    BY ONLY <1>7, Zenon DEF TxsIn, ChainTxs
  <2>2. \A i \in 1 .. Len(disconnected) : splitHeight + i \in splitHeight + 1 .. Len(Path[old])
    BY <1>2, <1>3 DEF Removed
  <2>3. QED
    BY ONLY <1>2, <1>4, <2>1, <2>2, Zenon DEF Removed
<1>9. DemotedFrom(old)
  BY ONLY <1>2, <1>4, <1>5, <1>6, <1>8, Zenon DEF DemotedFrom, Removed
<1>10. QED
  BY <1>9, Zenon

(* While the old chain is demoted, none of its blocks starts a second      *)
(* switch inside the first: none is a checkpoint, and none has the work of *)
(* the new tail.                                                           *)
THEOREM SwitchesDoNotNest == OperatorSpec => []NoNestedSwitch
<1>1. ASSUME Inv, ResumeInv, PlaceInv
      PROVE  NoNestedSwitch
  <2> SUFFICES ASSUME op = "demote", ~discard, NEW i \in pos .. Len(disconnected)
               PROVE  ~reorganizes(disconnected[i])
    BY Zenon DEF NoNestedSwitch
  <2>1. PICK old \in Blocks : DemotedFrom(old)
    BY <1>1, DemoteFacts, Zenon
  <2>2. /\ splitHeight \in Nat \ {0} /\ Len(disconnected) \in Nat /\ pos \in Nat \ {0}
        /\ tail \in Blocks
    BY <1>1, TailFacts DEF Inv, SwitchInv
  <2>3. i \in 1 .. Len(disconnected) /\ splitHeight + i \in 1 .. Len(Path[old])
    BY <2>1, <2>2 DEF DemotedFrom
  <2>4. disconnected[i] \notin Checkpoints
    <3>1. disconnected[i] \in Elements(disconnected)
      BY ONLY <2>3, Zenon DEF Elements
    <3>2. QED
      BY <1>1, <3>1, Zenon DEF PlaceInv, CheckInv
  <2>5. disconnected[i] = Path[old][splitHeight + i] /\ Work[old] < Work[tail]
    BY <2>1, <2>3, Zenon DEF DemotedFrom
  <2>6. Work[Path[old][splitHeight + i]] <= Work[old]
    BY ONLY <2>3, old \in Blocks, WorkGrows, Zenon
  <2>7. disconnected[i] \in Blocks
    BY <1>1, <2>3 DEF Inv, SwitchInv
  <2>8. Work[disconnected[i]] \in Nat /\ Work[old] \in Nat /\ Work[tail] \in Nat
    BY <2>2, <2>7, WorkAssumption, Zenon
  <2>9. ~(Work[tail] < Work[disconnected[i]])
    BY ONLY <2>5, <2>6, <2>8
  <2>10. QED
    BY <2>4, <2>9, Zenon DEF reorganizes
<1>2. QED
  BY <1>1, PlacesAlways, PTL

-----------------------------------------------------------------------------
(* The alternatives and the chain a switch started from share no block,    *)
(* but for those demoted so far.                                           *)
DemotedInv ==
    op = "demote" => /\ pos <= Len(disconnected) + 1
                     /\ \A i \in 1 .. pos - 1 : disconnected[i] \in alternatives

ApartInv ==
    MergeMined \cup WeakWork = {} =>
        /\ op = "idle" => alternatives \cap Elements(blocks) = {}
        /\ op \notin {"idle", "demote"} => alternatives \cap OldChain = {}
        /\ op = "demote" => alternatives \cap OldChain \subseteq {disconnected[i] : i \in 1 .. pos - 1}

AltInv == DemotedInv /\ ApartInv

(* What is_alternative_block_allowed says of a block holds of those above  *)
(* it up to the size of the chain: a checkpoint that is not below the      *)
(* first is above the tail.                                                *)
LEMMA AllowedAbove ==
    ASSUME NEW size \in Nat, NEW g \in Nat, NEW h \in Nat, g <= h,
           is_alternative_block_allowed(size, g)
    PROVE  is_alternative_block_allowed(size, h)
<1>1. UnlockWindow \in Nat /\ \A c \in Checkpoints : Height(c) \in Nat
  BY PathFacts, CheckAssumption DEF Height
<1>2. g # 0 /\ \A c \in Checkpoints : Height(c) <= size => Height(c) < g
  BY Zenon DEF is_alternative_block_allowed
<1>3. h # 0 /\ \A c \in Checkpoints : Height(c) <= size => Height(c) < h
  BY <1>1, <1>2
<1>4. ASSUME size >= UnlockWindow, h < size - UnlockWindow
      PROVE  is_in_checkpoint_zone(h)
  <2>1. g < size - UnlockWindow
    BY <1>1, <1>4
  <2>2. PICK c \in Checkpoints : g <= Height(c)
    BY <1>4, <2>1, Zenon DEF is_alternative_block_allowed, is_in_checkpoint_zone
  <2>3. h <= Height(c)
    BY <1>1, <1>2, <1>4, <2>2
  <2>4. QED
    BY <2>3, Zenon DEF is_in_checkpoint_zone
<1>5. QED
  BY <1>3, <1>4, Zenon DEF is_alternative_block_allowed

(* The blocks up to the fork are not among those disconnected.             *)
LEMMA ForkApart ==
    ASSUME Inv, ResumeInv, op = "demote"
    PROVE  FirstBlocks(blocks, splitHeight) \cap Elements(disconnected) = {}
<1>1. PICK old \in Blocks : DemotedFrom(old)
  BY DemoteFacts, Zenon
<1>2. splitHeight \in Nat \ {0} /\ Len(disconnected) \in Nat
  BY DEF Inv, SwitchInv
<1>3. ASSUME NEW i \in 1 .. splitHeight, NEW j \in 1 .. Len(disconnected),
             blocks[i] = disconnected[j]
      PROVE  FALSE
  <2>1. /\ i \in 1 .. Len(Path[old]) /\ splitHeight + j \in 1 .. Len(Path[old])
        /\ i # splitHeight + j
    BY <1>1, <1>2 DEF DemotedFrom
  <2>2. Path[old][i] = Path[old][splitHeight + j]
    BY ONLY <1>1, <1>3, Zenon DEF DemotedFrom
  <2>3. i = splitHeight + j
    BY ONLY <2>1, <2>2, old \in Blocks, OncePerPath, Zenon
  <2>4. QED
    BY <2>1, <2>3, Zenon
<1>4. QED
  BY ONLY <1>3, Zenon DEF FirstBlocks, Elements

(* Once the first block of the old chain is demoted, the walk of           *)
(* handle_alternative_block from a later one ends at the fork.             *)
LEMMA DemoteFront ==
    ASSUME Inv, ResumeInv, AltInv, MergeMined \cup WeakWork = {}, op = "demote",
           pos > 1, pos <= Len(disconnected)
    PROVE  /\ Prev(disconnected[pos]) \in alternatives
           /\ connects(disconnected[pos])
<1> DEFINE d == disconnected[pos]
           h == splitHeight
           p == Path[d]
<1>1. PICK old \in Blocks : DemotedFrom(old)
  BY DemoteFacts, Zenon
<1>2. /\ h \in Nat \ {0} /\ Len(disconnected) \in Nat /\ pos \in Nat /\ Len(altChain) \in Nat
      /\ Len(altChain) >= 1 /\ Len(blocks) = h + Len(altChain) /\ Genesis \notin alternatives
  BY DEF Inv, SwitchInv
<1>3. /\ pos \in 1 .. Len(disconnected) /\ Len(Path[old]) = h + Len(disconnected)
      /\ \A i \in 1 .. Len(disconnected) : disconnected[i] = Path[old][h + i]
      /\ \A i \in 1 .. h : blocks[i] = Path[old][i]
  BY <1>1, <1>2 DEF DemotedFrom
<1>4. /\ h + pos \in 2 .. Len(Path[old]) /\ h + pos \in 1 .. Len(Path[old])
      /\ (h + pos) - 1 = h + (pos - 1) /\ pos - 1 \in 1 .. Len(disconnected)
      /\ pos - 1 \in 1 .. pos - 1
  BY <1>2, <1>3, SMTT(40)
<1>5. d = Path[old][h + pos] /\ d \in Blocks \ {Genesis} /\ Prev(d) = disconnected[pos - 1]
  BY <1>3, <1>4, PrevOnPath, SMTT(40)
<1>6. Prev(d) \in alternatives
  BY <1>4, <1>5, Zenon DEF AltInv, DemotedInv
<1>7. Len(p) = h + pos /\ \A i \in 1 .. h + pos : p[i] = Path[old][i]
  <2>1. Len(p) = h + pos
    BY <1>4, <1>5, PathFacts
  <2>2. Below(d, old)
    BY ONLY <1>4, <1>5, old \in Blocks, OnPath, Zenon
  <2>3. \A i \in 1 .. Len(Path[d]) : Path[d][i] = Path[old][i]
    BY ONLY <1>5, <2>2, old \in Blocks, BelowPrefix, Zenon
  <2>4. QED
    BY ONLY <2>1, <2>3, Zenon
<1> HIDE DEF d, p
<1>8. p[h] \notin alternatives /\ p[h] = blocks[h]
  <2>1. h \in 1 .. h /\ h \in 1 .. h + pos
    BY <1>2
  <2>2. p[h] = blocks[h]
    BY ONLY <1>3, <1>7, <2>1, Zenon
  <2>3. blocks[h] \in FirstBlocks(blocks, h)
    BY ONLY <2>1, Zenon DEF FirstBlocks
  <2>4. blocks[h] \in OldChain /\ blocks[h] \notin Elements(disconnected)
    BY <2>3, ForkApart, Zenon DEF OldChain
  <2>5. {disconnected[i] : i \in 1 .. pos - 1} \subseteq Elements(disconnected)
    <3>1. \A i \in 1 .. pos - 1 : i \in 1 .. Len(disconnected)
      BY <1>2
    <3>2. QED
      BY ONLY <3>1, Zenon DEF Elements
  <2>6. blocks[h] \notin alternatives
    BY <2>4, <2>5, Zenon DEF AltInv, ApartInv
  <2>7. QED
    BY <2>2, <2>6, Zenon
<1>9. \A j \in h + 1 .. h + pos - 1 : p[j] \in alternatives
  <2> SUFFICES ASSUME NEW j \in h + 1 .. h + pos - 1
               PROVE  p[j] \in alternatives
    BY Zenon
  <2>1. j \in 1 .. h + pos /\ j - h \in 1 .. pos - 1 /\ j - h \in 1 .. Len(disconnected)
        /\ h + (j - h) = j
    BY <1>2
  <2>2. p[j] = disconnected[j - h]
    BY ONLY <1>3, <1>7, <2>1, Zenon
  <2>3. QED
    BY <2>1, <2>2, Zenon DEF AltInv, DemotedInv
<1>10. altFront(d) = h + 1
  <2> DEFINE k == altFront(d)
  <2>1. k \in 2 .. Len(p) /\ IsAltFront(d, k)
    BY <1>2, <1>5, AltFrontExists, Zenon DEF p
  <2> HIDE DEF k
  <2>2. /\ \A j \in k .. Len(p) - 1 : p[j] \in alternatives
        /\ p[k - 1] \notin alternatives
    BY <2>1, Zenon DEF IsAltFront, p
  <2>3. ~(k < h + 1)
    <3>1. k < h + 1 => h \in k .. Len(p) - 1
      BY <1>2, <1>7, <2>1
    <3>2. QED
      BY ONLY <1>8, <2>2, <3>1, Zenon
  <2>4. ~(k > h + 1)
    <3>1. k > h + 1 => k - 1 \in h + 1 .. h + pos - 1
      BY <1>2, <1>7, <2>1
    <3>2. QED
      BY ONLY <1>9, <2>2, <3>1, Zenon
  <2>5. k \in Nat
    BY <1>2, <1>7, <2>1
  <2>6. QED
    BY <1>2, <2>3, <2>4, <2>5, SMTT(40) DEF k
<1>11. h + 1 < Len(p) /\ Len(blocks) >= h + 1 /\ (h + 1) - 1 = h
  BY <1>2, <1>7
<1>12. connects(d)
  BY ONLY <1>8, <1>10, <1>11, Zenon DEF connects, p
<1>13. QED
  BY <1>6, <1>12, Zenon DEF d

(* If the first block of the old chain is accepted as an alternative, the  *)
(* others are: pushBlock vetted them, and their transactions are on the    *)
(* new chain.                                                              *)
LEMMA DemoteAccepted ==
    ASSUME Inv, ResumeInv, PlaceInv, AltInv, MergeMined \cup WeakWork = {}, op = "demote",
           pos > 1, pos <= Len(disconnected)
    PROVE  alternativeAccepted(disconnected[pos]) /\ ~maySizeFail(disconnected[pos])
<1> DEFINE d == disconnected[pos]
           h == splitHeight
<1>1. PICK old \in Blocks : DemotedFrom(old)
  BY DemoteFacts, Zenon
<1>2. h \in Nat \ {0} /\ Len(disconnected) \in Nat /\ pos \in Nat /\ Len(blocks) \in Nat
  BY TailFacts DEF Inv, SwitchInv
<1>3. /\ pos \in 1 .. Len(disconnected) /\ 1 \in 1 .. Len(disconnected)
      /\ Len(Path[old]) = h + Len(disconnected)
      /\ \A i \in 1 .. Len(disconnected) : disconnected[i] = Path[old][h + i]
      /\ VettedAlong(Path[old]) /\ TxsOf[d] \subseteq ChainTxs
  BY <1>1, <1>2 DEF DemotedFrom
<1>4. /\ h + pos \in 1 .. Len(Path[old]) /\ h + pos \in 2 .. Len(Path[old])
      /\ h + 1 \in 1 .. Len(Path[old])
  BY <1>2, <1>3
<1>5. d = Path[old][h + pos] /\ disconnected[1] = Path[old][h + 1]
  BY ONLY <1>3, Zenon
<1>6. Height(d) = h + pos - 1 /\ Height(disconnected[1]) = (h + 1) - 1
  <2>1. Len(Path[Path[old][h + pos]]) = h + pos /\ Len(Path[Path[old][h + 1]]) = h + 1
    BY <1>4, PathFacts, Zenon
  <2>2. QED
    BY <1>2, <1>5, <2>1, SMTT(40) DEF Height
<1>7. Vetted(d)
  BY ONLY <1>3, <1>4, <1>5, Zenon DEF VettedAlong
<1>8. is_alternative_block_allowed(Len(blocks), Height(d))
  <2>1. is_alternative_block_allowed(Len(blocks), Height(disconnected[1]))
    BY Zenon DEF PlaceInv, DepthInv
  <2>2. /\ Height(disconnected[1]) \in Nat /\ Height(d) \in Nat
        /\ Height(disconnected[1]) <= Height(d)
    BY ONLY <1>2, <1>6, pos > 1
  <2>3. QED
    BY ONLY <1>2, <2>1, <2>2, AllowedAbove, Zenon
<1>9. check_block(d)
  <2>1. \A c \in Checkpoints : Height(c) = Height(d) => is_in_checkpoint_zone(Height(d))
    <3>1. Height(d) <= Height(d)
      BY <1>2, <1>6
    <3>2. QED
      BY ONLY <3>1, Zenon DEF is_in_checkpoint_zone
  <2>2. QED
    BY ONLY <1>7, <2>1, Zenon DEF Vetted, check_block
<1>10. d \notin alternatives
  <2>1. d \in OldChain
    BY ONLY <1>3, Zenon DEF OldChain, Elements
  <2> SUFFICES ASSUME NEW i \in 1 .. pos - 1, d = disconnected[i]
               PROVE  FALSE
    BY <2>1 DEF AltInv, ApartInv
  <2>2. i \in 1 .. Len(disconnected) /\ h + i \in 1 .. Len(Path[old]) /\ h + i # h + pos
    BY <1>2, <1>3
  <2>3. Path[old][h + i] = Path[old][h + pos]
    BY ONLY <1>3, <1>5, <2>2, d = disconnected[i], Zenon
  <2>4. h + i = h + pos
    BY ONLY <1>4, <2>2, <2>3, old \in Blocks, OncePerPath, Zenon
  <2>5. QED
    BY <2>2, <2>4, Zenon
<1>11. Prev(d) \in alternatives /\ connects(d)
  BY DemoteFront, Zenon
<1>12. d \notin BadHeader \cup MergeMined \cup WeakWork /\ d \notin Oversize
  BY <1>7, Zenon DEF Vetted
<1> HIDE DEF d
<1>13. TxsOf[d] \cap leaked = {}
  BY ONLY <1>3, Zenon DEF leaked, ChainTxs
<1>14. alternativeAccepted(d)
  BY ONLY <1>8, <1>9, <1>10, <1>11, <1>12, Zenon DEF alternativeAccepted, maySizePass
<1>15. ~maySizeFail(d)
  BY ONLY <1>12, <1>13, Zenon DEF maySizeFail
<1>16. QED
  BY <1>14, <1>15, Zenon DEF d

(* Every step keeps AltInv.                                                *)
LEMMA NextApart ==
    ASSUME Inv, ResumeInv, PlaceInv, AltInv, [OperatorNext]_vars
    PROVE  AltInv'
<1> DEFINE Clean == MergeMined \cup WeakWork = {}
<1>1. /\ blocks \in Seq(Blocks) /\ Len(blocks) \in Nat /\ ChainInv /\ pos \in Nat \ {0}
      /\ altChain \in Seq(Blocks) /\ disconnected \in Seq(Blocks)
      /\ Len(altChain) \in Nat /\ Len(disconnected) \in Nat
  BY TailFacts DEF Inv, SwitchInv
<1>2. op # "idle" => splitHeight \in Nat /\ splitHeight <= Len(blocks)
  BY Zenon DEF Inv, SwitchInv
<1>3. GrownInv /\ DemotedInv /\ ApartInv
  BY Zenon DEF PlaceInv, AltInv
<1>4. ASSUME op' = "idle", Clean => alternatives' \cap Elements(blocks') = {}
      PROVE  AltInv'
  BY <1>4, Zenon DEF AltInv, DemotedInv, ApartInv
<1>5. ASSUME op' \notin {"idle", "demote"}, Clean => alternatives' \cap OldChain' = {}
      PROVE  AltInv'
  BY <1>5, Zenon DEF AltInv, DemotedInv, ApartInv
<1>6. ASSUME op \notin {"idle", "demote"}, OldChain' = OldChain, alternatives' = alternatives
      PROVE  Clean => alternatives' \cap OldChain' = {}
  BY <1>3, <1>6, Zenon DEF ApartInv
<1>7. op = "idle" /\ Clean => alternatives \cap Elements(blocks) = {}
  BY <1>3, Zenon DEF ApartInv
<1>8. ASSUME NEW b \in Blocks \ {Genesis}, addToMainChain(b)
      PROVE  AltInv'
  <2>1. /\ op = "idle" /\ op' = "idle" /\ b \notin alternatives /\ alternatives' = alternatives
        /\ (pushBlock(b) \/ pushBlockFails(b))
    BY <1>8, Zenon DEF addToMainChain, haveBlock, locals
  <2>2. Elements(blocks') \subseteq Elements(blocks) \cup {b}
    <3>1. CASE pushBlock(b)
      BY <1>1, <3>1, PushSets, SMTT(40)
    <3>2. CASE pushBlockFails(b)
      BY <3>2, Zenon DEF pushBlockFails
    <3>3. QED
      BY <2>1, <3>1, <3>2, Zenon
  <2>3. QED
    BY <1>4, <1>7, <2>1, <2>2, Zenon
<1>9. ASSUME NEW b \in Blocks \ {Genesis}, addAlternative(b)
      PROVE  AltInv'
  <2>1. /\ op = "idle" /\ op' = "idle" /\ b \notin Elements(blocks) /\ blocks' = blocks
        /\ alternatives' = alternatives \cup {b}
    BY <1>9, Zenon DEF addAlternative, haveBlock, hasBlock, chain, locals
  <2>2. QED
    BY <1>4, <1>7, <2>1, Zenon
<1>10. ASSUME NEW b \in Blocks \ {Genesis}, startSwitch(b)
       PROVE  AltInv'
  <2>1. /\ op = "idle" /\ op' = "disconnect" /\ b \notin Elements(blocks)
        /\ alternatives' = alternatives \cup {b}
    BY <1>10, Zenon DEF startSwitch, haveBlock, hasBlock
  <2>2. OldChain' = Elements(blocks)
    BY <1>10, StartSets, Zenon DEF PlaceInv
  <2>3. QED
    BY <1>5, <1>7, <2>1, <2>2, Zenon
<1>11. CASE disconnect
  <2>1. op = "disconnect" /\ op' \in {"disconnect", "connect"} /\ alternatives' = alternatives
    BY <1>11, Zenon DEF disconnect
  <2>2. OldChain' = OldChain
    BY <1>11, DisconnectSets, Zenon
  <2>3. QED
    BY <1>5, <1>6, <2>1, <2>2, Zenon
<1>12. CASE connect
  <2>1. /\ op = "connect" /\ pushBlock(altChain[next]) /\ op' \in {"connect", "demote"}
        /\ altChain' = altChain /\ disconnected' = disconnected /\ pos' = pos
        /\ alternatives' = alternatives
    BY <1>12, Zenon DEF connect
  <2>2. next \in 1 .. Len(altChain)
    BY <1>1, <1>2, <2>1 DEF next, Inv, SwitchInv
  <2>3. altChain[next] \in Blocks
    BY <1>1, <2>2
  <2>4. OldChain' = OldChain
    BY <2>1, <2>3, GrowSets, Zenon
  <2>5. Clean => alternatives' \cap OldChain' = {}
    BY <1>6, <2>1, <2>4, Zenon
  <2>6. 1 .. pos' - 1 = {} /\ pos' <= Len(disconnected') + 1
    BY <1>1, <1>3, <2>1 DEF GrownInv
  <2>7. QED
    BY ONLY <2>1, <2>5, <2>6, Zenon DEF AltInv, DemotedInv, ApartInv
<1>13. CASE connectFails
  <2>1. /\ op = "connect" /\ op' \in {"rollback", "restore"} /\ blocks' = blocks
        /\ altChain' = altChain /\ disconnected' = disconnected /\ alternatives' = alternatives
    BY <1>13, Zenon DEF connectFails, pushBlockFails
  <2>2. OldChain' = OldChain
    BY <2>1, StaySets, Zenon
  <2>3. QED
    BY <1>5, <1>6, <2>1, <2>2, Zenon
<1>14. CASE demote
  <2>1. /\ op = "demote" /\ op' = "demote" /\ pos' = pos + 1 /\ pos <= Len(disconnected)
        /\ alternatives' = alternatives \cup {disconnected[pos]}
        /\ altChain' = altChain /\ disconnected' = disconnected /\ blocks' = blocks
    BY <1>14, Zenon DEF demote, chain
  <2>2. OldChain' = OldChain
    BY <2>1, StaySets, Zenon
  <2>3. /\ \A i \in 1 .. pos' - 1 : i \in 1 .. pos - 1 \/ i = pos
        /\ \A i \in 1 .. pos - 1 : i \in 1 .. pos' - 1
        /\ pos \in 1 .. pos' - 1 /\ pos' <= Len(disconnected) + 1
    BY <1>1, <2>1
  <2>4. DemotedInv'
    BY ONLY <1>3, <2>1, <2>3, Zenon DEF DemotedInv
  <2>5. ApartInv'
    <3>1. ASSUME Clean
          PROVE  alternatives' \cap OldChain' \subseteq {disconnected'[i] : i \in 1 .. pos' - 1}
      <4>1. alternatives \cap OldChain \subseteq {disconnected[i] : i \in 1 .. pos - 1}
        BY <1>3, <2>1, <3>1, Zenon DEF ApartInv
      <4>2. {disconnected[i] : i \in 1 .. pos - 1} \cup {disconnected[pos]}
               \subseteq {disconnected[i] : i \in 1 .. pos' - 1}
        BY ONLY <2>3, Zenon
      <4>3. QED
        BY ONLY <2>1, <2>2, <4>1, <4>2, ZenonT(60)
    <3>2. QED
      BY <2>1, <3>1, Zenon DEF ApartInv
  <2>6. QED
    BY <2>4, <2>5, Zenon DEF AltInv
<1>15. CASE demoteFails
  <2>1. /\ op = "demote" /\ pos <= Len(disconnected) /\ op' = "rollback"
        /\ ~alternativeAccepted(disconnected[pos]) \/ maySizeFail(disconnected[pos])
        /\ altChain' = altChain /\ disconnected' = disconnected /\ blocks' = blocks
        /\ alternatives' = alternatives
    BY <1>15, Zenon DEF demoteFails, chain
  <2>2. OldChain' = OldChain
    BY <2>1, StaySets, Zenon
  <2>3. ASSUME Clean
        PROVE  alternatives' \cap OldChain' = {}
    <3>1. ~(pos > 1)
      BY <2>1, <2>3, DemoteAccepted, Zenon
    <3>2. 1 .. pos - 1 = {}
      BY <1>1, <3>1
    <3>3. alternatives \cap OldChain \subseteq {disconnected[i] : i \in 1 .. pos - 1}
      BY <1>3, <2>1, <2>3, Zenon DEF ApartInv
    <3>4. QED
      BY ONLY <2>1, <2>2, <3>2, <3>3, Zenon
  <2>4. QED
    BY <1>5, <2>1, <2>3, Zenon
<1>16. CASE switched
  <2>1. /\ op = "demote" /\ op' = "idle" /\ blocks' = blocks
        /\ alternatives' = alternatives \ Elements(altChain)
    BY <1>16, Zenon DEF switched, endSwitch, chain, Elements
  <2>2. Elements(blocks) \subseteq FirstBlocks(blocks, splitHeight) \cup Elements(altChain)
    <3>1. BlocksAbove(blocks, splitHeight) \subseteq Elements(altChain)
      BY <1>3, <2>1, Zenon DEF GrownInv
    <3>2. Elements(blocks) = FirstBlocks(blocks, splitHeight) \cup BlocksAbove(blocks, splitHeight)
      BY <1>1, <1>2, <2>1, SplitChain, Zenon
    <3>3. QED
      BY ONLY <3>1, <3>2, Zenon
  <2>3. ASSUME Clean
        PROVE  alternatives' \cap Elements(blocks') = {}
    <3>1. FirstBlocks(blocks, splitHeight) \subseteq OldChain
      BY <2>1, Zenon DEF OldChain
    <3>2. FirstBlocks(blocks, splitHeight) \cap Elements(disconnected) = {}
      BY <2>1, ForkApart, Zenon
    <3>3. alternatives \cap OldChain \subseteq Elements(disconnected)
      <4>1. \A i \in 1 .. pos - 1 : i \in 1 .. Len(disconnected)
        BY <1>1, <1>3, <2>1, SMTT(40) DEF DemotedInv
      <4>2. alternatives \cap OldChain \subseteq {disconnected[i] : i \in 1 .. pos - 1}
        BY <1>3, <2>1, <2>3, Zenon DEF ApartInv
      <4>3. QED
        BY ONLY <4>1, <4>2, Zenon DEF Elements
    <3>4. QED
      BY ONLY <2>1, <2>2, <3>1, <3>2, <3>3, Zenon
  <2>4. QED
    BY <1>4, <2>1, <2>3, Zenon
<1>17. CASE rollback
  <2>1. op = "rollback" /\ op' \in {"rollback", "restore"} /\ alternatives' = alternatives
    BY <1>17, Zenon DEF rollback
  <2>2. OldChain' = OldChain
    BY <1>17, ShrinkSets, Zenon
  <2>3. QED
    BY <1>5, <1>6, <2>1, <2>2, Zenon
<1>18. CASE restore
  <2>1. /\ op = "restore" /\ op' = "restore" /\ next <= Len(disconnected)
        /\ pushBlock(disconnected[next]) /\ alternatives' = alternatives
        /\ altChain' = altChain /\ disconnected' = disconnected
    BY <1>18, Zenon DEF restore, locals
  <2>2. next \in 1 .. Len(disconnected)
    BY <1>1, <1>2, <2>1 DEF next
  <2>3. disconnected[next] \in Blocks
    BY <1>1, <2>2
  <2>4. OldChain' = OldChain
    BY <2>1, <2>3, GrowSets, Zenon
  <2>5. QED
    BY <1>5, <1>6, <2>1, <2>4, Zenon
<1>19. CASE restoreFails \/ restored
  <2>1. /\ op = "restore" /\ op' = "idle" /\ blocks' = blocks
        /\ alternatives' \subseteq alternatives
    BY <1>19, Zenon DEF restoreFails, restored, endSwitch, chain, pushBlockFails
  <2>2. Elements(blocks) \subseteq OldChain
    BY <1>3, <2>1, EndSets, Zenon
  <2>3. Clean => alternatives \cap OldChain = {}
    BY <1>3, <2>1, Zenon DEF ApartInv
  <2>4. Clean => alternatives' \cap Elements(blocks') = {}
    BY ONLY <2>1, <2>2, <2>3, Zenon
  <2>5. QED
    BY <1>4, <2>1, <2>4, Zenon
<1>20. CASE poolStep
  <2>1. op = "idle" /\ op' = "idle" /\ alternatives' = alternatives /\ blocks' = blocks
    BY <1>20, Zenon DEF poolStep, add_new_tx, removeExpiredTransaction, locals
  <2>2. QED
    BY <1>4, <1>7, <2>1, Zenon
<1>21. ASSUME NEW height \in 0 .. Len(blocks), rollbackBlockchainTo(height)
       PROVE  AltInv'
  <2>1. /\ op = "idle" /\ op' = "idle" /\ alternatives' = alternatives
        /\ Len(blocks) > height + 1 /\ blocks' = SubSeq(blocks, 1, height + 1)
    BY <1>21, Zenon DEF rollbackBlockchainTo, locals
  <2>2. height + 1 \in 0 .. Len(blocks) /\ \A i \in 1 .. height + 1 : i \in 1 .. Len(blocks)
    BY <1>1, <2>1
  <2>3. Elements(blocks') = {blocks[i] : i \in 1 .. height + 1}
    BY ONLY <1>1, <2>1, <2>2, ElementsPrefix, ZenonT(60)
  <2>4. Elements(blocks') \subseteq Elements(blocks)
    BY ONLY <2>2, <2>3, Zenon DEF Elements
  <2>5. QED
    BY <1>4, <1>7, <2>1, <2>4, Zenon
<1>22. CASE UNCHANGED vars
  BY <1>22 DEF vars, AltInv, DemotedInv, ApartInv, OldChain, splitHeight
<1>23. QED
  BY <1>8, <1>9, <1>10, <1>11, <1>12, <1>13, <1>14, <1>15, <1>16, <1>17, <1>18, <1>19, <1>20,
     <1>21, <1>22, SMTT(40)
     DEF OperatorNext, Next, addNewBlock, switchStep, operatorStep

(* If what pushBlock accepts handle_alternative_block accepts too, no      *)
(* block is left on the main chain and among the alternatives when         *)
(* addNewBlock returns, however far a switch got before it failed.         *)
THEOREM AlternativesApart == OperatorSpec => []AltDisjoint
<1>1. Init => AltInv
  BY Zenon DEF Init, AltInv, DemotedInv, ApartInv
<1>2. Inv /\ ResumeInv /\ PlaceInv /\ AltInv /\ [OperatorNext]_vars => AltInv'
  BY NextApart, Zenon
<1>3. AltInv => AltDisjoint
  BY Zenon DEF AltInv, ApartInv, AltDisjoint
<1>4. QED
  BY <1>1, <1>2, <1>3, PlacesAlways, PTL DEF OperatorSpec
=============================================================================
