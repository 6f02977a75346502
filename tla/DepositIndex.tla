---------------------------- MODULE DepositIndex ----------------------------
(***************************************************************************)
(* cn::DepositIndex: the compressed index of the deposits locked in the    *)
(* chain.  index holds one entry per block that changes the amount, with   *)
(* the running totals; blockCount is the number of blocks pushed.          *)
(***************************************************************************)
EXTENDS Integers, Sequences

CONSTANTS Amounts,     \* net deposits a block may bring
          Interests,   \* interest a block may pay
          Int64Max,    \* std::numeric_limits<int64_t>::max()
          MaxBlocks    \* bound on blockCount

ASSUME DepositAssumption == /\ Amounts \subseteq Int
                            /\ Interests \subseteq Nat
                            /\ Int64Max \in Nat
                            /\ MaxBlocks \in Nat

VARIABLES index, blockCount

vars == <<index, blockCount>>

Entry == [height : Nat, amount : Int, interest : Nat]

UInt64Max == 2 * Int64Max + 1

Init == index = <<>> /\ blockCount = 0

fullDepositAmount == IF index = <<>> THEN 0 ELSE index[Len(index)].amount

fullInterestAmount == IF index = <<>> THEN 0 ELSE index[Len(index)].interest

(* What the assertions of pushBlock demand of its caller.                  *)
pushBlockAsserts(amount, interest) ==
    /\ amount + fullDepositAmount <= Int64Max
    /\ interest + fullInterestAmount <= UInt64Max
    /\ amount + fullDepositAmount >= 0

pushBlock(amount, interest) ==
    /\ blockCount < MaxBlocks
    /\ pushBlockAsserts(amount, interest)
    /\ index' = IF amount # 0
                THEN Append(index, [height   |-> blockCount,
                                    amount   |-> amount + fullDepositAmount,
                                    interest |-> interest + fullInterestAmount])
                ELSE index
    /\ blockCount' = blockCount + 1

popBlockAlways ==
    /\ blockCount > 0
    /\ blockCount' = blockCount - 1
    /\ index' = IF index # <<>> THEN SubSeq(index, 1, Len(index) - 1) ELSE index

popBlock ==
    /\ blockCount > 0
    /\ blockCount' = blockCount - 1
    /\ index' = IF index # <<>> /\ index[Len(index)].height = blockCount - 1
                THEN SubSeq(index, 1, Len(index) - 1)
                ELSE index

(* p entries of idx have a height of at most h, the others are above it:   *)
(* p is the distance from index.cbegin() to upperBound(h).                 *)
IsUpperBound(idx, p, h) ==
    /\ p \in 0 .. Len(idx)
    /\ \A k \in 1 .. p : idx[k].height <= h
    /\ \A k \in p + 1 .. Len(idx) : h < idx[k].height

upperBound(idx, h) == CHOOSE p \in 0 .. Len(idx) : IsUpperBound(idx, p, h)

(* The entries popBlocks(from) keeps: the iterator steps back onto the     *)
(* entry of height `from`, if there is one, and erases from there.         *)
keptBelow(from) ==
    LET p == upperBound(index, from)
    IN  IF p > 0 /\ index[p].height = from THEN p - 1 ELSE p

popBlocks(from) ==
    /\ from < blockCount      \* otherwise nothing to pop: returns 0
    /\ index' = SubSeq(index, 1, keptBelow(from))
    /\ blockCount' = from

amountUpTo(idx, h) ==
    IF upperBound(idx, h) = 0 THEN 0 ELSE idx[upperBound(idx, h)].amount

interestUpTo(idx, h) ==
    IF upperBound(idx, h) = 0 THEN 0 ELSE idx[upperBound(idx, h)].interest

depositAmountAtHeight(h) == IF blockCount = 0 THEN 0 ELSE amountUpTo(index, h)

depositInterestAtHeight(h) == IF blockCount = 0 THEN 0 ELSE interestUpTo(index, h)

Next == \/ \E a \in Amounts, i \in Interests : pushBlock(a, i)
        \/ popBlock
        \/ \E from \in 0 .. blockCount : popBlocks(from)

Spec == Init /\ [][Next]_vars

-----------------------------------------------------------------------------
TypeOK == index \in Seq(Entry) /\ blockCount \in Nat

(* The index is strictly sorted by height and has no entry at or above     *)
(* blockCount.  std::upper_bound relies on the order, and popBlock on the  *)
(* last entry being the only one that can belong to the last block.        *)
IndexSorted ==
    /\ \A k \in 1 .. Len(index) : index[k].height < blockCount
    /\ \A j, k \in 1 .. Len(index) : j < k => index[j].height < index[k].height

(* The lookups past the tip agree with the running totals, whatever pushes *)
(* and pops came before (depositAmountAtHeight against fullDepositAmount). *)
TipLookup ==
    \A h \in blockCount .. MaxBlocks :
        /\ depositAmountAtHeight(h) = fullDepositAmount
        /\ depositInterestAtHeight(h) = fullInterestAmount

(* Refinement: the lookups of the compressed index give, for every height, *)
(* the totals of the ledger, so popBlock and popBlocks undo exactly what   *)
(* pushBlock did.                                                          *)
Totals == [k \in 1 .. blockCount |->
             [amount   |-> depositAmountAtHeight(k - 1),
              interest |-> depositInterestAtHeight(k - 1)]]

Ledger == INSTANCE DepositLedger WITH totals <- Totals

ImplementsLedger == Ledger!Spec
=============================================================================
