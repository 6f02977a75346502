---------------------------- MODULE DepositLedger ----------------------------
(***************************************************************************)
(* What the deposit index promises: for every block of the chain it knows  *)
(* the total of the deposits, and of the interest, up to that block.       *)
(* totals[k] is the pair of totals after the block of height k - 1.        *)
(***************************************************************************)
EXTENDS Integers, Sequences

CONSTANTS Amounts,     \* net deposit of one block (deposits minus withdrawals)
          Interests    \* interest paid by one block

VARIABLE totals

Zero == [amount |-> 0, interest |-> 0]

Last == IF totals = <<>> THEN Zero ELSE totals[Len(totals)]

(* The interest of a block counts only when its net deposit is not zero:   *)
(* DepositIndex::pushBlock stores no entry for such a block.               *)
Plus(t, a, i) == IF a = 0 THEN t
                 ELSE [amount |-> t.amount + a, interest |-> t.interest + i]

Init == totals = <<>>

Push(a, i) == totals' = Append(totals, Plus(Last, a, i))

Truncate(n) == /\ n < Len(totals)
               /\ totals' = SubSeq(totals, 1, n)

Next == \/ \E a \in Amounts, i \in Interests : Push(a, i)
        \/ \E n \in 0 .. Len(totals) : Truncate(n)

Spec == Init /\ [][Next]_totals
=============================================================================
