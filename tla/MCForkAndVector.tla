-------------------------- MODULE MCForkAndVector --------------------------
(***************************************************************************)
(* Forks of the chain, and the vector of files that holds its blocks.  The *)
(* vector has items of its own, so that the two share no state; `part`     *)
(* says which of them a behaviour is about, and the other one does not     *)
(* move.                                                                   *)
(***************************************************************************)
EXTENDS MCBlockchain, MCSwappedVector

VARIABLE part

storedVars == <<vars, vectorVars, part>>

StoredInit == part \in {"chain", "vector"} /\ Init /\ VectorInit

StoredNext ==
    \/ part = "chain" /\ Next /\ UNCHANGED <<vectorVars, part>>
    \/ part = "vector" /\ VectorNext /\ UNCHANGED <<vars, part>>

(* No switch is under way at the start, so that its fairness asks for      *)
(* nothing of a behaviour of the vector.                                   *)
StoredSpec == StoredInit /\ [][StoredNext]_storedVars /\ WF_vars(switchStep)
=============================================================================
