------------------------ MODULE MCBlockchainOutputs ------------------------
(* Instance for TLC.  d1 and d2 deposit, d2 twice in one transaction; w1   *)
(* and w2 withdraw the first deposit of amount 1, whichever it is, and w3  *)
(* the second, if its term is 1; blocks have up to two of them.            *)
EXTENDS BlockchainOutputs

CONSTANTS d1, d2, w1, w2, w3

MCTxs == {d1, d2, w1, w2, w3}

key(image) == [type |-> "key", amount |-> 1, image |-> image, ring |-> {1, 2}]
from(index, term) == [type |-> "multisig", amount |-> 1, index |-> index, term |-> term]
coin(amount) == [type |-> "key", amount |-> amount, term |-> 0]
deposit(amount, term) == [type |-> "multisig", amount |-> amount, term |-> term]

MCIns == [t \in MCTxs |-> CASE t = d1 -> <<key(1)>>
                            [] t = d2 -> <<key(2)>>
                            [] t = w1 -> <<from(1, 2)>>
                            [] t = w2 -> <<key(1), from(1, 2)>>
                            [] t = w3 -> <<from(2, 1)>>]
MCOuts == [t \in MCTxs |-> CASE t = d1 -> <<deposit(1, 2), coin(1)>>
                             [] t = d2 -> <<deposit(1, 2), coin(2), deposit(1, 1)>>
                             [] t = w1 -> <<coin(1)>>
                             [] t = w2 -> <<coin(2), deposit(2, 0)>>
                             [] t = w3 -> <<deposit(1, 1), coin(2), coin(2)>>]
MCUnlockTime == [t \in MCTxs |-> IF t = d1 THEN 3 ELSE 0]
MCCandidates == {<<>>} \cup {<<t>> : t \in MCTxs}
                  \cup {<<t, u>> : t, u \in MCTxs}
MCMinerOuts == <<coin(1)>>
MCAmounts == {1, 2}
MCInterest(amount, term, h) == amount * term
=============================================================================
