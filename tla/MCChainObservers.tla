-------------------------- MODULE MCChainObservers --------------------------
(***************************************************************************)
(* What follows the blocks that are pushed and popped: in the node the     *)
(* deposit index, the upgrade detectors, the explorer indices and the      *)
(* transaction pool, in a wallet the transfers of an account, alone and    *)
(* under WalletGreen.  They share no state, so that the run explores them  *)
(* side by side: `observer` says which one a behaviour is about, and the   *)
(* others do not move.                                                     *)
(***************************************************************************)
EXTENDS DepositIndex, UpgradeDetector, ExplorerIndices, TransactionPool,
        WalletGreen

VARIABLE observer

MCAmounts == {-2, -1, 0, 1, 2}
MCInterests == {0, 1}

(* Version two starts after height one, version three is voted on.         *)
MCUpgradeHeight == 2 :> 1 @@ 3 :> UNDEF_HEIGHT

(* Blocks that share transactions, a payment id and a timestamp.           *)
MCTxsIn == "g" :> {} @@ "a" :> {"t1"} @@ "b" :> {"t2", "t3"} @@ "c" :> {"t1", "t2"} @@ "d" :> {}
MCTimestamp == "g" :> 0 @@ "a" :> 1 @@ "b" :> 1 @@ "c" :> 2 @@ "d" :> 1
MCPaymentIdOf == "t1" :> "p" @@ "t2" :> "p" @@ "t3" :> NoPaymentId

(* t1 and t2 spend one key image, t2 and t3 one deposit, t3 needs t1, and  *)
(* t4 has a TTL.                                                           *)
MCKeyImagesOf == "t1" :> {"k1"} @@ "t2" :> {"k1"} @@ "t3" :> {"k3"} @@ "t4" :> {"k2"}
MCDepositsOf == "t1" :> {} @@ "t2" :> {"o"} @@ "t3" :> {"o"} @@ "t4" :> {}
MCNeeds == "t1" :> {} @@ "t2" :> {} @@ "t3" :> {"t1"} @@ "t4" :> {}
MCTtlOf == "t1" :> 0 @@ "t2" :> 0 @@ "t3" :> 0 @@ "t4" :> 1
MCFeeOf == "t1" :> 1 @@ "t2" :> 1 @@ "t3" :> 1 @@ "t4" :> 0
MCSizeOf == "t1" :> 1 @@ "t2" :> 2 @@ "t3" :> 1 @@ "t4" :> 1

(* t1 pays the account an output and a deposit, t2 and t3 spend the output *)
(* and t2 keeps a change, and t4 withdraws the deposit to the account.     *)
MCTerm == "o1" :> 0 @@ "d1" :> 3 @@ "o3" :> 0 @@ "o4" :> 0
MCUnlockTime == "o1" :> 0 @@ "d1" :> 0 @@ "o3" :> 3 @@ "o4" :> 0
MCCreates == "t1" :> {"o1", "d1"} @@ "t2" :> {"o3"} @@ "t3" :> {} @@ "t4" :> {"o4"}
MCSpends == "t1" :> {} @@ "t2" :> {"o1"} @@ "t3" :> {"o1"} @@ "t4" :> {"d1"}

observersVars == <<vars, upgradeVars, explorerVars, poolVars, transferVars, walletVars,
                   observer>>

ObserversInit ==
    /\ observer \in {"deposits", "upgrades", "explorer", "pool", "transfers", "wallet"}
    /\ Init /\ UpgradeInit /\ ExplorerInit /\ PoolInit /\ WalletInit
    /\ observer # "explorer" => enabled
    /\ m_state = IF observer = "wallet" THEN "INITIALIZED" ELSE "NOT_INITIALIZED"

ObserversNext ==
    \/ /\ observer = "deposits" /\ Next
       /\ UNCHANGED <<upgradeVars, explorerVars, poolVars, transferVars, walletVars, observer>>
    \/ /\ observer = "upgrades" /\ UpgradeNext
       /\ UNCHANGED <<vars, explorerVars, poolVars, transferVars, walletVars, observer>>
    \/ /\ observer = "explorer" /\ ExplorerNext
       /\ UNCHANGED <<vars, upgradeVars, poolVars, transferVars, walletVars, observer>>
    \/ /\ observer = "pool" /\ PoolNext
       /\ UNCHANGED <<vars, upgradeVars, explorerVars, transferVars, walletVars, observer>>
    \/ /\ observer = "transfers" /\ TransferNext
       /\ UNCHANGED <<vars, upgradeVars, explorerVars, poolVars, walletVars, observer>>
    \/ /\ observer = "wallet" /\ WalletNext
       /\ UNCHANGED <<vars, upgradeVars, explorerVars, poolVars, observer>>

ObserversSpec == ObserversInit /\ [][ObserversNext]_observersVars
=============================================================================
