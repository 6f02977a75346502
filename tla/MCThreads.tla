----------------------------- MODULE MCThreads -----------------------------
(***************************************************************************)
(* The threads that run on their own and wait for each other: the miner    *)
(* and the synchronizer of the wallets.  They share no state, so that the  *)
(* run explores them side by side: `running` says which one a behaviour is *)
(* about, and the other one does not move.                                 *)
(***************************************************************************)
EXTENDS Miner, BlockchainSynchronizer, TLC

VARIABLE running

MCConsumers == <<"c1", "c2">>

(* A chain of several answers, and one that replaces it from the first     *)
(* block, with more work in fewer blocks.                                  *)
MCNodeChains == {<<"g">>, <<"g", "a", "b">>, <<"g", "c">>}
MCWork == <<"g">> :> 0 @@ <<"g", "a", "b">> :> 1 @@ <<"g", "c">> :> 2

threadsVars == <<minerVars, syncVars, running>>

ThreadsInit ==
    /\ running \in {"miner", "synchronizer"}
    /\ MinerInit /\ SyncInit
    /\ running # "miner" => m_template = NoTemplate

ThreadsNext ==
    \/ running = "miner" /\ MinerNext /\ UNCHANGED <<syncVars, running>>
    \/ running = "synchronizer" /\ SyncNext /\ UNCHANGED <<minerVars, running>>

(* At the start no step that has to happen is enabled, so that the fairness *)
(* of the part that does not move asks for nothing.                         *)
ThreadsSpec == ThreadsInit /\ [][ThreadsNext]_threadsVars /\ MinerFairness /\ SyncFairness
=============================================================================
