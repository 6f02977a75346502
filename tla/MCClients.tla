----------------------------- MODULE MCClients -----------------------------
(***************************************************************************)
(* Three parts that share no state and are explored side by side: the      *)
(* proxy through which a wallet asks a node, the threads with which the    *)
(* wallet goes through the blocks it gets, and the output indices in which *)
(* the node looks up what it is asked for.  `part` says which one a        *)
(* behaviour is about, and the others do not move.                         *)
(***************************************************************************)
EXTENDS NodeRpcProxy, MCTransfersConsumer, MCBlockchainOutputs

VARIABLE part

(* The wallet asks for w1, and for w2 when it has the answer; the          *)
(* synchronizer asks for s.                                                *)
MCFollowing == [r \in Requests |-> IF r = "w1" THEN {"w2"} ELSE {}]

clientsVars == <<proxyVars, consumerVars, vars, part>>

ClientsInit ==
    /\ part \in {"proxy", "consumer", "outputs"}
    /\ ProxyInit /\ ConsumerInit /\ Init

ClientsNext ==
    \/ part = "proxy" /\ ProxyNext /\ UNCHANGED <<consumerVars, vars, part>>
    \/ part = "consumer" /\ ConsumerNext /\ UNCHANGED <<proxyVars, vars, part>>
    \/ part = "outputs" /\ Next /\ UNCHANGED <<proxyVars, consumerVars, part>>

(* At the start no step that has to happen is enabled, so that the         *)
(* fairness of a part that does not move asks for nothing.                 *)
ClientsSpec ==
    /\ ClientsInit /\ [][ClientsNext]_clientsVars
    /\ ProxyFairness /\ ConsumerFairness
=============================================================================
