----------------------- MODULE BlockchainSynchronizer -----------------------
(***************************************************************************)
(* BlockchainSynchronizer (Transfers/BlockchainSynchronizer.cpp) with the  *)
(* SynchronizationState of each consumer: the thread that brings the       *)
(* wallets of a process to the chain and the pool of a node, the node that *)
(* changes and notifies meanwhile, and the client that starts and stops    *)
(* the thread and hands it transactions.                                   *)
(*                                                                         *)
(* A consumer is its chain of blocks and the pool transactions it knows;   *)
(* what it does with them is in TransfersContainer.                        *)
(***************************************************************************)
EXTENDS Integers, Sequences, FiniteSets, Functions, FiniteSetsExt

CONSTANTS Consumers,        \* the consumers, a sequence in the order of m_consumers
          NodeChains,       \* the chains that the node may have, from the genesis block
          Work,             \* Work[c]: the cumulative difficulty of chain c
          PoolIds,          \* ids of pool transactions
          MaxBatch,         \* number of blocks in an answer
          MaxNodeChanges, MaxErrors, MaxStarts, MaxTasks

Begins(s, t) == Len(s) <= Len(t) /\ \A k \in 1..Len(s) : s[k] = t[k]

(* start refuses to run without a consumer; an answer holds the last block  *)
(* that both sides have and at least one more.                              *)
ASSUME SyncAssumption ==
    /\ Consumers \in Seq(Range(Consumers)) /\ Consumers # <<>>
    /\ \A c \in NodeChains : c \in Seq(Range(c)) /\ c # <<>>
    /\ \A c, d \in NodeChains : Head(c) = Head(d)
    /\ Work \in [NodeChains -> Nat]
    /\ \A c, d \in NodeChains : Begins(c, d) /\ c # d => Work[c] < Work[d]
    /\ MaxBatch \in Nat /\ MaxBatch > 1

VARIABLES nodeChain, nodePool,
          ahead,            \* getLastKnownBlockHeight # getLastLocalBlockHeight
          notices,          \* notifications on their way to the observer
          observing,        \* the observer is attached to the node
          m_currentState, m_futureState,
          at,               \* where the working thread is
          blocks,           \* blocks[c]: the SynchronizationState of c
          known,            \* known[c]: m_poolTxs of c
          lastBlockId,      \* a sequence of at most one block
          response,         \* what the node has answered
          tasks,            \* transactions handed over and not taken yet
          joining,          \* stop waits for the thread
          changes, errors, starts, given,
          missed            \* an error, and no later notification of a block

syncVars == <<nodeChain, nodePool, ahead, notices, observing, m_currentState, m_futureState, at,
              blocks, known, lastBlockId, response, tasks, joining, changes, errors, starts, given,
              missed>>

nodeVars == <<nodeChain, nodePool, ahead, changes>>
clientVars == <<joining, starts, given>>

ConsumerIndices == DOMAIN Consumers

Rank == [idle |-> 0, poolSync |-> 1, blockchainSync |-> 2, stopped |-> 3]

NoResponse == [start |-> 0, blocks |-> <<>>, new |-> {}, deleted |-> {}]

CommonPrefixLength(s, t) ==
    Max({n \in 0..Min({Len(s), Len(t)}) : SubSeq(s, 1, n) = SubSeq(t, 1, n)})

SyncInit ==
    /\ nodeChain \in {c \in NodeChains : Len(c) = 1} /\ nodePool = {} /\ ahead = FALSE
    /\ notices = {} /\ observing = FALSE
    /\ m_currentState = "stopped" /\ m_futureState = "stopped" /\ at = "off"
    /\ blocks = [i \in ConsumerIndices |-> nodeChain]
    /\ known = [i \in ConsumerIndices |-> {}]
    /\ lastBlockId = <<>> /\ response = NoResponse
    /\ tasks = 0 /\ joining = FALSE
    /\ changes = 0 /\ errors = 0 /\ starts = 0 /\ given = 0
    /\ missed = FALSE

-----------------------------------------------------------------------------
(* The node: a chain of more work, another pool, or a height that the       *)
(* network has and the node has not.  It notifies whoever observes at that  *)
(* moment.                                                                  *)
Notify(kind) == notices' = IF observing THEN notices \cup {kind} ELSE notices

nodeChanges ==
    /\ changes < MaxNodeChanges /\ changes' = changes + 1
    /\ \/ /\ nodeChain' \in {c \in NodeChains : Work[c] > Work[nodeChain]}
          /\ Notify("block") /\ UNCHANGED <<nodePool, ahead>>
       \/ /\ nodePool' \in SUBSET PoolIds \ {nodePool}
          /\ Notify("pool") /\ UNCHANGED <<nodeChain, ahead>>
       \/ /\ ahead' = TRUE
          /\ Notify("block") /\ UNCHANGED <<nodeChain, nodePool>>
    /\ UNCHANGED <<observing, m_currentState, m_futureState, at, blocks, known, lastBlockId,
                   response, tasks, clientVars, errors, missed>>

(* The node gets to the height of the network.                              *)
nodeCatchesUp ==
    /\ ahead /\ ahead' = FALSE /\ Notify("block")
    /\ UNCHANGED <<nodeChain, nodePool, changes, observing, m_currentState, m_futureState, at,
                   blocks, known, lastBlockId, response, tasks, clientVars, errors, missed>>

-----------------------------------------------------------------------------
Raised(s) == IF Rank[s] > Rank[m_futureState] THEN s ELSE m_futureState

(* localBlockchainUpdated, lastKnownBlockHeightUpdated and poolChanged.     *)
deliver(kind) ==
    /\ kind \in notices /\ notices' = notices \ {kind}
    /\ m_futureState' = Raised(IF kind = "block" THEN "blockchainSync" ELSE "poolSync")
    /\ missed' = IF kind = "block" THEN FALSE ELSE missed
    /\ UNCHANGED <<nodeVars, observing, m_currentState, at, blocks, known, lastBlockId, response,
                   tasks, clientVars, errors>>

startSync ==
    /\ ~joining /\ starts < MaxStarts
    /\ m_currentState = "stopped" /\ m_futureState = "stopped" /\ at = "off"
    /\ m_futureState' = "blockchainSync" /\ at' = "loop"
    /\ starts' = starts + 1 /\ missed' = FALSE
    /\ UNCHANGED <<nodeVars, notices, observing, m_currentState, blocks, known, lastBlockId,
                   response, tasks, joining, given, errors>>

stopSync ==
    /\ ~joining /\ at # "off"
    /\ m_futureState' = Raised("stopped")
    /\ joining' = TRUE
    /\ UNCHANGED <<nodeVars, notices, observing, m_currentState, at, blocks, known, lastBlockId,
                   response, tasks, starts, given, errors, missed>>

joined ==
    /\ joining /\ at = "off"
    /\ joining' = FALSE
    /\ UNCHANGED <<nodeVars, notices, observing, m_currentState, m_futureState, at, blocks, known,
                   lastBlockId, response, tasks, starts, given, errors, missed>>

(* addUnconfirmedTransaction and removeUnconfirmedTransaction: a task with  *)
(* a promise, unless the synchronizer is stopped.                           *)
addUnconfirmedTransactionUnchecked ==
    /\ given < MaxTasks
    /\ tasks' = tasks + 1 /\ given' = given + 1
    /\ UNCHANGED <<nodeVars, notices, observing, m_currentState, m_futureState, at, blocks, known,
                   lastBlockId, response, joining, starts, errors, missed>>

addUnconfirmedTransaction ==
    /\ m_currentState # "stopped" /\ m_futureState # "stopped"
    /\ given < MaxTasks
    /\ tasks' = tasks + 1 /\ given' = given + 1
    /\ UNCHANGED <<nodeVars, notices, observing, m_currentState, m_futureState, at, blocks, known,
                   lastBlockId, response, joining, starts, errors, missed>>

-----------------------------------------------------------------------------
(* The working thread.                                                      *)
workingProcedure ==
    /\ at = "loop"
    /\ at' = IF m_futureState = "stopped" THEN "last" ELSE "actualize"
    /\ UNCHANGED <<nodeVars, notices, observing, m_currentState, m_futureState, blocks, known,
                   lastBlockId, response, tasks, clientVars, errors, missed>>

FollowsIdle ==
    [stopped |-> "stopped", blockchainSync |-> "idle", poolSync |-> "idle", idle |-> "idle"]

(* What comes after a state unless a notification asks for more.            *)
Follows ==
    [stopped |-> "stopped", blockchainSync |-> "poolSync", poolSync |-> "idle", idle |-> "idle"]

(* With the state lock: the observer, the tasks, and the state to enter.    *)
actualizeFutureState ==
    /\ at \in {"actualize", "last"}
    /\ observing' = CASE m_currentState = "stopped" /\ m_futureState = "blockchainSync" -> TRUE
                      [] m_currentState # "stopped" /\ m_futureState = "stopped" -> FALSE
                      [] OTHER -> observing
    /\ tasks' = 0
    /\ m_currentState' = m_futureState
    /\ m_futureState' = Follows[m_futureState]
    /\ \/ m_futureState = "stopped" /\ at' = IF at = "last" THEN "off" ELSE "loop"
       \/ m_futureState = "blockchainSync" /\ at' = "queryBlocks"
       \/ m_futureState = "poolSync" /\ at' = "queryUnion"
       \/ m_futureState = "idle" /\ at' = "waiting"
    /\ UNCHANGED <<nodeVars, notices, blocks, known, lastBlockId, response, clientVars, errors,
                   missed>>

hasWork ==
    /\ at = "waiting"
    /\ m_futureState # "idle" \/ tasks > 0
    /\ at' = "loop"
    /\ UNCHANGED <<nodeVars, notices, observing, m_currentState, m_futureState, blocks, known,
                   lastBlockId, response, tasks, clientVars, errors, missed>>

FailedOverStop ==
    /\ errors < MaxErrors /\ errors' = errors + 1
    /\ m_futureState' = "idle"
    /\ missed' = TRUE

(* An error puts the future state to idle unless it is stopped.             *)
Failed ==
    /\ errors < MaxErrors /\ errors' = errors + 1
    /\ m_futureState' = IF m_futureState = "stopped" THEN "stopped" ELSE "idle"
    /\ missed' = TRUE

queryFails ==
    /\ at \in {"queryBlocks", "queryUnion", "queryIntersection"}
    /\ Failed
    /\ at' = "loop" /\ response' = NoResponse
    /\ UNCHANGED <<nodeVars, notices, observing, m_currentState, blocks, known, lastBlockId, tasks,
                   clientVars>>

(* The consumer with the shortest chain; the first of several.              *)
Shortest == CHOOSE i \in ConsumerIndices :
                \A j \in ConsumerIndices :
                    Len(blocks[i]) < Len(blocks[j]) \/ (Len(blocks[i]) = Len(blocks[j]) /\ i <= j)

(* getShortHistory names the last ten blocks that the node can have and     *)
(* then fewer and fewer; chains here are shorter than that.  The node       *)
(* answers with its blocks from the last one it knows.                      *)
queryBlocks ==
    /\ at = "queryBlocks"
    /\ LET from == CommonPrefixLength(blocks[Shortest], nodeChain)
       IN response' = [NoResponse EXCEPT
                           !.start = from - 1,
                           !.blocks = SubSeq(nodeChain, from,
                                             Min({from + MaxBatch - 1, Len(nodeChain)}))]
    /\ at' = "processBlocks"
    /\ UNCHANGED <<nodeVars, notices, observing, m_currentState, m_futureState, blocks, known,
                   lastBlockId, tasks, clientVars, errors, missed>>

detachHeightLast(i) ==
    Min({Len(blocks[i]), response.start + Len(response.blocks)})

(* SynchronizationState: the height from which consumer i has other blocks  *)
(* than the answer, or its own length.                                      *)
detachHeight(i) ==
    LET upTo == {h \in 0..Len(blocks[i]) - 1 :
                    /\ h >= response.start /\ h < response.start + Len(response.blocks)
                    /\ blocks[i][h + 1] # response.blocks[h - response.start + 1]}
    IN Min(upTo \cup {Len(blocks[i])})

hasNewBlocks(i) ==
    detachHeight(i) < Len(blocks[i]) \/ response.start + Len(response.blocks) > Len(blocks[i])

Detached(i) == SubSeq(blocks[i], 1, detachHeight(i))

Updated(i) ==
    IF hasNewBlocks(i)
    THEN Detached(i) \o SubSeq(response.blocks, detachHeight(i) - response.start + 1,
                               Len(response.blocks))
    ELSE Detached(i)

(* updateConsumers with every consumer succeeding.                          *)
processBlocks ==
    /\ at = "processBlocks"
    /\ IF m_futureState = "stopped" THEN UNCHANGED <<blocks, lastBlockId, m_futureState>>
       ELSE /\ blocks' = [i \in ConsumerIndices |-> Updated(i)]
            /\ lastBlockId' = <<response.blocks[Len(response.blocks)]>>
            /\ m_futureState' = IF blocks' # blocks \/ ahead THEN Raised("blockchainSync")
                                ELSE m_futureState
    /\ at' = "loop" /\ response' = NoResponse
    /\ UNCHANGED <<nodeVars, notices, observing, m_currentState, known, tasks, clientVars, errors,
                   missed>>

(* Consumer k refuses its blocks after the detach: the ones before it have  *)
(* theirs, the ones after it are not asked.  When it throws instead,        *)
(* lastBlockId stays.                                                       *)
consumerFails(k, throws) ==
    /\ at = "processBlocks" /\ m_futureState # "stopped"
    /\ hasNewBlocks(k)
    /\ blocks' = [i \in ConsumerIndices |-> IF i < k THEN Updated(i)
                                            ELSE IF i = k THEN Detached(i) ELSE blocks[i]]
    /\ lastBlockId' = IF throws THEN lastBlockId ELSE <<response.blocks[Len(response.blocks)]>>
    /\ Failed
    /\ at' = "loop" /\ response' = NoResponse
    /\ UNCHANGED <<nodeVars, notices, observing, m_currentState, known, tasks, clientVars>>

-----------------------------------------------------------------------------
PoolUnion == UNION {known[i] : i \in ConsumerIndices}
PoolIntersection == {t \in PoolIds : \A i \in ConsumerIndices : t \in known[i]}

isLastKnownBlockActual == lastBlockId = <<nodeChain[Len(nodeChain)]>>

(* getPoolSymmetricDifference with what any consumer knows, and, if they    *)
(* do not all know the same, with what all of them know.                    *)
queryUnion ==
    /\ at = "queryUnion"
    /\ IF ~isLastKnownBlockActual
       THEN at' = "loop" /\ m_futureState' = Raised("blockchainSync") /\ UNCHANGED response
       ELSE /\ response' = [NoResponse EXCEPT !.new = nodePool \ PoolUnion,
                                              !.deleted = PoolUnion \ nodePool]
            /\ at' = IF PoolUnion = PoolIntersection THEN "processPoolTxs" ELSE "queryIntersection"
            /\ UNCHANGED m_futureState
    /\ UNCHANGED <<nodeVars, notices, observing, m_currentState, blocks, known, lastBlockId, tasks,
                   clientVars, errors, missed>>

queryIntersection ==
    /\ at = "queryIntersection"
    /\ IF ~isLastKnownBlockActual
       THEN at' = "loop" /\ m_futureState' = Raised("blockchainSync") /\ response' = NoResponse
       ELSE /\ response' = [response EXCEPT !.new = nodePool \ PoolIntersection]
            /\ at' = "processPoolTxs" /\ UNCHANGED m_futureState
    /\ UNCHANGED <<nodeVars, notices, observing, m_currentState, blocks, known, lastBlockId, tasks,
                   clientVars, errors, missed>>

(* onPoolUpdated of the consumers before k; all of them if k is past them.  *)
PoolUpdatedBefore(k) ==
    [i \in ConsumerIndices |->
        IF i < k THEN (known[i] \cup response.new) \ response.deleted ELSE known[i]]

(* A stop is seen between two consumers.                                    *)
processPoolTxs ==
    /\ at = "processPoolTxs"
    /\ \E k \in ConsumerIndices \cup {Len(Consumers) + 1} :
          /\ k <= Len(Consumers) => m_futureState = "stopped"
          /\ known' = PoolUpdatedBefore(k)
    /\ at' = "loop" /\ response' = NoResponse
    /\ UNCHANGED <<nodeVars, notices, observing, m_currentState, m_futureState, blocks, lastBlockId,
                   tasks, clientVars, errors, missed>>

(* Consumer k fails at one of the new transactions, which it already counts *)
(* as known.  The future state stays.                                       *)
poolConsumerFails(k) ==
    /\ at = "processPoolTxs" /\ m_futureState # "stopped"
    /\ errors < MaxErrors /\ errors' = errors + 1 /\ missed' = TRUE
    /\ \E S \in SUBSET response.new \ {{}} :
          known' = [PoolUpdatedBefore(k) EXCEPT ![k] = @ \cup S]
    /\ at' = "loop" /\ response' = NoResponse
    /\ UNCHANGED <<nodeVars, notices, observing, m_currentState, m_futureState, blocks, lastBlockId,
                   tasks, clientVars>>

-----------------------------------------------------------------------------
threadStep ==
    \/ workingProcedure \/ actualizeFutureState \/ hasWork
    \/ queryFails \/ queryBlocks \/ processBlocks
    \/ \E k \in ConsumerIndices, throws \in BOOLEAN : consumerFails(k, throws)
    \/ queryUnion \/ queryIntersection \/ processPoolTxs
    \/ \E k \in ConsumerIndices : poolConsumerFails(k)

SyncNext ==
    \/ threadStep
    \/ nodeChanges \/ nodeCatchesUp \/ \E kind \in {"block", "pool"} : deliver(kind)
    \/ startSync \/ stopSync \/ joined \/ addUnconfirmedTransaction

(* The thread runs, the node answers, notifies and gets to the height of    *)
(* the network.                                                             *)
SyncFairness ==
    /\ WF_syncVars(threadStep) /\ WF_syncVars(nodeCatchesUp) /\ WF_syncVars(joined)
    /\ \A kind \in {"block", "pool"} : WF_syncVars(deliver(kind))

SyncSpec == SyncInit /\ [][SyncNext]_syncVars /\ SyncFairness

-----------------------------------------------------------------------------
(* The chain of the shortest consumer is the beginning of every other one,  *)
(* whichever of them failed and whatever reorganisations came in between:   *)
(* the answer to its history starts at a block that all of them have.  Two  *)
(* longer ones may be on different branches when one between them failed.   *)
ConsumersAgree == \A i \in ConsumerIndices : Begins(blocks[Shortest], blocks[i])

(* No wake-up is lost: a thread that waits, with no notification on the     *)
(* way and no error that ended the last round, has brought every consumer   *)
(* to the chain and to the pool of the node.                                *)
WaitingMeansSynced ==
    at = "waiting" /\ m_futureState = "idle" /\ notices = {} /\ ~missed
    => \A i \in ConsumerIndices : blocks[i] = nodeChain /\ known[i] = nodePool

(* Every transaction handed over is taken, and its promise kept, also when  *)
(* a stop comes at the same time.                                           *)
TasksTaken == tasks > 0 ~> tasks = 0

(* The thread comes to rest when the node does, and stop comes back.        *)
SyncRests == []<>(at \in {"waiting", "off"}) /\ (joining ~> ~joining)
=============================================================================
