-------------------------- MODULE TransfersConsumer --------------------------
(***************************************************************************)
(* The threads of TransfersConsumer::onNewBlocks.  A pushing thread puts   *)
(* the transactions of the blocks in a queue, workers take them out and    *)
(* look for outputs of the account, which may need the node, and the       *)
(* caller collects the results, after which the container gets them in the *)
(* order of the chain (module TransfersContainer).                         *)
(***************************************************************************)
EXTENDS BlockingQueue, SequencesExt

CONSTANTS Workers,      \* hardware_concurrency() of them
          Batch         \* blocks, each the sequence of its transactions

ASSUME ConsumerAssumption == QueueSize = 2 * Cardinality(Workers)

VARIABLES
    toPush,                     \* the blocks the pushing thread has not finished
    pusher,                     \* it is between blocks, within one, or done
    worker, item,               \* workers, and the transaction each one has
    stopProcessing,
    preprocessedTransactions,
    processingError,            \* the workers that returned or threw an error
    caller                      \* "idle", in onNewBlocks "collecting" or "done", or "returned"

consumerVars == <<queueVars, toPush, pusher, worker, item, stopProcessing, preprocessedTransactions,
                  processingError, caller>>

Pusher == "pusher"
NoItem == 0
Transactions == Range(FlattenSeq(Batch))

ConsumerInit ==
    /\ QueueInit
    /\ toPush = <<>> /\ pusher = "none"
    /\ worker = [w \in Workers |-> "none"] /\ item = [w \in Workers |-> NoItem]
    /\ stopProcessing = FALSE /\ preprocessedTransactions = <<>>
    /\ processingError = {} /\ caller = "idle"

(* onNewBlocks, up to the start of the threads.                            *)
startThreads ==
    /\ caller = "idle"
    /\ toPush' = Batch /\ pusher' = "block"
    /\ worker' = [w \in Workers |-> "loop"]
    /\ caller' = "collecting"
    /\ UNCHANGED <<queueVars, item, stopProcessing, preprocessedTransactions, processingError>>

-----------------------------------------------------------------------------
(* The pushing thread.  It looks at stopProcessing before each block, not  *)
(* before each transaction.                                                *)
nextBlock ==
    /\ pusher = "block"
    /\ IF toPush = <<>> \/ stopProcessing
       THEN close /\ pusher' = "done" /\ UNCHANGED toPush
       ELSE /\ IF Head(toPush) = <<>> THEN toPush' = Tail(toPush) /\ UNCHANGED pusher
               ELSE pusher' = "push" /\ UNCHANGED toPush
            /\ UNCHANGED queueVars
    /\ UNCHANGED <<worker, item, stopProcessing, preprocessedTransactions, processingError, caller>>

pushItem ==
    /\ pusher = "push" /\ Pusher \notin Waiting
    /\ \/ pushWaits(Pusher) /\ UNCHANGED <<toPush, pusher>>
       \/ /\ push(Head(Head(toPush)))
          /\ toPush' = IF Len(Head(toPush)) = 1 THEN Tail(toPush)
                       ELSE <<Tail(Head(toPush))>> \o Tail(toPush)
          /\ pusher' = IF Len(Head(toPush)) = 1 THEN "block" ELSE "push"
    /\ UNCHANGED <<worker, item, stopProcessing, preprocessedTransactions, processingError, caller>>

-----------------------------------------------------------------------------
(* A worker: the test of stopProcessing, pop, and preprocessOutputs.       *)
testStop(w) ==
    /\ worker[w] = "loop"
    /\ worker' = [worker EXCEPT ![w] = IF stopProcessing THEN "done" ELSE "pop"]
    /\ UNCHANGED <<queueVars, toPush, pusher, item, stopProcessing, preprocessedTransactions,
                   processingError, caller>>

take(w) ==
    /\ worker[w] = "pop" /\ w \notin Waiting
    /\ \/ popWaits(w) /\ UNCHANGED <<worker, item>>
       \/ popEnds /\ worker' = [worker EXCEPT ![w] = "done"] /\ UNCHANGED item
       \/ /\ pop
          /\ item' = [item EXCEPT ![w] = Head(m_queue)]
          /\ worker' = [worker EXCEPT ![w] = "preprocess"]
    /\ UNCHANGED <<toPush, pusher, stopProcessing, preprocessedTransactions, processingError, caller>>

(* An error stops the others; an exception ends only this worker.          *)
preprocessOutputs(w) ==
    /\ worker[w] = "preprocess"
    /\ \/ /\ preprocessedTransactions' = Append(preprocessedTransactions, item[w])
          /\ worker' = [worker EXCEPT ![w] = "loop"]
          /\ UNCHANGED <<stopProcessing, processingError>>
       \/ /\ stopProcessing' \in {TRUE, stopProcessing}
          /\ worker' = [worker EXCEPT ![w] = "done"]
          /\ processingError' = processingError \cup {w}
          /\ UNCHANGED preprocessedTransactions
    /\ item' = [item EXCEPT ![w] = NoItem]
    /\ UNCHANGED <<queueVars, toPush, pusher, caller>>

-----------------------------------------------------------------------------
(* The results of all workers are there: they are processed in the order   *)
(* of the chain, or onError is called.                                     *)
collect ==
    /\ caller = "collecting" /\ \A w \in Workers : worker[w] = "done"
    /\ caller' = "done"
    /\ preprocessedTransactions' = IF processingError # {} THEN preprocessedTransactions
                                   ELSE SortSeq(preprocessedTransactions, <)
    /\ UNCHANGED <<queueVars, toPush, pusher, worker, item, stopProcessing, processingError>>

(* The destructor of the future pushingThread waits for the thread.        *)
return ==
    /\ caller = "done" /\ pusher = "done"
    /\ caller' = "returned"
    /\ UNCHANGED <<queueVars, toPush, pusher, worker, item, stopProcessing, preprocessedTransactions,
                   processingError>>

wakeup == spuriousWakeup /\ UNCHANGED <<toPush, pusher, worker, item, stopProcessing,
                                        preprocessedTransactions, processingError, caller>>

PusherStep == nextBlock \/ pushItem
WorkerStep(w) == testStop(w) \/ take(w) \/ preprocessOutputs(w)

ConsumerNext ==
    \/ startThreads \/ PusherStep \/ (\E w \in Workers : WorkerStep(w))
    \/ collect \/ return \/ wakeup

(* Every thread runs, and the node answers.                                *)
ConsumerFairness ==
    /\ WF_consumerVars(PusherStep) /\ (\A w \in Workers : WF_consumerVars(WorkerStep(w)))
    /\ WF_consumerVars(collect \/ return)

ConsumerSpec == ConsumerInit /\ [][ConsumerNext]_consumerVars /\ ConsumerFairness

-----------------------------------------------------------------------------
(* Unless a worker fails, onNewBlocks returns, and the container gets      *)
(* every transaction of the blocks once and in the order of the chain: no  *)
(* wakeup is lost between the threads, and the queue is closed only when   *)
(* the last transaction is in it.                                          *)
BatchCompletes ==
    caller = "collecting" ~>
        \/ processingError # {}
        \/ caller = "returned" /\ preprocessedTransactions = FlattenSeq(Batch)

(* The unit test of a failing node expects that onNewBlocks returns false: *)
(* it returns whatever the workers meet.                                   *)
BatchReturns == caller = "collecting" ~> caller = "returned"
=============================================================================
