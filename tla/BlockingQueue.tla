---------------------------- MODULE BlockingQueue ----------------------------
(***************************************************************************)
(* BlockingQueue of src/src/Common: a bounded queue between threads, with  *)
(* a mutex and two condition variables, m_haveData and m_haveSpace, each   *)
(* here the set of the threads that wait on it.  An operation is one step  *)
(* if it does not wait; a thread that was notified takes the mutex again   *)
(* and looks again at the condition, so that it repeats the operation.     *)
(***************************************************************************)
EXTENDS Integers, Sequences

CONSTANT QueueSize      \* m_maxSize

ASSUME QueueAssumption == QueueSize \in Nat \ {0}

VARIABLES m_queue, m_closed, m_haveData, m_haveSpace

queueVars == <<m_queue, m_closed, m_haveData, m_haveSpace>>

QueueInit == m_queue = <<>> /\ m_closed = FALSE /\ m_haveData = {} /\ m_haveSpace = {}

Waiting == m_haveData \cup m_haveSpace

(* notify_one wakes any one of those who wait, if there is one.            *)
notify_one(waiting) == IF waiting = {} THEN {{}} ELSE {waiting \ {t} : t \in waiting}

pushWaits(t) ==
    /\ ~m_closed /\ Len(m_queue) >= QueueSize
    /\ m_haveSpace' = m_haveSpace \cup {t}
    /\ UNCHANGED <<m_queue, m_closed, m_haveData>>

push(v) ==
    /\ ~m_closed /\ Len(m_queue) < QueueSize
    /\ m_queue' = Append(m_queue, v)
    /\ m_haveData' \in notify_one(m_haveData)
    /\ UNCHANGED <<m_closed, m_haveSpace>>

popWaits(t) ==
    /\ m_queue = <<>> /\ ~m_closed
    /\ m_haveData' = m_haveData \cup {t}
    /\ UNCHANGED <<m_queue, m_closed, m_haveSpace>>

(* pop returns the front.                                                  *)
pop ==
    /\ m_queue # <<>>
    /\ m_queue' = Tail(m_queue)
    /\ IF m_closed /\ m_queue' = <<>> THEN m_haveSpace' = {}
       ELSE m_haveSpace' \in notify_one(m_haveSpace)
    /\ UNCHANGED <<m_closed, m_haveData>>

(* pop returns false.                                                      *)
popEnds == m_queue = <<>> /\ m_closed /\ UNCHANGED queueVars

(* Mutant of close: nobody is woken.                                       *)
closeSilently ==
    /\ m_closed' = TRUE
    /\ UNCHANGED <<m_queue, m_haveData, m_haveSpace>>

(* close, without waiting for the queue to be empty.                       *)
close ==
    /\ m_closed' = TRUE
    /\ m_haveData' = {} /\ m_haveSpace' = {}
    /\ UNCHANGED m_queue

(* A wait may end without a notification.                                  *)
spuriousWakeup ==
    /\ \E t \in Waiting : m_haveData' = m_haveData \ {t} /\ m_haveSpace' = m_haveSpace \ {t}
    /\ UNCHANGED <<m_queue, m_closed>>
=============================================================================
