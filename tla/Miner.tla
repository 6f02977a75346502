-------------------------------- MODULE Miner --------------------------------
(***************************************************************************)
(* Miner (Miner.cpp) with the calls of core around it.  Worker threads     *)
(* look for blocks on a copy of the template.  The node's thread takes     *)
(* blocks of peers, and refreshes the template on a timer; a worker that   *)
(* finds a block goes through the same calls itself.  The console's thread *)
(* and the node's thread, for an RPC, start and stop the mining.           *)
(*                                                                         *)
(* A template is the tip it builds on.  The numbers of templates only      *)
(* serve to see that the template is another one than the worker's: seen   *)
(* says that local_template_ver and m_template_no are equal.               *)
(***************************************************************************)
EXTENDS Integers, FiniteSets

CONSTANTS Workers,
          Node, Console,   \* the two other threads
          NoTemplate,
          MaxTip,          \* bound on the number of blocks
          MaxCommands      \* bound on the number of starts and stops

Actors == Workers \cup {Node, Console}

VARIABLES tip,             \* the height of the chain
          m_stop,
          m_template,      \* NoTemplate when m_template_no is zero
          m_pausers_count,
          threads,         \* m_threads
          threadsLock,     \* the owner of m_threads_lock, or NoTemplate
          pc,              \* pc[a]: where the thread is
          then,            \* then[a]: where request_block_template returns to
          read,            \* read[a]: the template that get_block_template returned
          b,               \* b[w]: the worker's block
          seen, got,       \* local_template_ver = m_template_no, local_template_ver # 0
          commands,        \* number of starts and stops
          overlapped       \* a start and a stop have run at the same time

minerVars == <<tip, m_stop, m_template, m_pausers_count, threads, threadsLock, pc, then, read, b,
               seen, got, commands, overlapped>>

Starting == {"startLock", "startCheck", "spawning"}
Stopping == {"stopLock", "joining"}

(* Where a thread is between two calls.                                    *)
home(a) == IF a \in Workers THEN "top" ELSE "idle"

Go(a, place) == pc' = [pc EXCEPT ![a] = place]

is_mining == ~m_stop

(* The node has not mined yet, or has stopped.                              *)
MinerInit ==
    /\ tip = 0 /\ m_stop = TRUE /\ m_template \in {NoTemplate, 0} /\ m_pausers_count = 0
    /\ threads = {} /\ threadsLock = NoTemplate
    /\ pc = [a \in Actors |-> IF a \in Workers THEN "off" ELSE "idle"]
    /\ then = [a \in Actors |-> "idle"]
    /\ read = [a \in Actors |-> NoTemplate]
    /\ b = [w \in Workers |-> NoTemplate]
    /\ seen = [w \in Workers |-> TRUE] /\ got = [w \in Workers |-> FALSE]
    /\ commands = 0 /\ overlapped = FALSE

-----------------------------------------------------------------------------
(* core::handle_incoming_block: pause, add the block, renew the template,   *)
(* resume.                                                                  *)
pause(a) ==
    /\ m_pausers_count' = m_pausers_count + 1
    /\ Go(a, "adding")

(* The node's thread gets a block of a peer.                                *)
peerBlock ==
    /\ pc[Node] = "idle" /\ tip < MaxTip
    /\ pause(Node)
    /\ UNCHANGED <<tip, m_stop, m_template, threads, threadsLock, then, read, b, seen, got,
                   commands, overlapped>>

(* addNewBlock; a peer's block extends the chain or not, a worker's if it   *)
(* was made for the tip.  on_block_chain_update asks for a template only    *)
(* while mining.                                                            *)
addNewBlock(a) ==
    /\ pc[a] = "adding"
    /\ \/ tip < MaxTip /\ (a \in Workers => b[a] = tip) /\ tip' = tip + 1
       \/ (a \in Workers => b[a] # tip \/ tip = MaxTip) /\ UNCHANGED tip
    /\ IF is_mining THEN Go(a, "reading") ELSE Go(a, "resuming")
    /\ then' = [then EXCEPT ![a] = "resuming"]
    /\ UNCHANGED <<m_stop, m_template, m_pausers_count, threads, threadsLock, read, b, seen, got,
                   commands, overlapped>>

(* core::get_block_template, on the tip of that moment; it may fail.        *)
get_block_template(a) ==
    /\ pc[a] = "reading"
    /\ read' = [read EXCEPT ![a] = tip]
    /\ Go(a, "setting")
    /\ UNCHANGED <<tip, m_stop, m_template, m_pausers_count, threads, threadsLock, then, b, seen,
                   got, commands, overlapped>>

templateFails(a) ==
    /\ pc[a] = "reading"
    /\ Go(a, then[a])
    /\ UNCHANGED <<tip, m_stop, m_template, m_pausers_count, threads, threadsLock, then, read, b,
                   seen, got, commands, overlapped>>

set_block_template(a) ==
    /\ pc[a] = "setting"
    /\ m_template' = read[a]
    /\ seen' = [w \in Workers |-> FALSE]
    /\ read' = [read EXCEPT ![a] = NoTemplate]
    /\ Go(a, then[a])
    /\ UNCHANGED <<tip, m_stop, m_pausers_count, threads, threadsLock, then, b, got, commands,
                   overlapped>>

resume(a) ==
    /\ pc[a] = "resuming"
    /\ m_pausers_count' = IF m_pausers_count = 0 THEN 0 ELSE m_pausers_count - 1
    /\ Go(a, home(a))
    /\ then' = [then EXCEPT ![a] = "idle"]
    /\ UNCHANGED <<tip, m_stop, m_template, threads, threadsLock, read, b, seen, got, commands,
                   overlapped>>

(* The timer of five seconds, on the node's thread.                         *)
on_idleOnce ==
    /\ pc[Node] = "idle" /\ is_mining /\ m_template = NoTemplate
    /\ Go(Node, "reading")
    /\ then' = [then EXCEPT ![Node] = "idle"]
    /\ UNCHANGED <<tip, m_stop, m_template, m_pausers_count, threads, threadsLock, read, b, seen,
                   got, commands, overlapped>>

on_idleTemplate ==
    /\ pc[Node] = "idle" /\ is_mining
    /\ Go(Node, "reading")
    /\ then' = [then EXCEPT ![Node] = "idle"]
    /\ UNCHANGED <<tip, m_stop, m_template, m_pausers_count, threads, threadsLock, read, b, seen,
                   got, commands, overlapped>>

-----------------------------------------------------------------------------
(* worker_thread.  At the top of the loop the thread ends, sleeps while     *)
(* somebody pauses the mining, or goes on with the block it has.            *)
loopTop(w) ==
    /\ pc[w] = "top"
    /\ \/ m_stop /\ Go(w, "ended")
       \/ ~m_stop /\ m_pausers_count = 0 /\ seen[w] /\ got[w] /\ Go(w, "hashing")
    /\ UNCHANGED <<tip, m_stop, m_template, m_pausers_count, threads, threadsLock, then, read, b,
                   seen, got, commands, overlapped>>

(* The copy is made under the lock, and the number is read after unlocking. *)
copyTemplate(w) ==
    /\ pc[w] = "top"
    /\ ~m_stop /\ m_pausers_count = 0 /\ ~seen[w]
    /\ b' = [b EXCEPT ![w] = m_template]
    /\ Go(w, "numbering")
    /\ UNCHANGED <<tip, m_stop, m_template, m_pausers_count, threads, threadsLock, then, read,
                   seen, got, commands, overlapped>>

readNumber(w) ==
    /\ pc[w] = "numbering"
    /\ seen' = [seen EXCEPT ![w] = TRUE] /\ got' = [got EXCEPT ![w] = TRUE]
    /\ Go(w, "hashing")
    /\ UNCHANGED <<tip, m_stop, m_template, m_pausers_count, threads, threadsLock, then, read, b,
                   commands, overlapped>>

(* One hash: a block is found, or not, or the block cannot be hashed.       *)
hash(w) ==
    /\ pc[w] = "hashing"
    /\ \/ ~m_stop /\ tip < MaxTip /\ pause(w) /\ UNCHANGED m_stop
       \/ Go(w, "top") /\ UNCHANGED <<m_pausers_count, m_stop>>
       \/ ~m_stop /\ m_stop' = TRUE /\ Go(w, "top") /\ UNCHANGED m_pausers_count
    /\ UNCHANGED <<tip, m_template, threads, threadsLock, then, read, b, seen, got,
                   commands, overlapped>>

-----------------------------------------------------------------------------
Command(a) ==
    /\ a \in {Node, Console} /\ pc[a] = "idle"
    /\ commands < MaxCommands
    /\ commands' = commands + 1

(* start returns at once when mining.                                       *)
startMining(a) ==
    /\ Command(a)
    /\ ~is_mining
    /\ Go(a, "startLock")
    /\ overlapped' = (overlapped \/ \E o \in Actors : pc[o] \in Stopping)
    /\ UNCHANGED <<tip, m_stop, m_template, m_pausers_count, threads, threadsLock, then, read, b,
                   seen, got>>

startLocked(a) ==
    /\ pc[a] = "startLock" /\ threadsLock = NoTemplate
    /\ IF threads # {} THEN Go(a, "idle") /\ UNCHANGED <<threadsLock, then>>
       ELSE /\ threadsLock' = a
            /\ Go(a, IF m_template = NoTemplate THEN "reading" ELSE "startCheck")
            /\ then' = [then EXCEPT ![a] = "startCheck"]
    /\ UNCHANGED <<tip, m_stop, m_template, m_pausers_count, threads, read, b, seen, got, commands,
                   overlapped>>

startFlag(a) ==
    /\ pc[a] = "startCheck"
    /\ m_stop' = FALSE
    /\ Go(a, "spawning")
    /\ then' = [then EXCEPT ![a] = "idle"]
    /\ UNCHANGED <<tip, m_template, m_pausers_count, threads, threadsLock, read, b, seen, got,
                   commands, overlapped>>

(* The new threads have not seen a template.                                *)
spawn(a) ==
    /\ pc[a] = "spawning"
    /\ threads' = Workers /\ threadsLock' = NoTemplate
    /\ pc' = [x \in Actors |-> IF x \in Workers THEN "top" ELSE IF x = a THEN "idle" ELSE pc[x]]
    /\ seen' = [w \in Workers |-> m_template = NoTemplate]
    /\ got' = [w \in Workers |-> FALSE] /\ b' = [w \in Workers |-> NoTemplate]
    /\ UNCHANGED <<tip, m_stop, m_template, m_pausers_count, then, read, commands, overlapped>>

stopMiningUnsignalled(a) ==
    /\ Command(a)
    /\ Go(a, "stopLock")
    /\ overlapped' = (overlapped \/ \E o \in Actors : pc[o] \in Starting)
    /\ UNCHANGED <<tip, m_stop, m_template, m_pausers_count, threads, threadsLock, then, read, b,
                   seen, got>>

(* stop signals first, and then waits for the lock and for the threads.     *)
stopMining(a) ==
    /\ Command(a)
    /\ m_stop' = TRUE
    /\ Go(a, "stopLock")
    /\ overlapped' = (overlapped \/ \E o \in Actors : threadsLock = o \/ pc[o] \in Starting)
    /\ UNCHANGED <<tip, m_template, m_pausers_count, threads, threadsLock, then, read, b, seen, got>>

stopLocked(a) ==
    /\ pc[a] = "stopLock" /\ threadsLock = NoTemplate
    /\ threadsLock' = a /\ Go(a, "joining")
    /\ UNCHANGED <<tip, m_stop, m_template, m_pausers_count, threads, then, read, b, seen, got,
                   commands, overlapped>>

join(a) ==
    /\ pc[a] = "joining"
    /\ \A w \in threads : pc[w] = "ended"
    /\ threads' = {} /\ threadsLock' = NoTemplate
    /\ pc' = [x \in Actors |-> IF x = a THEN "idle" ELSE IF x \in Workers THEN "off" ELSE pc[x]]
    /\ b' = [w \in Workers |-> NoTemplate]
    /\ seen' = [w \in Workers |-> TRUE] /\ got' = [w \in Workers |-> FALSE]
    /\ UNCHANGED <<tip, m_stop, m_template, m_pausers_count, then, read, commands, overlapped>>

-----------------------------------------------------------------------------
(* The steps that a running thread takes by itself.                         *)
actorStep(a) ==
    \/ addNewBlock(a) \/ get_block_template(a) \/ templateFails(a) \/ set_block_template(a)
    \/ resume(a)
    \/ startLocked(a) \/ startFlag(a) \/ spawn(a) \/ stopLocked(a) \/ join(a)

workerStep(w) == loopTop(w) \/ copyTemplate(w) \/ readNumber(w) \/ hash(w)

MinerNext ==
    \/ \E a \in Actors : actorStep(a)
    \/ \E w \in Workers : workerStep(w)
    \/ peerBlock
    \/ on_idleTemplate
    \/ \E a \in {Node, Console} : startMining(a) \/ stopMining(a)

(* Every thread that can run does, and the timer goes on.  Making a template *)
(* does not fail for ever.                                                  *)
MinerFairness ==
    /\ \A a \in Actors : WF_minerVars(actorStep(a)) /\ SF_minerVars(get_block_template(a))
    /\ \A w \in Workers : WF_minerVars(workerStep(w))
    /\ WF_minerVars(on_idleTemplate)

MinerSpec == MinerInit /\ [][MinerNext]_minerVars /\ MinerFairness

-----------------------------------------------------------------------------
(* When the chain has come to rest the workers come to work on its tip,      *)
(* though a worker may mark a template as seen that it has not copied, a     *)
(* slow thread may set an older template after a newer one, and start uses   *)
(* the template of an earlier session; unless a start and a stop overlap.    *)
TipMined == <>[](overlapped \/ \A w \in Workers : pc[w] = "hashing" => b[w] = tip)

(* stop comes back, if no start overlaps it.                                 *)
StopReturns ==
    \A a \in {Node, Console} : pc[a] \in Stopping ~> (pc[a] \notin Stopping \/ overlapped)
=============================================================================
