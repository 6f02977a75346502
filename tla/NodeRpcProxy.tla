----------------------------- MODULE NodeRpcProxy -----------------------------
(***************************************************************************)
(* cn::NodeRpcProxy, a wallet's connection to a node: the threads of the   *)
(* clients call it, and a worker thread runs a dispatcher whose contexts   *)
(* send the requests and pull the state of the node.                       *)
(*                                                                         *)
(* The contexts are coroutines: one runs until it waits for the network, a *)
(* timer, an event or its group, and then the dispatcher resumes the next  *)
(* one in its queue or, when that is empty, one that the network, a timer  *)
(* or another thread has something for.  A step of the worker thread is    *)
(* what one context does from one wait to the next.                        *)
(***************************************************************************)
EXTENDS Integers, Sequences, FiniteSets, Functions

CONSTANTS Requests,         \* what the clients ask of the node
          WalletRequests,   \* those that WalletLegacy asks
          Following,        \* Following[r]: the requests that the callback of r makes
          Tips, PoolTxs,    \* the blocks and the pool transactions of the node
          NoTip,            \* NULL_HASH
          MaxInits, MaxNodeChanges, MaxFailures     \* bounds

(* A request is one call, so at most one callback makes it.                *)
ASSUME ProxyAssumption == /\ WalletRequests \subseteq Requests
                          /\ Requests \cap {"pull", "stop", "main"} = {}
                          /\ Following \in [Requests -> SUBSET Requests]
                          /\ \A q, r \in Requests : q # r => Following[q] \cap Following[r] = {}
                          /\ NoTip \notin Tips

VARIABLES
    m_state, m_stop,
    client,             \* who calls shutdown: "idle", "waiting" in it, or "joining" with m_mutex held
    walletOpen, asyncContexts,  \* WalletLegacy: m_state = INITIALIZED, m_asyncContextCounter
    inits,
    main,               \* the thread and the main context of the worker
    ctx,                \* the other contexts
    ready,              \* firstResumingContext .. lastResumingContext
    remote,             \* remoteSpawningProcedures
    httpEvent, waiters, \* m_httpEvent
    query, reply,       \* what the pull context asks, and what the node has answered
    m_lastKnowHash, m_knownTxs,
    asked, called,      \* history: accepted requests, and how often each was called back
    nodeTip, nodePool, nodeChanges, failures

clientVars == <<client, walletOpen, inits>>
viewVars == <<m_lastKnowHash, m_knownTxs>>
httpVars == <<httpEvent, waiters>>
nodeVars == <<nodeTip, nodePool, nodeChanges>>
callVars == <<asked, called, asyncContexts>>
proxyVars == <<m_state, m_stop, clientVars, main, ctx, ready, remote, httpVars, query, reply, viewVars,
               callVars, nodeVars, failures>>

Contexts == Requests \cup {"pull", "stop"}
Failed == [tip |-> NoTip, pool |-> {}]

(* The sequences of all elements of S.                                     *)
Orders(S) == UNION {Bijection(1 .. n, S) : n \in 0 .. Cardinality(S)}

ProxyInit ==
    /\ m_state = "not_initialized" /\ m_stop = FALSE
    /\ client = "idle" /\ walletOpen = TRUE /\ inits = 0
    /\ main = "none" /\ ctx = [c \in Contexts |-> "none"]
    /\ ready = <<>> /\ remote = <<>>
    /\ httpEvent = TRUE /\ waiters = <<>>
    /\ query = "header" /\ reply = Failed
    /\ m_lastKnowHash = NoTip /\ m_knownTxs = {}
    /\ asked = {} /\ called = [r \in Requests |-> 0] /\ asyncContexts = 0
    /\ nodeTip = (CHOOSE t \in Tips : TRUE) /\ nodePool = {} /\ nodeChanges = 0 /\ failures = 0

(* shutdown keeps m_mutex while it joins the worker thread.                *)
mutexFree == client # "joining"

-----------------------------------------------------------------------------
(* The threads of the clients.                                             *)
init ==
    /\ mutexFree /\ client = "idle" /\ inits < MaxInits
    /\ m_state = "not_initialized"
    /\ m_state' = "initializing"
    /\ m_stop' = FALSE /\ m_lastKnowHash' = NoTip /\ m_knownTxs' = {}
    /\ main' = "starting"
    /\ walletOpen' = TRUE /\ inits' = inits + 1
    /\ UNCHANGED <<client, ctx, ready, remote, httpVars, query, reply, callVars, nodeVars, failures>>

(* shutdown, from where the state is not STATE_INITIALIZING any more.      *)
(* remoteSpawn appends the procedure under its mutex and writes the event  *)
(* that wakes the worker after it; the two are one step here.  A worker    *)
(* that an earlier event woke between them could take the procedure, stop  *)
(* and close the event before it is written, which is left out.            *)
stopWorker ==
    IF m_state = "not_initialized"
    THEN client' = "idle" /\ UNCHANGED remote
    ELSE remote' = Append(remote, "stop") /\ client' = "joining"

(* The wallet on a node is shut down before the node is: it waits until    *)
(* none of its requests, nor a request of their callbacks, is pending.     *)
waitAsyncContextsFinish == asyncContexts = 0

walletShutdown ==
    /\ client = "idle" /\ walletOpen /\ waitAsyncContextsFinish
    /\ walletOpen' = FALSE
    /\ UNCHANGED <<m_state, m_stop, client, inits, main, ctx, ready, remote, httpVars, query, reply,
                   viewVars, callVars, nodeVars, failures>>

shutdown ==
    /\ client = "idle" /\ ~walletOpen
    /\ IF m_state = "initializing" THEN client' = "waiting" /\ UNCHANGED remote ELSE stopWorker
    /\ UNCHANGED <<m_state, m_stop, walletOpen, inits, main, ctx, ready, httpVars, query, reply,
                   viewVars, callVars, nodeVars, failures>>

(* The wait on m_cv_initialized ends.                                      *)
shutdownInitialized ==
    /\ client = "waiting" /\ m_state # "initializing"
    /\ stopWorker
    /\ UNCHANGED <<m_state, m_stop, walletOpen, inits, main, ctx, ready, httpVars, query, reply,
                   viewVars, callVars, nodeVars, failures>>

joined ==
    /\ client = "joining" /\ main = "ended"
    /\ m_state' = "not_initialized" /\ client' = "idle" /\ main' = "none"
    /\ UNCHANGED <<m_stop, walletOpen, inits, ctx, ready, remote, httpVars, query, reply, viewVars,
                   callVars, nodeVars, failures>>

(* Mutant of request: m_mutex is not locked.                               *)
requestUnlocked(r) ==
    /\ r \notin asked /\ \A q \in Requests : r \notin Following[q]
    /\ r \in WalletRequests => walletOpen
    /\ asked' = asked \cup {r}
    /\ IF m_state # "initialized"
       THEN called' = [called EXCEPT ![r] = @ + 1] /\ UNCHANGED <<remote, asyncContexts>>
       ELSE /\ remote' = Append(remote, r)
            /\ asyncContexts' = asyncContexts + (IF r \in WalletRequests THEN 1 ELSE 0)
            /\ UNCHANGED called
    /\ UNCHANGED <<m_state, m_stop, clientVars, main, ctx, ready, httpVars, query, reply, viewVars,
                   nodeVars, failures>>

(* relayTransaction, getRandomOutsByAmounts, queryBlocks and the others:   *)
(* called back at once if the proxy is not initialized, else scheduled.    *)
request(r) ==
    /\ mutexFree
    /\ r \notin asked /\ \A q \in Requests : r \notin Following[q]
    /\ r \in WalletRequests => walletOpen
    /\ asked' = asked \cup {r}
    /\ IF m_state # "initialized"
       THEN called' = [called EXCEPT ![r] = @ + 1] /\ UNCHANGED <<remote, asyncContexts>>
       ELSE /\ remote' = Append(remote, r)
            /\ asyncContexts' = asyncContexts + (IF r \in WalletRequests THEN 1 ELSE 0)
            /\ UNCHANGED called
    /\ UNCHANGED <<m_state, m_stop, clientVars, main, ctx, ready, httpVars, query, reply, viewVars,
                   nodeVars, failures>>

-----------------------------------------------------------------------------
(* workerThread, up to the wait for the context group.                     *)
workerStarts ==
    /\ main = "starting" /\ mutexFree
    /\ m_state' = "initialized" /\ main' = "initialized"
    /\ httpEvent' = TRUE /\ waiters' = <<>>
    /\ UNCHANGED <<m_stop, clientVars, ctx, ready, remote, query, reply, viewVars, callVars, nodeVars,
                   failures>>

spawnPull ==
    /\ main = "initialized"
    /\ ctx' = [ctx EXCEPT !["pull"] = "loop"]
    /\ ready' = Append(ready, "pull")
    /\ main' = "waiting"
    /\ UNCHANGED <<m_state, m_stop, clientVars, remote, httpVars, query, reply, viewVars, callVars,
                   nodeVars, failures>>

-----------------------------------------------------------------------------
(* The dispatcher.  Besides remote procedures, epoll reports an answer of  *)
(* the node and the timer.                                                 *)
Signalled == {c \in Contexts : ctx[c] \in {"replied", "sleep"}}
woken(c) == IF ctx[c] = "sleep" THEN "loop" ELSE "answered"

(* dispatch with no context to resume: one event of epoll.  Each remote    *)
(* procedure gets a context.                                               *)
dispatchRemote ==
    /\ main = "waiting" /\ ready = <<>> /\ remote # <<>>
    /\ ready' = remote /\ remote' = <<>>
    /\ ctx' = [c \in Contexts |-> IF c \in Range(remote) THEN "remote" ELSE ctx[c]]
    /\ UNCHANGED <<m_state, m_stop, clientVars, main, httpVars, query, reply, viewVars, callVars,
                   nodeVars, failures>>

dispatchSignalled(c) ==
    /\ main = "waiting" /\ ready = <<>> /\ c \in Signalled
    /\ ready' = <<c>>
    /\ ctx' = [ctx EXCEPT ![c] = woken(c)]
    /\ UNCHANGED <<m_state, m_stop, clientVars, main, remote, httpVars, query, reply, viewVars,
                   callVars, nodeVars, failures>>

(* yield by the context at the head of ready: all events of epoll, in any  *)
(* order, and then the other contexts, if any, before this one.            *)
yield(self, state) ==
    \E S \in SUBSET Signalled : \E early \in SUBSET S :
    \E first \in Orders(early), second \in Orders(S \ early) :
        LET rest == Tail(ready) \o first \o remote \o second
        IN  /\ ready' = IF rest = <<>> THEN <<>> ELSE Append(rest, self)
            /\ remote' = <<>>
            /\ ctx' = [c \in Contexts |-> IF c = self THEN (IF rest = <<>> THEN "none" ELSE state)
                                          ELSE IF c \in S THEN woken(c)
                                          ELSE IF c \in Range(remote) THEN "remote" ELSE ctx[c]]

(* The contexts of m_context_group.  When the last one ends, the main      *)
(* context, which waits for the group, is to be resumed.                   *)
InGroup == {c \in Requests \cup {"pull"} : ctx[c] \notin {"none", "remote"}}
leaveGroup(c, queue) ==
    /\ ctx' = [ctx EXCEPT ![c] = "none"]
    /\ ready' = IF InGroup = {c} THEN Append(queue, "main") ELSE queue

Resumed(c) == ready # <<>> /\ Head(ready) = c

(* EventLock, in context c: takes m_httpEvent and sends, or waits.         *)
lockHttp(c) ==
    IF httpEvent
    THEN httpEvent' = FALSE /\ ctx' = [ctx EXCEPT ![c] = "http"] /\ UNCHANGED waiters
    ELSE waiters' = Append(waiters, c) /\ ctx' = [ctx EXCEPT ![c] = "locking"] /\ UNCHANGED httpEvent

(* ~EventLock: Event::set resumes all who wait, who look again.            *)
unlockHttp == httpEvent' = TRUE /\ waiters' = <<>>

(* Mutant of Unlocked: only the first one is resumed.                      *)
UnlockedFirst == Tail(ready) \o (IF waiters = <<>> THEN <<>> ELSE <<Head(waiters)>>)

Unlocked == Tail(ready) \o waiters

-----------------------------------------------------------------------------
(* The contexts of shutdown and of a request.                              *)
stops ==
    /\ Resumed("stop") /\ ctx["stop"] = "remote"
    /\ m_stop' = TRUE
    /\ yield("stop", "yielded")
    /\ UNCHANGED <<m_state, clientVars, main, httpVars, query, reply, viewVars, callVars, nodeVars,
                   failures>>

stopped ==
    /\ Resumed("stop") /\ ctx["stop"] = "yielded"
    /\ ready' = Tail(ready) /\ ctx' = [ctx EXCEPT !["stop"] = "none"]
    /\ UNCHANGED <<m_state, m_stop, clientVars, main, remote, httpVars, query, reply, viewVars,
                   callVars, nodeVars, failures>>

(* The remote procedure of scheduleRequest spawns the request in the group.*)
spawnRequest(r) ==
    /\ Resumed(r) /\ ctx[r] = "remote"
    /\ ready' = Append(Tail(ready), r) /\ ctx' = [ctx EXCEPT ![r] = "start"]
    /\ UNCHANGED <<m_state, m_stop, clientVars, main, remote, httpVars, query, reply, viewVars,
                   callVars, nodeVars, failures>>

(* The callback, sendTransactionCallback for a wallet: with no error it    *)
(* makes the following requests, for which it needs m_mutex.               *)
callback(r, ok) ==
    LET next == IF ok THEN Following[r] ELSE {}
        wallet(S) == Cardinality(S \cap WalletRequests)
    IN  /\ next # {} => mutexFree
        /\ called' = [called EXCEPT ![r] = @ + 1]
        /\ asked' = asked \cup next
        /\ \E order \in Orders(next) : remote' = remote \o order
        /\ asyncContexts' = asyncContexts + wallet(next) - wallet({r})

runRequest(r) ==
    /\ Resumed(r) /\ ctx[r] \in {"start", "locking"}
    /\ IF ctx[r] = "start" /\ m_stop
       THEN callback(r, FALSE) /\ leaveGroup(r, Tail(ready)) /\ UNCHANGED httpVars
       ELSE lockHttp(r) /\ ready' = Tail(ready) /\ UNCHANGED <<remote, callVars>>
    /\ UNCHANGED <<m_state, m_stop, clientVars, main, query, reply, viewVars, nodeVars, failures>>

endRequest(r) ==
    /\ Resumed(r) /\ ctx[r] = "answered"
    /\ unlockHttp
    /\ callback(r, ~m_stop /\ reply # Failed)
    /\ leaveGroup(r, Unlocked)
    /\ reply' = Failed
    /\ UNCHANGED <<m_state, m_stop, clientVars, main, query, viewVars, nodeVars, failures>>

-----------------------------------------------------------------------------
(* The context that pulls the state of the node: updateNodeStatus, whose   *)
(* queries each take and release m_httpEvent, then a sleep.                *)
pullLoop ==
    /\ Resumed("pull") /\ ctx["pull"] \in {"loop", "locking"}
    /\ IF ctx["pull"] = "loop" /\ m_stop
       THEN leaveGroup("pull", Tail(ready)) /\ UNCHANGED httpVars
       ELSE lockHttp("pull") /\ ready' = Tail(ready)
    /\ UNCHANGED <<m_state, m_stop, clientVars, main, remote, query, reply, viewVars, callVars, nodeVars,
                   failures>>

(* The next query takes m_httpEvent before those it has woken do.          *)
nextQuery(q) ==
    /\ query' = q
    /\ httpEvent' = FALSE /\ waiters' = <<>> /\ ready' = Unlocked
    /\ ctx' = [ctx EXCEPT !["pull"] = "http"]

(* updateNodeStatus returns.                                               *)
pullRests ==
    /\ unlockHttp
    /\ IF m_stop THEN leaveGroup("pull", Unlocked)
       ELSE ready' = Unlocked /\ ctx' = [ctx EXCEPT !["pull"] = "sleep"]
    /\ query' = "header"

updateBlockchainStatus ==
    \/ /\ query = "header"
       /\ m_lastKnowHash' = IF reply = Failed THEN m_lastKnowHash ELSE reply.tip
       /\ nextQuery("info")
       /\ UNCHANGED m_knownTxs
    \/ /\ query = "info"
       /\ nextQuery("pool")
       /\ UNCHANGED viewVars

updatePoolState(added, deleted) == (m_knownTxs \ deleted) \cup added

(* Mutant of updatePoolStatus: an error ends the context.                  *)
updatePoolStatusOnce ==
    /\ query = "pool"
    /\ IF reply = Failed THEN unlockHttp /\ leaveGroup("pull", Unlocked)
                                             /\ UNCHANGED <<query, m_knownTxs>>
       ELSE IF reply.tip # m_lastKnowHash THEN nextQuery("header") /\ UNCHANGED m_knownTxs
       ELSE pullRests /\ m_knownTxs' = updatePoolState(reply.pool \ m_knownTxs, m_knownTxs \ reply.pool)
    /\ UNCHANGED m_lastKnowHash

updatePoolStatus ==
    /\ query = "pool"
    /\ IF reply = Failed THEN pullRests /\ UNCHANGED m_knownTxs
       ELSE IF reply.tip # m_lastKnowHash THEN nextQuery("header") /\ UNCHANGED m_knownTxs
       ELSE pullRests /\ m_knownTxs' = updatePoolState(reply.pool \ m_knownTxs, m_knownTxs \ reply.pool)
    /\ UNCHANGED m_lastKnowHash

pullAnswered ==
    /\ Resumed("pull") /\ ctx["pull"] = "answered"
    /\ updateBlockchainStatus \/ updatePoolStatus
    /\ reply' = Failed
    /\ UNCHANGED <<m_state, m_stop, clientVars, main, remote, callVars, nodeVars, failures>>

-----------------------------------------------------------------------------
(* The end of workerThread: the group is empty, and a yield runs what is   *)
(* left.  The destructors then find no context to interrupt.               *)
mainYields ==
    /\ Resumed("main") /\ main = "waiting"
    /\ yield("main", "none")
    /\ main' = IF ready' = <<>> THEN "ended" ELSE "yielding"
    /\ UNCHANGED <<m_state, m_stop, clientVars, httpVars, query, reply, viewVars, callVars, nodeVars,
                   failures>>

mainEnds ==
    /\ Resumed("main") /\ main = "yielding"
    /\ ready' = Tail(ready) /\ main' = "ended"
    /\ UNCHANGED <<m_state, m_stop, clientVars, ctx, remote, httpVars, query, reply, viewVars,
                   callVars, nodeVars, failures>>

-----------------------------------------------------------------------------
(* The node answers the request of context c, or the connection fails.     *)
nodeAnswers(c) ==
    /\ ctx[c] = "http"
    /\ ctx' = [ctx EXCEPT ![c] = "replied"]
    /\ \/ reply' = [tip |-> nodeTip, pool |-> nodePool] /\ UNCHANGED failures
       \/ failures < MaxFailures /\ failures' = failures + 1 /\ reply' = Failed
    /\ UNCHANGED <<m_state, m_stop, clientVars, main, ready, remote, httpVars, query, viewVars,
                   callVars, nodeVars>>

nodeMoves ==
    /\ nodeChanges < MaxNodeChanges
    /\ nodeTip' \in Tips /\ nodePool' \in SUBSET PoolTxs
    /\ <<nodeTip', nodePool'>> # <<nodeTip, nodePool>>
    /\ nodeChanges' = nodeChanges + 1
    /\ UNCHANGED <<m_state, m_stop, clientVars, main, ctx, ready, remote, httpVars, query, reply,
                   viewVars, callVars, failures>>

Worker ==
    \/ workerStarts \/ spawnPull
    \/ dispatchRemote \/ \E c \in Contexts : dispatchSignalled(c)
    \/ stops \/ stopped
    \/ \E r \in Requests : spawnRequest(r) \/ runRequest(r) \/ endRequest(r)
    \/ pullLoop \/ pullAnswered
    \/ mainYields \/ mainEnds

Node == \E c \in Contexts : nodeAnswers(c)
Shutdown == shutdownInitialized \/ joined

ProxyNext ==
    \/ init \/ walletShutdown \/ shutdown \/ Shutdown
    \/ \E r \in Requests : request(r)
    \/ Worker \/ Node \/ nodeMoves

(* The worker and a thread in shutdown run, the timer expires, the node    *)
(* answers or the connection fails, and epoll reports in turn what there   *)
(* is to report.  Nobody has to call anything.                             *)
ProxyFairness ==
    /\ WF_proxyVars(Worker) /\ WF_proxyVars(Node) /\ WF_proxyVars(Shutdown)
    /\ SF_proxyVars(dispatchRemote)

ProxySpec == ProxyInit /\ [][ProxyNext]_proxyVars /\ ProxyFairness

-----------------------------------------------------------------------------
(* Every request is called back exactly once: none is lost or called twice *)
(* when shutdown comes between its steps, and the destructors of the       *)
(* dispatcher and of the group find no context and no procedure left.      *)
AnsweredOnce ==
    /\ \A r \in Requests : called[r] <= 1
    /\ m_state = "not_initialized" => \A r \in asked : called[r] = 1
    /\ main = "ended" => ready = <<>> /\ remote = <<>> /\ InGroup = {} /\ waiters = <<>>

(* shutdown returns, though it joins the worker with m_mutex held and the  *)
(* callbacks that the worker runs take m_mutex; and so does a request that *)
(* was accepted.                                                           *)
ProxyStops ==
    /\ client = "joining" ~> client = "idle"
    /\ \A r \in Requests : r \in asked ~> called[r] = 1

(* As long as the proxy runs it comes to know the tip and the pool of the  *)
(* node, whatever requests failed.                                         *)
ViewCatchesUp ==
    []<>(\/ m_state # "initialized" \/ client # "idle"
         \/ m_lastKnowHash = nodeTip /\ m_knownTxs = nodePool)
=============================================================================
