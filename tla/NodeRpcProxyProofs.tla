-------------------------- MODULE NodeRpcProxyProofs --------------------------
(***************************************************************************)
(* Every request to a NodeRpcProxy is called back once, for any requests   *)
(* and any number of initialisations.                                      *)
(*                                                                         *)
(* A context is in at most one of the queues, and its state says in which. *)
(* That shutdown loses none rests on the order of one queue: m_mutex keeps *)
(* every request that comes after shutdown out, so no request is behind    *)
(* the procedure of shutdown, and when that one sets m_stop all requests   *)
(* have been spawned in the group for which the worker waits.              *)
(***************************************************************************)
EXTENDS NodeRpcProxy, TLAPS

Names == Contexts \cup {"main"}
Queued == Range(ready)
Sent == Range(remote)
Waiting == Range(waiters)

RequestStates == {"none", "remote", "start", "locking", "http", "replied", "answered"}
PullStates == {"none", "loop", "locking", "http", "replied", "answered", "sleep"}
StopStates == {"none", "remote", "yielded"}
Runnable == {"remote", "start", "loop", "answered", "yielded"}

ProxyTypes ==
    /\ ready \in Seq(Names) /\ IsInjective(ready)
    /\ remote \in Seq(Requests \cup {"stop"}) /\ IsInjective(remote)
    /\ waiters \in Seq(Requests \cup {"pull"}) /\ IsInjective(waiters)
    /\ ctx \in [Contexts -> RequestStates \cup PullStates \cup StopStates]
    /\ \A r \in Requests : ctx[r] \in RequestStates
    /\ ctx["pull"] \in PullStates /\ ctx["stop"] \in StopStates
    /\ asked \subseteq Requests /\ called \in [Requests -> Nat]
    /\ m_stop \in BOOLEAN

(* Where a context is.                                                     *)
Places ==
    \A c \in Contexts :
        /\ c \in Sent => ctx[c] = "none"
        /\ c \in Queued => ctx[c] \in Runnable \cup {"locking"}
        /\ ctx[c] \in Runnable => c \in Queued
        /\ c \in Waiting => ctx[c] = "locking" /\ c \notin Queued
        /\ ctx[c] = "locking" => c \in Queued \cup Waiting

(* A request that was accepted is in a queue, in a context or called back. *)
Pending == {r \in Requests : r \in Sent \/ ctx[r] # "none"}

Calls ==
    /\ Pending \subseteq asked
    /\ \A r \in Requests : called[r] = IF r \in asked \ Pending THEN 1 ELSE 0
    /\ \A q \in Requests : Following[q] \cap asked # {} => called[q] = 1

(* Where the worker thread is, and shutdown.                               *)
NoContexts == ready = <<>> /\ waiters = <<>> /\ \A c \in Contexts : ctx[c] = "none"

Phases ==
    /\ main \in {"none", "starting", "initialized", "waiting", "yielding", "ended"}
    /\ m_state = IF main = "none" THEN "not_initialized"
                 ELSE IF main = "starting" THEN "initializing" ELSE "initialized"
    /\ main \in {"none", "starting", "initialized", "ended"} => NoContexts
    /\ main \in {"none", "starting", "ended"} => remote = <<>>
    /\ main \in {"none", "starting"} => client # "joining"
    /\ main \in {"yielding", "ended"} => m_stop
    /\ main = "waiting" /\ ~m_stop => ctx["pull"] # "none"
    /\ client # "joining" => "stop" \notin Sent /\ ctx["stop"] = "none"

(* Nothing follows the procedure of shutdown.                              *)
BehindStop(s, X) == \A i, j \in 1 .. Len(s) : i < j /\ s[i] = "stop" => s[j] \notin X

RemoteRequests == {r \in Requests : ctx[r] = "remote"}

StopOrder ==
    /\ "stop" \in Sent => BehindStop(remote, Requests)
    /\ ctx["stop"] = "remote" => remote = <<>> /\ BehindStop(ready, RemoteRequests)
    /\ m_stop /\ main # "none" => /\ client = "joining" /\ remote = <<>>
                                  /\ ctx["stop"] # "remote" /\ RemoteRequests = {}

(* The main context is queued when the group is empty and stays so.        *)
MainQueued ==
    /\ "main" \in Queued => m_stop /\ InGroup = {}
    /\ main = "yielding" => Len(ready) > 0 /\ ready[Len(ready)] = "main"

ProxyInv == ProxyTypes /\ Places /\ Calls /\ Phases /\ StopOrder /\ MainQueued

-----------------------------------------------------------------------------
(* Queues without repetition.                                              *)

(* The empty queue is the one that holds nobody.                           *)
LEMMA EmptyFacts ==
    /\ Range(<<>>) = {} /\ IsInjective(<<>>)
    /\ \A N : \A s \in Seq(N) : Range(s) = {} => s = <<>>
<1>1. DOMAIN <<>> = {}
  OBVIOUS
<1>2. Range(<<>>) = {} /\ IsInjective(<<>>)
  BY <1>1, Zenon DEF Range, IsInjective
<1>3. ASSUME NEW N, NEW s \in Seq(N), Range(s) = {} PROVE s = <<>>
  <2>1. DOMAIN s = {}
    BY <1>3, Zenon DEF Range
  <2>2. Len(s) \in Nat /\ DOMAIN s = 1 .. Len(s)
    OBVIOUS
  <2>3. Len(s) = 0
    BY <2>1, <2>2
  <2>4. QED
    BY <2>3
<1>4. QED
  BY <1>2, <1>3, Zenon

(* A queue of one.                                                         *)
LEMMA OneFacts ==
    ASSUME NEW N, NEW x \in N
    PROVE  <<x>> \in Seq(N) /\ IsInjective(<<x>>) /\ Range(<<x>>) = {x}
BY DEF IsInjective, Range

(* One queue after another.                                                *)
LEMMA CatFacts ==
    ASSUME NEW N, NEW s \in Seq(N), NEW t \in Seq(N), IsInjective(s), IsInjective(t),
           Range(s) \cap Range(t) = {}
    PROVE  s \o t \in Seq(N) /\ IsInjective(s \o t) /\ Range(s \o t) = Range(s) \cup Range(t)
<1> DEFINE m == Len(s)
           n == Len(t)
           q == s \o t
<1>1. m \in Nat /\ n \in Nat /\ DOMAIN s = 1 .. m /\ DOMAIN t = 1 .. n
  OBVIOUS
<1>2. q \in Seq(N) /\ DOMAIN q = 1 .. (m + n)
  OBVIOUS
<1>3. /\ \A i \in 1 .. m : q[i] = s[i]
      /\ \A i \in 1 .. n : q[m + i] = t[i]
      /\ \A i \in (m + 1) .. (m + n) : i - m \in 1 .. n /\ q[i] = t[i - m]
  OBVIOUS
<1> HIDE DEF m, n, q
<1>4. \A i \in 1 .. m : s[i] \in Range(s)
  BY <1>1, Zenon DEF Range
<1>5. \A i \in 1 .. n : t[i] \in Range(t)
  BY <1>1, Zenon DEF Range
<1>6. ASSUME NEW i \in DOMAIN q, NEW j \in DOMAIN q, q[i] = q[j] PROVE i = j
  <2>1. CASE i \in 1 .. m /\ j \in 1 .. m
    BY <1>1, <1>3, <1>6, <2>1, Zenon DEF IsInjective
  <2>2. CASE i \in (m + 1) .. (m + n) /\ j \in (m + 1) .. (m + n)
    <3>1. i - m \in 1 .. n /\ j - m \in 1 .. n /\ t[i - m] = t[j - m]
      BY <1>3, <1>6, <2>2, Zenon
    <3>2. i - m = j - m
      BY <1>1, <3>1, Zenon DEF IsInjective
    <3>3. QED
      BY <1>1, <2>2, <3>2
  <2>3. CASE i \in 1 .. m /\ j \in (m + 1) .. (m + n)
    BY <1>3, <1>4, <1>5, <1>6, <2>3, Zenon
  <2>4. CASE i \in (m + 1) .. (m + n) /\ j \in 1 .. m
    BY <1>3, <1>4, <1>5, <1>6, <2>4, Zenon
  <2>5. QED
    BY <1>1, <1>2, <2>1, <2>2, <2>3, <2>4
<1>7. ASSUME NEW x \in Range(q) PROVE x \in Range(s) \cup Range(t)
  <2>1. PICK i \in 1 .. (m + n) : x = q[i]
    BY <1>2, Zenon DEF Range
  <2>2. i \in 1 .. m \/ i \in (m + 1) .. (m + n)
    BY <1>1
  <2>3. QED
    BY <1>3, <1>4, <1>5, <2>1, <2>2, Zenon
<1>8. ASSUME NEW x \in Range(s) \cup Range(t) PROVE x \in Range(q)
  <2>1. CASE x \in Range(s)
    <3>1. PICK i \in 1 .. m : x = s[i]
      BY <1>1, <2>1, Zenon DEF Range
    <3>2. i \in DOMAIN q /\ q[i] = x
      BY <1>1, <1>2, <1>3, <3>1
    <3>3. QED
      BY <3>2, Zenon DEF Range
  <2>2. CASE x \in Range(t)
    <3>1. PICK i \in 1 .. n : x = t[i]
      BY <1>1, <2>2, Zenon DEF Range
    <3>2. m + i \in DOMAIN q /\ q[m + i] = x
      BY <1>1, <1>2, <1>3, <3>1
    <3>3. QED
      BY <3>2, Zenon DEF Range
  <2>3. QED
    BY <2>1, <2>2, Zenon
<1>9. QED
  BY <1>2, <1>6, <1>7, <1>8, Zenon DEF IsInjective, q

(* A queue without its head.                                               *)
LEMMA TailFacts ==
    ASSUME NEW N, NEW s \in Seq(N), s # <<>>, IsInjective(s)
    PROVE  /\ Head(s) \in Range(s) /\ Tail(s) \in Seq(N) /\ IsInjective(Tail(s))
           /\ Range(Tail(s)) = Range(s) \ {Head(s)}
<1> DEFINE n == Len(s)
           q == Tail(s)
<1>1. n \in Nat /\ n > 0 /\ DOMAIN s = 1 .. n /\ Head(s) = s[1]
  OBVIOUS
<1>2. q \in Seq(N) /\ DOMAIN q = 1 .. (n - 1) /\ \A i \in 1 .. (n - 1) : q[i] = s[i + 1]
  OBVIOUS
<1> HIDE DEF n, q
<1>3. \A i, j \in 1 .. n : s[i] = s[j] => i = j
  BY <1>1, Zenon DEF IsInjective
<1>4. Head(s) \in Range(s)
  BY <1>1 DEF Range
<1>5. IsInjective(q)
  <2>1. ASSUME NEW i \in 1 .. (n - 1), NEW j \in 1 .. (n - 1), q[i] = q[j] PROVE i = j
    <3>1. i + 1 \in 1 .. n /\ j + 1 \in 1 .. n /\ s[i + 1] = s[j + 1]
      BY <1>1, <1>2, <2>1
    <3>2. i + 1 = j + 1
      BY <1>3, <3>1, Zenon
    <3>3. QED
      BY <3>2
  <2>2. QED
    BY <1>2, <2>1, Zenon DEF IsInjective
<1>6. ASSUME NEW x \in Range(q) PROVE x \in Range(s) \ {Head(s)}
  <2>1. PICK i \in 1 .. (n - 1) : x = s[i + 1]
    BY <1>2, Zenon DEF Range
  <2>2. i + 1 \in 1 .. n /\ 1 \in 1 .. n /\ i + 1 # 1
    BY <1>1
  <2>3. s[i + 1] # s[1]
    BY <1>3, <2>2, Zenon
  <2>4. QED
    BY <1>1, <2>1, <2>2, <2>3, Zenon DEF Range
<1>7. ASSUME NEW x \in Range(s) \ {Head(s)} PROVE x \in Range(q)
  <2>1. PICK i \in 1 .. n : x = s[i]
    BY <1>1, Zenon DEF Range
  <2>2. i # 1
    BY <1>1, <2>1, Zenon
  <2>3. i - 1 \in 1 .. (n - 1) /\ q[i - 1] = x
    BY <1>1, <1>2, <2>1, <2>2
  <2>4. QED
    BY <1>2, <2>3, Zenon DEF Range
<1>8. QED
  BY <1>2, <1>4, <1>5, <1>6, <1>7, Zenon DEF q

(* An order of S is a queue of all of S.                                   *)
LEMMA OrderFacts ==
    ASSUME NEW S \in SUBSET Contexts, NEW s \in Orders(S)
    PROVE  s \in Seq(S) /\ IsInjective(s) /\ Range(s) = S
<1>1. PICK n \in 0 .. Cardinality(S) : s \in Bijection(1 .. n, S)
  BY Zenon DEF Orders
<1>2. n \in Nat
  OBVIOUS
<1>3. s \in [1 .. n -> S] /\ IsInjective(s)
  BY <1>1, Zenon DEF Bijection, Injection
<1>4. \A x \in S : \E i \in 1 .. n : s[i] = x
  BY <1>1, Zenon DEF Bijection, Surjection
<1>5. Range(s) = S
  BY <1>3, <1>4, Zenon DEF Range
<1>6. QED
  BY <1>2, <1>3, <1>5

(* There is an order of nothing.                                           *)
LEMMA EmptyOrder == <<>> \in Orders({})
<1> DEFINE G(f) == [T \in SUBSET {} |-> IF T = {} THEN 0 ELSE 1 + f[T \ {CHOOSE x : x \in T}]]
           CS == CHOOSE f : f = G(f)
           z == [T \in SUBSET {} |-> 0]
<1>1. z = G(z)
  BY \A T \in SUBSET {} : T = {}, Zenon
<1>2. Cardinality({}) = CS[{}]
  BY Zenon DEF Cardinality
<1> HIDE DEF G, z
<1>3. CS = G(CS)
  BY <1>1, Zenon
<1> HIDE DEF CS
<1>4. CS[{}] = 0
  BY <1>3, Zenon DEF G
<1>5. 0 \in 0 .. Cardinality({})
  BY <1>2, <1>4
<1>6. 1 .. 0 = {} /\ <<>> \in [{} -> {}]
  OBVIOUS
<1>7. <<>> \in Bijection(1 .. 0, {})
  BY <1>6, EmptyFacts, Zenon DEF Bijection, Injection, Surjection
<1>8. QED
  BY <1>5, <1>7, Zenon DEF Orders

(* What comes after a queue is behind what is in it.                       *)
LEMMA BehindCat ==
    ASSUME NEW N, NEW s \in Seq(N), NEW t \in Seq(N), NEW X, BehindStop(s, X), NEW Y \in SUBSET X,
           "stop" \notin Range(t), Range(t) \cap Y = {}
    PROVE  BehindStop(s \o t, Y)
<1> DEFINE m == Len(s)
           n == Len(t)
           q == s \o t
<1>1. m \in Nat /\ n \in Nat /\ Len(q) = m + n
  OBVIOUS
<1>2. /\ \A i \in 1 .. m : q[i] = s[i]
      /\ \A i \in (m + 1) .. (m + n) : i - m \in 1 .. n /\ q[i] = t[i - m]
  OBVIOUS
<1>3. \A i \in 1 .. n : t[i] \in Range(t)
  BY DEF Range
<1> HIDE DEF m, n, q
<1>4. ASSUME NEW i \in 1 .. Len(q), NEW j \in 1 .. Len(q), i < j, q[i] = "stop" PROVE q[j] \notin Y
  <2>1. i \in 1 .. m
    <3>1. i \in 1 .. m \/ i \in (m + 1) .. (m + n)
      BY <1>1
    <3>2. QED
      BY <1>2, <1>3, <1>4, <3>1, Zenon
  <2>2. CASE j \in 1 .. m
    BY <1>2, <1>4, <2>1, <2>2, Zenon DEF BehindStop, m
  <2>3. CASE j \in (m + 1) .. (m + n)
    BY <1>2, <1>3, <2>3, Zenon
  <2>4. QED
    BY <1>1, <2>2, <2>3
<1>5. QED
  BY <1>4, Zenon DEF BehindStop, q

(* The procedure of shutdown is the last one when it comes.                *)
LEMMA BehindLast ==
    ASSUME NEW N, NEW s \in Seq(N), "stop" \notin Range(s), NEW X
    PROVE  BehindStop(Append(s, "stop"), X)
<1>1. \A i \in 1 .. Len(s) : s[i] # "stop"
  BY DEF Range
<1>2. QED
  BY <1>1 DEF BehindStop

(* The head leaves, and others join at the end.                            *)
LEMMA Requeue ==
    ASSUME NEW N, NEW s \in Seq(N), s # <<>>, IsInjective(s), NEW t \in Seq(N), IsInjective(t),
           Range(t) \cap (Range(s) \ {Head(s)}) = {}
    PROVE  /\ Head(s) \in Range(s)
           /\ Tail(s) \o t \in Seq(N) /\ IsInjective(Tail(s) \o t)
           /\ Range(Tail(s) \o t) = (Range(s) \ {Head(s)}) \cup Range(t)
           /\ \A X : \A Y \in SUBSET X :
                  BehindStop(s, X) /\ "stop" \notin Range(t) /\ Range(t) \cap Y = {}
                      => BehindStop(Tail(s) \o t, Y)
<1>1. /\ Head(s) \in Range(s) /\ Tail(s) \in Seq(N) /\ IsInjective(Tail(s))
      /\ Range(Tail(s)) = Range(s) \ {Head(s)}
  BY TailFacts, Zenon
<1>2. /\ Tail(s) \o t \in Seq(N) /\ IsInjective(Tail(s) \o t)
      /\ Range(Tail(s) \o t) = (Range(s) \ {Head(s)}) \cup Range(t)
  <2> DEFINE q == Tail(s)
  <2> HIDE DEF q
  <2>0. q \in Seq(N) /\ IsInjective(q) /\ Range(q) \cap Range(t) = {}
    BY <1>1, Zenon DEF q
  <2>1. q \o t \in Seq(N) /\ IsInjective(q \o t) /\ Range(q \o t) = Range(q) \cup Range(t)
    BY <2>0, CatFacts
  <2>2. QED
    BY <1>1, <2>1, Zenon DEF q
<1>3. ASSUME NEW X, NEW Y \in SUBSET X, BehindStop(s, X), "stop" \notin Range(t), Range(t) \cap Y = {}
      PROVE  BehindStop(Tail(s) \o t, Y)
  <2>1. BehindStop(Tail(s), X)
    <3>1. /\ Len(s) \in Nat /\ Len(Tail(s)) = Len(s) - 1
          /\ \A i \in 1 .. (Len(s) - 1) : Tail(s)[i] = s[i + 1]
      OBVIOUS
    <3> DEFINE q == Tail(s)
    <3> HIDE DEF q
    <3>2. ASSUME NEW i \in 1 .. Len(q), NEW j \in 1 .. Len(q), i < j, q[i] = "stop" PROVE q[j] \notin X
      <4>1. /\ i + 1 \in 1 .. Len(s) /\ j + 1 \in 1 .. Len(s) /\ i + 1 < j + 1
            /\ s[i + 1] = "stop" /\ s[j + 1] = q[j]
        BY <3>1, <3>2 DEF q
      <4>2. QED
        BY <1>3, <4>1, Zenon DEF BehindStop
    <3>3. QED
      BY <3>2, Zenon DEF BehindStop, q
  <2>2. QED
    BY <1>1, <1>3, <2>1, BehindCat, Zenon
<1>4. QED
  BY <1>1, <1>2, <1>3, Zenon

(* The names that the model gives to contexts.                             *)
LEMMA NameFacts ==
    /\ Requests \subseteq Contexts /\ "pull" \in Contexts /\ "stop" \in Contexts
    /\ "pull" \notin Requests /\ "stop" \notin Requests /\ "main" \notin Contexts
    /\ Contexts \subseteq Names /\ "main" \in Names /\ "pull" # "stop"
    /\ \A c \in Contexts : c \in Requests \/ c = "pull" \/ c = "stop"
    /\ Seq(Requests \cup {"stop"}) \subseteq Seq(Names)
    /\ Seq(Requests \cup {"pull"}) \subseteq Seq(Names)
<1>1. Requests \cap {"pull", "stop", "main"} = {}
  BY ProxyAssumption, Zenon
<1>2. Requests \cup {"stop"} \subseteq Names /\ Requests \cup {"pull"} \subseteq Names
  BY Zenon DEF Names, Contexts
<1>3. Seq(Requests \cup {"stop"}) \subseteq Seq(Names) /\ Seq(Requests \cup {"pull"}) \subseteq Seq(Names)
  BY <1>2
<1>4. QED
  BY <1>1, <1>3, Zenon DEF Names, Contexts

-----------------------------------------------------------------------------
(* Steps that leave the contexts and their queues alone.                   *)
LEMMA SameQueues ==
    ASSUME UNCHANGED <<ctx, ready, remote, waiters>>
    PROVE  /\ Queued' = Queued /\ Sent' = Sent /\ Waiting' = Waiting
           /\ Pending' = Pending /\ RemoteRequests' = RemoteRequests /\ InGroup' = InGroup
           /\ NoContexts' <=> NoContexts
BY Zenon DEF Queued, Sent, Waiting, Pending, RemoteRequests, InGroup, NoContexts

(* Neither do they move what was asked.                                    *)
LEMMA SameCalls ==
    ASSUME ProxyInv, UNCHANGED <<ctx, ready, remote, waiters, asked, called>>, m_stop' \in BOOLEAN
    PROVE  ProxyTypes' /\ Places' /\ Calls'
<1>1. ProxyTypes'
  BY Zenon DEF ProxyInv, ProxyTypes
<1>2. Places'
  BY SameQueues, Zenon DEF ProxyInv, Places
<1>3. Calls'
  BY SameQueues, Zenon DEF ProxyInv, Calls
<1>4. QED
  BY <1>1, <1>2, <1>3, Zenon

(* init: no context is left of an earlier worker.                          *)
LEMMA InitKeeps ==
    ASSUME ProxyInv, init
    PROVE  ProxyInv'
<1>1. /\ UNCHANGED <<ctx, ready, remote, waiters, asked, called>>
      /\ m_stop' = FALSE /\ main' = "starting" /\ m_state' = "initializing"
      /\ m_state = "not_initialized" /\ client = "idle" /\ client' = client
  BY Zenon DEF init, httpVars, callVars
<1>2. ProxyTypes' /\ Places' /\ Calls'
  BY <1>1, SameCalls, Zenon
<1>3. main = "none"
  BY <1>1, Zenon DEF ProxyInv, Phases
<1>4. NoContexts /\ remote = <<>>
  BY <1>3, Zenon DEF ProxyInv, Phases
<1>5. Phases'
  BY <1>1, <1>4, SameQueues, Zenon DEF ProxyInv, Phases
<1>6. StopOrder'
  BY <1>1, <1>4, SameQueues, NameFacts, Zenon DEF ProxyInv, Phases, StopOrder
<1>7. MainQueued'
  <2>1. Queued = {}
    BY <1>4, EmptyFacts, Zenon DEF NoContexts, Queued
  <2>2. QED
    BY <1>1, <2>1, SameQueues, Zenon DEF MainQueued
<1>8. QED
  BY <1>2, <1>5, <1>6, <1>7, Zenon DEF ProxyInv

(* joined: nor of the worker that has ended.                               *)
LEMMA JoinedKeeps ==
    ASSUME ProxyInv, joined
    PROVE  ProxyInv'
<1>1. /\ UNCHANGED <<ctx, ready, remote, waiters, asked, called, m_stop>>
      /\ main = "ended" /\ main' = "none" /\ m_state' = "not_initialized" /\ client' = "idle"
  BY Zenon DEF joined, httpVars, callVars
<1>2. ProxyTypes' /\ Places' /\ Calls'
  <2>1. m_stop' \in BOOLEAN
    BY <1>1, Zenon DEF ProxyInv, ProxyTypes
  <2>2. QED
    BY <1>1, <2>1, SameCalls, Zenon
<1>4. NoContexts /\ remote = <<>>
  BY <1>1, Zenon DEF ProxyInv, Phases
<1>9. Queued = {} /\ Sent = {}
  BY <1>4, EmptyFacts, Zenon DEF NoContexts, Queued, Sent
<1>10. ctx["stop"] = "none"
  BY <1>4, NameFacts, Zenon DEF NoContexts
<1>5. Phases'
  BY <1>1, <1>4, <1>9, <1>10, SameQueues, Zenon DEF Phases
<1>6. StopOrder'
  BY <1>1, <1>9, <1>10, SameQueues, Zenon DEF StopOrder
<1>7. MainQueued'
  BY <1>1, <1>9, SameQueues, Zenon DEF MainQueued
<1>8. QED
  BY <1>2, <1>5, <1>6, <1>7, Zenon DEF ProxyInv

(* A step that changes nothing the invariant is about.                     *)
LEMMA SameKeeps ==
    ASSUME ProxyInv,
           UNCHANGED <<ctx, ready, remote, waiters, asked, called, m_stop, main, m_state, client>>
    PROVE  ProxyInv'
<1>1. ProxyTypes' /\ Places' /\ Calls'
  <2>1. m_stop' \in BOOLEAN
    BY Zenon DEF ProxyInv, ProxyTypes
  <2>2. QED
    BY <2>1, SameCalls, Zenon
<1>2. Phases'
  BY SameQueues, Zenon DEF ProxyInv, Phases
<1>3. StopOrder'
  BY SameQueues, Zenon DEF ProxyInv, StopOrder
<1>4. MainQueued'
  BY SameQueues, Zenon DEF ProxyInv, MainQueued
<1>5. QED
  BY <1>1, <1>2, <1>3, <1>4, Zenon DEF ProxyInv

(* shutdown: it goes on to wait, finds the proxy not initialized, or sends *)
(* its procedure, behind all others.                                       *)
LEMMA ShutdownKeeps ==
    ASSUME ProxyInv, client # "joining",
           UNCHANGED <<ctx, ready, waiters, asked, called, m_stop, main, m_state>>,
           \/ client' \in {"idle", "waiting"} /\ remote' = remote
           \/ m_state # "not_initialized" /\ m_state # "initializing"
              /\ remote' = Append(remote, "stop") /\ client' = "joining"
    PROVE  ProxyInv'
<1>1. CASE client' \in {"idle", "waiting"} /\ remote' = remote
  <2>1. ProxyTypes' /\ Places' /\ Calls'
    <3>1. m_stop' \in BOOLEAN
      BY Zenon DEF ProxyInv, ProxyTypes
    <3>2. QED
      BY <1>1, <3>1, SameCalls, Zenon
  <2>2. Phases'
    BY <1>1, SameQueues, Zenon DEF ProxyInv, Phases
  <2>3. StopOrder'
    BY <1>1, SameQueues, Zenon DEF ProxyInv, StopOrder
  <2>4. MainQueued'
    BY <1>1, SameQueues, Zenon DEF ProxyInv, MainQueued
  <2>5. QED
    BY <2>1, <2>2, <2>3, <2>4, Zenon DEF ProxyInv
<1>2. CASE m_state # "not_initialized" /\ m_state # "initializing"
           /\ remote' = Append(remote, "stop") /\ client' = "joining"
  <2>1. "stop" \notin Sent /\ ctx["stop"] = "none" /\ main \notin {"none", "starting"} /\ ~m_stop
    BY <1>2, Zenon DEF ProxyInv, ProxyTypes, Phases, StopOrder
  <2>2. /\ remote' \in Seq(Requests \cup {"stop"}) /\ IsInjective(remote')
        /\ Sent' = Sent \cup {"stop"} /\ BehindStop(remote', Requests)
    <3> DEFINE N == Requests \cup {"stop"}
    <3>1. remote \in Seq(N) /\ IsInjective(remote) /\ remote' = remote \o <<"stop">>
      BY <1>2 DEF ProxyInv, ProxyTypes
    <3>2. <<"stop">> \in Seq(N) /\ IsInjective(<<"stop">>) /\ Range(<<"stop">>) = {"stop"}
      BY OneFacts, Zenon
    <3>3. Range(remote) \cap Range(<<"stop">>) = {}
      BY <2>1, <3>2, Zenon DEF Sent
    <3> HIDE DEF N
    <3>4. /\ remote' \in Seq(N) /\ IsInjective(remote')
          /\ Range(remote') = Range(remote) \cup Range(<<"stop">>)
      <4> DEFINE t == <<"stop">>
      <4>1. t \in Seq(N) /\ IsInjective(t) /\ Range(remote) \cap Range(t) = {}
        BY <3>2, <3>3, Zenon
      <4> HIDE DEF t
      <4>2. remote' = remote \o t
        BY <3>1, Zenon DEF t
      <4>3. /\ remote \o t \in Seq(N) /\ IsInjective(remote \o t)
            /\ Range(remote \o t) = Range(remote) \cup Range(t)
        BY <3>1, <4>1, CatFacts
      <4>4. QED
        BY <4>2, <4>3, Zenon DEF t
    <3>5. BehindStop(remote', Requests)
      BY <1>2, <2>1, <3>1, BehindLast, Zenon DEF Sent
    <3>6. QED
      BY <3>2, <3>4, <3>5, Zenon DEF N, Sent
  <2>3. /\ Queued' = Queued /\ Waiting' = Waiting /\ Pending' = Pending
        /\ RemoteRequests' = RemoteRequests /\ InGroup' = InGroup /\ (NoContexts' <=> NoContexts)
    BY <2>2, NameFacts, Zenon DEF Queued, Waiting, Pending, RemoteRequests, InGroup, NoContexts
  <2>4. ProxyTypes'
    BY <2>2, Zenon DEF ProxyInv, ProxyTypes
  <2>5. Places'
    BY <2>1, <2>2, <2>3, Zenon DEF ProxyInv, Places
  <2>6. Calls'
    BY <2>3, Zenon DEF ProxyInv, Calls
  <2>7. Phases'
    BY <1>2, <2>1, <2>3, Zenon DEF ProxyInv, Phases
  <2>8. StopOrder'
    BY <2>1, <2>2, Zenon DEF StopOrder
  <2>9. MainQueued'
    BY <2>3, Zenon DEF ProxyInv, MainQueued
  <2>10. QED
    BY <2>4, <2>5, <2>6, <2>7, <2>8, <2>9, Zenon DEF ProxyInv
<1>3. QED
  BY <1>1, <1>2, Zenon

(* A queue holds what its type says.                                       *)
LEMMA RangeType ==
    ASSUME NEW N, NEW s \in Seq(N)
    PROVE  Range(s) \subseteq N
BY DEF Range

(* The procedures that are sent, with more behind them.                    *)
LEMMA SentMore ==
    ASSUME ProxyInv, NEW t \in Seq(Requests), IsInjective(t), Range(t) \cap Sent = {},
           remote' = remote \o t
    PROVE  /\ remote' \in Seq(Requests \cup {"stop"}) /\ IsInjective(remote')
           /\ Sent' = Sent \cup Range(t)
<1> DEFINE N == Requests \cup {"stop"}
<1>1. remote \in Seq(N) /\ IsInjective(remote) /\ t \in Seq(N)
  BY DEF ProxyInv, ProxyTypes
<1>2. Range(remote) \cap Range(t) = {}
  BY Zenon DEF Sent
<1> HIDE DEF N
<1>3. /\ remote \o t \in Seq(N) /\ IsInjective(remote \o t)
      /\ Range(remote \o t) = Range(remote) \cup Range(t)
  BY <1>1, <1>2, CatFacts
<1>4. QED
  BY <1>3, Zenon DEF N, Sent

(* A request is called back at once or scheduled.                          *)
LEMMA RequestKeeps ==
    ASSUME ProxyInv, NEW r \in Requests, request(r)
    PROVE  ProxyInv'
<1>1. /\ client # "joining" /\ r \notin asked /\ \A q \in Requests : r \notin Following[q]
      /\ asked' = asked \cup {r}
      /\ UNCHANGED <<ctx, ready, waiters, m_stop, main, m_state, client>>
  BY Zenon DEF request, mutexFree, clientVars, httpVars
<1>2. r \notin Pending /\ r \notin Sent /\ ctx[r] = "none" /\ called[r] = 0
  BY <1>1, Zenon DEF ProxyInv, Calls, Pending
<1>3. \A q \in Requests : Following[q] \cap asked' # {} => Following[q] \cap asked # {}
  BY <1>1, Zenon
<1>4. CASE m_state # "initialized"
  <2>1. called' = [called EXCEPT ![r] = @ + 1] /\ remote' = remote
    BY <1>4, Zenon DEF request
  <2>2. called' \in [Requests -> Nat] /\ called'[r] = 1 /\ \A q \in Requests : q # r => called'[q] = called[q]
    BY <1>2, <2>1 DEF ProxyInv, ProxyTypes
  <2>3. ProxyTypes'
    BY <1>1, <2>1, <2>2, Zenon DEF ProxyInv, ProxyTypes
  <2>4. Places'
    BY <1>1, <2>1, SameQueues, Zenon DEF ProxyInv, Places
  <2>5. Calls'
    <3>1. Pending' = Pending
      BY <1>1, <2>1, SameQueues, Zenon
    <3>2. \A q \in Requests : called'[q] = IF q \in asked' \ Pending' THEN 1 ELSE 0
      BY <1>1, <1>2, <2>2, <3>1, Zenon DEF ProxyInv, Calls
    <3>3. \A q \in Requests : Following[q] \cap asked' # {} => called'[q] = 1
      BY <1>2, <1>3, <2>2, Zenon DEF ProxyInv, Calls
    <3>4. QED
      BY <1>1, <3>1, <3>2, <3>3, Zenon DEF ProxyInv, Calls
  <2>6. Phases'
    BY <1>1, <2>1, SameQueues, Zenon DEF ProxyInv, Phases
  <2>7. StopOrder'
    BY <1>1, <2>1, SameQueues, Zenon DEF ProxyInv, StopOrder
  <2>8. MainQueued'
    BY <1>1, <2>1, SameQueues, Zenon DEF ProxyInv, MainQueued
  <2>9. QED
    BY <2>3, <2>4, <2>5, <2>6, <2>7, <2>8, Zenon DEF ProxyInv
<1>5. CASE m_state = "initialized"
  <2>1. called' = called /\ remote' = Append(remote, r)
    BY <1>5, Zenon DEF request
  <2>2. /\ remote' \in Seq(Requests \cup {"stop"}) /\ IsInjective(remote')
        /\ Sent' = Sent \cup {r}
    <3> DEFINE t == <<r>>
    <3>1. t \in Seq(Requests) /\ IsInjective(t) /\ Range(t) = {r}
      BY OneFacts, Zenon
    <3>2. remote' = remote \o t
      BY <2>1 DEF ProxyInv, ProxyTypes
    <3> HIDE DEF t
    <3>3. Range(t) \cap Sent = {}
      BY <1>2, <3>1, Zenon
    <3>4. QED
      BY <3>1, <3>2, <3>3, SentMore, ZenonT(60)
  <2>3. ~m_stop /\ main \in {"initialized", "waiting"} /\ "stop" \notin Sent /\ ctx["stop"] = "none"
    BY <1>1, <1>5, Zenon DEF ProxyInv, ProxyTypes, Phases, StopOrder
  <2>4. /\ Queued' = Queued /\ Waiting' = Waiting /\ InGroup' = InGroup /\ Pending' = Pending \cup {r}
        /\ RemoteRequests' = RemoteRequests /\ (NoContexts' <=> NoContexts)
    BY <1>1, <2>2, Zenon DEF Queued, Waiting, InGroup, Pending, RemoteRequests, NoContexts
  <2>5. ProxyTypes'
    BY <1>1, <2>1, <2>2, Zenon DEF ProxyInv, ProxyTypes
  <2>6. Places'
    BY <1>1, <1>2, <2>2, <2>4, Zenon DEF ProxyInv, Places
  <2>7. Calls'
    BY <1>1, <1>2, <1>3, <2>1, <2>4, Zenon DEF ProxyInv, Calls
  <2>8. "stop" \notin Sent'
    BY <2>2, <2>3, NameFacts, Zenon
  <2>9. Phases'
    BY <1>1, <2>3, <2>4, <2>8, Zenon DEF ProxyInv, Phases
  <2>10. StopOrder'
    BY <1>1, <2>3, <2>8, Zenon DEF StopOrder
  <2>11. MainQueued'
    BY <1>1, <2>3, <2>4, Zenon DEF ProxyInv, MainQueued
  <2>12. QED
    BY <2>5, <2>6, <2>7, <2>9, <2>10, <2>11, Zenon DEF ProxyInv
<1>6. QED
  BY <1>4, <1>5, Zenon

(* workerThread starts with no context.                                    *)
LEMMA WorkerStartsKeeps ==
    ASSUME ProxyInv, workerStarts
    PROVE  ProxyInv'
<1>1. /\ UNCHANGED <<ctx, ready, remote, asked, called, m_stop, client>> /\ waiters' = <<>>
      /\ main = "starting" /\ main' = "initialized" /\ m_state' = "initialized"
      /\ client # "joining"
  BY Zenon DEF workerStarts, mutexFree, clientVars, callVars
<1>2. NoContexts /\ remote = <<>> /\ waiters' = waiters /\ ~m_stop
  BY <1>1, Zenon DEF ProxyInv, ProxyTypes, Phases, NoContexts, StopOrder
<1>3. ProxyTypes' /\ Places' /\ Calls'
  <2>1. m_stop' \in BOOLEAN
    BY <1>1, Zenon DEF ProxyInv, ProxyTypes
  <2>2. QED
    BY <1>1, <1>2, <2>1, SameCalls, Zenon
<1>4. Phases'
  BY <1>1, <1>2, SameQueues, Zenon DEF ProxyInv, Phases
<1>5. StopOrder'
  BY <1>1, <1>2, SameQueues, Zenon DEF ProxyInv, StopOrder
<1>6. MainQueued'
  BY <1>1, <1>2, SameQueues, Zenon DEF ProxyInv, MainQueued
<1>7. QED
  BY <1>3, <1>4, <1>5, <1>6, Zenon DEF ProxyInv

(* The context that pulls is the first one.                                *)
LEMMA SpawnPullKeeps ==
    ASSUME ProxyInv, spawnPull
    PROVE  ProxyInv'
<1>1. /\ UNCHANGED <<remote, waiters, asked, called, m_stop, m_state, client>>
      /\ main = "initialized" /\ main' = "waiting"
      /\ ctx' = [ctx EXCEPT !["pull"] = "loop"] /\ ready' = Append(ready, "pull")
  BY Zenon DEF spawnPull, clientVars, callVars, httpVars
<1>2. NoContexts
  BY <1>1, Zenon DEF ProxyInv, Phases
<1>3. /\ ctx' \in [Contexts -> RequestStates \cup PullStates \cup StopStates]
      /\ ctx'["pull"] = "loop" /\ \A c \in Contexts : c # "pull" => ctx'[c] = "none"
  BY <1>1, <1>2, NameFacts, Zenon DEF ProxyInv, ProxyTypes, NoContexts, PullStates
<1>4. ready' \in Seq(Names) /\ IsInjective(ready') /\ Queued' = {"pull"}
  <2>1. ready' = <<"pull">>
    BY <1>1, <1>2 DEF NoContexts
  <2>2. <<"pull">> \in Seq(Names) /\ IsInjective(<<"pull">>) /\ Range(<<"pull">>) = {"pull"}
    BY OneFacts, NameFacts, Zenon
  <2>3. QED
    BY <2>1, <2>2, Zenon DEF Queued
<1>5. Queued = {} /\ Waiting = {} /\ Waiting' = {} /\ Sent' = Sent
  BY <1>1, <1>2, EmptyFacts, Zenon DEF NoContexts, Queued, Waiting, Sent
<1>6. ctx'["stop"] = "none" /\ \A r \in Requests : ctx'[r] = "none" /\ ctx[r] = "none"
  BY <1>2, <1>3, NameFacts, Zenon DEF NoContexts
<1>7. Pending' = Pending
  BY <1>5, <1>6, Zenon DEF Pending
<1>8. ProxyTypes'
  BY <1>1, <1>3, <1>4, <1>6, Zenon DEF ProxyInv, ProxyTypes, RequestStates, PullStates, StopStates
<1>9. Places'
  <2>1. "pull" \notin Sent
    BY NameFacts, RangeType, Zenon DEF ProxyInv, ProxyTypes, Sent
  <2>2. QED
    BY <1>2, <1>3, <1>4, <1>5, <2>1, Zenon DEF Places, Runnable
<1>10. Calls'
  BY <1>1, <1>7, Zenon DEF ProxyInv, Calls
<1>11. Phases'
  BY <1>1, <1>3, <1>5, <1>6, Zenon DEF ProxyInv, Phases
<1>12. StopOrder'
  <2>1. m_stop => RemoteRequests' = {}
    BY <1>6, Zenon DEF RemoteRequests
  <2>2. QED
    BY <1>1, <1>5, <1>6, <2>1, Zenon DEF ProxyInv, StopOrder
<1>13. MainQueued'
  BY <1>1, <1>4, Zenon DEF MainQueued
<1>14. QED
  BY <1>8, <1>9, <1>10, <1>11, <1>12, <1>13, Zenon DEF ProxyInv

(* Each remote procedure gets a context, in the order in which they came.  *)
LEMMA DispatchRemoteKeeps ==
    ASSUME ProxyInv, dispatchRemote
    PROVE  ProxyInv'
<1>1. /\ UNCHANGED <<waiters, asked, called, m_stop, m_state, client, main>>
      /\ main = "waiting" /\ ready = <<>> /\ remote # <<>> /\ ready' = remote /\ remote' = <<>>
      /\ ctx' = [c \in Contexts |-> IF c \in Range(remote) THEN "remote" ELSE ctx[c]]
  BY Zenon DEF dispatchRemote, clientVars, callVars, httpVars
<1>2. /\ Queued = {} /\ Queued' = Sent /\ Sent' = {} /\ Waiting' = Waiting
      /\ IsInjective(remote')
  BY <1>1, EmptyFacts, Zenon DEF Queued, Sent, Waiting
<1>3. \A c \in Contexts : ctx'[c] = IF c \in Sent THEN "remote" ELSE ctx[c]
  BY <1>1, Zenon DEF Sent
<1>4. Sent \subseteq Requests \cup {"stop"}
  BY RangeType, Zenon DEF ProxyInv, ProxyTypes, Sent
<1>5. "pull" \notin Sent /\ "main" \notin Sent /\ ctx'["pull"] = ctx["pull"]
  BY <1>3, <1>4, NameFacts, Zenon
<1>6. ProxyTypes'
  <2>1. ready' \in Seq(Names) /\ IsInjective(ready')
    BY <1>1, NameFacts, Zenon DEF ProxyInv, ProxyTypes
  <2>2. /\ ctx' \in [Contexts -> RequestStates \cup PullStates \cup StopStates]
        /\ \A r \in Requests : ctx'[r] \in RequestStates
        /\ ctx'["pull"] \in PullStates /\ ctx'["stop"] \in StopStates
    BY <1>1, <1>3, <1>5, NameFacts, Zenon DEF ProxyInv, ProxyTypes, RequestStates, StopStates
  <2>3. remote' \in Seq(Requests \cup {"stop"})
    BY <1>1
  <2>4. QED
    BY <1>1, <1>2, <2>1, <2>2, <2>3, Zenon DEF ProxyInv, ProxyTypes
<1>7. Places'
  BY <1>2, <1>3, Zenon DEF ProxyInv, Places, Runnable
<1>8. Pending' = Pending
  BY <1>2, <1>3, NameFacts, Zenon DEF Pending
<1>9. Calls'
  BY <1>1, <1>8, Zenon DEF ProxyInv, Calls
<1>10. ~m_stop /\ ctx["stop"] # "remote"
  BY <1>1, Zenon DEF ProxyInv, ProxyTypes, StopOrder
<1>11. Phases'
  BY <1>1, <1>2, <1>3, <1>5, <1>10, NameFacts, Zenon DEF ProxyInv, Phases
<1>12. StopOrder'
  <2>1. ctx'["stop"] = "remote" => "stop" \in Sent
    BY <1>3, <1>10, NameFacts, Zenon
  <2>2. RemoteRequests' \subseteq Requests
    BY Zenon DEF RemoteRequests
  <2>3. "stop" \in Sent => BehindStop(ready', RemoteRequests')
    BY <1>1, <2>2, Zenon DEF ProxyInv, StopOrder, BehindStop
  <2>4. QED
    BY <1>1, <1>2, <1>10, <2>1, <2>3, Zenon DEF StopOrder
<1>13. MainQueued'
  BY <1>1, <1>2, <1>5, Zenon DEF MainQueued
<1>14. QED
  BY <1>6, <1>7, <1>9, <1>11, <1>12, <1>13, Zenon DEF ProxyInv

(* The timer or an answer resumes one context.                             *)
LEMMA DispatchSignalledKeeps ==
    ASSUME ProxyInv, NEW c \in Contexts, dispatchSignalled(c)
    PROVE  ProxyInv'
<1>1. /\ UNCHANGED <<remote, waiters, asked, called, m_stop, m_state, client, main>>
      /\ main = "waiting" /\ ready = <<>> /\ ctx[c] \in {"replied", "sleep"} /\ ready' = <<c>>
      /\ ctx' = [ctx EXCEPT ![c] = IF ctx[c] = "sleep" THEN "loop" ELSE "answered"]
  BY Zenon DEF dispatchSignalled, Signalled, woken, clientVars, callVars, httpVars
<1>2. /\ Queued = {} /\ Queued' = {c} /\ Sent' = Sent /\ Waiting' = Waiting
      /\ ready' \in Seq(Names) /\ IsInjective(ready')
  <2>1. <<c>> \in Seq(Names) /\ IsInjective(<<c>>) /\ Range(<<c>>) = {c}
    BY OneFacts, NameFacts, Zenon
  <2>2. QED
    BY <1>1, <2>1, EmptyFacts, Zenon DEF Queued, Sent, Waiting
<1>3. /\ ctx'[c] = IF ctx[c] = "sleep" THEN "loop" ELSE "answered"
      /\ \A d \in Contexts : d # c => ctx'[d] = ctx[d]
  BY <1>1, Zenon DEF ProxyInv, ProxyTypes
<1>4. c # "stop" /\ (ctx[c] = "sleep" => c = "pull") /\ c \notin Sent /\ c \notin Waiting /\ c # "main"
  BY <1>1, NameFacts, Zenon DEF ProxyInv, ProxyTypes, Places, RequestStates, StopStates
<1>5. ProxyTypes'
  <2>1. /\ ctx' \in [Contexts -> RequestStates \cup PullStates \cup StopStates]
        /\ \A r \in Requests : ctx'[r] \in RequestStates
        /\ ctx'["pull"] \in PullStates /\ ctx'["stop"] \in StopStates
    BY <1>1, <1>3, <1>4, NameFacts, Zenon DEF ProxyInv, ProxyTypes, RequestStates, PullStates
  <2>2. QED
    BY <1>1, <1>2, <2>1, Zenon DEF ProxyInv, ProxyTypes
<1>6. Places'
  BY <1>1, <1>2, <1>3, <1>4, Zenon DEF ProxyInv, Places, Runnable
<1>7. Pending' = Pending /\ RemoteRequests' = RemoteRequests
  BY <1>1, <1>2, <1>3, NameFacts DEF Pending, RemoteRequests
<1>8. Calls'
  BY <1>1, <1>7, Zenon DEF ProxyInv, Calls
<1>9. ctx'["stop"] = ctx["stop"] /\ (ctx'["pull"] = "none" <=> ctx["pull"] = "none")
  BY <1>1, <1>3, <1>4, NameFacts
<1>10. Phases'
  BY <1>1, <1>2, <1>9, Zenon DEF ProxyInv, Phases
<1>11. StopOrder'
  <2>1. ctx["stop"] # "remote"
    BY <1>2, NameFacts, Zenon DEF ProxyInv, Places, Runnable
  <2>2. QED
    BY <1>1, <1>2, <1>7, <1>9, <2>1, Zenon DEF ProxyInv, StopOrder
<1>12. MainQueued'
  BY <1>1, <1>2, <1>4, Zenon DEF MainQueued
<1>13. QED
  BY <1>5, <1>6, <1>8, <1>10, <1>11, <1>12, Zenon DEF ProxyInv

(* The node answers.                                                       *)
LEMMA NodeAnswersKeeps ==
    ASSUME ProxyInv, NEW c \in Contexts, nodeAnswers(c)
    PROVE  ProxyInv'
<1>1. /\ UNCHANGED <<ready, remote, waiters, asked, called, m_stop, m_state, client, main>>
      /\ ctx[c] = "http" /\ ctx' = [ctx EXCEPT ![c] = "replied"]
  BY Zenon DEF nodeAnswers, clientVars, callVars, httpVars
<1>2. Queued' = Queued /\ Sent' = Sent /\ Waiting' = Waiting
  BY <1>1, Zenon DEF Queued, Sent, Waiting
<1>3. ctx'[c] = "replied" /\ \A d \in Contexts : d # c => ctx'[d] = ctx[d]
  BY <1>1, Zenon DEF ProxyInv, ProxyTypes
<1>4. c # "stop" /\ c \notin Sent /\ c \notin Waiting /\ c \notin Queued
  BY <1>1, NameFacts, Zenon DEF ProxyInv, ProxyTypes, Places, RequestStates, StopStates, Runnable
<1>5. ProxyTypes'
  <2>1. /\ ctx' \in [Contexts -> RequestStates \cup PullStates \cup StopStates]
        /\ \A r \in Requests : ctx'[r] \in RequestStates
        /\ ctx'["pull"] \in PullStates /\ ctx'["stop"] \in StopStates
    BY <1>1, <1>3, <1>4, NameFacts, Zenon DEF ProxyInv, ProxyTypes, RequestStates, PullStates
  <2>2. QED
    BY <1>1, <1>2, <2>1, Zenon DEF ProxyInv, ProxyTypes
<1>6. Places'
  BY <1>1, <1>2, <1>3, <1>4, Zenon DEF ProxyInv, Places, Runnable
<1>7. Pending' = Pending /\ RemoteRequests' = RemoteRequests /\ InGroup' = InGroup
  BY <1>1, <1>2, <1>3, NameFacts, Zenon DEF Pending, RemoteRequests, InGroup
<1>8. Calls'
  BY <1>1, <1>7, Zenon DEF ProxyInv, Calls
<1>9. /\ ctx'["stop"] = ctx["stop"] /\ (ctx'["pull"] = "none" <=> ctx["pull"] = "none")
      /\ ~NoContexts
  BY <1>1, <1>3, <1>4, NameFacts, Zenon DEF NoContexts
<1>10. Phases'
  BY <1>1, <1>2, <1>9, Zenon DEF ProxyInv, Phases
<1>11. StopOrder'
  BY <1>1, <1>2, <1>7, <1>9, Zenon DEF ProxyInv, StopOrder
<1>12. MainQueued'
  BY <1>1, <1>2, <1>7, Zenon DEF ProxyInv, MainQueued
<1>13. QED
  BY <1>5, <1>6, <1>8, <1>10, <1>11, <1>12, Zenon DEF ProxyInv

-----------------------------------------------------------------------------
(* The contexts.  The one that is resumed leaves the queue, and it may     *)
(* wake those who wait for m_httpEvent.                                    *)
Wakes(t) ==
    \/ t = <<>> /\ waiters' = waiters
    \/ t = waiters /\ waiters' = <<>>

(* What is left of the queue, and what joins it.                           *)
LEMMA ResumeFacts ==
    ASSUME ProxyInv, NEW c \in Names, Resumed(c), NEW t, Wakes(t)
    PROVE  /\ c \in Queued /\ Head(ready) = c /\ main \in {"waiting", "yielding"}
           /\ Tail(ready) \o t \in Seq(Names) /\ IsInjective(Tail(ready) \o t)
           /\ Range(Tail(ready) \o t) = (Queued \ {c}) \cup Range(t)
           /\ Range(t) \subseteq Waiting /\ Waiting' = Waiting \ Range(t)
           /\ waiters' \in Seq(Requests \cup {"pull"}) /\ IsInjective(waiters')
           /\ ctx["stop"] = "remote" => BehindStop(Tail(ready) \o t, RemoteRequests)
<1>1. ready \in Seq(Names) /\ IsInjective(ready) /\ ready # <<>> /\ Head(ready) = c
  BY Zenon DEF ProxyInv, ProxyTypes, Resumed
<1>2. /\ t \in Seq(Requests \cup {"pull"}) /\ IsInjective(t) /\ Range(t) \subseteq Waiting
      /\ Waiting' = Waiting \ Range(t)
      /\ waiters' \in Seq(Requests \cup {"pull"}) /\ IsInjective(waiters')
  <2>1. waiters \in Seq(Requests \cup {"pull"}) /\ IsInjective(waiters)
    BY Zenon DEF ProxyInv, ProxyTypes
  <2>2. <<>> \in Seq(Requests \cup {"pull"}) /\ IsInjective(<<>>) /\ Range(<<>>) = {}
    BY EmptyFacts
  <2>3. CASE t = <<>> /\ waiters' = waiters
    BY <2>1, <2>2, <2>3, Zenon DEF Waiting
  <2>4. CASE t = waiters /\ waiters' = <<>>
    BY <2>1, <2>2, <2>4, Zenon DEF Waiting
  <2>5. QED
    BY <2>3, <2>4, Zenon DEF Wakes
<1>3. t \in Seq(Names)
  BY <1>2, NameFacts, Zenon
<1>4. Waiting \subseteq Requests \cup {"pull"}
  BY RangeType, Zenon DEF ProxyInv, ProxyTypes, Waiting
<1>5. \A d \in Waiting : d \in Contexts /\ d \notin Queued /\ ctx[d] = "locking"
  BY <1>4, NameFacts, Zenon DEF ProxyInv, Places
<1>6. Range(t) \cap (Range(ready) \ {Head(ready)}) = {}
  BY <1>2, <1>5, ZenonT(60) DEF Queued
<1>7. /\ Head(ready) \in Range(ready)
      /\ Tail(ready) \o t \in Seq(Names) /\ IsInjective(Tail(ready) \o t)
      /\ Range(Tail(ready) \o t) = (Range(ready) \ {Head(ready)}) \cup Range(t)
      /\ \A X : \A Y \in SUBSET X :
             BehindStop(ready, X) /\ "stop" \notin Range(t) /\ Range(t) \cap Y = {}
                 => BehindStop(Tail(ready) \o t, Y)
  BY <1>1, <1>2, <1>3, <1>6, Requeue, Zenon
<1>8. "stop" \notin Range(t) /\ Range(t) \cap RemoteRequests = {}
  BY <1>2, <1>4, <1>5, NameFacts, Zenon DEF RemoteRequests
<1>9. ctx["stop"] = "remote" => BehindStop(Tail(ready) \o t, RemoteRequests)
  <2>1. ctx["stop"] = "remote" => BehindStop(ready, RemoteRequests)
    BY Zenon DEF ProxyInv, StopOrder
  <2>2. RemoteRequests \in SUBSET RemoteRequests
    BY Zenon
  <2>3. QED
    BY <1>7, <1>8, <2>1, <2>2, Zenon
<1>10. main \in {"waiting", "yielding"}
  BY <1>1, Zenon DEF ProxyInv, Phases, NoContexts
<1>11. QED
  BY <1>1, <1>2, <1>7, <1>9, <1>10, Zenon DEF Queued

(* While a context of the group runs, the main context waits for it.       *)
LEMMA GroupRuns ==
    ASSUME ProxyInv, NEW c \in Requests \cup {"pull"}, Resumed(c), ctx[c] # "remote"
    PROVE  /\ c \in Contexts /\ c \in Names /\ c # "stop" /\ c # "main"
           /\ c \in Queued /\ c \in InGroup /\ c \notin Sent /\ c \notin Waiting
           /\ ctx[c] \in Runnable \cup {"locking"}
           /\ main = "waiting" /\ "main" \notin Queued
<1>1. c \in Contexts /\ c \in Names /\ c # "stop" /\ c # "main"
  BY NameFacts, Zenon
<1>2. ready \in Seq(Names) /\ IsInjective(ready) /\ ready # <<>> /\ Head(ready) = c
  BY Zenon DEF ProxyInv, ProxyTypes, Resumed
<1>3. c \in Queued
  BY <1>2, TailFacts, Zenon DEF Queued
<1>4. ctx[c] \in Runnable \cup {"locking"} /\ c \notin Sent /\ c \notin Waiting
  BY <1>1, <1>3, Zenon DEF ProxyInv, Places, Runnable
<1>5. c \in InGroup
  BY <1>4, Zenon DEF InGroup, Runnable
<1>6. "main" \notin Queued
  BY <1>5, Zenon DEF ProxyInv, MainQueued
<1>7. main # "yielding"
  <2>1. Len(ready) > 0 => ready[Len(ready)] \in Queued
    BY <1>2 DEF Queued, Range
  <2>2. QED
    BY <1>6, <2>1, Zenon DEF ProxyInv, MainQueued
<1>8. main = "waiting"
  BY <1>2, <1>7, Zenon DEF ProxyInv, Phases, NoContexts
<1>9. QED
  BY <1>1, <1>3, <1>4, <1>5, <1>6, <1>8, Zenon

(* A context sends a request or sleeps, and may wake others before.        *)
LEMMA OutKeeps ==
    ASSUME ProxyInv, NEW c \in Requests \cup {"pull"}, Resumed(c), ctx[c] # "remote",
           NEW t, Wakes(t), ready' = Tail(ready) \o t,
           NEW x, x = "http" \/ (x = "sleep" /\ c = "pull"), ctx' = [ctx EXCEPT ![c] = x],
           UNCHANGED <<remote, asked, called, m_stop, m_state, client, main>>
    PROVE  ProxyInv'
<1>1. /\ c \in Contexts /\ c \in Names /\ c # "stop" /\ c # "main"
      /\ c \in Queued /\ c \in InGroup /\ c \notin Sent /\ c \notin Waiting
      /\ ctx[c] \in Runnable \cup {"locking"}
      /\ main = "waiting" /\ "main" \notin Queued
  BY GroupRuns, Zenon
<1>2. /\ ready' \in Seq(Names) /\ IsInjective(ready') /\ Queued' = (Queued \ {c}) \cup Range(t)
      /\ Range(t) \subseteq Waiting /\ Waiting' = Waiting \ Range(t) /\ Sent' = Sent
      /\ waiters' \in Seq(Requests \cup {"pull"}) /\ IsInjective(waiters')
      /\ ctx["stop"] = "remote" => BehindStop(ready', RemoteRequests)
  BY <1>1, ResumeFacts, Zenon DEF Queued, Sent
<1>3. ctx'[c] = x /\ \A d \in Contexts : d # c => ctx'[d] = ctx[d]
  BY <1>1, Zenon DEF ProxyInv, ProxyTypes
<1>4. Waiting \subseteq Requests \cup {"pull"}
  BY RangeType, Zenon DEF ProxyInv, ProxyTypes, Waiting
<1>5. ProxyTypes'
  <2>1. /\ ctx' \in [Contexts -> RequestStates \cup PullStates \cup StopStates]
        /\ \A r \in Requests : ctx'[r] \in RequestStates
        /\ ctx'["pull"] \in PullStates /\ ctx'["stop"] \in StopStates
    <3>1. /\ ctx \in [Contexts -> RequestStates \cup PullStates \cup StopStates]
          /\ \A r \in Requests : ctx[r] \in RequestStates
          /\ ctx["pull"] \in PullStates /\ ctx["stop"] \in StopStates
      BY Zenon DEF ProxyInv, ProxyTypes
    <3>2. QED
      BY <1>1, <1>3, <3>1, NameFacts, Zenon DEF RequestStates, PullStates
  <2>2. QED
    BY <1>2, <2>1, Zenon DEF ProxyInv, ProxyTypes
<1>6. Places'
  BY <1>1, <1>2, <1>3, Zenon DEF ProxyInv, Places, Runnable
<1>7. Pending' = Pending /\ RemoteRequests' = RemoteRequests
  BY <1>1, <1>2, <1>3, NameFacts, Zenon DEF Pending, RemoteRequests, Runnable
<1>8. Calls'
  BY <1>7, Zenon DEF ProxyInv, Calls
<1>9. ctx'["stop"] = ctx["stop"] /\ (ctx["pull"] # "none" => ctx'["pull"] # "none")
  BY <1>1, <1>3, NameFacts, ZenonT(60)
<1>10. Phases'
  BY <1>1, <1>2, <1>9, ZenonT(60) DEF ProxyInv, Phases
<1>11. StopOrder'
  BY <1>2, <1>7, <1>9, Zenon DEF ProxyInv, StopOrder
<1>12. MainQueued'
  BY <1>1, <1>2, <1>4, NameFacts, Zenon DEF MainQueued
<1>13. QED
  BY <1>5, <1>6, <1>8, <1>10, <1>11, <1>12, Zenon DEF ProxyInv

(* EventLock: a context sends, or waits until m_httpEvent is set.          *)
LEMMA LockKeeps ==
    ASSUME ProxyInv, NEW c \in Requests \cup {"pull"}, Resumed(c), ctx[c] # "remote",
           lockHttp(c), ready' = Tail(ready),
           UNCHANGED <<remote, asked, called, m_stop, m_state, client, main>>
    PROVE  ProxyInv'
<1>0. Tail(ready) \o <<>> = Tail(ready)
  BY DEF ProxyInv, ProxyTypes, Resumed
<1>1. CASE httpEvent
  <2> DEFINE t == <<>>
             x == "http"
  <2>1. ctx' = [ctx EXCEPT ![c] = x] /\ waiters' = waiters
    BY <1>1, Zenon DEF lockHttp
  <2>2. ready' = Tail(ready) \o t
    BY <1>0, Zenon
  <2>3. Wakes(t) /\ (x = "http" \/ (x = "sleep" /\ c = "pull"))
    BY <2>1, Zenon DEF Wakes
  <2> HIDE DEF t, x
  <2>4. QED
    BY <2>1, <2>2, <2>3, OutKeeps, Zenon
<1>2. CASE ~httpEvent
  <2>1. waiters' = Append(waiters, c) /\ ctx' = [ctx EXCEPT ![c] = "locking"]
    BY <1>2, Zenon DEF lockHttp
  <2>2. /\ c \in Contexts /\ c \in Names /\ c # "stop" /\ c # "main"
        /\ c \in Queued /\ c \in InGroup /\ c \notin Sent /\ c \notin Waiting
        /\ ctx[c] \in Runnable \cup {"locking"}
        /\ main = "waiting" /\ "main" \notin Queued
    BY GroupRuns, Zenon
  <2>3. /\ ready' \in Seq(Names) /\ IsInjective(ready') /\ Queued' = Queued \ {c} /\ Sent' = Sent
        /\ ctx["stop"] = "remote" => BehindStop(ready', RemoteRequests)
    <3> DEFINE t == <<>>
    <3>1. ready \in Seq(Names) /\ IsInjective(ready) /\ ready # <<>> /\ Head(ready) = c
      BY Zenon DEF ProxyInv, ProxyTypes, Resumed
    <3>2. t \in Seq(Names) /\ IsInjective(t) /\ Range(t) = {}
      BY EmptyFacts
    <3>3. ready' = Tail(ready) \o t
      BY <1>0, Zenon
    <3> HIDE DEF t
    <3>4. Range(t) \cap (Range(ready) \ {Head(ready)}) = {}
      BY <3>2, Zenon
    <3>5. /\ Tail(ready) \o t \in Seq(Names) /\ IsInjective(Tail(ready) \o t)
          /\ Range(Tail(ready) \o t) = (Range(ready) \ {Head(ready)}) \cup Range(t)
          /\ \A X : \A Y \in SUBSET X :
                 BehindStop(ready, X) /\ "stop" \notin Range(t) /\ Range(t) \cap Y = {}
                     => BehindStop(Tail(ready) \o t, Y)
      BY <3>1, <3>2, <3>4, Requeue, Zenon
    <3>6. ctx["stop"] = "remote" => BehindStop(ready', RemoteRequests)
      <4>1. "stop" \notin Range(t) /\ Range(t) \cap RemoteRequests = {}
            /\ RemoteRequests \in SUBSET RemoteRequests
        BY <3>2, Zenon
      <4>2. ctx["stop"] = "remote" => BehindStop(ready, RemoteRequests)
        BY Zenon DEF ProxyInv, StopOrder
      <4>3. QED
        BY <3>3, <3>5, <4>1, <4>2, Zenon
    <3>7. Queued' = Queued \ {c}
      BY <3>1, <3>2, <3>3, <3>5, Zenon DEF Queued
    <3>8. QED
      BY <3>3, <3>5, <3>6, <3>7, Zenon DEF Sent
  <2>4. /\ waiters' \in Seq(Requests \cup {"pull"}) /\ IsInjective(waiters') /\ Waiting' = Waiting \cup {c}
    <3> DEFINE t == <<c>>
               N == Requests \cup {"pull"}
    <3>1. t \in Seq(N) /\ IsInjective(t) /\ Range(t) = {c}
      BY OneFacts, Zenon
    <3>2. waiters' = waiters \o t /\ waiters \in Seq(N) /\ IsInjective(waiters)
      BY <2>1 DEF ProxyInv, ProxyTypes
    <3> HIDE DEF t, N
    <3>3. Range(waiters) \cap Range(t) = {}
      BY <2>2, <3>1, Zenon DEF Waiting
    <3>4. /\ waiters \o t \in Seq(N) /\ IsInjective(waiters \o t)
          /\ Range(waiters \o t) = Range(waiters) \cup Range(t)
      BY <3>1, <3>2, <3>3, CatFacts
    <3>5. QED
      BY <3>1, <3>2, <3>4, Zenon DEF Waiting, N
  <2>5. ctx'[c] = "locking" /\ \A d \in Contexts : d # c => ctx'[d] = ctx[d]
    BY <2>1, <2>2, Zenon DEF ProxyInv, ProxyTypes
  <2>6. ProxyTypes'
    <3>1. /\ ctx' \in [Contexts -> RequestStates \cup PullStates \cup StopStates]
          /\ \A r \in Requests : ctx'[r] \in RequestStates
          /\ ctx'["pull"] \in PullStates /\ ctx'["stop"] \in StopStates
      BY <2>1, <2>2, <2>5, NameFacts, ZenonT(60) DEF ProxyInv, ProxyTypes, RequestStates, PullStates
    <3>2. QED
      BY <2>3, <2>4, <3>1, Zenon DEF ProxyInv, ProxyTypes
  <2>7. Places'
    BY <2>2, <2>3, <2>4, <2>5 DEF ProxyInv, Places, Runnable
  <2>8. Pending' = Pending /\ RemoteRequests' = RemoteRequests
    BY <2>2, <2>3, <2>5, NameFacts, Zenon DEF Pending, RemoteRequests, Runnable
  <2>9. Calls'
    BY <2>8, Zenon DEF ProxyInv, Calls
  <2>10. ctx'["stop"] = ctx["stop"] /\ (ctx["pull"] # "none" => ctx'["pull"] # "none")
    BY <2>2, <2>5, NameFacts, Zenon
  <2>11. Phases'
    BY <2>2, <2>3, <2>10, ZenonT(60) DEF ProxyInv, Phases
  <2>12. StopOrder'
    BY <2>3, <2>8, <2>10, Zenon DEF ProxyInv, StopOrder
  <2>13. MainQueued'
    BY <2>2, <2>3, Zenon DEF MainQueued
  <2>14. QED
    BY <2>6, <2>7, <2>9, <2>11, <2>12, <2>13, Zenon DEF ProxyInv
<1>3. QED
  BY <1>1, <1>2, Zenon

(* A context leaves the group.  As long as m_stop is not set the one that  *)
(* pulls is in it, so the main context is resumed only after shutdown; and *)
(* a request may send others only before it.                               *)
LEMMA LeaveKeeps ==
    ASSUME ProxyInv, NEW c \in Requests \cup {"pull"}, Resumed(c), ctx[c] # "remote",
           c = "pull" => m_stop,
           NEW t, Wakes(t), leaveGroup(c, Tail(ready) \o t),
           NEW next \in SUBSET Requests, next \cap asked = {}, next # {} => client # "joining",
           NEW order \in Orders(next), remote' = remote \o order,
           asked' = asked \cup next, called' \in [Requests -> Nat],
           UNCHANGED <<m_stop, m_state, client, main>>
    PROVE  /\ ProxyTypes' /\ Places' /\ Phases' /\ StopOrder' /\ MainQueued'
           /\ Pending' = (Pending \ {c}) \cup next
<1>1. /\ c \in Contexts /\ c \in Names /\ c # "stop" /\ c # "main"
      /\ c \in Queued /\ c \in InGroup /\ c \notin Sent /\ c \notin Waiting
      /\ ctx[c] \in Runnable \cup {"locking"}
      /\ main = "waiting" /\ "main" \notin Queued
  BY GroupRuns, Zenon
<1> DEFINE base == Tail(ready) \o t
<1>2. /\ base \in Seq(Names) /\ IsInjective(base) /\ Range(base) = (Queued \ {c}) \cup Range(t)
      /\ Range(t) \subseteq Waiting /\ Waiting' = Waiting \ Range(t)
      /\ waiters' \in Seq(Requests \cup {"pull"}) /\ IsInjective(waiters')
      /\ ctx["stop"] = "remote" => BehindStop(base, RemoteRequests)
  BY <1>1, ResumeFacts, Zenon
<1>3. /\ ctx' = [ctx EXCEPT ![c] = "none"]
      /\ ready' = IF InGroup = {c} THEN Append(base, "main") ELSE base
  BY Zenon DEF leaveGroup
<1> HIDE DEF base
<1>4. ctx'[c] = "none" /\ \A d \in Contexts : d # c => ctx'[d] = ctx[d]
  BY <1>1, <1>3, Zenon DEF ProxyInv, ProxyTypes
<1>5. Waiting \subseteq Requests \cup {"pull"}
  BY RangeType, Zenon DEF ProxyInv, ProxyTypes, Waiting
<1>6. "main" \notin Range(base) /\ "stop" \notin {"main"} /\ "main" \notin RemoteRequests
  BY <1>1, <1>2, <1>5, NameFacts, Zenon DEF RemoteRequests
<1>7. /\ ready' \in Seq(Names) /\ IsInjective(ready')
      /\ Queued' = (Queued \ {c}) \cup Range(t) \cup (IF InGroup = {c} THEN {"main"} ELSE {})
      /\ ctx["stop"] = "remote" => BehindStop(ready', RemoteRequests)
  <2>1. CASE InGroup # {c}
    BY <1>2, <1>3, <2>1, Zenon DEF Queued
  <2>2. CASE InGroup = {c}
    <3> DEFINE m == <<"main">>
    <3>1. m \in Seq(Names) /\ IsInjective(m) /\ Range(m) = {"main"}
      BY OneFacts, NameFacts, ZenonT(60)
    <3>2. ready' = base \o m
      BY <1>2, <1>3, <2>2
    <3> HIDE DEF m
    <3>3. Range(base) \cap Range(m) = {}
      BY <1>6, <3>1, Zenon
    <3>4. /\ base \o m \in Seq(Names) /\ IsInjective(base \o m)
          /\ Range(base \o m) = Range(base) \cup Range(m)
      <4>1. base \in Seq(Names) /\ IsInjective(base)
        BY <1>2, ZenonT(60)
      <4>2. QED
        BY ONLY <3>1, <3>3, <4>1, CatFacts, ZenonT(60)
    <3>5. ctx["stop"] = "remote" => BehindStop(base \o m, RemoteRequests)
      <4>1. "stop" \notin Range(m) /\ Range(m) \cap RemoteRequests = {}
            /\ RemoteRequests \in SUBSET RemoteRequests
        BY <1>6, <3>1, Zenon
      <4>2. QED
        BY <1>2, <3>1, <4>1, BehindCat, ZenonT(60)
    <3>6. QED
      BY <1>2, <2>2, <3>1, <3>2, <3>4, <3>5, Zenon DEF Queued
  <2>3. QED
    BY <2>1, <2>2, Zenon
<1>8. next \cap Pending = {} /\ next \cap Sent = {} /\ c \notin next
  <2>1. next \cap Pending = {} /\ next \cap Sent = {}
    BY Zenon DEF ProxyInv, Calls, Pending
  <2>2. c \in Requests => c \in Pending
    BY <1>1, Zenon DEF Pending, Runnable
  <2>3. QED
    BY <2>1, <2>2, ZenonT(60)
<1>9. order \in Seq(next) /\ IsInjective(order) /\ Range(order) = next
  BY OrderFacts, NameFacts, Zenon
<1>10. remote' \in Seq(Requests \cup {"stop"}) /\ IsInjective(remote') /\ Sent' = Sent \cup next
  <2>1. order \in Seq(Requests) /\ Range(order) \cap Sent = {}
    BY <1>8, <1>9
  <2>2. QED
    BY <1>9, <2>1, SentMore, Zenon
<1>11. next = {} => remote' = remote
  <2>1. ASSUME next = {} PROVE order = <<>>
    BY <1>9, <2>1, EmptyFacts, Zenon
  <2>2. QED
    BY <2>1 DEF ProxyInv, ProxyTypes
<1>12. m_stop => next = {} /\ client = "joining"
  BY <1>1, Zenon DEF ProxyInv, StopOrder
<1>13. InGroup = {c} => m_stop
  <2>1. c # "pull" /\ ~m_stop => "pull" \in InGroup
    BY <1>1, Zenon DEF ProxyInv, ProxyTypes, Phases, InGroup, PullStates
  <2>2. m_stop \in BOOLEAN
    BY Zenon DEF ProxyInv, ProxyTypes
  <2>3. QED
    BY <2>1, <2>2, Zenon
<1>14. InGroup' = InGroup \ {c} /\ RemoteRequests' = RemoteRequests
  BY <1>1, <1>4, NameFacts, ZenonT(60) DEF InGroup, RemoteRequests, Runnable
<1>15. ProxyTypes'
  <2>1. /\ ctx' \in [Contexts -> RequestStates \cup PullStates \cup StopStates]
        /\ \A r \in Requests : ctx'[r] \in RequestStates
        /\ ctx'["pull"] \in PullStates /\ ctx'["stop"] \in StopStates
    BY <1>1, <1>3, <1>4, NameFacts, ZenonT(60) DEF ProxyInv, ProxyTypes, RequestStates, PullStates
  <2>2. QED
    BY <1>2, <1>7, <1>10, <2>1, ZenonT(60) DEF ProxyInv, ProxyTypes
<1>16. Places'
  <2>1. \A d \in next : ctx[d] = "none" /\ d \in Contexts /\ d # c
    BY <1>8, NameFacts, Zenon DEF Pending
  <2>2. ASSUME NEW d \in Contexts
        PROVE  /\ d \in Sent' => ctx'[d] = "none"
               /\ d \in Queued' => ctx'[d] \in Runnable \cup {"locking"}
               /\ ctx'[d] \in Runnable => d \in Queued'
               /\ d \in Waiting' => ctx'[d] = "locking" /\ d \notin Queued'
               /\ ctx'[d] = "locking" => d \in Queued' \cup Waiting'
    <3>1. d # "main"
      BY NameFacts, ZenonT(60)
    <3>2. CASE d = c
      BY <1>1, <1>2, <1>4, <1>7, <1>10, <3>1, <3>2, ZenonT(60) DEF Runnable
    <3>3. CASE d # c
      <4>1. /\ ctx'[d] = ctx[d] /\ (d \in Queued' <=> d \in Queued \/ d \in Range(t))
            /\ (d \in Waiting' <=> d \in Waiting /\ d \notin Range(t))
            /\ (d \in Sent' <=> d \in Sent \/ d \in next)
        BY <1>2, <1>4, <1>7, <1>10, <3>1, <3>3, Zenon
      <4>2. QED
        BY <1>2, <2>1, <4>1, ZenonT(60) DEF ProxyInv, Places, Runnable
    <3>4. QED
      BY <3>2, <3>3, Zenon
  <2>3. QED
    BY <2>2, Zenon DEF Places
<1>17. Pending' = (Pending \ {c}) \cup next
  BY <1>1, <1>4, <1>10, NameFacts, Zenon DEF Pending
<1>18. ctx'["stop"] = ctx["stop"] /\ (~m_stop => ctx'["pull"] = ctx["pull"])
  BY <1>1, <1>4, NameFacts, Zenon
<1>19. "stop" \in Sent' => "stop" \in Sent
  BY <1>10, NameFacts, Zenon
<1>20. Phases'
  BY <1>1, <1>18, <1>19, Zenon DEF ProxyInv, Phases
<1>21. StopOrder'
  <2>1. "stop" \in Sent \/ ctx["stop"] # "none" => client = "joining"
    BY Zenon DEF ProxyInv, Phases
  <2>2. client = "joining" => remote' = remote
    BY <1>11, ZenonT(60)
  <2>3. QED
    BY <1>7, <1>11, <1>12, <1>14, <1>18, <1>19, <2>1, <2>2, Zenon DEF ProxyInv, StopOrder
<1>22. MainQueued'
  BY <1>1, <1>2, <1>5, <1>7, <1>13, <1>14, NameFacts, Zenon DEF MainQueued
<1>23. QED
  BY <1>15, <1>16, <1>17, <1>20, <1>21, <1>22, Zenon

(* The callback is called once, and with no error it makes requests that   *)
(* nobody has made before.                                                 *)
LEMMA CallbackKeeps ==
    ASSUME ProxyInv, NEW r \in Requests, Resumed(r), ctx[r] # "remote",
           NEW ok, callback(r, ok), NEW t, Wakes(t), leaveGroup(r, Tail(ready) \o t),
           UNCHANGED <<m_stop, m_state, client, main>>
    PROVE  ProxyInv'
<1> DEFINE next == IF ok THEN Following[r] ELSE {}
<1>1. /\ next # {} => client # "joining"
      /\ called' = [called EXCEPT ![r] = @ + 1] /\ asked' = asked \cup next
      /\ \E order \in Orders(next) : remote' = remote \o order
  BY Zenon DEF callback, mutexFree
<1>2. next \in SUBSET Requests /\ next \subseteq Following[r]
  BY ProxyAssumption, Zenon
<1>3. r \in Requests \cup {"pull"} /\ (r = "pull" => m_stop)
  BY NameFacts, Zenon
<1>4. r \in Pending
  <2>1. r \in InGroup
    BY <1>3, GroupRuns, Zenon
  <2>2. QED
    BY <2>1, Zenon DEF InGroup, Pending
<1>5. called[r] = 0 /\ r \in asked
  BY <1>4, ZenonT(60) DEF ProxyInv, Calls
<1>6. next \cap asked = {}
  <2>1. Following[r] \cap asked # {} => called[r] = 1
    BY Zenon DEF ProxyInv, Calls
  <2>2. Following[r] \cap asked = {}
    BY ONLY <1>5, <2>1
  <2>3. QED
    BY <1>2, <2>2, Zenon
<1>7. /\ called' \in [Requests -> Nat] /\ called'[r] = 1
      /\ \A q \in Requests : q # r => called'[q] = called[q]
  BY <1>1, <1>5 DEF ProxyInv, ProxyTypes
<1> HIDE DEF next
<1>8. PICK order \in Orders(next) : remote' = remote \o order
  BY <1>1, Zenon
<1>9. /\ ProxyTypes' /\ Places' /\ Phases' /\ StopOrder' /\ MainQueued'
      /\ Pending' = (Pending \ {r}) \cup next
  BY <1>1, <1>2, <1>3, <1>6, <1>7, <1>8, LeaveKeeps, ZenonT(60)
<1>10. Calls'
  <2>1. Pending' \subseteq asked'
    BY <1>1, <1>9, ZenonT(60) DEF ProxyInv, Calls
  <2>2. ASSUME NEW q \in Requests PROVE called'[q] = IF q \in asked' \ Pending' THEN 1 ELSE 0
    <3>1. CASE q = r
      BY <1>1, <1>5, <1>6, <1>7, <1>9, <3>1, Zenon
    <3>2. CASE q # r
      BY <1>1, <1>6, <1>7, <1>9, <3>2, ZenonT(60) DEF ProxyInv, Calls
    <3>3. QED
      BY <3>1, <3>2, Zenon
  <2>3. ASSUME NEW q \in Requests, Following[q] \cap asked' # {} PROVE called'[q] = 1
    <3>1. CASE q = r
      BY <1>7, <3>1, ZenonT(60)
    <3>2. CASE q # r
      <4>1. Following[q] \cap next = {}
        BY <1>2, <3>2, ProxyAssumption, Zenon
      <4>2. Following[q] \cap asked # {}
        BY <1>1, <2>3, <4>1, Zenon
      <4>3. QED
        BY <1>7, <3>2, <4>2, Zenon DEF ProxyInv, Calls
    <3>3. QED
      BY <3>1, <3>2, ZenonT(60)
  <2>4. QED
    BY <2>1, <2>2, <2>3, ZenonT(60) DEF Calls
<1>11. QED
  BY <1>9, <1>10, Zenon DEF ProxyInv

(* The end of a queue of more than one is the end of what follows its head.*)
LEMMA TailLast ==
    ASSUME NEW N, NEW s \in Seq(N), Len(s) > 0, Head(s) # s[Len(s)]
    PROVE  Len(Tail(s)) > 0 /\ Tail(s)[Len(Tail(s))] = s[Len(s)]
<1>1. Len(s) \in Nat /\ Len(s) > 1
  <2>1. Len(s) = 1 => Head(s) = s[Len(s)]
    OBVIOUS
  <2>2. QED
    BY <2>1
<1>2. QED
  BY <1>1

(* The remote procedure of a request spawns it in the group.  The one of   *)
(* shutdown has not been run then.                                         *)
LEMMA SpawnRequestKeeps ==
    ASSUME ProxyInv, NEW r \in Requests, spawnRequest(r)
    PROVE  ProxyInv'
<1>1. /\ UNCHANGED <<remote, waiters, asked, called, m_stop, m_state, client, main>>
      /\ Resumed(r) /\ ctx[r] = "remote"
      /\ ready' = Append(Tail(ready), r) /\ ctx' = [ctx EXCEPT ![r] = "start"]
  BY Zenon DEF spawnRequest, clientVars, callVars, httpVars
<1>2. ready \in Seq(Names) /\ IsInjective(ready) /\ ready # <<>> /\ Head(ready) = r
  BY <1>1, Zenon DEF ProxyInv, ProxyTypes, Resumed
<1>3. main \in {"waiting", "yielding"} /\ r \in Contexts /\ r \in Names /\ r # "stop"
  BY <1>2, NameFacts, Zenon DEF ProxyInv, Phases, NoContexts
<1>4. r \in RemoteRequests /\ ~m_stop
  BY <1>1, <1>3, Zenon DEF ProxyInv, ProxyTypes, StopOrder, RemoteRequests
<1>5. main = "waiting" /\ "main" \notin Queued
  BY <1>3, <1>4, Zenon DEF ProxyInv, Phases, MainQueued
<1>6. ctx'[r] = "start" /\ \A d \in Contexts : d # r => ctx'[d] = ctx[d]
  BY <1>1, <1>3, Zenon DEF ProxyInv, ProxyTypes
<1>7. RemoteRequests' = RemoteRequests \ {r}
  BY <1>6, NameFacts, Zenon DEF RemoteRequests
<1>8. /\ r \in Queued /\ ready' \in Seq(Names) /\ IsInjective(ready')
      /\ Queued' = Queued /\ Sent' = Sent /\ Waiting' = Waiting
      /\ ctx["stop"] = "remote" => BehindStop(ready', RemoteRequests')
  <2> DEFINE t == <<r>>
  <2>1. t \in Seq(Names) /\ IsInjective(t) /\ Range(t) = {r}
    BY <1>3, OneFacts, Zenon
  <2>2. ready' = Tail(ready) \o t
    BY <1>1, <1>2
  <2> HIDE DEF t
  <2>3. Range(t) \cap (Range(ready) \ {Head(ready)}) = {}
    BY <1>2, <2>1, Zenon
  <2>4. /\ Head(ready) \in Range(ready)
        /\ Tail(ready) \o t \in Seq(Names) /\ IsInjective(Tail(ready) \o t)
        /\ Range(Tail(ready) \o t) = (Range(ready) \ {Head(ready)}) \cup Range(t)
        /\ \A X : \A Y \in SUBSET X :
               BehindStop(ready, X) /\ "stop" \notin Range(t) /\ Range(t) \cap Y = {}
                   => BehindStop(Tail(ready) \o t, Y)
    BY <1>2, <2>1, <2>3, Requeue, Zenon
  <2>5. /\ RemoteRequests' \in SUBSET RemoteRequests
        /\ "stop" \notin Range(t) /\ Range(t) \cap RemoteRequests' = {}
    BY <1>3, <1>7, <2>1, Zenon
  <2>6. ctx["stop"] = "remote" => BehindStop(ready, RemoteRequests)
    BY Zenon DEF ProxyInv, StopOrder
  <2>7. ctx["stop"] = "remote" => BehindStop(ready', RemoteRequests')
    BY <2>2, <2>4, <2>5, <2>6, Zenon
  <2>8. r \in Queued /\ Queued' = Queued
    BY <1>2, <2>1, <2>2, <2>4, ZenonT(60) DEF Queued
  <2>9. QED
    BY <1>1, <2>2, <2>4, <2>7, <2>8, Zenon DEF Sent, Waiting
<1>9. ProxyTypes'
  <2>1. /\ ctx' \in [Contexts -> RequestStates \cup PullStates \cup StopStates]
        /\ \A q \in Requests : ctx'[q] \in RequestStates
        /\ ctx'["pull"] \in PullStates /\ ctx'["stop"] \in StopStates
    BY <1>1, <1>3, <1>6, NameFacts, Zenon DEF ProxyInv, ProxyTypes, RequestStates
  <2>2. QED
    BY <1>1, <1>8, <2>1, Zenon DEF ProxyInv, ProxyTypes
<1>10. Places'
  BY <1>1, <1>6, <1>8, Zenon DEF ProxyInv, Places, Runnable
<1>11. Pending' = Pending
  BY <1>1, <1>6, <1>8, NameFacts, Zenon DEF Pending
<1>12. Calls'
  BY <1>1, <1>11, Zenon DEF ProxyInv, Calls
<1>13. ctx'["stop"] = ctx["stop"] /\ ctx'["pull"] = ctx["pull"]
  BY <1>6, NameFacts, Zenon
<1>14. Phases'
  BY <1>1, <1>5, <1>8, <1>13, Zenon DEF ProxyInv, Phases
<1>15. StopOrder'
  BY <1>1, <1>4, <1>8, <1>13, Zenon DEF ProxyInv, StopOrder
<1>16. MainQueued'
  BY <1>1, <1>5, <1>8, Zenon DEF MainQueued
<1>17. QED
  BY <1>9, <1>10, <1>12, <1>14, <1>15, <1>16, Zenon DEF ProxyInv

(* The procedure of shutdown ends.                                         *)
LEMMA StoppedKeeps ==
    ASSUME ProxyInv, stopped
    PROVE  ProxyInv'
<1>1. /\ UNCHANGED <<remote, waiters, asked, called, m_stop, m_state, client, main>>
      /\ Resumed("stop") /\ ctx["stop"] = "yielded"
      /\ ready' = Tail(ready) /\ ctx' = [ctx EXCEPT !["stop"] = "none"]
  BY Zenon DEF stopped, clientVars, callVars, httpVars
<1>2. ready \in Seq(Names) /\ IsInjective(ready) /\ ready # <<>> /\ Head(ready) = "stop"
  BY <1>1, ZenonT(60) DEF ProxyInv, ProxyTypes, Resumed
<1>3. main \in {"waiting", "yielding"}
  BY <1>2, ZenonT(60) DEF ProxyInv, Phases, NoContexts
<1>4. /\ ready' \in Seq(Names) /\ IsInjective(ready') /\ Queued' = Queued \ {"stop"}
      /\ Sent' = Sent /\ Waiting' = Waiting
  BY <1>1, <1>2, TailFacts, ZenonT(60) DEF Queued, Sent, Waiting
<1>5. ctx'["stop"] = "none" /\ \A d \in Contexts : d # "stop" => ctx'[d] = ctx[d]
  BY <1>1, NameFacts, Zenon DEF ProxyInv, ProxyTypes
<1>6. \A r \in Requests : ctx'[r] = ctx[r]
  BY <1>5, NameFacts, Zenon
<1>7. ctx'["pull"] = ctx["pull"]
  BY <1>5, NameFacts, Zenon
<1>8. Pending' = Pending /\ RemoteRequests' = RemoteRequests /\ InGroup' = InGroup
  BY <1>4, <1>6, <1>7, ZenonT(60) DEF Pending, RemoteRequests, InGroup
<1>9. ProxyTypes'
  <2>1. /\ ctx' \in [Contexts -> RequestStates \cup PullStates \cup StopStates]
        /\ \A r \in Requests : ctx'[r] \in RequestStates
        /\ ctx'["pull"] \in PullStates /\ ctx'["stop"] \in StopStates
    BY <1>1, <1>5, <1>6, <1>7, NameFacts, ZenonT(60) DEF ProxyInv, ProxyTypes, StopStates
  <2>2. QED
    BY <1>1, <1>4, <2>1, Zenon DEF ProxyInv, ProxyTypes
<1>10. Places'
  BY <1>1, <1>4, <1>5, Zenon DEF ProxyInv, Places, Runnable
<1>11. Calls'
  BY <1>1, <1>8, Zenon DEF ProxyInv, Calls
<1>12. Phases'
  BY <1>1, <1>3, <1>4, <1>5, <1>7, ZenonT(60) DEF ProxyInv, Phases
<1>13. StopOrder'
  BY <1>1, <1>4, <1>5, <1>8, Zenon DEF ProxyInv, StopOrder
<1>14. MainQueued'
  <2>1. ASSUME main = "yielding" PROVE Len(ready') > 0 /\ ready'[Len(ready')] = "main"
    <3>1. Len(ready) > 0 /\ ready[Len(ready)] = "main" /\ Head(ready) # ready[Len(ready)]
      BY <1>2, <2>1, Zenon DEF ProxyInv, MainQueued
    <3>2. QED
      BY <1>1, <1>2, <3>1, TailLast, Zenon
  <2>2. QED
    BY <1>1, <1>4, <1>8, <2>1, ZenonT(60) DEF ProxyInv, MainQueued
<1>15. QED
  BY <1>9, <1>10, <1>11, <1>12, <1>13, <1>14, Zenon DEF ProxyInv

(* What yield makes of the queue: the contexts that epoll reports follow   *)
(* the others, and the one that yields comes last.                         *)
Yielded(self, state, S, rest) ==
    /\ IsInjective(rest) /\ Range(rest) = (Queued \ {self}) \cup S
    /\ ready' = IF rest = <<>> THEN <<>> ELSE Append(rest, self)
    /\ remote' = <<>>
    /\ ctx' = [c \in Contexts |-> IF c = self THEN (IF rest = <<>> THEN "none" ELSE state)
                                  ELSE IF c \in S THEN woken(c) ELSE ctx[c]]

(* yield does so when no remote procedure is there.                        *)
LEMMA YieldFacts ==
    ASSUME ProxyInv, NEW self \in Names, NEW state, Resumed(self), remote = <<>>, yield(self, state)
    PROVE  \E S \in SUBSET Signalled : \E rest \in Seq(Names) : Yielded(self, state, S, rest)
<1>1. ready \in Seq(Names) /\ IsInjective(ready) /\ ready # <<>> /\ Head(ready) = self
  BY Zenon DEF ProxyInv, ProxyTypes, Resumed
<1>2. PICK S \in SUBSET Signalled : \E early \in SUBSET S :
          \E first \in Orders(early), second \in Orders(S \ early) :
             LET rest == Tail(ready) \o first \o remote \o second
             IN  /\ ready' = IF rest = <<>> THEN <<>> ELSE Append(rest, self)
                 /\ remote' = <<>>
                 /\ ctx' = [c \in Contexts |-> IF c = self THEN (IF rest = <<>> THEN "none" ELSE state)
                                               ELSE IF c \in S THEN woken(c)
                                               ELSE IF c \in Range(remote) THEN "remote" ELSE ctx[c]]
  BY Zenon DEF yield
<1>15. PICK early \in SUBSET S : \E first \in Orders(early), second \in Orders(S \ early) :
          LET rest == Tail(ready) \o first \o remote \o second
          IN  /\ ready' = IF rest = <<>> THEN <<>> ELSE Append(rest, self)
              /\ remote' = <<>>
              /\ ctx' = [c \in Contexts |-> IF c = self THEN (IF rest = <<>> THEN "none" ELSE state)
                                            ELSE IF c \in S THEN woken(c)
                                            ELSE IF c \in Range(remote) THEN "remote" ELSE ctx[c]]
  BY <1>2, Zenon
<1>3. PICK first \in Orders(early), second \in Orders(S \ early) :
          LET rest == Tail(ready) \o first \o remote \o second
          IN  /\ ready' = IF rest = <<>> THEN <<>> ELSE Append(rest, self)
              /\ remote' = <<>>
              /\ ctx' = [c \in Contexts |-> IF c = self THEN (IF rest = <<>> THEN "none" ELSE state)
                                            ELSE IF c \in S THEN woken(c)
                                            ELSE IF c \in Range(remote) THEN "remote" ELSE ctx[c]]
  BY <1>15, Zenon
<1>4. S \subseteq Contexts /\ early \in SUBSET Contexts /\ S \ early \in SUBSET Contexts
  BY Zenon DEF Signalled
<1>5. /\ first \in Seq(early) /\ IsInjective(first) /\ Range(first) = early
      /\ second \in Seq(S \ early) /\ IsInjective(second) /\ Range(second) = S \ early
  BY <1>4, OrderFacts, Zenon
<1>6. first \in Seq(Names) /\ second \in Seq(Names)
  BY <1>4, <1>5, NameFacts
<1>7. S \cap Queued = {}
  BY Zenon DEF ProxyInv, Places, Runnable, Signalled
<1> DEFINE a == Tail(ready) \o first
           rest == a \o second
<1>8. /\ a \in Seq(Names) /\ IsInjective(a) /\ Range(a) = (Queued \ {self}) \cup early
  <2>1. Range(first) \cap (Range(ready) \ {Head(ready)}) = {}
    BY <1>5, <1>7, ZenonT(60) DEF Queued
  <2>2. /\ Tail(ready) \o first \in Seq(Names) /\ IsInjective(Tail(ready) \o first)
        /\ Range(Tail(ready) \o first) = (Range(ready) \ {Head(ready)}) \cup Range(first)
    BY <1>1, <1>5, <1>6, <2>1, Requeue, Zenon
  <2>3. QED
    BY <1>1, <1>5, <2>2, Zenon DEF Queued
<1>9. Tail(ready) \o first \o remote \o second = rest
  <2>1. a \o remote = a
    BY <1>8
  <2>2. QED
    BY <2>1, Zenon
<1> HIDE DEF a
<1>10. rest \in Seq(Names) /\ IsInjective(rest) /\ Range(rest) = (Queued \ {self}) \cup S
  <2>1. Range(a) \cap Range(second) = {}
    BY <1>5, <1>7, <1>8, Zenon
  <2>2. /\ a \o second \in Seq(Names) /\ IsInjective(a \o second)
        /\ Range(a \o second) = Range(a) \cup Range(second)
    BY <1>5, <1>6, <1>8, <2>1, CatFacts
  <2>3. QED
    BY <1>5, <1>8, <2>2, Zenon
<1>11. Range(remote) = {}
  BY EmptyFacts, Zenon
<1> HIDE DEF rest
<1>12. /\ ready' = IF rest = <<>> THEN <<>> ELSE Append(rest, self)
       /\ remote' = <<>>
       /\ ctx' = [c \in Contexts |-> IF c = self THEN (IF rest = <<>> THEN "none" ELSE state)
                                     ELSE IF c \in S THEN woken(c)
                                     ELSE IF c \in Range(remote) THEN "remote" ELSE ctx[c]]
  BY <1>3, <1>9, Zenon
<1>13. ctx' = [c \in Contexts |-> IF c = self THEN (IF rest = <<>> THEN "none" ELSE state)
                                  ELSE IF c \in S THEN woken(c) ELSE ctx[c]]
  BY <1>11, <1>12, Zenon
<1>14. Yielded(self, state, S, rest)
  BY <1>10, <1>12, <1>13, Zenon DEF Yielded
<1>16. QED
  BY <1>10, <1>14, Zenon

(* What follows in the queue, with the context that yielded behind it.     *)
LEMMA YieldQueue ==
    ASSUME NEW rest \in Seq(Names), IsInjective(rest), NEW self \in Names, self \notin Range(rest),
           rest # <<>>, ready' = Append(rest, self)
    PROVE  /\ ready' \in Seq(Names) /\ IsInjective(ready') /\ Queued' = Range(rest) \cup {self}
           /\ Len(ready') > 0 /\ ready'[Len(ready')] = self
<1> DEFINE t == <<self>>
<1>1. t \in Seq(Names) /\ IsInjective(t) /\ Range(t) = {self}
  BY OneFacts, Zenon
<1>2. ready' = rest \o t
  OBVIOUS
<1> HIDE DEF t
<1>3. Range(rest) \cap Range(t) = {}
  BY <1>1, Zenon
<1>4. /\ rest \o t \in Seq(Names) /\ IsInjective(rest \o t)
      /\ Range(rest \o t) = Range(rest) \cup Range(t)
  BY <1>1, <1>3, CatFacts
<1>5. Len(ready') > 0 /\ ready'[Len(ready')] = self
  OBVIOUS
<1>6. QED
  BY <1>1, <1>2, <1>4, <1>5, Zenon DEF Queued

(* The procedure of shutdown sets m_stop.  All requests were spawned       *)
(* before, for none is behind it, and no more will come.                   *)
LEMMA StopsKeeps ==
    ASSUME ProxyInv, stops
    PROVE  ProxyInv'
<1>1. /\ UNCHANGED <<waiters, asked, called, m_state, client, main>> /\ m_stop' = TRUE
      /\ Resumed("stop") /\ ctx["stop"] = "remote" /\ yield("stop", "yielded")
  BY ZenonT(60) DEF stops, clientVars, callVars, httpVars
<1>2. ready \in Seq(Names) /\ IsInjective(ready) /\ ready # <<>> /\ Head(ready) = "stop"
  BY <1>1, ZenonT(60) DEF ProxyInv, ProxyTypes, Resumed
<1>3. main \in {"waiting", "yielding"}
  BY <1>2, Zenon DEF ProxyInv, Phases, NoContexts
<1>4. ~m_stop /\ remote = <<>> /\ client = "joining" /\ BehindStop(ready, RemoteRequests)
  BY <1>1, <1>3, Zenon DEF ProxyInv, ProxyTypes, StopOrder, Phases
<1>5. main = "waiting" /\ "main" \notin Queued
  BY <1>3, <1>4, Zenon DEF ProxyInv, Phases, MainQueued
<1>6. RemoteRequests = {}
  <2>1. SUFFICES ASSUME NEW r \in RemoteRequests PROVE FALSE
    BY Zenon
  <2>2. r \in Queued /\ r # "stop"
    BY NameFacts, Zenon DEF ProxyInv, Places, RemoteRequests, Runnable
  <2>3. PICK j \in 1 .. Len(ready) : ready[j] = r
    BY <1>2, <2>2 DEF Queued, Range
  <2>4. 1 \in 1 .. Len(ready) /\ ready[1] = "stop" /\ 1 < j
    BY <1>2, <2>2, <2>3
  <2>5. QED
    BY <1>4, <2>3, <2>4, Zenon DEF BehindStop
<1>7. PICK S \in SUBSET Signalled, rest \in Seq(Names) : Yielded("stop", "yielded", S, rest)
  <2> DEFINE self == "stop"
             state == "yielded"
  <2>1. self \in Names /\ Resumed(self) /\ yield(self, state) /\ remote = <<>>
    BY <1>1, <1>4, NameFacts, Zenon
  <2> HIDE DEF self, state
  <2>2. \E S \in SUBSET Signalled : \E rest \in Seq(Names) : Yielded(self, state, S, rest)
    BY <2>1, YieldFacts, Zenon
  <2>3. QED
    BY <2>2, Zenon DEF self, state
<1>8. /\ IsInjective(rest) /\ Range(rest) = (Queued \ {"stop"}) \cup S
      /\ ready' = IF rest = <<>> THEN <<>> ELSE Append(rest, "stop")
      /\ remote' = <<>>
      /\ ctx' = [c \in Contexts |-> IF c = "stop" THEN (IF rest = <<>> THEN "none" ELSE "yielded")
                                    ELSE IF c \in S THEN woken(c) ELSE ctx[c]]
  BY <1>7, Zenon DEF Yielded
<1>9. \A c \in S : /\ c \in Contexts /\ ctx[c] \in {"replied", "sleep"} /\ c # "stop" /\ c # "main"
                   /\ c \notin Sent /\ c \notin Waiting
                   /\ (ctx[c] = "sleep" => c = "pull")
  <2>1. /\ \A r \in Requests : ctx[r] \in RequestStates
        /\ \A c \in Contexts : (c \in Sent => ctx[c] = "none") /\ (c \in Waiting => ctx[c] = "locking")
    BY Zenon DEF ProxyInv, ProxyTypes, Places
  <2>2. QED
    BY <1>1, <2>1, NameFacts DEF Signalled, RequestStates
<1>10. /\ ctx'["stop"] = IF rest = <<>> THEN "none" ELSE "yielded"
       /\ \A c \in S : ctx'[c] = IF ctx[c] = "sleep" THEN "loop" ELSE "answered"
       /\ \A c \in Contexts : c # "stop" /\ c \notin S => ctx'[c] = ctx[c]
  BY <1>8, <1>9, NameFacts, ZenonT(60) DEF woken
<1>11. /\ ready' \in Seq(Names) /\ IsInjective(ready') /\ "main" \notin Queued'
       /\ (rest = <<>> => Queued' = {} /\ Queued \subseteq {"stop"} /\ S = {})
       /\ (rest # <<>> => Queued' = (Queued \ {"stop"}) \cup S \cup {"stop"})
  <2>1. CASE rest = <<>>
    <3>1. ready' = <<>> /\ Range(rest) = {} /\ Range(<<>>) = {} /\ IsInjective(<<>>)
      BY <1>8, <2>1, EmptyFacts, Zenon
    <3>2. QED
      BY <1>8, <2>1, <3>1, Zenon DEF Queued
  <2>2. CASE rest # <<>>
    <3>1. "stop" \in Names /\ "stop" \notin Range(rest) /\ ready' = Append(rest, "stop")
      BY <1>8, <1>9, <2>2, NameFacts, ZenonT(60)
    <3>2. ready' \in Seq(Names) /\ IsInjective(ready') /\ Queued' = Range(rest) \cup {"stop"}
      BY <1>8, <2>2, <3>1, YieldQueue, Zenon
    <3>3. QED
      BY <1>5, <1>8, <1>9, <2>2, <3>2, ZenonT(60)
  <2>3. QED
    BY <2>1, <2>2, Zenon
<1>12. Sent = {} /\ Sent' = {} /\ IsInjective(remote') /\ Waiting' = Waiting
  BY <1>1, <1>4, <1>8, EmptyFacts, Zenon DEF Sent, Waiting
<1>13. ProxyTypes'
  <2>1. \A c \in Contexts : ctx'[c] \in RequestStates \cup PullStates \cup StopStates
    BY <1>9, <1>10, NameFacts, ZenonT(60) DEF ProxyInv, ProxyTypes, RequestStates, PullStates, StopStates
  <2>2. ctx' \in [Contexts -> RequestStates \cup PullStates \cup StopStates]
    BY <1>8, <2>1, Zenon
  <2>3. /\ \A r \in Requests : ctx'[r] \in RequestStates
        /\ ctx'["pull"] \in PullStates /\ ctx'["stop"] \in StopStates
    <3>1. ASSUME NEW r \in Requests PROVE ctx'[r] \in RequestStates
      <4>1. r \in Contexts /\ r # "stop" /\ r # "pull" /\ ctx[r] \in RequestStates
        BY NameFacts, Zenon DEF ProxyInv, ProxyTypes
      <4>2. r \in S => ctx'[r] = "answered"
        BY <1>9, <1>10, <4>1, Zenon
      <4>3. r \notin S => ctx'[r] = ctx[r]
        BY <1>10, <4>1, Zenon
      <4>4. QED
        BY <4>1, <4>2, <4>3, Zenon DEF RequestStates
    <3>2. ctx'["pull"] \in PullStates
      <4>1. ctx["pull"] \in PullStates /\ "pull" # "stop" /\ "pull" \in Contexts
        BY NameFacts, Zenon DEF ProxyInv, ProxyTypes
      <4>2. QED
        BY <1>10, <4>1, ZenonT(60) DEF PullStates
    <3>3. ctx'["stop"] \in StopStates
      BY <1>10, Zenon DEF StopStates
    <3>4. QED
      BY <3>1, <3>2, <3>3, Zenon
  <2>4. remote' \in Seq(Requests \cup {"stop"})
    BY <1>8
  <2>5. QED
    BY <1>1, <1>11, <1>12, <2>2, <2>3, <2>4, ZenonT(60) DEF ProxyInv, ProxyTypes
<1>14. Places'
  <2>1. ASSUME NEW d \in Contexts
        PROVE  /\ d \in Sent' => ctx'[d] = "none"
               /\ d \in Queued' => ctx'[d] \in Runnable \cup {"locking"}
               /\ ctx'[d] \in Runnable => d \in Queued'
               /\ d \in Waiting' => ctx'[d] = "locking" /\ d \notin Queued'
               /\ ctx'[d] = "locking" => d \in Queued' \cup Waiting'
    <3>1. CASE d = "stop"
      <4>1. "stop" \notin Waiting
        BY <1>1, NameFacts, ZenonT(60) DEF ProxyInv, Places
      <4>2. QED
        BY <1>10, <1>11, <1>12, <3>1, <4>1, ZenonT(60) DEF Runnable
    <3>2. CASE d \in S
      BY <1>9, <1>10, <1>11, <1>12, <3>2, Zenon DEF Runnable
    <3>3. CASE d # "stop" /\ d \notin S
      <4>1. ctx'[d] = ctx[d] /\ (d \in Queued' <=> d \in Queued)
        BY <1>10, <1>11, <3>3, ZenonT(60)
      <4>2. QED
        BY <1>12, <4>1, Zenon DEF ProxyInv, Places, Runnable
    <3>4. QED
      BY <3>1, <3>2, <3>3, ZenonT(60)
  <2>2. QED
    BY <2>1, ZenonT(60) DEF Places
<1>15. Pending' = Pending /\ RemoteRequests' = {}
  <2>1. \A r \in Requests : /\ ctx'[r] = "none" <=> ctx[r] = "none"
                            /\ ctx'[r] = "remote" => ctx[r] = "remote"
    BY <1>9, <1>10, NameFacts
  <2>2. QED
    BY <1>6, <1>12, <2>1, ZenonT(60) DEF Pending, RemoteRequests
<1>16. Calls'
  BY <1>1, <1>15, Zenon DEF ProxyInv, Calls
<1>17. Phases'
  BY <1>1, <1>4, <1>5, ZenonT(60) DEF ProxyInv, Phases
<1>18. StopOrder'
  BY <1>1, <1>4, <1>8, <1>10, <1>12, <1>15 DEF StopOrder
<1>19. MainQueued'
  BY <1>1, <1>5, <1>11, ZenonT(60) DEF MainQueued
<1>20. QED
  BY <1>13, <1>14, <1>16, <1>17, <1>18, <1>19, Zenon DEF ProxyInv

(* The worker ends when nobody but its main context is in the queue.       *)
LEMMA EndKeeps ==
    ASSUME ProxyInv, main \in {"waiting", "yielding"}, Queued = {"main"},
           ready' = <<>>, main' = "ended",
           UNCHANGED <<ctx, remote, waiters, asked, called, m_stop, m_state, client>>
    PROVE  ProxyInv'
<1>1. m_stop /\ InGroup = {} /\ RemoteRequests = {} /\ remote = <<>> /\ client = "joining"
  BY Zenon DEF ProxyInv, MainQueued, StopOrder
<1>2. \A c \in Contexts : ctx[c] = "none"
  <2>1. \A r \in Requests : ctx[r] = "none"
    BY <1>1, ZenonT(60) DEF InGroup, RemoteRequests
  <2>2. ctx["pull"] = "none"
    BY <1>1, ZenonT(60) DEF ProxyInv, ProxyTypes, InGroup, PullStates
  <2>3. ctx["stop"] = "none"
    BY NameFacts, Zenon DEF ProxyInv, ProxyTypes, Places, Runnable, StopStates
  <2>4. QED
    BY <2>1, <2>2, <2>3, NameFacts, Zenon
<1>3. waiters = <<>> /\ Waiting = {}
  <2>1. Waiting \subseteq Requests \cup {"pull"}
    BY RangeType, Zenon DEF ProxyInv, ProxyTypes, Waiting
  <2>2. Waiting = {}
    BY <1>2, <2>1, NameFacts, Zenon DEF ProxyInv, Places
  <2>3. QED
    BY <2>2, EmptyFacts, Zenon DEF ProxyInv, ProxyTypes, Waiting
<1>4. Queued' = {} /\ Sent' = Sent /\ Sent = {} /\ Waiting' = Waiting /\ IsInjective(ready')
  BY <1>1, EmptyFacts, Zenon DEF Queued, Sent, Waiting
<1>5. Pending' = Pending /\ RemoteRequests' = RemoteRequests /\ InGroup' = InGroup
  BY <1>4, Zenon DEF Pending, RemoteRequests, InGroup
<1>6. ProxyTypes'
  <2>1. ready' \in Seq(Names)
    OBVIOUS
  <2>2. QED
    BY <1>4, <2>1, Zenon DEF ProxyInv, ProxyTypes
<1>7. Places'
  BY <1>2, <1>3, <1>4, Zenon DEF Places, Runnable
<1>8. Calls'
  BY <1>5, Zenon DEF ProxyInv, Calls
<1>9. Phases'
  <2>1. NoContexts'
    BY <1>2, <1>3, ZenonT(60) DEF NoContexts
  <2>2. QED
    BY <1>1, <2>1, Zenon DEF ProxyInv, Phases
<1>10. StopOrder'
  BY <1>1, <1>4, <1>5, Zenon DEF ProxyInv, StopOrder
<1>11. MainQueued'
  BY <1>4, Zenon DEF MainQueued
<1>12. QED
  BY <1>6, <1>7, <1>8, <1>9, <1>10, <1>11, ZenonT(60) DEF ProxyInv

(* The group is empty and stays so: nothing is left that epoll could       *)
(* report, and the main context lets the others run before it ends.        *)
LEMMA MainYieldsKeeps ==
    ASSUME ProxyInv, mainYields
    PROVE  ProxyInv'
<1>1. /\ UNCHANGED <<waiters, asked, called, m_state, m_stop, client>>
      /\ Resumed("main") /\ main = "waiting" /\ yield("main", "none")
      /\ main' = IF ready' = <<>> THEN "ended" ELSE "yielding"
  BY Zenon DEF mainYields, clientVars, callVars, httpVars
<1>2. ready \in Seq(Names) /\ IsInjective(ready) /\ ready # <<>> /\ Head(ready) = "main"
  BY <1>1, Zenon DEF ProxyInv, ProxyTypes, Resumed
<1>3. "main" \in Queued
  BY <1>2, TailFacts, Zenon DEF Queued
<1>4. m_stop /\ InGroup = {} /\ remote = <<>> /\ client = "joining"
  BY <1>1, <1>3, Zenon DEF ProxyInv, MainQueued, StopOrder
<1>5. Signalled = {}
  <2>1. SUFFICES ASSUME NEW c \in Signalled PROVE FALSE
    BY Zenon
  <2>2. c \in Contexts /\ ctx[c] \in {"replied", "sleep"}
    BY Zenon DEF Signalled
  <2>3. c # "stop"
    BY <2>2, Zenon DEF ProxyInv, ProxyTypes, StopStates
  <2>4. c \in InGroup
    BY <2>2, <2>3, NameFacts, Zenon DEF InGroup
  <2>5. QED
    BY <1>4, <2>4, Zenon
<1>6. PICK rest \in Seq(Names) :
          /\ IsInjective(rest) /\ Range(rest) = Queued \ {"main"}
          /\ ready' = IF rest = <<>> THEN <<>> ELSE Append(rest, "main")
          /\ remote' = <<>>
          /\ ctx' = [c \in Contexts |-> IF c = "main" THEN "none" ELSE ctx[c]]
  <2> DEFINE self == "main"
             state == "none"
  <2>1. self \in Names /\ Resumed(self) /\ yield(self, state) /\ remote = <<>>
    BY <1>1, <1>4, NameFacts, Zenon
  <2> HIDE DEF self, state
  <2>2. PICK S \in SUBSET Signalled, rest \in Seq(Names) : Yielded(self, state, S, rest)
    BY <2>1, YieldFacts, Zenon
  <2>3. S = {}
    BY <1>5, Zenon
  <2>4. Range(rest) = Queued \ {"main"}
    BY <2>2, <2>3, Zenon DEF self, Yielded
  <2>5. ctx' = [c \in Contexts |-> IF c = "main" THEN "none" ELSE ctx[c]]
    BY <2>2, <2>3, Zenon DEF self, state, Yielded
  <2>6. QED
    BY <2>2, <2>4, <2>5, Zenon DEF self, Yielded
<1>7. ctx' = ctx
  BY <1>6, NameFacts, Zenon DEF ProxyInv, ProxyTypes
<1>8. CASE rest = <<>>
  <2>1. Queued = {"main"} /\ ready' = <<>> /\ main' = "ended"
    BY <1>1, <1>3, <1>6, <1>8, EmptyFacts, Zenon
  <2>2. QED
    BY <1>1, <1>4, <1>6, <1>7, <2>1, EndKeeps, Zenon
<1>9. CASE rest # <<>>
  <2> DEFINE self == "main"
  <2>1. self \in Names /\ self \notin Range(rest) /\ ready' = Append(rest, self)
    BY <1>6, <1>9, NameFacts, Zenon
  <2> HIDE DEF self
  <2>2. /\ ready' \in Seq(Names) /\ IsInjective(ready') /\ Queued' = Range(rest) \cup {self}
        /\ Len(ready') > 0 /\ ready'[Len(ready')] = self
    BY <1>6, <1>9, <2>1, YieldQueue, Zenon
  <2>3. Queued' = Queued /\ main' = "yielding" /\ ready'[Len(ready')] = "main"
    <3>1. ready' # <<>>
      BY <2>2, SMTT(40)
    <3>2. QED
      BY <1>1, <1>3, <1>6, <2>2, <3>1, Zenon DEF self
  <2>4. /\ remote' = remote /\ Sent' = Sent /\ Waiting' = Waiting /\ Pending' = Pending
        /\ RemoteRequests' = RemoteRequests /\ InGroup' = InGroup
    BY <1>1, <1>4, <1>6, <1>7, ZenonT(60) DEF Sent, Waiting, Pending, RemoteRequests, InGroup
  <2>5. ProxyTypes'
    BY <1>1, <1>7, <2>2, <2>4, Zenon DEF ProxyInv, ProxyTypes
  <2>6. Places'
    BY <1>7, <2>3, <2>4, Zenon DEF ProxyInv, Places
  <2>7. Calls'
    BY <1>1, <2>4, Zenon DEF ProxyInv, Calls
  <2>8. Phases'
    BY <1>1, <1>4, <1>7, <2>3, <2>4, ZenonT(60) DEF ProxyInv, Phases
  <2>9. StopOrder'
    BY <1>1, <1>4, <1>7, <2>3, <2>4, ZenonT(60) DEF ProxyInv, StopOrder
  <2>10. MainQueued'
    BY <1>1, <1>4, <2>2, <2>3, <2>4, Zenon DEF MainQueued
  <2>11. QED
    BY <2>5, <2>6, <2>7, <2>8, <2>9, <2>10, Zenon DEF ProxyInv
<1>10. QED
  BY <1>8, <1>9, Zenon

(* Nobody is behind it when it is resumed again.                           *)
LEMMA MainEndsKeeps ==
    ASSUME ProxyInv, mainEnds
    PROVE  ProxyInv'
<1>1. /\ UNCHANGED <<ctx, remote, waiters, asked, called, m_state, m_stop, client>>
      /\ Resumed("main") /\ main = "yielding" /\ ready' = Tail(ready) /\ main' = "ended"
  BY Zenon DEF mainEnds, clientVars, callVars, httpVars
<1>2. ready \in Seq(Names) /\ IsInjective(ready) /\ ready # <<>> /\ Head(ready) = "main"
  BY <1>1, Zenon DEF ProxyInv, ProxyTypes, Resumed
<1>3. Len(ready) > 0 /\ ready[Len(ready)] = "main"
  BY <1>1, Zenon DEF ProxyInv, MainQueued
<1>4. Len(ready) = 1
  <2>1. 1 \in DOMAIN ready /\ Len(ready) \in DOMAIN ready /\ ready[1] = ready[Len(ready)]
    BY <1>2, <1>3
  <2>2. QED
    BY <1>2, <2>1, Zenon DEF IsInjective
<1>5. ready' = <<>> /\ Queued = {"main"}
  BY <1>1, <1>2, <1>4 DEF Queued, Range
<1>6. QED
  BY <1>1, <1>5, EndKeeps, Zenon

(* A request runs, and ends.                                               *)
LEMMA RunRequestKeeps ==
    ASSUME ProxyInv, NEW r \in Requests, runRequest(r) \/ endRequest(r)
    PROVE  ProxyInv'
<1>1. CASE runRequest(r)
  <2>1. /\ Resumed(r) /\ ctx[r] \in {"start", "locking"} /\ ctx[r] # "remote"
        /\ UNCHANGED <<m_stop, m_state, client, main>>
    BY <1>1, Zenon DEF runRequest, clientVars
  <2>2. CASE ctx[r] = "start" /\ m_stop
    <3> DEFINE t == <<>>
               ok == FALSE
    <3>1. callback(r, ok) /\ leaveGroup(r, Tail(ready)) /\ waiters' = waiters
      BY <1>1, <2>2, Zenon DEF runRequest, httpVars
    <3>2. Tail(ready) = Tail(ready) \o t
      BY <2>1 DEF ProxyInv, ProxyTypes, Resumed
    <3>3. Wakes(t) /\ leaveGroup(r, Tail(ready) \o t)
      BY <3>1, <3>2, Zenon DEF Wakes
    <3> HIDE DEF t, ok
    <3>4. QED
      BY <2>1, <3>1, <3>3, CallbackKeeps, Zenon
  <2>3. CASE ~(ctx[r] = "start" /\ m_stop)
    <3>1. lockHttp(r) /\ ready' = Tail(ready) /\ UNCHANGED <<remote, asked, called>>
      BY <1>1, <2>3, Zenon DEF runRequest, callVars
    <3>2. QED
      BY <2>1, <3>1, LockKeeps, Zenon
  <2>4. QED
    BY <2>2, <2>3, Zenon
<1>2. CASE endRequest(r)
  <2> DEFINE ok == ~m_stop /\ reply # Failed
  <2>1. /\ Resumed(r) /\ ctx[r] # "remote" /\ UNCHANGED <<m_stop, m_state, client, main>>
        /\ callback(r, ok) /\ leaveGroup(r, Tail(ready) \o waiters) /\ waiters' = <<>>
    BY <1>2, Zenon DEF endRequest, clientVars, unlockHttp, Unlocked
  <2>2. Wakes(waiters)
    BY <2>1, Zenon DEF Wakes
  <2> HIDE DEF ok
  <2>3. QED
    BY <2>1, <2>2, CallbackKeeps, Zenon
<1>3. QED
  BY <1>1, <1>2, Zenon

(* The context that pulls asks, sleeps, or ends after shutdown.            *)
LEMMA PullKeeps ==
    ASSUME ProxyInv, pullLoop \/ pullAnswered
    PROVE  ProxyInv'
<1> DEFINE c == "pull"
<1>0. c \in Requests \cup {"pull"} /\ c = "pull"
  BY Zenon
<1>1. ASSUME NEW t, Wakes(t), leaveGroup(c, Tail(ready) \o t), Resumed(c), ctx[c] # "remote", m_stop,
             UNCHANGED <<remote, asked, called, m_stop, m_state, client, main>>
      PROVE  ProxyInv'
  <2> DEFINE next == {}
             order == <<>>
  <2>1. order \in Orders(next)
    BY EmptyOrder, Zenon
  <2>2. remote' = remote \o order
    BY <1>1 DEF ProxyInv, ProxyTypes
  <2>3. /\ next \in SUBSET Requests /\ next \cap asked = {} /\ (next # {} => client # "joining")
        /\ asked' = asked \cup next /\ called' \in [Requests -> Nat]
    BY <1>1, ZenonT(60) DEF ProxyInv, ProxyTypes
  <2> HIDE DEF order, next, c
  <2>4. /\ ProxyTypes' /\ Places' /\ Phases' /\ StopOrder' /\ MainQueued'
        /\ Pending' = (Pending \ {c}) \cup next
    BY <1>0, <1>1, <2>1, <2>2, <2>3, LeaveKeeps, ZenonT(60)
  <2>5. Pending' = Pending
    BY <1>0, <2>4, NameFacts, Zenon DEF next, Pending
  <2>6. Calls'
    BY <1>1, <2>5, Zenon DEF ProxyInv, Calls
  <2>7. QED
    BY <2>4, <2>6, Zenon DEF ProxyInv
<1>2. ASSUME NEW x, x = "http" \/ x = "sleep", ctx' = [ctx EXCEPT ![c] = x],
             ready' = Tail(ready) \o waiters, waiters' = <<>>, Resumed(c), ctx[c] # "remote",
             UNCHANGED <<remote, asked, called, m_stop, m_state, client, main>>
      PROVE  ProxyInv'
  <2>1. Wakes(waiters) /\ (x = "http" \/ (x = "sleep" /\ c = "pull"))
    BY <1>2, Zenon DEF Wakes
  <2> HIDE DEF c
  <2>2. QED
    BY <1>0, <1>2, <2>1, OutKeeps, Zenon
<1>3. CASE pullLoop
  <2>1. /\ Resumed(c) /\ ctx[c] # "remote"
        /\ UNCHANGED <<remote, asked, called, m_stop, m_state, client, main>>
    BY <1>3, Zenon DEF pullLoop, clientVars, callVars
  <2>2. CASE ctx[c] = "loop" /\ m_stop
    <3> DEFINE t == <<>>
    <3>1. leaveGroup(c, Tail(ready)) /\ waiters' = waiters
      BY <1>3, <2>2, Zenon DEF pullLoop, httpVars
    <3>2. Tail(ready) = Tail(ready) \o t
      BY <2>1 DEF ProxyInv, ProxyTypes, Resumed
    <3>3. Wakes(t) /\ leaveGroup(c, Tail(ready) \o t)
      BY <3>1, <3>2, Zenon DEF Wakes
    <3> HIDE DEF t, c
    <3>4. QED
      BY <1>1, <2>1, <2>2, <3>3, Zenon
  <2>3. CASE ~(ctx[c] = "loop" /\ m_stop)
    <3>1. lockHttp(c) /\ ready' = Tail(ready)
      BY <1>3, <2>3, Zenon DEF pullLoop
    <3> HIDE DEF c
    <3>2. QED
      BY <1>0, <2>1, <3>1, LockKeeps, Zenon
  <2>4. QED
    BY <2>2, <2>3, ZenonT(60)
<1>4. CASE pullAnswered
  <2>1. /\ Resumed(c) /\ ctx[c] # "remote"
        /\ UNCHANGED <<remote, asked, called, m_stop, m_state, client, main>>
    BY <1>4, Zenon DEF pullAnswered, clientVars, callVars
  <2>2. ASSUME NEW q, nextQuery(q) PROVE ProxyInv'
    <3> DEFINE x == "http"
    <3>1. ctx' = [ctx EXCEPT ![c] = x] /\ ready' = Tail(ready) \o waiters /\ waiters' = <<>> /\ x = "http"
      BY <2>2, Zenon DEF nextQuery, Unlocked
    <3> HIDE DEF x, c
    <3>2. QED
      BY <1>2, <2>1, <3>1, Zenon
  <2>3. ASSUME pullRests PROVE ProxyInv'
    <3>1. CASE m_stop
      <4>1. leaveGroup(c, Tail(ready) \o waiters) /\ waiters' = <<>>
        BY <2>3, <3>1, Zenon DEF pullRests, unlockHttp, Unlocked
      <4>2. Wakes(waiters)
        BY <4>1, Zenon DEF Wakes
      <4> HIDE DEF c
      <4>3. QED
        BY <1>1, <2>1, <3>1, <4>1, <4>2, Zenon
    <3>2. CASE ~m_stop
      <4> DEFINE x == "sleep"
      <4>1. /\ ctx' = [ctx EXCEPT ![c] = x] /\ ready' = Tail(ready) \o waiters
            /\ waiters' = <<>> /\ x = "sleep"
        BY <2>3, <3>2, Zenon DEF pullRests, unlockHttp, Unlocked
      <4> HIDE DEF x, c
      <4>2. QED
        BY <1>2, <2>1, <4>1, Zenon
    <3>3. QED
      BY <3>1, <3>2, Zenon
  <2>4. (\E q : nextQuery(q)) \/ pullRests
    BY <1>4, Zenon DEF pullAnswered, updateBlockchainStatus, updatePoolStatus
  <2>5. QED
    BY <2>2, <2>3, <2>4, Zenon
<1>5. QED
  BY <1>3, <1>4, Zenon

-----------------------------------------------------------------------------
(* Every step keeps the invariant.                                         *)
LEMMA ProxyNextInv ==
    ASSUME ProxyInv, [ProxyNext]_proxyVars
    PROVE  ProxyInv'
<1>1. CASE init
  BY <1>1, InitKeeps, Zenon
<1>2. CASE walletShutdown \/ nodeMoves \/ UNCHANGED proxyVars
  <2>1. UNCHANGED <<ctx, ready, remote, waiters, asked, called, m_stop, main, m_state, client>>
    BY <1>2, Zenon DEF walletShutdown, nodeMoves, proxyVars, callVars, httpVars, clientVars
  <2>2. QED
    BY <2>1, SameKeeps, ZenonT(60)
<1>3. CASE shutdown \/ shutdownInitialized
  <2>1. /\ client # "joining"
        /\ UNCHANGED <<ctx, ready, waiters, asked, called, m_stop, main, m_state>>
    BY <1>3, ZenonT(60) DEF shutdown, shutdownInitialized, callVars, httpVars
  <2>2. \/ client' \in {"idle", "waiting"} /\ remote' = remote
        \/ /\ m_state # "not_initialized" /\ m_state # "initializing"
           /\ remote' = Append(remote, "stop") /\ client' = "joining"
    BY <1>3, Zenon DEF shutdown, shutdownInitialized, stopWorker
  <2>3. QED
    BY <2>1, <2>2, ShutdownKeeps, Zenon
<1>4. CASE joined
  BY <1>4, JoinedKeeps, Zenon
<1>5. CASE \E r \in Requests : request(r)
  BY <1>5, RequestKeeps, Zenon
<1>6. CASE workerStarts \/ spawnPull \/ dispatchRemote \/ \E c \in Contexts : dispatchSignalled(c)
  BY <1>6, WorkerStartsKeeps, SpawnPullKeeps, DispatchRemoteKeeps, DispatchSignalledKeeps, Zenon
<1>7. CASE stops \/ stopped \/ mainYields \/ mainEnds
  BY <1>7, StopsKeeps, StoppedKeeps, MainYieldsKeeps, MainEndsKeeps, Zenon
<1>8. CASE \E r \in Requests : spawnRequest(r) \/ runRequest(r) \/ endRequest(r)
  BY <1>8, SpawnRequestKeeps, RunRequestKeeps, Zenon
<1>9. CASE pullLoop \/ pullAnswered
  BY <1>9, PullKeeps, Zenon
<1>10. CASE \E c \in Contexts : nodeAnswers(c)
  BY <1>10, NodeAnswersKeeps, Zenon
<1>11. QED
  BY <1>1, <1>2, <1>3, <1>4, <1>5, <1>6, <1>7, <1>8, <1>9, <1>10, Zenon DEF ProxyNext, Worker, Node, Shutdown

(* It holds at the start.                                                  *)
LEMMA ProxyInitInv == ProxyInit => ProxyInv
<1> SUFFICES ASSUME ProxyInit PROVE ProxyInv
  BY Zenon
<1>1. /\ ready = <<>> /\ remote = <<>> /\ waiters = <<>> /\ \A c \in Contexts : ctx[c] = "none"
      /\ main = "none" /\ m_state = "not_initialized" /\ client = "idle" /\ m_stop = FALSE
      /\ asked = {} /\ called = [r \in Requests |-> 0]
  BY Zenon DEF ProxyInit
<1>2. Queued = {} /\ Sent = {} /\ Waiting = {} /\ IsInjective(<<>>)
  BY <1>1, EmptyFacts, Zenon DEF Queued, Sent, Waiting
<1>3. ctx \in [Contexts -> {"none"}]
  BY Zenon DEF ProxyInit
<1>4. ProxyTypes
  <2>1. IsInjective(ready) /\ IsInjective(remote) /\ IsInjective(waiters)
    BY <1>1, <1>2, Zenon
  <2>2. ready \in Seq(Names) /\ remote \in Seq(Requests \cup {"stop"}) /\ waiters \in Seq(Requests \cup {"pull"})
    BY <1>1
  <2>3. /\ ctx \in [Contexts -> RequestStates \cup PullStates \cup StopStates]
        /\ \A r \in Requests : ctx[r] \in RequestStates
        /\ ctx["pull"] \in PullStates /\ ctx["stop"] \in StopStates
    BY <1>3, NameFacts, Zenon DEF RequestStates, PullStates, StopStates
  <2>4. asked \subseteq Requests /\ called \in [Requests -> Nat] /\ m_stop \in BOOLEAN
    BY <1>1, ZenonT(60)
  <2>5. QED
    BY <2>1, <2>2, <2>3, <2>4, Zenon DEF ProxyTypes
<1>5. Places
  BY <1>1, <1>2, Zenon DEF Places, Runnable
<1>6. Calls
  <2>1. Pending = {}
    BY <1>1, <1>2, NameFacts, Zenon DEF Pending
  <2>2. QED
    BY <1>1, <2>1, Zenon DEF Calls
<1>7. Phases
  BY <1>1, <1>2, NameFacts, Zenon DEF Phases, NoContexts
<1>8. StopOrder
  BY <1>1, <1>2, NameFacts, Zenon DEF StopOrder
<1>9. MainQueued
  BY <1>1, <1>2, Zenon DEF MainQueued
<1>10. QED
  BY <1>4, <1>5, <1>6, <1>7, <1>8, <1>9, Zenon DEF ProxyInv

(* Every request is called back exactly once: none is called twice, when   *)
(* the proxy is shut down none is left that was not, and the dispatcher of *)
(* a worker that ends has nothing to run.                                  *)
THEOREM AlwaysAnsweredOnce == ProxySpec => []AnsweredOnce
<1>1. ProxyInv => AnsweredOnce
  <2> SUFFICES ASSUME ProxyInv PROVE AnsweredOnce
    BY Zenon
  <2>1. \A r \in Requests : called[r] <= 1
    BY DEF ProxyInv, Calls
  <2>2. ASSUME m_state = "not_initialized", NEW r \in asked PROVE called[r] = 1
    <3>1. main = "none" /\ r \in Requests
      BY <2>2, Zenon DEF ProxyInv, Phases, ProxyTypes
    <3>2. NoContexts /\ remote = <<>>
      BY <3>1, Zenon DEF ProxyInv, Phases
    <3>3. Sent = {}
      BY <3>2, EmptyFacts, Zenon DEF Sent
    <3>4. r \notin Pending
      BY <3>1, <3>2, <3>3, NameFacts, Zenon DEF Pending, NoContexts
    <3>5. QED
      BY <3>1, <3>4, Zenon DEF ProxyInv, Calls
  <2>3. ASSUME main = "ended" PROVE ready = <<>> /\ remote = <<>> /\ InGroup = {} /\ waiters = <<>>
    BY <2>3, NameFacts, Zenon DEF ProxyInv, Phases, NoContexts, InGroup
  <2>4. QED
    BY <2>1, <2>2, <2>3, Zenon DEF AnsweredOnce
<1>2. QED
  BY <1>1, ProxyInitInv, ProxyNextInv, PTL DEF ProxySpec

=============================================================================
