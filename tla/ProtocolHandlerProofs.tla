----------------------- MODULE ProtocolHandlerProofs -----------------------
(***************************************************************************)
(* What the handlers of CryptoNoteProtocolHandler rely on, for any peers   *)
(* and any tree of blocks, of any work: a connection that synchronises has *)
(* one request, answer or processing under way, and nothing is left in the *)
(* lists of its context when it has done.                                  *)
(*                                                                         *)
(* A connection is looked at by itself: its context, its two queues and    *)
(* the blocks it has still to add.  No message makes another answer come   *)
(* while one is due, because only an answer moves a connection out of      *)
(* state_synchronizing.  Nothing is said of the heights that peers tell:   *)
(* they can fall, when a peer goes over to a shorter chain, and then       *)
(* request_missing_objects can end in "final condition failed".  The       *)
(* connection keeps its state and has nothing under way from then on.      *)
(***************************************************************************)
EXTENDS ProtocolHandler, WellFoundedInduction, TLAPS

Requests == {"requestChain", "getObjects"}
Answers == {"chainEntry", "objects"}
Others == {"requestTxPool", "missingTxs", "timedSync"}

IsSeq(q) == \E S : q \in Seq(S)

(* Where in a queue the messages of some types are.                        *)
Where(q, T) == {i \in DOMAIN q : q[i].type \in T}
None(q, T) == Where(q, T) = {}
One(q, T) == \E i \in DOMAIN q : Where(q, T) = {i}

(* An answer to NOTIFY_REQUEST_CHAIN ends with a block of the peer.        *)
Entry(m) == m.type = "chainEntry" => ~(m.start + Len(m.ids) - 1 > m.total)
RequestFor(m) ==
    /\ m.type \in Requests \cup Others
    /\ m.type = "requestChain" => \E b \in Blocks : m.ids = ChainOf[b]

Quiet == {"closed", "sync_required", "pool_sync_required", "normal", "idle"}
States == Quiet \cup {"synchronizing", "shutdown"}

Context(c) ==
    /\ DOMAIN c = {"state", "needed", "requested", "remote", "last", "pending", "failed"}
    /\ c.state \in States /\ c.failed \in BOOLEAN
    /\ c.state = "closed" => c = Closed
    /\ c.failed => c.state = "synchronizing"
    /\ c.failed \/ c.state \in Quiet => c.needed = <<>> /\ c.requested = {}

(* What is under way: nothing, or exactly one thing.                       *)
Still(ib, ob, ps) == None(ob, Requests) /\ None(ib, Answers) /\ ps = <<>>
Driven(ib, ob, ps) ==
    \/ One(ob, Requests) /\ None(ib, Answers) /\ ps = <<>>
    \/ None(ob, Requests) /\ One(ib, Answers) /\ ps = <<>>
    \/ None(ob, Requests) /\ None(ib, Answers) /\ \E x : ps = <<x>>

(* Blocks are on request only while they are.                              *)
OnRequest(c, ib, ob, ps) ==
    ~None(ob, {"requestChain"}) \/ ~None(ib, {"chainEntry"}) \/ ps # <<>> => c.requested = {}

(* A connection apart from what is under way, and with it.                 *)
Basics(c, ib, ob) ==
    /\ Context(c) /\ IsSeq(ib) /\ IsSeq(ob)
    /\ \A i \in DOMAIN ib : Entry(ib[i])
    /\ \A i \in DOMAIN ob : RequestFor(ob[i])
    /\ c.state = "closed" => ib = <<>> /\ ob = <<>>

Connection(c, ib, ob, ps) ==
    /\ Basics(c, ib, ob)
    /\ c.failed \/ c.state \in Quiet => Still(ib, ob, ps)
    /\ c.state = "synchronizing" /\ ~c.failed => Driven(ib, ob, ps) /\ OnRequest(c, ib, ob, ps)
    /\ c.state = "shutdown" => ps = <<>>

ProtocolInv ==
    /\ topBlock \in Blocks
    /\ DOMAIN conn = Peers /\ DOMAIN inbox = Peers /\ DOMAIN outbox = Peers /\ DOMAIN parsed = Peers
    /\ peerTip \in [Peers -> Blocks]
    /\ \A p \in Peers : Connection(conn[p], inbox[p], outbox[p], parsed[p])

-----------------------------------------------------------------------------
(* Queues.                                                                 *)

(* A queue has its places.                                                 *)
LEMMA QueueFacts ==
    ASSUME NEW q, IsSeq(q)
    PROVE  /\ Len(q) \in Nat /\ DOMAIN q = 1 .. Len(q) /\ q \o <<>> = q
           /\ q # <<>> => 1 \in DOMAIN q /\ Head(q) = q[1]
<1>1. PICK S : q \in Seq(S)
  BY Zenon DEF IsSeq
<1>2. QED
  BY <1>1

LEMMA EmptyQueue == IsSeq(<<>>) /\ DOMAIN <<>> = {} /\ \A T : None(<<>>, T)
BY DEF IsSeq, None, Where

(* post_notify, and a message that arrives.                                *)
LEMMA AppendFacts ==
    ASSUME NEW q, IsSeq(q), NEW m
    PROVE  /\ IsSeq(Append(q, m)) /\ q \o <<m>> = Append(q, m)
           /\ Len(Append(q, m)) = Len(q) + 1 /\ DOMAIN Append(q, m) = 1 .. Len(q) + 1
           /\ \A i \in DOMAIN q : Append(q, m)[i] = q[i]
           /\ Append(q, m)[Len(q) + 1] = m
<1>1. PICK S : q \in Seq(S)
  BY Zenon DEF IsSeq
<1>2. q \in Seq(S \cup {m}) /\ m \in S \cup {m}
  BY <1>1
<1>3. Append(q, m) \in Seq(S \cup {m})
  BY <1>2
<1>4. QED
  BY <1>2, <1>3 DEF IsSeq

(* A command that is read.                                                 *)
LEMMA TailFacts ==
    ASSUME NEW q, IsSeq(q), q # <<>>
    PROVE  /\ IsSeq(Tail(q)) /\ DOMAIN Tail(q) = 1 .. Len(q) - 1
           /\ \A i \in 1 .. Len(q) - 1 : i + 1 \in DOMAIN q /\ Tail(q)[i] = q[i + 1]
<1>1. PICK S : q \in Seq(S)
  BY Zenon DEF IsSeq
<1>2. Tail(q) \in Seq(S)
  BY <1>1
<1>3. QED
  BY <1>1, <1>2 DEF IsSeq

(* The messages of some types when one is added.                           *)
LEMMA AppendCount ==
    ASSUME NEW q, IsSeq(q), NEW m, NEW T
    PROVE  /\ m.type \notin T => /\ None(Append(q, m), T) <=> None(q, T)
                                 /\ One(q, T) => One(Append(q, m), T)
           /\ m.type \in T /\ None(q, T) => One(Append(q, m), T)
<1> DEFINE r == Append(q, m)
           n == Len(q) + 1
<1>1. n \in Nat \ {0} /\ DOMAIN q = 1 .. n - 1
  BY QueueFacts
<1>2. DOMAIN r = 1 .. n /\ r[n] = m /\ \A i \in 1 .. n - 1 : r[i] = q[i]
  BY <1>1, AppendFacts
<1> HIDE DEF r, n
<1>3. CASE m.type \notin T
  <2>1. Where(r, T) = Where(q, T)
    BY <1>1, <1>2, <1>3 DEF Where
  <2>2. DOMAIN q \subseteq DOMAIN r
    BY <1>1, <1>2
  <2>3. QED
    BY <1>3, <2>1, <2>2, Zenon DEF None, One, r
<1>4. CASE m.type \in T /\ None(q, T)
  <2>1. \A i \in 1 .. n - 1 : q[i].type \notin T
    BY <1>1, <1>4, Zenon DEF None, Where
  <2>2. Where(r, T) = {n} /\ n \in DOMAIN r
    BY <1>1, <1>2, <1>4, <2>1 DEF Where
  <2>3. QED
    BY <1>4, <2>2, Zenon DEF One, r
<1>5. QED
  BY <1>3, <1>4, Zenon DEF r

(* The messages of some types when the first message is taken.             *)
LEMMA TailCount ==
    ASSUME NEW q, IsSeq(q), q # <<>>, NEW T
    PROVE  /\ None(q, T) => None(Tail(q), T)
           /\ One(q, T) /\ Head(q).type \in T => None(Tail(q), T)
           /\ One(q, T) /\ Head(q).type \notin T => One(Tail(q), T)
<1> DEFINE r == Tail(q)
           n == Len(q)
<1>1. n \in Nat \ {0} /\ DOMAIN q = 1 .. n /\ Head(q) = q[1]
  BY QueueFacts
<1>2. DOMAIN r = 1 .. n - 1 /\ \A i \in 1 .. n - 1 : i + 1 \in 1 .. n /\ r[i] = q[i + 1]
  BY <1>1, TailFacts, Zenon
<1> HIDE DEF r, n
<1>3. ASSUME NEW i \in 1 .. n, i # 1
      PROVE  i - 1 \in 1 .. n - 1 /\ r[i - 1] = q[i]
  <2>1. i - 1 \in 1 .. n - 1 /\ (i - 1) + 1 = i
    BY <1>1, <1>3
  <2>2. QED
    BY <1>2, <2>1, Zenon
<1>4. ASSUME None(q, T)
      PROVE  None(r, T)
  BY <1>1, <1>2, <1>4, Zenon DEF None, Where
<1>5. ASSUME One(q, T), Head(q).type \in T
      PROVE  None(r, T)
  <2>1. PICK i \in 1 .. n : Where(q, T) = {i}
    BY <1>1, <1>5, Zenon DEF One
  <2>2. i = 1
    BY <1>1, <1>5, <2>1 DEF Where
  <2>3. ASSUME NEW j \in 1 .. n - 1
        PROVE  r[j].type \notin T
    <3>1. j + 1 \in 1 .. n /\ r[j] = q[j + 1] /\ j + 1 # i
      BY <1>1, <1>2, <2>2
    <3>2. QED
      BY <1>1, <2>1, <3>1, Zenon DEF Where
  <2>4. QED
    BY <1>2, <2>3, Zenon DEF None, Where
<1>6. ASSUME One(q, T), Head(q).type \notin T
      PROVE  One(r, T)
  <2>1. PICK i \in 1 .. n : Where(q, T) = {i}
    BY <1>1, <1>6, Zenon DEF One
  <2>2. i # 1 /\ q[i].type \in T
    BY <1>1, <1>6, <2>1, Zenon DEF Where
  <2>3. i - 1 \in 1 .. n - 1 /\ r[i - 1] = q[i]
    BY <1>3, <2>2, Zenon
  <2>4. ASSUME NEW j \in 1 .. n - 1, r[j].type \in T
        PROVE  j = i - 1
    <3>1. j + 1 \in Where(q, T)
      BY <1>1, <1>2, <2>4, Zenon DEF Where
    <3>2. QED
      BY <1>1, <2>1, <3>1
  <2>5. Where(r, T) = {i - 1}
    BY <1>2, <2>2, <2>3, <2>4, Zenon DEF Where
  <2>6. QED
    BY <1>2, <2>3, <2>5, Zenon DEF One
<1>7. QED
  BY <1>4, <1>5, <1>6, Zenon DEF r

(* Every message that is added or left says what it should.                *)
LEMMA AppendEach ==
    ASSUME NEW q, IsSeq(q), NEW m
    PROVE  /\ (\A i \in DOMAIN q : Entry(q[i])) /\ Entry(m)
                => \A i \in DOMAIN Append(q, m) : Entry(Append(q, m)[i])
           /\ (\A i \in DOMAIN q : RequestFor(q[i])) /\ RequestFor(m)
                => \A i \in DOMAIN Append(q, m) : RequestFor(Append(q, m)[i])
<1>1. Len(q) \in Nat /\ DOMAIN q = 1 .. Len(q)
  BY QueueFacts, Zenon
<1>2. \A i \in DOMAIN Append(q, m) :
         \/ i \in DOMAIN q /\ Append(q, m)[i] = q[i]
         \/ Append(q, m)[i] = m
  BY <1>1, AppendFacts
<1>3. QED
  BY <1>2, Zenon

LEMMA TailEach ==
    ASSUME NEW q, IsSeq(q), q # <<>>
    PROVE  /\ (\A i \in DOMAIN q : Entry(q[i])) => \A i \in DOMAIN Tail(q) : Entry(Tail(q)[i])
           /\ (\A i \in DOMAIN q : RequestFor(q[i])) => \A i \in DOMAIN Tail(q) : RequestFor(Tail(q)[i])
BY TailFacts, Zenon

-----------------------------------------------------------------------------
(* One connection.                                                         *)

(* A message that asks for nothing can always be sent.                     *)
LEMMA SendKeeps ==
    ASSUME NEW c, NEW ib, NEW ob, NEW ps, Connection(c, ib, ob, ps),
           c.state # "closed", NEW m, m.type \in Others
    PROVE  Connection(c, ib, Append(ob, m), ps)
<1> DEFINE nb == Append(ob, m)
<1>1. IsSeq(ob) /\ \A i \in DOMAIN ob : RequestFor(ob[i])
  BY Zenon DEF Connection, Basics
<1>2. RequestFor(m) /\ m.type \notin {"requestChain"} /\ m.type \notin Requests
  BY Zenon DEF RequestFor, Requests, Others
<1>3. IsSeq(nb) /\ \A i \in DOMAIN nb : RequestFor(nb[i])
  BY <1>1, <1>2, AppendFacts, AppendEach, Zenon
<1>4. /\ None(nb, Requests) <=> None(ob, Requests)
      /\ One(ob, Requests) => One(nb, Requests)
      /\ None(nb, {"requestChain"}) <=> None(ob, {"requestChain"})
  BY <1>1, <1>2, AppendCount, Zenon
<1> HIDE DEF nb
<1>5. Basics(c, ib, nb)
  BY <1>3, Zenon DEF Connection, Basics
<1>6. Still(ib, ob, ps) => Still(ib, nb, ps)
  BY <1>4, Zenon DEF Still
<1>7. /\ Driven(ib, ob, ps) => Driven(ib, nb, ps)
      /\ OnRequest(c, ib, ob, ps) => OnRequest(c, ib, nb, ps)
  BY <1>4, Zenon DEF Driven, OnRequest
<1>8. QED
  BY <1>5, <1>6, <1>7, Zenon DEF Connection, nb

(* A connection that is quiet can begin to synchronise: start_sync, and a  *)
(* new block whose parent is not known.                                    *)
LEMMA StartKeeps ==
    ASSUME NEW c, NEW ib, NEW ob, NEW ps, Connection(c, ib, ob, ps),
           c.state \in Quiet, c.state # "closed", topBlock \in Blocks
    PROVE  Connection([c EXCEPT !.state = "synchronizing"], ib, Append(ob, RequestChain), ps)
<1> DEFINE nb == Append(ob, RequestChain)
           d == [c EXCEPT !.state = "synchronizing"]
<1>1. /\ IsSeq(ob) /\ \A i \in DOMAIN ob : RequestFor(ob[i])
      /\ Context(c) /\ Still(ib, ob, ps) /\ c.needed = <<>> /\ c.requested = {}
  BY Zenon DEF Connection, Basics, Context
<1>2. RequestChain.type = "requestChain" /\ RequestFor(RequestChain)
  BY Zenon DEF RequestChain, RequestFor, Requests
<1>3. IsSeq(nb) /\ \A i \in DOMAIN nb : RequestFor(nb[i])
  BY <1>1, <1>2, AppendFacts, AppendEach, Zenon
<1>4. RequestChain.type \in Requests
  BY <1>2, Zenon DEF Requests
<1>5. One(nb, Requests)
  BY <1>1, <1>4, AppendCount, Zenon DEF Still
<1> HIDE DEF nb
<1>6. /\ Context(d) /\ d.state = "synchronizing" /\ d.requested = {} /\ ~d.failed
  BY <1>1, Zenon DEF Context, States, Quiet
<1> HIDE DEF d
<1>7. Basics(d, ib, nb)
  <2>1. "synchronizing" # "closed"
    BY Zenon
  <2>2. QED
    BY <1>3, <1>6, <2>1, Zenon DEF Connection, Basics
<1>8. Driven(ib, nb, ps) /\ OnRequest(d, ib, nb, ps)
  BY <1>1, <1>5, <1>6, Zenon DEF Still, Driven, OnRequest
<1>9. d.state \notin Quiet /\ d.state # "shutdown"
  BY <1>6, Zenon DEF Quiet
<1>10. QED
  BY <1>6, <1>7, <1>8, <1>9, Zenon DEF Connection, nb, d

(* A context that is shut down has nothing to add.                         *)
LEMMA ShutdownKeeps ==
    ASSUME NEW c, NEW ib, NEW ob, Basics(c, ib, ob), c.state # "closed", ~c.failed
    PROVE  Connection(Shutdown(c).conn, ib, ob \o Shutdown(c).sent, <<>>)
<1> DEFINE d == [c EXCEPT !.state = "shutdown"]
<1>1. Shutdown(c).conn = d /\ Shutdown(c).sent = <<>>
  BY Zenon DEF Shutdown, Result
<1>2. Context(d) /\ d.state = "shutdown" /\ ~d.failed
  BY Zenon DEF Basics, Context, States, Quiet
<1>3. ob \o <<>> = ob
  BY QueueFacts, Zenon DEF Basics
<1> HIDE DEF d
<1>4. "shutdown" \notin Quiet /\ "shutdown" # "synchronizing" /\ "shutdown" # "closed"
  BY Zenon DEF Quiet
<1>5. Basics(d, ib, ob)
  BY <1>2, <1>4, Zenon DEF Basics
<1>6. QED
  BY <1>1, <1>2, <1>3, <1>4, <1>5, Zenon DEF Connection

(* Another connection was faster.                                          *)
LEMMA IdleKeeps ==
    ASSUME NEW c, NEW ib, NEW ob, Basics(c, ib, ob), c.state # "closed", ~c.failed,
           Still(ib, ob, <<>>)
    PROVE  Connection(Idle(c).conn, ib, ob \o Idle(c).sent, <<>>)
<1> DEFINE d == [c EXCEPT !.state = "idle", !.needed = <<>>, !.requested = {}]
<1>1. Idle(c).conn = d /\ Idle(c).sent = <<>>
  BY Zenon DEF Idle, Result
<1>2. Context(d) /\ d.state = "idle" /\ ~d.failed
  BY Zenon DEF Basics, Context, States, Quiet
<1>3. ob \o <<>> = ob
  BY QueueFacts, Zenon DEF Basics
<1> HIDE DEF d
<1>4. "idle" # "shutdown" /\ "idle" # "synchronizing" /\ "idle" # "closed"
  BY Zenon
<1>5. Basics(d, ib, ob)
  BY <1>2, <1>4, Zenon DEF Basics
<1>6. QED
  BY <1>1, <1>2, <1>3, <1>4, <1>5, Zenon DEF Connection

(* A connection that goes on without synchronising.                        *)
LEMMA QuietKeeps ==
    ASSUME NEW c, NEW ib, NEW ob, NEW ps, Basics(c, ib, ob), Still(ib, ob, ps),
           c.state \in Quiet
    PROVE  Connection(c, ib, ob, ps)
<1>1. c.state # "synchronizing" /\ c.state # "shutdown"
  BY Zenon DEF Quiet
<1>2. QED
  BY <1>1, Zenon DEF Connection

(* connectionHandler before it reads: start_sync or the pool.              *)
LEMMA LoopTopKeeps ==
    ASSUME NEW c, NEW ib, NEW ob, NEW ps, Connection(c, ib, ob, ps),
           c.state # "closed", topBlock \in Blocks
    PROVE  Connection(LoopTop(c).conn, ib, ob \o LoopTop(c).sent, ps)
<1>0. IsSeq(ob) /\ Context(c)
  BY Zenon DEF Connection, Basics
<1>1. CASE c.state = "sync_required"
  <2> DEFINE d == [c EXCEPT !.state = "synchronizing"]
             m == RequestChain
  <2>1. LoopTop(c).conn = d /\ LoopTop(c).sent = <<m>>
    BY <1>1, Zenon DEF LoopTop, Result
  <2>2. ob \o <<m>> = Append(ob, m)
    BY <1>0, AppendFacts, Zenon
  <2>3. c.state \in Quiet
    BY <1>1, Zenon DEF Quiet
  <2>4. Connection(d, ib, Append(ob, m), ps)
    BY <2>3, StartKeeps, Zenon
  <2> HIDE DEF d, m
  <2>5. QED
    BY <2>1, <2>2, <2>4, Zenon
<1>2. CASE c.state = "pool_sync_required"
  <2> DEFINE d == [c EXCEPT !.state = "normal"]
             m == RequestTxPool
  <2>1. LoopTop(c).conn = d /\ LoopTop(c).sent = <<m>>
    BY <1>2, Zenon DEF LoopTop, Result
  <2>2. ob \o <<m>> = Append(ob, m)
    BY <1>0, AppendFacts, Zenon
  <2>3. Context(d) /\ d.state = "normal"
    BY <1>0, <1>2, Zenon DEF Context, States, Quiet
  <2>4. c.state \in Quiet /\ "normal" \in Quiet /\ "normal" # "closed" /\ m.type \in Others
    BY <1>2, Zenon DEF Quiet, RequestTxPool, Others
  <2> HIDE DEF d, m
  <2>5. Basics(d, ib, ob) /\ Still(ib, ob, ps)
    BY <2>3, <2>4, Zenon DEF Connection, Basics
  <2>6. Connection(d, ib, ob, ps)
    BY <2>3, <2>4, <2>5, QuietKeeps, Zenon
  <2>7. Connection(d, ib, Append(ob, m), ps)
    BY <2>3, <2>4, <2>6, SendKeeps, Zenon
  <2>8. QED
    BY <2>1, <2>2, <2>7, Zenon
<1>3. CASE c.state # "sync_required" /\ c.state # "pool_sync_required"
  <2>1. LoopTop(c).conn = c /\ LoopTop(c).sent = <<>>
    BY <1>3, Zenon DEF LoopTop, Result
  <2>2. ob \o <<>> = ob
    BY <1>0, QueueFacts, Zenon
  <2>3. QED
    BY <2>1, <2>2, Zenon
<1>4. QED
  BY <1>1, <1>2, <1>3, Zenon

(* request_missing_objects with nothing under way and nothing on request:  *)
(* it sends a request, ends the synchronisation, or finds that the heights *)
(* do not fit and does nothing.                                            *)
LEMMA MissingKeeps ==
    ASSUME NEW c, NEW ib, NEW ob, Basics(c, ib, ob), c.state = "synchronizing",
           ~c.failed, Still(ib, ob, <<>>), c.requested = {}, topBlock \in Blocks, NEW check
    PROVE  Connection(request_missing_objects(c, check).conn, ib,
                      ob \o request_missing_objects(c, check).sent, <<>>)
<1> DEFINE r == request_missing_objects(c, check)
           Kept == Connection(r.conn, ib, ob \o r.sent, <<>>)
<1>0. IsSeq(ob) /\ Context(c) /\ c.state # "closed" /\ \A i \in DOMAIN ob : RequestFor(ob[i])
  BY Zenon DEF Basics
<1>1. ASSUME NEW d, NEW m, r.conn = d, r.sent = <<m>>, m.type \in Requests, RequestFor(m),
             m.type = "requestChain" => d.requested = {},
             Context(d), d.state = "synchronizing", ~d.failed
      PROVE  Kept
  <2> DEFINE nb == Append(ob, m)
  <2>0. RequestFor(m)
    BY <1>1, Zenon
  <2>1. ob \o <<m>> = nb /\ IsSeq(nb) /\ \A i \in DOMAIN nb : RequestFor(nb[i])
    BY ONLY <1>0, <2>0, AppendFacts, AppendEach, Zenon
  <2>2. One(nb, Requests)
    BY <1>0, <1>1, AppendCount, Zenon DEF Still
  <2>3. None(ob, {"requestChain"}) /\ None(ib, {"chainEntry"})
    BY Zenon DEF Still, None, Where, Requests, Answers
  <2>4. m.type # "requestChain" => None(nb, {"requestChain"})
    <3>1. m.type # "requestChain" => m.type \notin {"requestChain"}
      BY Zenon
    <3>2. QED
      BY <1>0, <2>3, <3>1, AppendCount, Zenon
  <2> HIDE DEF nb, r
  <2>5. "synchronizing" \notin Quiet /\ "synchronizing" # "shutdown" /\ "synchronizing" # "closed"
    BY Zenon DEF Quiet
  <2>6. Basics(d, ib, nb)
    BY <1>1, <2>1, <2>5, Zenon DEF Basics
  <2>7. Driven(ib, nb, <<>>) /\ OnRequest(d, ib, nb, <<>>)
    BY <1>1, <2>2, <2>3, <2>4, Zenon DEF Still, Driven, OnRequest
  <2>8. QED
    BY <1>1, <2>1, <2>5, <2>6, <2>7, Zenon DEF Connection
<1>2. ASSUME c.needed # <<>>
      PROVE  Kept
  <2> DEFINE missing == Missing(c, check)
             req == SubSeq(missing, 1, Min({Len(missing), MaxObjects}))
             after == AfterRequested(c, missing)
             d == [c EXCEPT !.needed = after, !.requested = @ \cup Range(req)]
             m == [type |-> "getObjects", blocks |-> req]
  <2>0. r = Result(d, <<m>>)
    BY <1>2, Zenon DEF request_missing_objects
  <2> HIDE DEF req, after, missing, r
  <2>1. r.conn = d /\ r.sent = <<m>>
    BY <2>0, Zenon DEF Result
  <2>2. m.type = "getObjects" /\ Context(d) /\ d.state = "synchronizing" /\ ~d.failed
    BY <1>0, Zenon DEF Context, Quiet
  <2> HIDE DEF d, m, Kept
  <2>3. m.type \in Requests /\ RequestFor(m) /\ m.type # "requestChain"
    BY <2>2, Zenon DEF Requests, RequestFor
  <2>4. QED
    BY <1>1, <2>1, <2>2, <2>3, Zenon
<1>3. ASSUME c.needed = <<>>, c.last < c.remote - 1
      PROVE  Kept
  <2>1. r.conn = c /\ r.sent = <<RequestChain>>
    BY <1>3, Zenon DEF request_missing_objects, Result
  <2>2. RequestChain.type \in Requests /\ RequestFor(RequestChain)
    BY Zenon DEF RequestChain, Requests, RequestFor
  <2> DEFINE m == RequestChain
  <2> HIDE DEF r, Kept, m
  <2>3. QED
    BY <1>0, <1>1, <2>1, <2>2, Zenon
<1>4. ASSUME c.needed = <<>>, ~(c.last < c.remote - 1), completesSync(c)
      PROVE  Kept
  <2> DEFINE d == [c EXCEPT !.state = "normal"]
             m == RequestTxPool
  <2>1. r.conn = d /\ r.sent = <<m>>
    BY <1>4, Zenon DEF request_missing_objects, Result
  <2> HIDE DEF r
  <2>2. ob \o <<m>> = Append(ob, m)
    BY <1>0, AppendFacts, Zenon
  <2>3. Context(d) /\ d.state = "normal"
    BY <1>0, <1>4, Zenon DEF Context, States, Quiet
  <2>4. "normal" \in Quiet /\ "normal" # "closed" /\ m.type \in Others
    BY Zenon DEF Quiet, RequestTxPool, Others
  <2> HIDE DEF d, m
  <2>5. Basics(d, ib, ob)
    BY <2>3, <2>4, Zenon DEF Basics
  <2>6. Connection(d, ib, ob, <<>>)
    BY <2>3, <2>4, <2>5, QuietKeeps, Zenon
  <2>7. Connection(d, ib, Append(ob, m), <<>>)
    BY <2>3, <2>4, <2>6, SendKeeps, Zenon
  <2>8. QED
    BY <2>1, <2>2, <2>7, Zenon
<1>5. ASSUME c.needed = <<>>, ~(c.last < c.remote - 1), ~completesSync(c)
      PROVE  Kept
  <2> DEFINE d == [c EXCEPT !.failed = TRUE]
  <2>1. r.conn = d /\ r.sent = <<>>
    BY <1>5, Zenon DEF request_missing_objects, Result
  <2> HIDE DEF r
  <2>2. Context(d) /\ d.state = "synchronizing" /\ d.failed
    BY <1>0, <1>5, Zenon DEF Context, Quiet
  <2> HIDE DEF d
  <2>3. ob \o <<>> = ob
    BY <1>0, QueueFacts, Zenon
  <2>4. d.state # "closed" /\ d.state # "shutdown"
    BY <2>2, Zenon
  <2>5. Basics(d, ib, ob)
    BY <2>2, <2>4, Zenon DEF Basics
  <2>6. QED
    BY <2>1, <2>2, <2>3, <2>4, <2>5, Zenon DEF Connection
<1>6. QED
  BY <1>2, <1>3, <1>4, <1>5, Zenon

(* A command that is read.                                                 *)
LEMMA ReadBasics ==
    ASSUME NEW c, NEW ib, NEW ob, Basics(c, ib, ob), ib # <<>>,
           NEW d, Context(d), d.state # "closed"
    PROVE  Basics(d, Tail(ib), ob)
<1>1. IsSeq(ib)
  BY Zenon DEF Basics
<1>2. IsSeq(Tail(ib))
  BY <1>1, TailFacts, Zenon
<1>3. \A i \in DOMAIN Tail(ib) : Entry(Tail(ib)[i])
  BY <1>1, TailEach, Zenon DEF Basics
<1>4. QED
  BY <1>2, <1>3, Zenon DEF Basics

(* A command that answers nothing leaves a synchronisation as it is, under *)
(* way or failed.                                                          *)
LEMMA ReadKeeps ==
    ASSUME NEW c, NEW ib, NEW ob, NEW ps, Connection(c, ib, ob, ps), ib # <<>>,
           Head(ib).type \notin Answers,
           NEW d, Context(d), d.state # "closed", d.requested = c.requested, d.failed = c.failed,
           (c.state = "synchronizing" /\ d.state = c.state) \/ (c.state \in Quiet /\ d.state \in Quiet)
    PROVE  Connection(d, Tail(ib), ob, ps)
<1>0. IsSeq(ib) /\ "synchronizing" \notin Quiet
  BY Zenon DEF Connection, Basics, Quiet
<1>1. Basics(d, Tail(ib), ob)
  BY ReadBasics, Zenon DEF Connection
<1>2. "synchronizing" # "shutdown" /\ Head(ib).type \notin {"chainEntry"}
  BY Zenon DEF Answers
<1>3. Still(ib, ob, ps) => Still(Tail(ib), ob, ps)
  BY <1>0, TailCount, Zenon DEF Still
<1>4. CASE c.state \in Quiet /\ d.state \in Quiet
  <2>1. Still(ib, ob, ps)
    BY <1>4, Zenon DEF Connection
  <2>2. QED
    BY <1>1, <1>3, <1>4, <2>1, QuietKeeps, Zenon
<1>5. CASE c.state = "synchronizing" /\ d.state = c.state /\ c.failed
  <2>1. Still(ib, ob, ps)
    BY <1>5, Zenon DEF Connection
  <2>2. QED
    BY <1>1, <1>2, <1>3, <1>5, <2>1, Zenon DEF Connection
<1>6. CASE c.state = "synchronizing" /\ d.state = c.state /\ ~c.failed
  <2>1. Driven(ib, ob, ps) /\ OnRequest(c, ib, ob, ps)
    BY <1>6, Zenon DEF Connection
  <2>2. Driven(Tail(ib), ob, ps)
    BY <1>0, <2>1, TailCount, Zenon DEF Driven
  <2>3. OnRequest(d, Tail(ib), ob, ps)
    BY <1>0, <1>2, <2>1, TailCount, Zenon DEF OnRequest
  <2>4. QED
    BY <1>0, <1>1, <1>2, <1>6, <2>2, <2>3, Zenon DEF Connection
<1>7. QED
  BY <1>4, <1>5, <1>6, Zenon

(* An answer that is read is the one that was due, and nothing else is     *)
(* under way.                                                              *)
LEMMA AnswerRead ==
    ASSUME NEW c, NEW ib, NEW ob, Connection(c, ib, ob, <<>>), ib # <<>>,
           Head(ib).type \in Answers, c.state # "shutdown"
    PROVE  /\ c.state = "synchronizing" /\ ~c.failed /\ Still(Tail(ib), ob, <<>>)
           /\ Head(ib).type = "chainEntry" => c.requested = {}
<1>0. IsSeq(ib) /\ Context(c) /\ 1 \in DOMAIN ib /\ Head(ib) = ib[1]
  BY QueueFacts, Zenon DEF Connection, Basics
<1>1. ~None(ib, Answers)
  BY <1>0, Zenon DEF None, Where
<1>2. c.state = "synchronizing" /\ ~c.failed
  <2>1. c.state \notin Quiet /\ ~c.failed
    BY <1>1, Zenon DEF Connection, Still
  <2>2. QED
    BY <1>0, <2>1, Zenon DEF Context, States
<1>3. Driven(ib, ob, <<>>) /\ OnRequest(c, ib, ob, <<>>)
  BY <1>2, Zenon DEF Connection
<1>4. None(ob, Requests) /\ One(ib, Answers)
  BY <1>1, <1>3, Zenon DEF Driven
<1>5. Still(Tail(ib), ob, <<>>)
  BY <1>0, <1>4, TailCount, Zenon DEF Still
<1>6. ASSUME Head(ib).type = "chainEntry"
      PROVE  c.requested = {}
  <2>1. ~None(ib, {"chainEntry"})
    BY <1>0, <1>6, Zenon DEF None, Where
  <2>2. QED
    BY <1>3, <2>1, Zenon DEF OnRequest
<1>7. QED
  BY <1>2, <1>5, <1>6, Zenon

(* A message of the peer that is no answer.                                *)
LEMMA PostKeeps ==
    ASSUME NEW c, NEW ib, NEW ob, NEW ps, Connection(c, ib, ob, ps),
           c.state # "closed", NEW m, m.type \notin Answers
    PROVE  Connection(c, Append(ib, m), ob, ps)
<1> DEFINE nb == Append(ib, m)
<1>1. IsSeq(ib) /\ \A i \in DOMAIN ib : Entry(ib[i])
  BY Zenon DEF Connection, Basics
<1>2. Entry(m) /\ m.type \notin {"chainEntry"}
  BY Zenon DEF Entry, Answers
<1>3. IsSeq(nb) /\ \A i \in DOMAIN nb : Entry(nb[i])
  BY <1>1, <1>2, AppendFacts, AppendEach, Zenon
<1>4. /\ None(nb, Answers) <=> None(ib, Answers)
      /\ One(ib, Answers) => One(nb, Answers)
      /\ None(nb, {"chainEntry"}) <=> None(ib, {"chainEntry"})
  BY <1>1, <1>2, AppendCount, Zenon
<1> HIDE DEF nb
<1>5. Basics(c, nb, ob)
  BY <1>3, Zenon DEF Connection, Basics
<1>6. /\ Still(ib, ob, ps) => Still(nb, ob, ps)
      /\ Driven(ib, ob, ps) => Driven(nb, ob, ps)
      /\ OnRequest(c, ib, ob, ps) => OnRequest(c, nb, ob, ps)
  BY <1>4, Zenon DEF Still, Driven, OnRequest
<1>7. QED
  BY <1>5, <1>6, Zenon DEF Connection, nb

(* A message that the peer takes and that asks for no blocks.              *)
LEMMA TakeKeeps ==
    ASSUME NEW c, NEW ib, NEW ob, NEW ps, Connection(c, ib, ob, ps),
           c.state # "closed", ob # <<>>, Head(ob).type \notin Requests
    PROVE  Connection(c, ib, Tail(ob), ps)
<1>1. IsSeq(ob) /\ \A i \in DOMAIN ob : RequestFor(ob[i])
  BY Zenon DEF Connection, Basics
<1>2. Head(ob).type \notin {"requestChain"}
  BY Zenon DEF Requests
<1>3. IsSeq(Tail(ob)) /\ \A i \in DOMAIN Tail(ob) : RequestFor(Tail(ob)[i])
  BY <1>1, TailFacts, TailEach, Zenon
<1>4. /\ None(ob, Requests) => None(Tail(ob), Requests)
      /\ One(ob, Requests) => One(Tail(ob), Requests)
      /\ None(ob, {"requestChain"}) => None(Tail(ob), {"requestChain"})
  BY <1>1, TailCount, Zenon
<1>5. Basics(c, ib, Tail(ob))
  BY <1>3, Zenon DEF Connection, Basics
<1>6. /\ Still(ib, ob, ps) => Still(ib, Tail(ob), ps)
      /\ Driven(ib, ob, ps) => Driven(ib, Tail(ob), ps)
      /\ OnRequest(c, ib, ob, ps) => OnRequest(c, ib, Tail(ob), ps)
  BY <1>4, Zenon DEF Still, Driven, OnRequest
<1>7. QED
  BY <1>5, <1>6, Zenon DEF Connection

(* A request that the peer takes, and the answer that it posts.            *)
LEMMA AnswerKeeps ==
    ASSUME NEW c, NEW ib, NEW ob, NEW ps, Connection(c, ib, ob, ps),
           c.state # "closed", ob # <<>>, Head(ob).type \in Requests,
           NEW m, Entry(m),
           \/ Head(ob).type = "requestChain" /\ m.type = "chainEntry"
           \/ Head(ob).type = "getObjects" /\ m.type = "objects"
    PROVE  Connection(c, Append(ib, m), Tail(ob), ps)
<1> DEFINE nb == Append(ib, m)
<1>1. /\ IsSeq(ib) /\ \A i \in DOMAIN ib : Entry(ib[i])
      /\ IsSeq(ob) /\ \A i \in DOMAIN ob : RequestFor(ob[i])
  BY Zenon DEF Connection, Basics
<1>2. IsSeq(nb) /\ \A i \in DOMAIN nb : Entry(nb[i])
  BY <1>1, AppendFacts, AppendEach, Zenon
<1>3. IsSeq(Tail(ob)) /\ \A i \in DOMAIN Tail(ob) : RequestFor(Tail(ob)[i])
  BY <1>1, TailFacts, TailEach, Zenon
<1>4. Basics(c, nb, Tail(ob))
  BY <1>2, <1>3, Zenon DEF Connection, Basics
<1>5. ~None(ob, Requests) /\ (Head(ob).type = "requestChain" => ~None(ob, {"requestChain"}))
  <2>1. 1 \in DOMAIN ob /\ Head(ob) = ob[1]
    BY <1>1, QueueFacts, Zenon
  <2>2. QED
    BY <2>1, Zenon DEF None, Where
<1>6. c.state \notin Quiet /\ ~c.failed
  BY <1>5, Zenon DEF Connection, Still
<1>7. ASSUME c.state = "synchronizing"
      PROVE  Driven(nb, Tail(ob), ps) /\ OnRequest(c, nb, Tail(ob), ps)
  <2>1. Driven(ib, ob, ps) /\ OnRequest(c, ib, ob, ps)
    BY <1>6, <1>7, Zenon DEF Connection
  <2>2. One(ob, Requests) /\ None(ib, Answers) /\ ps = <<>>
    BY <1>5, <2>1, Zenon DEF Driven
  <2>3. None(Tail(ob), Requests)
    BY <1>1, <2>2, TailCount, Zenon
  <2>4. m.type \in Answers /\ (m.type = "objects" => m.type \notin {"chainEntry"})
    BY Zenon DEF Answers
  <2>5. One(nb, Answers)
    BY <1>1, <2>2, <2>4, AppendCount, Zenon
  <2>6. None(Tail(ob), {"requestChain"}) /\ None(ib, {"chainEntry"})
    BY <2>2, <2>3, Zenon DEF None, Where, Requests, Answers
  <2>7. m.type = "objects" => None(nb, {"chainEntry"})
    BY <1>1, <2>4, <2>6, AppendCount, Zenon
  <2> HIDE DEF nb
  <2>8. OnRequest(c, nb, Tail(ob), ps)
    BY <1>5, <2>1, <2>2, <2>6, <2>7, Zenon DEF OnRequest
  <2>9. QED
    BY <2>2, <2>3, <2>5, <2>8, Zenon DEF Driven
<1>8. QED
  BY <1>4, <1>6, <1>7, Zenon DEF Connection

-----------------------------------------------------------------------------
(* The answer of a peer to NOTIFY_REQUEST_CHAIN.                           *)

(* A set of naturals that is not empty has a least element.                *)
LEMMA LeastNumber ==
    ASSUME NEW S, S \subseteq Nat, S # {}
    PROVE  \E k \in S : \A j \in S : k <= j
<1>1. \E k \in S : \A j \in S : ~(<<j, k>> \in OpToRel(<, Nat))
  BY NatLessThanWellFounded, WFMin, Zenon
<1>2. \A j, k \in Nat : j < k => <<j, k>> \in OpToRel(<, Nat)
  BY Zenon DEF OpToRel
<1>3. \E k \in S : \A j \in S : ~(j < k)
  BY <1>1, <1>2, Zenon
<1>4. QED
  BY ONLY <1>3, S \subseteq Nat

(* A set of numbers with an upper bound has a largest one.                 *)
LEMMA LargestNumber ==
    ASSUME NEW n \in Nat, NEW S, S \subseteq 1 .. n, S # {}
    PROVE  Max(S) \in S
<1> DEFINE T == {k \in Nat : \A i \in S : i <= k}
<1>1. n \in T
  OBVIOUS
<1>2. PICK k \in T : \A j \in T : k <= j
  <2>1. T # {} /\ T \subseteq Nat
    BY <1>1, Zenon
  <2> HIDE DEF T
  <2>2. QED
    BY <2>1, LeastNumber, Zenon
<1>3. k \in Nat /\ \A i \in S : i <= k
  BY Zenon
<1>4. PICK s \in S : s \in 1 .. n
  BY Zenon
<1>5. ASSUME k \notin S
      PROVE  FALSE
  <2>1. \A i \in S : i <= k - 1
    BY <1>3, <1>5
  <2>2. k - 1 \in Nat
    BY <1>3, <1>4
  <2>3. k - 1 \in T
    BY <2>1, <2>2, Zenon
  <2>4. k <= k - 1
    BY <1>2, <2>3, Zenon
  <2>5. QED
    BY ONLY <1>3, <2>4
<1>6. \E x \in S : \A y \in S : x >= y
  BY <1>3, <1>5, Zenon
<1>7. QED
  BY ONLY <1>6, Zenon DEF Max

(* findBlockchainSupplement finds a block of the chain of the peer, since  *)
(* the ids end with the genesis block.                                     *)
LEMMA SupplementFacts ==
    ASSUME NEW p, peerTip[p] \in Blocks, NEW b \in Blocks, NEW ids, ids = ChainOf[b]
    PROVE  findBlockchainSupplement(p, ids) \in 1 .. Height(peerTip[p])
<1> DEFINE ch == ChainOf[peerTip[p]]
           S == {i \in DOMAIN ids : i <= Height(peerTip[p]) /\ ch[i] = ids[i]}
<1>1. /\ ids \in Seq(Blocks) /\ ids # <<>> /\ ids[1] = Genesis
      /\ ch \in Seq(Blocks) /\ ch # <<>> /\ ch[1] = Genesis /\ Height(peerTip[p]) = Len(ch)
  BY ChainAssumption, Zenon DEF Height
<1> HIDE DEF ch
<1>2. 1 \in S /\ S \subseteq 1 .. Len(ch) /\ Len(ch) \in Nat
  BY <1>1
<1>3. findBlockchainSupplement(p, ids) = Max(S)
  BY Zenon DEF findBlockchainSupplement, ch
<1> HIDE DEF S
<1>4. S # {}
  BY <1>2, Zenon
<1>5. Max(S) \in S
  BY <1>2, <1>4, LargestNumber, Zenon
<1>6. QED
  BY <1>1, <1>2, <1>3, <1>5, Zenon

-----------------------------------------------------------------------------
(* The steps of the node.                                                  *)

(* What a step makes of connection p leaves the others alone.              *)
Sets(g, f, p, v) == DOMAIN g = Peers /\ g[p] = v /\ \A q \in Peers \ {p} : g[q] = f[q]

LEMMA SetsFacts ==
    ASSUME NEW f, DOMAIN f = Peers, NEW p \in Peers
    PROVE  Sets(f, f, p, f[p]) /\ \A v : Sets([f EXCEPT ![p] = v], f, p, v)
BY Zenon DEF Sets

LEMMA OneConnection ==
    ASSUME ProtocolInv, NEW p \in Peers, topBlock' \in Blocks,
           NEW c, NEW ib, NEW ob, NEW ps, Connection(c, ib, ob, ps),
           Sets(conn', conn, p, c), Sets(inbox', inbox, p, ib), Sets(outbox', outbox, p, ob),
           Sets(parsed', parsed, p, ps), peerTip' \in [Peers -> Blocks]
    PROVE  ProtocolInv'
<1>1. ASSUME NEW q \in Peers
      PROVE  Connection(conn'[q], inbox'[q], outbox'[q], parsed'[q])
  <2>1. CASE q = p
    BY <2>1, Zenon DEF Sets
  <2>2. CASE q # p
    <3>1. q \in Peers \ {p}
      BY <2>2, Zenon
    <3>2. /\ conn'[q] = conn[q] /\ inbox'[q] = inbox[q] /\ outbox'[q] = outbox[q]
          /\ parsed'[q] = parsed[q]
      BY <3>1, Zenon DEF Sets
    <3>3. QED
      BY <3>2, Zenon DEF ProtocolInv
  <2>3. QED
    BY <2>1, <2>2, Zenon
<1>2. QED
  BY <1>1, Zenon DEF ProtocolInv, Sets

(* What holds of connection p before a step.                               *)
LEMMA Before ==
    ASSUME ProtocolInv, NEW p \in Peers
    PROVE  /\ topBlock \in Blocks
           /\ DOMAIN conn = Peers /\ DOMAIN inbox = Peers /\ DOMAIN outbox = Peers
           /\ DOMAIN parsed = Peers /\ peerTip \in [Peers -> Blocks]
           /\ Connection(conn[p], inbox[p], outbox[p], parsed[p])
           /\ Basics(conn[p], inbox[p], outbox[p]) /\ Context(conn[p])
           /\ IsSeq(inbox[p]) /\ IsSeq(outbox[p]) /\ peerTip[p] \in Blocks
BY Zenon DEF ProtocolInv, Connection, Basics

(* What a handler has made of connection p.                                *)
LEMMA SettledConnection ==
    ASSUME ProtocolInv, NEW p \in Peers, topBlock' \in Blocks, NEW r, Settle(p, r),
           NEW ib, NEW ps, Sets(inbox', inbox, p, ib), Sets(parsed', parsed, p, ps),
           UNCHANGED peerTip, Connection(r.conn, ib, outbox[p] \o r.sent, ps)
    PROVE  ProtocolInv'
<1>1. DOMAIN conn = Peers /\ DOMAIN outbox = Peers /\ peerTip \in [Peers -> Blocks]
  BY Before, Zenon
<1>2. conn' = [conn EXCEPT ![p] = r.conn] /\ outbox' = [outbox EXCEPT ![p] = outbox[p] \o r.sent]
  BY Zenon DEF Settle
<1>3. /\ Sets(conn', conn, p, r.conn) /\ Sets(outbox', outbox, p, outbox[p] \o r.sent)
      /\ peerTip' \in [Peers -> Blocks]
  BY <1>1, <1>2, SetsFacts, Zenon
<1>4. QED
  BY <1>3, OneConnection, Zenon

(* A new connection.                                                       *)
LEMMA HandshakeKeeps ==
    ASSUME ProtocolInv, NEW p \in Peers, handshake(p)
    PROVE  ProtocolInv'
<1> DEFINE d == process_payload_sync_data(Closed, peerTip[p], TRUE)
<1>1. /\ Connection(conn[p], inbox[p], outbox[p], parsed[p]) /\ topBlock \in Blocks
      /\ DOMAIN conn = Peers /\ DOMAIN inbox = Peers /\ DOMAIN outbox = Peers
      /\ DOMAIN parsed = Peers /\ peerTip \in [Peers -> Blocks]
  BY Before, Zenon
<1>2. conn[p].state \in Quiet /\ inbox[p] = <<>> /\ outbox[p] = <<>>
  BY <1>1, Zenon DEF handshake, Quiet, Connection, Basics
<1>3. Still(<<>>, <<>>, parsed[p])
  BY <1>1, <1>2, Zenon DEF Connection
<1>4. Context(d) /\ d.state \in Quiet /\ d.state # "closed"
  BY DEF process_payload_sync_data, Closed, Context, States, Quiet
<1>5. conn' = [conn EXCEPT ![p] = d] /\ UNCHANGED <<topBlock, parsed, inbox, outbox, peerTip>>
  BY Zenon DEF handshake, coreVars
<1> HIDE DEF d
<1>6. Basics(d, <<>>, <<>>)
  BY <1>4, EmptyQueue, Zenon DEF Basics
<1>7. Connection(d, inbox[p], outbox[p], parsed[p])
  BY <1>2, <1>3, <1>4, <1>6, QuietKeeps, Zenon
<1>8. /\ Sets(conn', conn, p, d) /\ Sets(inbox', inbox, p, inbox[p])
      /\ Sets(outbox', outbox, p, outbox[p]) /\ Sets(parsed', parsed, p, parsed[p])
      /\ peerTip' \in [Peers -> Blocks]
  BY <1>1, <1>5, SetsFacts, Zenon
<1>9. QED
  BY <1>1, <1>5, <1>7, <1>8, OneConnection, Zenon

(* start_sync, and the pool of a peer that has no more blocks.             *)
LEMMA HandlerKeeps ==
    ASSUME ProtocolInv, NEW p \in Peers, connectionHandler(p)
    PROVE  ProtocolInv'
<1>1. /\ Connection(conn[p], inbox[p], outbox[p], parsed[p]) /\ topBlock \in Blocks
      /\ DOMAIN inbox = Peers /\ DOMAIN parsed = Peers
  BY Before, Zenon
<1>2. /\ conn[p].state # "closed" /\ Settle(p, LoopTop(conn[p]))
      /\ UNCHANGED <<topBlock, parsed, inbox, peerTip>>
  BY Zenon DEF connectionHandler, coreVars
<1>3. Connection(LoopTop(conn[p]).conn, inbox[p], outbox[p] \o LoopTop(conn[p]).sent, parsed[p])
  BY <1>1, <1>2, LoopTopKeeps, Zenon
<1>4. Sets(inbox', inbox, p, inbox[p]) /\ Sets(parsed', parsed, p, parsed[p])
  BY <1>1, <1>2, SetsFacts, Zenon
<1>5. QED
  BY <1>1, <1>2, <1>3, <1>4, SettledConnection, Zenon

(* Connection p reads a command.                                           *)
LEMMA ReadFacts ==
    ASSUME ProtocolInv, NEW p \in Peers, NEW type, reads(p, type)
    PROVE  /\ Connection(conn[p], inbox[p], outbox[p], <<>>) /\ parsed[p] = <<>>
           /\ inbox[p] # <<>> /\ Head(inbox[p]).type = type
           /\ Sets(inbox', inbox, p, Tail(inbox[p])) /\ Sets(parsed, parsed, p, <<>>)
           /\ conn[p].state # "closed" /\ conn[p].state # "shutdown"
           /\ conn[p].state = "synchronizing" \/ conn[p].state \in Quiet
<1>1. /\ Connection(conn[p], inbox[p], outbox[p], parsed[p]) /\ Context(conn[p])
      /\ Basics(conn[p], inbox[p], outbox[p])
      /\ DOMAIN inbox = Peers /\ DOMAIN parsed = Peers /\ IsSeq(inbox[p])
  BY Before, Zenon
<1>2. /\ parsed[p] = <<>> /\ inbox[p] # <<>> /\ Head(inbox[p]).type = type
      /\ inbox' = [inbox EXCEPT ![p] = Tail(inbox[p])]
      /\ conn[p].state # "closed" /\ conn[p].state # "shutdown"
  BY Zenon DEF reads
<1>3. Sets(inbox', inbox, p, Tail(inbox[p])) /\ Sets(parsed, parsed, p, <<>>)
  BY <1>1, <1>2, SetsFacts, Zenon
<1>4. conn[p].state = "synchronizing" \/ conn[p].state \in Quiet
  BY <1>1, <1>2, Zenon DEF Context, States
<1>5. QED
  BY <1>1, <1>2, <1>3, <1>4, Zenon

(* A context that learns of a height.                                      *)
LEMMA LearnsKeeps ==
    ASSUME NEW c, Context(c), c.state # "closed", NEW h
    PROVE  LET d == [c EXCEPT !.remote = h]
           IN  /\ Context(d) /\ d.state = c.state /\ d.requested = c.requested
               /\ d.failed = c.failed
BY DEF Context

(* process_payload_sync_data leaves a synchronisation alone.               *)
LEMMA TimedSyncKeeps ==
    ASSUME ProtocolInv, NEW p \in Peers, handle_timed_sync(p)
    PROVE  ProtocolInv'
<1> DEFINE ib == inbox[p]
           ob == outbox[p]
           top == Head(inbox[p]).top
           c == process_payload_sync_data(conn[p], top, FALSE)
           r == LoopTop(c)
<1>1. /\ reads(p, "timedSync") /\ Settle(p, r) /\ UNCHANGED <<topBlock, parsed, peerTip>>
  BY Zenon DEF handle_timed_sync, coreVars
<1>2. /\ Connection(conn[p], ib, ob, <<>>) /\ parsed[p] = <<>>
      /\ ib # <<>> /\ Head(ib).type = "timedSync"
      /\ Sets(inbox', inbox, p, Tail(ib)) /\ Sets(parsed, parsed, p, <<>>)
      /\ conn[p].state = "synchronizing" \/ conn[p].state \in Quiet
      /\ conn[p].state # "closed"
  BY <1>1, ReadFacts, Zenon
<1>3. Context(conn[p]) /\ topBlock \in Blocks
  BY Before, Zenon
<1>4. Head(ib).type \notin Answers
  BY <1>2, Zenon DEF Answers
<1> HIDE DEF top, ib, ob
<1>5. /\ Context(c) /\ c.requested = conn[p].requested /\ c.failed = conn[p].failed
      /\ c.state # "closed"
      /\ (conn[p].state = "synchronizing" /\ c.state = conn[p].state)
           \/ (conn[p].state \in Quiet /\ c.state \in Quiet)
  BY <1>2, <1>3 DEF process_payload_sync_data, Context, States, Quiet
<1> HIDE DEF c, r
<1>6. Connection(c, Tail(ib), ob, <<>>)
  BY <1>2, <1>4, <1>5, ReadKeeps, Zenon
<1>7. Connection(r.conn, Tail(ib), ob \o r.sent, <<>>)
  BY <1>3, <1>5, <1>6, LoopTopKeeps, Zenon DEF r
<1>8. topBlock' \in Blocks /\ Sets(parsed', parsed, p, <<>>)
  BY <1>1, <1>2, <1>3, Zenon
<1>9. QED
  BY <1>1, <1>2, <1>7, <1>8, SettledConnection, Zenon DEF ob

(* The answer to NOTIFY_REQUEST_CHAIN.                                     *)
LEMMA ChainEntryKeeps ==
    ASSUME ProtocolInv, NEW p \in Peers, handle_response_chain_entry(p)
    PROVE  ProtocolInv'
<1> DEFINE ib == inbox[p]
           ob == outbox[p]
           m == Head(inbox[p])
           need == conn[p].needed \o SelectSeq(m.ids, LAMBDA b : b \notin haveBlocks)
           c == [conn[p] EXCEPT !.remote = m.total, !.last = m.start + Len(m.ids) - 1,
                                !.needed = need]
           e == IF c.last > c.remote THEN [c EXCEPT !.state = "shutdown"] ELSE c
           r == IF m.ids[1] \notin haveBlocks THEN Shutdown(conn[p])
                ELSE request_missing_objects(e, FALSE)
<1>1. /\ reads(p, "chainEntry") /\ Settle(p, r) /\ UNCHANGED <<topBlock, parsed, peerTip>>
  BY Zenon DEF handle_response_chain_entry, coreVars
<1>2. /\ Connection(conn[p], ib, ob, <<>>) /\ parsed[p] = <<>>
      /\ ib # <<>> /\ m.type = "chainEntry"
      /\ Sets(inbox', inbox, p, Tail(ib)) /\ Sets(parsed, parsed, p, <<>>)
      /\ conn[p].state # "closed" /\ conn[p].state # "shutdown"
  BY <1>1, ReadFacts, Zenon
<1>3. /\ Context(conn[p]) /\ topBlock \in Blocks /\ IsSeq(ib)
      /\ Basics(conn[p], ib, ob)
  BY Before, Zenon
<1>4. m.type \in Answers /\ m = Head(ib)
  BY <1>2, Zenon DEF Answers
<1>5. ~(m.start + Len(m.ids) - 1 > m.total)
  <2>1. 1 \in DOMAIN ib /\ m = ib[1]
    BY <1>2, <1>3, QueueFacts, Zenon
  <2>2. QED
    BY <1>2, <1>3, <2>1, Zenon DEF Basics, Entry
<1>6. /\ conn[p].state = "synchronizing" /\ ~conn[p].failed
      /\ Still(Tail(ib), ob, <<>>) /\ conn[p].requested = {}
  BY <1>2, <1>4, AnswerRead, Zenon
<1> HIDE DEF m, ib, ob, need
<1>7. /\ Context(c) /\ c.remote = m.total /\ c.last = m.start + Len(m.ids) - 1
      /\ c.state = "synchronizing" /\ c.requested = {} /\ ~c.failed
  BY <1>3, <1>6, Zenon DEF Context, States, Quiet
<1> HIDE DEF c
<1>8. e = c
  BY <1>5, <1>7, Zenon
<1> HIDE DEF e
<1>9. Basics(c, Tail(ib), ob) /\ Basics(conn[p], Tail(ib), ob)
  <2>1. c.state # "closed" /\ conn[p].state # "closed"
    BY <1>2, <1>7, Zenon
  <2>2. QED
    BY <1>2, <1>3, <1>4, <1>7, <2>1, ReadBasics, Zenon
<1>10. Connection(r.conn, Tail(ib), ob \o r.sent, <<>>)
  <2>1. CASE m.ids[1] \notin haveBlocks
    <3>1. r = Shutdown(conn[p])
      BY <2>1, Zenon
    <3> HIDE DEF r
    <3>2. QED
      BY <1>2, <1>6, <1>9, <3>1, ShutdownKeeps, Zenon
  <2>2. CASE m.ids[1] \in haveBlocks
    <3>1. r = request_missing_objects(c, FALSE)
      BY <1>8, <2>2, Zenon
    <3> HIDE DEF r
    <3>2. QED
      BY <1>3, <1>6, <1>7, <1>9, <3>1, MissingKeeps, Zenon
  <2>3. QED
    BY <2>1, <2>2, Zenon
<1> HIDE DEF r
<1>11. topBlock' \in Blocks /\ Sets(parsed', parsed, p, <<>>)
  BY <1>1, <1>2, <1>3, Zenon
<1>12. QED
  BY <1>1, <1>2, <1>10, <1>11, SettledConnection, Zenon DEF ob

(* A connection that has blocks to add synchronises, and asks for nothing. *)
LEMMA AddingKeeps ==
    ASSUME NEW c, NEW ib, NEW ob, Basics(c, ib, ob), c.state = "synchronizing",
           ~c.failed, Still(ib, ob, <<>>), c.requested = {}, NEW x
    PROVE  Connection(c, ib, ob, <<x>>)
<1>1. "synchronizing" \notin Quiet /\ "synchronizing" # "shutdown"
  BY Zenon DEF Quiet
<1>2. Driven(ib, ob, <<x>>) /\ OnRequest(c, ib, ob, <<x>>)
  BY Zenon DEF Still, Driven, OnRequest
<1>3. QED
  BY <1>1, <1>2, Zenon DEF Connection

(* Blocks that arrive: dismissed, refused, or to be added.                 *)
LEMMA ObjectsKeeps ==
    ASSUME ProtocolInv, NEW p \in Peers, handle_response_get_objects(p)
    PROVE  ProtocolInv'
<1> DEFINE ib == inbox[p]
           ob == outbox[p]
           m == Head(inbox[p])
           c == [conn[p] EXCEPT !.remote = m.height]
           left == AfterTop(m.blocks)
           d == [c EXCEPT !.requested = {}]
           s == IF left # <<>> \/ c.state # "synchronizing" THEN Result(d, <<>>)
                ELSE request_missing_objects(d, TRUE)
           Kept(r) == Settle(p, r) /\ UNCHANGED parsed
           ps == IF left = <<>> THEN <<>> ELSE <<left>>
<1>1. reads(p, "objects") /\ UNCHANGED <<topBlock, peerTip>>
  BY Zenon DEF handle_response_get_objects, coreVars
<1>2. \/ Kept(Shutdown(conn[p])) \/ Kept(Idle(c)) \/ Kept(Shutdown(c))
      \/ Settle(p, s) /\ parsed' = [parsed EXCEPT ![p] = ps]
  BY Zenon DEF handle_response_get_objects
<1>3. /\ Connection(conn[p], ib, ob, <<>>) /\ parsed[p] = <<>>
      /\ ib # <<>> /\ m.type = "objects"
      /\ Sets(inbox', inbox, p, Tail(ib)) /\ Sets(parsed, parsed, p, <<>>)
      /\ conn[p].state # "closed" /\ conn[p].state # "shutdown"
  BY <1>1, ReadFacts, Zenon
<1>4. /\ Context(conn[p]) /\ topBlock \in Blocks /\ DOMAIN parsed = Peers /\ IsSeq(ob)
      /\ Basics(conn[p], ib, ob)
  BY Before, Zenon
<1>5. m.type \in Answers /\ m = Head(ib)
  BY <1>3, Zenon DEF Answers
<1>6. conn[p].state = "synchronizing" /\ ~conn[p].failed /\ Still(Tail(ib), ob, <<>>)
  BY <1>3, <1>5, AnswerRead, Zenon
<1>7. Context(c) /\ c.state = "synchronizing" /\ ~c.failed
  BY <1>3, <1>4, <1>6, LearnsKeeps, Zenon
<1> HIDE DEF m, ib, ob, c, left
<1>8. Context(d) /\ d.state = "synchronizing" /\ d.requested = {} /\ ~d.failed
  BY <1>7, Zenon DEF Context, Quiet
<1> HIDE DEF d, s
<1>9. /\ Basics(conn[p], Tail(ib), ob) /\ Basics(c, Tail(ib), ob)
      /\ Basics(d, Tail(ib), ob)
  <2>1. c.state # "closed" /\ d.state # "closed"
    BY <1>7, <1>8, Zenon
  <2>2. QED
    BY <1>3, <1>4, <1>5, <1>7, <1>8, <2>1, ReadBasics, Zenon
<1>10. ASSUME NEW r, Kept(r), Connection(r.conn, Tail(ib), ob \o r.sent, <<>>)
       PROVE  ProtocolInv'
  <2>1. topBlock' \in Blocks /\ Sets(parsed', parsed, p, <<>>)
    BY <1>1, <1>3, <1>4, <1>10, Zenon
  <2>2. QED
    BY <1>1, <1>3, <1>10, <2>1, SettledConnection, Zenon DEF ob
<1>11. /\ Connection(Shutdown(conn[p]).conn, Tail(ib), ob \o Shutdown(conn[p]).sent, <<>>)
       /\ Connection(Shutdown(c).conn, Tail(ib), ob \o Shutdown(c).sent, <<>>)
       /\ Connection(Idle(c).conn, Tail(ib), ob \o Idle(c).sent, <<>>)
  <2>1. c.state # "closed"
    BY <1>7, Zenon
  <2>2. QED
    BY <1>3, <1>6, <1>7, <1>9, <2>1, ShutdownKeeps, IdleKeeps, Zenon
<1>12. ASSUME Settle(p, s), parsed' = [parsed EXCEPT ![p] = ps]
       PROVE  ProtocolInv'
  <2>1. Connection(s.conn, Tail(ib), ob \o s.sent, ps)
    <3>1. CASE left # <<>>
      <4>1. s = Result(d, <<>>) /\ ps = <<left>>
        BY <3>1, Zenon DEF s
      <4>2. s.conn = d /\ s.sent = <<>>
        BY <4>1, Zenon DEF Result
      <4>3. ob \o <<>> = ob
        BY <1>4, QueueFacts, Zenon
      <4> HIDE DEF ps
      <4>4. QED
        BY <1>6, <1>8, <1>9, <4>1, <4>2, <4>3, AddingKeeps, Zenon
    <3>2. CASE left = <<>>
      <4>1. s = request_missing_objects(d, TRUE) /\ ps = <<>>
        BY <1>7, <3>2, Zenon DEF s
      <4> HIDE DEF ps
      <4>2. QED
        BY <1>4, <1>6, <1>8, <1>9, <4>1, MissingKeeps, Zenon
    <3>3. QED
      BY <3>1, <3>2, Zenon
  <2> HIDE DEF ps
  <2>2. topBlock' \in Blocks /\ Sets(parsed', parsed, p, ps)
    BY <1>1, <1>4, <1>12, SetsFacts, Zenon
  <2>3. QED
    BY <1>1, <1>3, <1>12, <2>1, <2>2, SettledConnection, Zenon DEF ob
<1> HIDE DEF Kept, ps
<1>13. QED
  BY <1>2, <1>10, <1>11, <1>12, Zenon DEF Kept

(* addNewBlock leaves the node on a block.                                 *)
LEMMA AddedTop ==
    ASSUME topBlock \in Blocks, NEW b, NEW txs, Added(b, txs)
    PROVE  topBlock' \in Blocks
BY Zenon DEF Added, switches

(* processObjects: a block, or what follows the last one.                  *)
LEMMA ProcessKeeps ==
    ASSUME ProtocolInv, NEW p \in Peers, processObjects(p)
    PROVE  ProtocolInv'
<1> DEFINE ib == inbox[p]
           ob == outbox[p]
           c == conn[p]
           left == parsed[p][1]
           s == IF c.state = "synchronizing" THEN request_missing_objects(c, TRUE)
                ELSE Result(c, <<>>)
           t == IF left[1] \in haveBlocks THEN Idle(c) ELSE Shutdown(c)
           Done(r) == Settle(p, r) /\ parsed' = [parsed EXCEPT ![p] = <<>>] /\ UNCHANGED topBlock
<1>1. parsed[p] # <<>> /\ UNCHANGED <<inbox, peerTip>>
  BY Zenon DEF processObjects
<1>2. \/ Done(s) \/ Done(t)
      \/ /\ Added(left[1], TxsOf[left[1]]) /\ parsed' = [parsed EXCEPT ![p] = <<Tail(left)>>]
         /\ UNCHANGED <<conn, outbox>>
  BY Zenon DEF processObjects, coreVars
<1>3. /\ Connection(c, ib, ob, parsed[p]) /\ Basics(c, ib, ob) /\ Context(c)
      /\ topBlock \in Blocks /\ DOMAIN conn = Peers /\ DOMAIN inbox = Peers
      /\ DOMAIN outbox = Peers /\ DOMAIN parsed = Peers /\ peerTip \in [Peers -> Blocks]
  BY Before, Zenon
<1> HIDE DEF ib, ob, c, left, t
<1>4. c.state = "synchronizing" /\ ~c.failed
  <2>1. c.state \notin Quiet /\ c.state # "shutdown" /\ ~c.failed
    BY <1>1, <1>3, Zenon DEF Connection, Still
  <2>2. QED
    BY <1>3, <2>1, Zenon DEF Context, States
<1>5. Still(ib, ob, <<>>) /\ c.requested = {} /\ c.state # "closed"
  <2>1. Driven(ib, ob, parsed[p]) /\ OnRequest(c, ib, ob, parsed[p])
    BY <1>3, <1>4, Zenon DEF Connection
  <2>2. c.state # "closed"
    BY <1>4, Zenon
  <2>3. QED
    BY <1>1, <2>1, <2>2, Zenon DEF Driven, OnRequest, Still
<1>6. Sets(inbox', inbox, p, ib) /\ peerTip' \in [Peers -> Blocks]
  BY <1>1, <1>3, SetsFacts, Zenon DEF ib
<1>7. s = request_missing_objects(c, TRUE)
  BY <1>4, Zenon
<1>8. t = Idle(c) \/ t = Shutdown(c)
  BY Zenon DEF t
<1> HIDE DEF s
<1>9. /\ Connection(s.conn, ib, ob \o s.sent, <<>>)
      /\ Connection(t.conn, ib, ob \o t.sent, <<>>)
  BY <1>3, <1>4, <1>5, <1>7, <1>8, MissingKeeps, IdleKeeps, ShutdownKeeps, Zenon
<1>10. ASSUME NEW r, Done(r), Connection(r.conn, ib, ob \o r.sent, <<>>)
       PROVE  ProtocolInv'
  <2>1. topBlock' \in Blocks /\ Sets(parsed', parsed, p, <<>>)
    BY <1>3, <1>10, SetsFacts, Zenon
  <2>2. QED
    BY <1>1, <1>6, <1>10, <2>1, SettledConnection, Zenon DEF ob
<1>11. ASSUME Added(left[1], TxsOf[left[1]]), parsed' = [parsed EXCEPT ![p] = <<Tail(left)>>],
              UNCHANGED <<conn, outbox>>
       PROVE  ProtocolInv'
  <2>1. topBlock' \in Blocks
    BY <1>3, <1>11, AddedTop, Zenon
  <2>2. /\ Sets(parsed', parsed, p, <<Tail(left)>>)
        /\ Sets(conn', conn, p, c) /\ Sets(outbox', outbox, p, ob)
    BY <1>3, <1>11, SetsFacts, Zenon DEF c, ob
  <2>3. Connection(c, ib, ob, <<Tail(left)>>)
    BY <1>3, <1>4, <1>5, AddingKeeps, Zenon
  <2>4. QED
    BY <1>6, <2>1, <2>2, <2>3, OneConnection, Zenon
<1> HIDE DEF Done
<1>12. QED
  BY <1>2, <1>9, <1>10, <1>11, Zenon

(* The end of handle_notify_new_block and of doPushLiteBlock.              *)
LEMMA NewBlockKeeps ==
    ASSUME ProtocolInv, NEW p \in Peers, NEW c, NEW ib, NEW b, NEW txs, c.state = "normal",
           Connection(c, ib, outbox[p], <<>>), NewBlock(p, c, b, txs),
           Sets(inbox', inbox, p, ib), Sets(parsed', parsed, p, <<>>), UNCHANGED peerTip
    PROVE  ProtocolInv'
<1> DEFINE ob == outbox[p]
           pm == [type |-> "requestTxPool", txs |-> pool']
           d == [c EXCEPT !.state = "synchronizing"]
           cm == RequestChain
<1>1. \/ Settle(p, Result(c, <<>>)) /\ UNCHANGED topBlock
      \/ Settle(p, Result(d, <<cm>>)) /\ UNCHANGED topBlock
      \/ /\ Settle(p, Result(c, <<pm>>)) \/ Settle(p, Result(c, <<>>))
         /\ Added(b, txs)
  BY Zenon DEF NewBlock
<1>2. topBlock \in Blocks /\ IsSeq(ob)
  BY Before, Zenon
<1>3. topBlock' \in Blocks
  BY <1>1, <1>2, AddedTop, Zenon
<1>4. c.state \in Quiet /\ c.state # "closed" /\ pm.type \in Others
  BY Zenon DEF Quiet, Others
<1>5. Connection(c, ib, Append(ob, pm), <<>>)
  BY <1>4, SendKeeps, Zenon
<1>6. Connection(d, ib, Append(ob, cm), <<>>)
  BY <1>2, <1>4, StartKeeps, Zenon
<1> HIDE DEF ob, pm, d, cm
<1>7. ob \o <<>> = ob /\ ob \o <<pm>> = Append(ob, pm) /\ ob \o <<cm>> = Append(ob, cm)
  BY <1>2, QueueFacts, AppendFacts, Zenon
<1>8. /\ Result(c, <<>>).conn = c /\ Result(c, <<>>).sent = <<>>
      /\ Result(c, <<pm>>).conn = c /\ Result(c, <<pm>>).sent = <<pm>>
      /\ Result(d, <<cm>>).conn = d /\ Result(d, <<cm>>).sent = <<cm>>
  BY Zenon DEF Result
<1>9. ASSUME NEW r, Settle(p, r), Connection(r.conn, ib, ob \o r.sent, <<>>)
      PROVE  ProtocolInv'
  BY <1>3, <1>9, SettledConnection, Zenon DEF ob
<1>10. Connection(c, ib, ob, <<>>)
  BY Zenon DEF ob
<1>11. QED
  BY <1>1, <1>5, <1>6, <1>7, <1>8, <1>9, <1>10, Zenon

(* A new block of a connection that is not in state_normal.                *)
LEMMA NoBlockKeeps ==
    ASSUME ProtocolInv, NEW p \in Peers, NEW r, NEW ib, NoBlock(p, r),
           Connection(r.conn, ib, outbox[p] \o r.sent, <<>>),
           Sets(inbox', inbox, p, ib), Sets(parsed', parsed, p, <<>>), UNCHANGED peerTip
    PROVE  ProtocolInv'
<1>1. topBlock' \in Blocks /\ Settle(p, r)
  BY Before, Zenon DEF NoBlock, coreVars
<1>2. QED
  BY <1>1, SettledConnection, Zenon

(* The lite block that waits for its transactions is no part of the        *)
(* synchronisation.                                                        *)
LEMMA PendingKeeps ==
    ASSUME NEW c, NEW ib, NEW ob, NEW ps, Connection(c, ib, ob, ps),
           c.state # "closed", NEW x
    PROVE  LET d == [c EXCEPT !.pending = x]
           IN  /\ Connection(d, ib, ob, ps) /\ Basics(d, ib, ob) /\ d.state = c.state
               /\ d.failed = c.failed
<1> DEFINE d == [c EXCEPT !.pending = x]
<1>1. Context(c)
  BY Zenon DEF Connection, Basics
<1>2. Context(d) /\ d.state = c.state /\ d.failed = c.failed /\ d.requested = c.requested
  BY <1>1, Zenon DEF Context
<1> HIDE DEF d
<1>3. Basics(d, ib, ob)
  BY <1>2, Zenon DEF Connection, Basics
<1>4. OnRequest(c, ib, ob, ps) => OnRequest(d, ib, ob, ps)
  BY <1>2, Zenon DEF OnRequest
<1>5. Connection(d, ib, ob, ps)
  BY <1>2, <1>3, <1>4, Zenon DEF Connection
<1>6. QED
  BY <1>2, <1>3, <1>5, Zenon DEF d

(* A lite block, at first or with the transactions it waited for.          *)
LEMMA LiteBlockKeeps ==
    ASSUME ProtocolInv, NEW p \in Peers, NEW c, NEW ib, NEW b, NEW provided, c.state = "normal",
           Connection(c, ib, outbox[p], <<>>), doPushLiteBlock(p, c, b, provided),
           Sets(inbox', inbox, p, ib), Sets(parsed', parsed, p, <<>>), UNCHANGED peerTip
    PROVE  ProtocolInv'
<1> DEFINE ob == outbox[p]
           need == TxsOf[b] \ (provided \cup pool \cup ChainTxs(topBlock))
           reset == [c EXCEPT !.pending = NoPending]
           d == [c EXCEPT !.pending = [block |-> b, missed |-> need]]
           m == [type |-> "missingTxs", txs |-> need]
<1>1. \/ NoBlock(p, Shutdown(reset)) \/ NewBlock(p, reset, b, TxsOf[b])
      \/ NoBlock(p, Result(d, <<m>>))
  BY Zenon DEF doPushLiteBlock
<1>2. c.state # "closed" /\ m.type \in Others
  BY Zenon DEF Others
<1>3. /\ Connection(reset, ib, ob, <<>>) /\ reset.state = "normal"
      /\ Basics(reset, ib, ob) /\ Context(reset)
      /\ Connection(d, ib, ob, <<>>) /\ d.state = "normal"
  BY <1>2, PendingKeeps, Zenon DEF Basics
<1>4. IsSeq(ob)
  BY Before, Zenon
<1> HIDE DEF need, reset, d, m, ob
<1>5. reset.state # "closed" /\ d.state # "closed" /\ ~reset.failed
  BY <1>3, Zenon DEF Context
<1>6. Connection(Shutdown(reset).conn, ib, ob \o Shutdown(reset).sent, <<>>)
  BY <1>3, <1>5, ShutdownKeeps, Zenon
<1>7. Connection(d, ib, Append(ob, m), <<>>) /\ ob \o <<m>> = Append(ob, m)
  BY <1>2, <1>3, <1>4, <1>5, SendKeeps, AppendFacts, Zenon
<1>8. Result(d, <<m>>).conn = d /\ Result(d, <<m>>).sent = <<m>>
  BY Zenon DEF Result
<1>9. Connection(Result(d, <<m>>).conn, ib, ob \o Result(d, <<m>>).sent, <<>>)
  BY <1>7, <1>8, Zenon
<1>10. QED
  BY <1>1, <1>3, <1>6, <1>9, NoBlockKeeps, NewBlockKeeps, Zenon DEF ob

(* A command that only tells of a block, once it is read.                  *)
LEMMA HeardKeeps ==
    ASSUME ProtocolInv, NEW p \in Peers, NEW type \in {"newBlock", "newLiteBlock"}, reads(p, type)
    PROVE  LET c == [conn[p] EXCEPT !.remote = Head(inbox[p]).height]
           IN  /\ Connection(c, Tail(inbox[p]), outbox[p], <<>>)
               /\ Sets(inbox', inbox, p, Tail(inbox[p])) /\ Sets(parsed, parsed, p, <<>>)
<1> DEFINE ib == inbox[p]
           m == Head(inbox[p])
           c == [conn[p] EXCEPT !.remote = m.height]
<1>1. /\ Connection(conn[p], ib, outbox[p], <<>>)
      /\ ib # <<>> /\ m.type = type
      /\ Sets(inbox', inbox, p, Tail(ib)) /\ Sets(parsed, parsed, p, <<>>)
      /\ conn[p].state # "closed"
      /\ conn[p].state = "synchronizing" \/ conn[p].state \in Quiet
  BY ReadFacts, Zenon
<1>2. Context(conn[p])
  BY Before, Zenon
<1>3. m.type \notin Answers /\ m = Head(ib)
  BY <1>1, Zenon DEF Answers
<1>4. /\ Context(c) /\ c.state = conn[p].state /\ c.requested = conn[p].requested
      /\ c.failed = conn[p].failed
  BY <1>1, <1>2, LearnsKeeps, Zenon
<1> HIDE DEF c, m, ib
<1>5. Connection(c, Tail(ib), outbox[p], <<>>)
  BY <1>1, <1>3, <1>4, ReadKeeps, Zenon
<1>6. QED
  BY <1>1, <1>5, Zenon DEF c, m, ib

(* A context as it is, with nothing to send.                               *)
LEMMA SameKeeps ==
    ASSUME NEW c, NEW ib, NEW ob, NEW ps, Connection(c, ib, ob, ps)
    PROVE  Connection(Result(c, <<>>).conn, ib, ob \o Result(c, <<>>).sent, ps)
<1>1. IsSeq(ob)
  BY Zenon DEF Connection, Basics
<1>2. Result(c, <<>>).conn = c /\ Result(c, <<>>).sent = <<>> /\ ob \o <<>> = ob
  BY <1>1, QueueFacts, Zenon DEF Result
<1>3. QED
  BY <1>2, Zenon

(* NOTIFY_NEW_BLOCK.                                                       *)
LEMMA NotifyBlockKeeps ==
    ASSUME ProtocolInv, NEW p \in Peers, handle_notify_new_block(p)
    PROVE  ProtocolInv'
<1> DEFINE ib == Tail(inbox[p])
           m == Head(inbox[p])
           c == [conn[p] EXCEPT !.remote = m.height]
<1>1. reads(p, "newBlock") /\ UNCHANGED <<parsed, peerTip>>
  BY Zenon DEF handle_notify_new_block
<1>2. \/ NoBlock(p, Result(c, <<>>))
      \/ c.state = "normal" /\ NewBlock(p, c, m.block, TxsOf[m.block])
  BY Zenon DEF handle_notify_new_block
<1>3. /\ Connection(c, ib, outbox[p], <<>>)
      /\ Sets(inbox', inbox, p, ib) /\ Sets(parsed, parsed, p, <<>>)
  BY <1>1, HeardKeeps, Zenon
<1>4. Sets(parsed', parsed, p, <<>>)
  BY <1>1, <1>3, Zenon
<1> HIDE DEF c, m, ib
<1>5. Connection(Result(c, <<>>).conn, ib, outbox[p] \o Result(c, <<>>).sent, <<>>)
  BY <1>3, SameKeeps, Zenon
<1>6. QED
  BY <1>1, <1>2, <1>3, <1>4, <1>5, NoBlockKeeps, NewBlockKeeps, Zenon

(* NOTIFY_NEW_LITE_BLOCK.                                                  *)
LEMMA NotifyLiteBlockKeeps ==
    ASSUME ProtocolInv, NEW p \in Peers, handle_notify_new_lite_block(p)
    PROVE  ProtocolInv'
<1> DEFINE ib == Tail(inbox[p])
           m == Head(inbox[p])
           c == [conn[p] EXCEPT !.remote = m.height]
<1>1. reads(p, "newLiteBlock") /\ UNCHANGED <<parsed, peerTip>>
  BY Zenon DEF handle_notify_new_lite_block
<1>2. \/ NoBlock(p, Result(c, <<>>))
      \/ c.state = "normal" /\ doPushLiteBlock(p, c, m.block, {})
  BY Zenon DEF handle_notify_new_lite_block
<1>3. /\ Connection(c, ib, outbox[p], <<>>)
      /\ Sets(inbox', inbox, p, ib) /\ Sets(parsed, parsed, p, <<>>)
  BY <1>1, HeardKeeps, Zenon
<1>4. Sets(parsed', parsed, p, <<>>)
  BY <1>1, <1>3, Zenon
<1> HIDE DEF c, m, ib
<1>5. Connection(Result(c, <<>>).conn, ib, outbox[p] \o Result(c, <<>>).sent, <<>>)
  BY <1>3, SameKeeps, Zenon
<1>6. QED
  BY <1>1, <1>2, <1>3, <1>4, <1>5, NoBlockKeeps, LiteBlockKeeps, Zenon

(* NOTIFY_NEW_TRANSACTIONS.                                                *)
LEMMA NotifyTransactionsKeeps ==
    ASSUME ProtocolInv, NEW p \in Peers, handle_notify_new_transactions(p)
    PROVE  ProtocolInv'
<1> DEFINE ib == Tail(inbox[p])
           m == Head(inbox[p])
           c == conn[p]
<1>1. reads(p, "newTransactions") /\ UNCHANGED <<parsed, peerTip>>
  BY Zenon DEF handle_notify_new_transactions
<1>2. \/ NoBlock(p, Result(c, <<>>))
      \/ c.state = "normal" /\ doPushLiteBlock(p, c, c.pending.block, m.txs)
      \/ UNCHANGED <<topBlock, conn, outbox>>
  BY Zenon DEF handle_notify_new_transactions
<1>3. /\ Connection(c, inbox[p], outbox[p], <<>>) /\ inbox[p] # <<>>
      /\ m.type = "newTransactions"
      /\ Sets(inbox', inbox, p, ib) /\ Sets(parsed, parsed, p, <<>>)
      /\ c.state # "closed"
      /\ c.state = "synchronizing" \/ c.state \in Quiet
  BY <1>1, ReadFacts, Zenon
<1>4. /\ Context(c) /\ topBlock \in Blocks
      /\ DOMAIN conn = Peers /\ DOMAIN outbox = Peers /\ peerTip \in [Peers -> Blocks]
  BY Before, Zenon
<1>5. m.type \notin Answers
  BY <1>3, Zenon DEF Answers
<1>6. Connection(c, ib, outbox[p], <<>>)
  BY <1>3, <1>4, <1>5, ReadKeeps, Zenon
<1>7. Sets(parsed', parsed, p, <<>>)
  BY <1>1, <1>3, Zenon
<1>8. ASSUME UNCHANGED <<topBlock, conn, outbox>>
      PROVE  ProtocolInv'
  <2>1. /\ Sets(conn', conn, p, c) /\ Sets(outbox', outbox, p, outbox[p])
        /\ peerTip' \in [Peers -> Blocks] /\ topBlock' \in Blocks
    BY <1>1, <1>4, <1>8, SetsFacts, Zenon
  <2> HIDE DEF c, m, ib
  <2>2. QED
    BY <1>3, <1>6, <1>7, <2>1, OneConnection, Zenon
<1> HIDE DEF c, m, ib
<1>9. Connection(Result(c, <<>>).conn, ib, outbox[p] \o Result(c, <<>>).sent, <<>>)
  BY <1>6, SameKeeps, Zenon
<1>10. QED
  BY <1>1, <1>2, <1>3, <1>6, <1>7, <1>8, <1>9, NoBlockKeeps, LiteBlockKeeps, Zenon

(* The timer.                                                              *)
LEMMA TimerKeeps ==
    ASSUME ProtocolInv, timedSync
    PROVE  ProtocolInv'
<1> DEFINE m == [type |-> "timedSync"]
           due == {p \in Peers : /\ conn[p].state \in {"normal", "idle"}
                                 /\ \A x \in Range(inbox[p]) \cup Range(outbox[p]) :
                                        x.type # "timedSync"}
<1>1. /\ outbox' = [p \in Peers |-> IF p \in due THEN Append(outbox[p], m) ELSE outbox[p]]
      /\ UNCHANGED <<topBlock, conn, parsed, inbox, peerTip>>
  BY Zenon DEF timedSync, coreVars
<1>2. \A p \in due : conn[p].state # "closed"
  BY Zenon
<1>3. m.type \in Others
  BY Zenon DEF Others
<1> HIDE DEF m, due
<1>4. ASSUME NEW p \in Peers
      PROVE  Connection(conn'[p], inbox'[p], outbox'[p], parsed'[p])
  <2>1. Connection(conn[p], inbox[p], outbox[p], parsed[p])
    BY Before, Zenon
  <2>2. p \in due => Connection(conn[p], inbox[p], Append(outbox[p], m), parsed[p])
    BY <1>2, <1>3, <2>1, SendKeeps, Zenon
  <2>3. outbox'[p] = IF p \in due THEN Append(outbox[p], m) ELSE outbox[p]
    BY <1>1, Zenon
  <2>4. conn'[p] = conn[p] /\ inbox'[p] = inbox[p] /\ parsed'[p] = parsed[p]
    BY <1>1, Zenon
  <2>5. QED
    BY <2>1, <2>2, <2>3, <2>4, Zenon
<1>5. DOMAIN outbox' = Peers
  BY <1>1, Zenon
<1>6. QED
  BY <1>1, <1>4, <1>5, Zenon DEF ProtocolInv

(* A connection that is closed is as it was before its handshake.          *)
LEMMA ClosedFacts == Connection(Closed, <<>>, <<>>, <<>>)
<1>1. Context(Closed) /\ Closed.state \in Quiet
  BY DEF Closed, Context, Quiet, States
<1>2. Still(<<>>, <<>>, <<>>)
  BY EmptyQueue, Zenon DEF Still
<1>3. Basics(Closed, <<>>, <<>>)
  BY <1>1, EmptyQueue, Zenon DEF Basics
<1>4. QED
  BY <1>1, <1>2, <1>3, QuietKeeps, Zenon

LEMMA CloseKeeps ==
    ASSUME ProtocolInv, NEW p \in Peers, onConnectionClosed(p)
    PROVE  ProtocolInv'
<1>1. /\ DOMAIN conn = Peers /\ DOMAIN inbox = Peers /\ DOMAIN outbox = Peers
      /\ DOMAIN parsed = Peers /\ peerTip \in [Peers -> Blocks] /\ topBlock \in Blocks
  BY Before, Zenon
<1>2. /\ parsed[p] = <<>> /\ conn' = [conn EXCEPT ![p] = Closed]
      /\ inbox' = [inbox EXCEPT ![p] = <<>>] /\ outbox' = [outbox EXCEPT ![p] = <<>>]
      /\ UNCHANGED <<topBlock, parsed, peerTip>>
  BY Zenon DEF onConnectionClosed, coreVars
<1>3. /\ Sets(conn', conn, p, Closed) /\ Sets(inbox', inbox, p, <<>>)
      /\ Sets(outbox', outbox, p, <<>>) /\ Sets(parsed', parsed, p, <<>>)
      /\ peerTip' \in [Peers -> Blocks]
  BY <1>1, <1>2, SetsFacts, Zenon
<1>4. QED
  BY <1>1, <1>2, <1>3, ClosedFacts, OneConnection, Zenon

-----------------------------------------------------------------------------
(* The steps of a peer.                                                    *)

(* A message to a connection that is open.                                 *)
LEMMA PostFacts ==
    ASSUME ProtocolInv, NEW p \in Peers, NEW m, Post(p, m)
    PROVE  /\ conn[p].state # "closed" => Sets(inbox', inbox, p, Append(inbox[p], m))
           /\ conn[p].state = "closed" => Sets(inbox', inbox, p, inbox[p])
<1>1. DOMAIN inbox = Peers
  BY Before, Zenon
<1> DEFINE v == IF conn[p].state = "closed" THEN inbox[p] ELSE Append(inbox[p], m)
<1>2. inbox' = [inbox EXCEPT ![p] = v]
  BY Zenon DEF Post
<1>3. /\ conn[p].state # "closed" => v = Append(inbox[p], m)
      /\ conn[p].state = "closed" => v = inbox[p]
  BY Zenon
<1> HIDE DEF v
<1>4. QED
  BY <1>1, <1>2, <1>3, SetsFacts, Zenon

(* The smaller of two numbers.                                             *)
LEMMA SmallerNumber ==
    ASSUME NEW a \in Int, NEW b \in Int
    PROVE  Min({a, b}) \in {a, b} /\ Min({a, b}) <= b
<1>1. a <= b \/ b <= a
  OBVIOUS
<1>2. \E x \in {a, b} : \A y \in {a, b} : x <= y
  BY <1>1
<1>3. Min({a, b}) \in {a, b} /\ \A y \in {a, b} : Min({a, b}) <= y
  BY ONLY <1>2, Zenon DEF Min
<1>4. QED
  BY <1>3, Zenon

(* The ids of the blocks of the peer from the last one that it shares with *)
(* the node on.                                                            *)
LEMMA ChainEntryFacts ==
    ASSUME NEW p, peerTip[p] \in Blocks, NEW ids, \E b \in Blocks : ids = ChainOf[b]
    PROVE  LET h == Height(peerTip[p])
               start == findBlockchainSupplement(p, ids)
               m == [type |-> "chainEntry", total |-> h, start |-> start - 1,
                     ids |-> getBlockIds(p, start)]
           IN  Entry(m) /\ m.type = "chainEntry"
<1> DEFINE h == Height(peerTip[p])
           start == findBlockchainSupplement(p, ids)
           s == getBlockIds(p, start)
           m == [type |-> "chainEntry", total |-> h, start |-> start - 1, ids |-> s]
           n == Min({start + MaxIds - 1, h})
<1>1. start \in 1 .. h
  BY SupplementFacts, Zenon
<1>2. ChainOf[peerTip[p]] \in Seq(Blocks) /\ h = Len(ChainOf[peerTip[p]])
  BY ChainAssumption, Zenon DEF Height
<1>3. s = SubSeq(ChainOf[peerTip[p]], start, n)
  BY Zenon DEF getBlockIds
<1> HIDE DEF h, start, s
<1>4. start \in Nat /\ h \in Nat /\ start + MaxIds - 1 \in Int /\ start + MaxIds - 1 >= start
      /\ start <= h /\ 1 <= start
  BY <1>1, <1>2, IdsAssumption
<1>5. n \in {start + MaxIds - 1, h} /\ n <= h
  BY <1>4, SmallerNumber
<1> HIDE DEF n
<1>6. n \in Int /\ start <= n /\ n <= h
  BY <1>4, <1>5
<1>7. Len(s) = n - start + 1
  BY <1>2, <1>3, <1>4, <1>6
<1>8. ~((start - 1) + Len(s) - 1 > h)
  BY <1>4, <1>6, <1>7
<1>9. m.type = "chainEntry" /\ m.start = start - 1 /\ m.ids = s /\ m.total = h
  BY Zenon
<1> HIDE DEF m
<1>10. Entry(m)
  BY <1>8, <1>9, Zenon DEF Entry
<1>11. QED
  BY <1>9, <1>10, Zenon DEF h, start, s, m

(* A peer that answers: with the ids of its blocks, with blocks, or with   *)
(* transactions.                                                           *)
LEMMA AnswersKeep ==
    ASSUME ProtocolInv, NEW p \in Peers, peerAnswers(p)
    PROVE  ProtocolInv'
<1> DEFINE ib == inbox[p]
           ob == outbox[p]
           tip == peerTip[p]
           m == Head(outbox[p])
<1>1. /\ ob # <<>> /\ outbox' = [outbox EXCEPT ![p] = Tail(ob)]
      /\ UNCHANGED <<topBlock, conn, parsed, peerTip>>
  BY Zenon DEF peerAnswers, coreVars
<1>2. /\ m.type = "requestChain" => handle_request_chain(p, m.ids)
      /\ m.type = "getObjects" => handle_request_get_objects(p, m.blocks)
      /\ m.type = "requestTxPool" => handle_request_tx_pool(p, m.txs)
      /\ m.type = "missingTxs" => handle_notify_missing_txs(p, m.txs)
      /\ m.type = "timedSync" => Post(p, [type |-> "timedSync", top |-> tip])
  <2>1. (CASE m.type = "requestChain" -> handle_request_chain(p, m.ids)
           [] m.type = "getObjects" -> handle_request_get_objects(p, m.blocks)
           [] m.type = "requestTxPool" -> handle_request_tx_pool(p, m.txs)
           [] m.type = "missingTxs" -> handle_notify_missing_txs(p, m.txs)
           [] m.type = "timedSync" -> Post(p, [type |-> "timedSync", top |-> tip]))
    BY Zenon DEF peerAnswers
  <2> HIDE DEF m, tip
  <2>2. m.type = "requestChain" => handle_request_chain(p, m.ids)
    BY <2>1, Zenon
  <2>3. m.type = "getObjects" => handle_request_get_objects(p, m.blocks)
    BY <2>1, Zenon
  <2>4. m.type = "requestTxPool" => handle_request_tx_pool(p, m.txs)
    BY <2>1, Zenon
  <2>5. m.type = "missingTxs" => handle_notify_missing_txs(p, m.txs)
    BY <2>1, Zenon
  <2>6. m.type = "timedSync" => Post(p, [type |-> "timedSync", top |-> tip])
    BY <2>1, Zenon
  <2>7. QED
    BY <2>2, <2>3, <2>4, <2>5, <2>6, Zenon
<1>3. /\ Connection(conn[p], ib, ob, parsed[p]) /\ topBlock \in Blocks /\ tip \in Blocks
      /\ Basics(conn[p], ib, ob) /\ IsSeq(ib) /\ IsSeq(ob)
      /\ DOMAIN conn = Peers /\ DOMAIN inbox = Peers /\ DOMAIN outbox = Peers
      /\ DOMAIN parsed = Peers /\ peerTip \in [Peers -> Blocks]
  BY Before, Zenon
<1>4. conn[p].state # "closed"
  BY <1>1, <1>3, Zenon DEF Basics
<1>5. RequestFor(m) /\ m = Head(ob)
  <2>1. 1 \in DOMAIN ob /\ m = ob[1]
    BY <1>1, <1>3, QueueFacts, Zenon
  <2>2. QED
    BY <1>3, <2>1, Zenon DEF Basics
<1>6. /\ Sets(conn', conn, p, conn[p]) /\ Sets(outbox', outbox, p, Tail(ob))
      /\ Sets(parsed', parsed, p, parsed[p]) /\ peerTip' \in [Peers -> Blocks]
      /\ topBlock' \in Blocks
  BY <1>1, <1>3, SetsFacts, Zenon
<1>7. ASSUME NEW e, Post(p, e), e.type \notin Answers, m.type \in Others
      PROVE  ProtocolInv'
  <2>1. m.type \notin Requests
    BY <1>7, Zenon DEF Requests, Others
  <2> HIDE DEF m, ib, ob, tip
  <2>2. Connection(conn[p], ib, Tail(ob), parsed[p])
    BY <1>1, <1>3, <1>4, <1>5, <2>1, TakeKeeps, Zenon
  <2>3. Connection(conn[p], Append(ib, e), Tail(ob), parsed[p])
    BY <1>4, <1>7, <2>2, PostKeeps, Zenon
  <2>4. Sets(inbox', inbox, p, Append(ib, e))
    BY <1>4, <1>7, PostFacts, Zenon DEF ib
  <2>5. QED
    BY <1>6, <2>3, <2>4, OneConnection, Zenon
<1>8. ASSUME UNCHANGED inbox, m.type \in Others
      PROVE  ProtocolInv'
  <2>1. m.type \notin Requests
    BY <1>8, Zenon DEF Requests, Others
  <2>2. Sets(inbox', inbox, p, ib)
    BY <1>3, <1>8, SetsFacts, Zenon
  <2> HIDE DEF m, ib, ob, tip
  <2>3. Connection(conn[p], ib, Tail(ob), parsed[p])
    BY <1>1, <1>3, <1>4, <1>5, <2>1, TakeKeeps, Zenon
  <2>4. QED
    BY <1>6, <2>2, <2>3, OneConnection, Zenon
<1>9. ASSUME NEW e, Post(p, e), Entry(e), m.type \in Requests,
              \/ m.type = "requestChain" /\ e.type = "chainEntry"
              \/ m.type = "getObjects" /\ e.type = "objects"
       PROVE  ProtocolInv'
  <2>1. Sets(inbox', inbox, p, Append(ib, e))
    BY <1>4, <1>9, PostFacts, Zenon
  <2> HIDE DEF m, ib, ob, tip
  <2>2. Connection(conn[p], Append(ib, e), Tail(ob), parsed[p])
    BY <1>1, <1>3, <1>4, <1>5, <1>9, AnswerKeeps, Zenon
  <2>3. QED
    BY <1>6, <2>1, <2>2, OneConnection, Zenon
<1>10. CASE m.type = "requestChain"
  <2> DEFINE start == findBlockchainSupplement(p, m.ids)
             e == [type |-> "chainEntry", total |-> Height(tip), start |-> start - 1,
                   ids |-> getBlockIds(p, start)]
  <2>1. Post(p, e)
    BY <1>2, <1>10, Zenon DEF handle_request_chain
  <2>2. \E b \in Blocks : m.ids = ChainOf[b]
    BY ONLY <1>5, <1>10, Zenon DEF RequestFor
  <2>3. Entry(e) /\ e.type = "chainEntry"
    BY <1>3, <2>2, ChainEntryFacts, Zenon
  <2>4. m.type \in Requests
    BY <1>10, Zenon DEF Requests
  <2> HIDE DEF e, m, tip
  <2>5. QED
    BY <1>9, <1>10, <2>1, <2>3, <2>4, Zenon
<1>11. CASE m.type = "getObjects"
  <2> DEFINE bs == SelectSeq(m.blocks, LAMBDA b : b \in Range(ChainOf[tip]))
             e == [type |-> "objects", height |-> Height(tip), blocks |-> bs]
  <2>1. Post(p, e)
    BY <1>2, <1>11, Zenon DEF handle_request_get_objects
  <2> HIDE DEF bs, tip
  <2>2. e.type = "objects"
    BY Zenon
  <2> HIDE DEF e, m
  <2>3. m.type \in Requests /\ Entry(e)
    BY <1>11, <2>2, Zenon DEF Requests, Entry
  <2>4. QED
    BY <1>9, <1>11, <2>1, <2>2, <2>3, Zenon
<1>12. ASSUME NEW txs, Post(p, [type |-> "newTransactions", txs |-> txs]), m.type \in Others
       PROVE  ProtocolInv'
  <2> DEFINE e == [type |-> "newTransactions", txs |-> txs]
  <2>1. e.type \notin Answers
    BY Zenon DEF Answers
  <2>2. Post(p, e)
    BY <1>12, Zenon
  <2> HIDE DEF e, m
  <2>3. QED
    BY <1>7, <1>12, <2>1, <2>2, Zenon
<1>13. CASE m.type = "requestTxPool" \/ m.type = "missingTxs"
  <2>1. m.type \in Others
    BY <1>13, Zenon DEF Others
  <2>2. m.type = "requestTxPool" =>
            UNCHANGED inbox \/ \E txs : Post(p, [type |-> "newTransactions", txs |-> txs])
    BY <1>2, Zenon DEF handle_request_tx_pool
  <2>3. m.type = "missingTxs" => \E txs : Post(p, [type |-> "newTransactions", txs |-> txs])
    BY <1>2, Zenon DEF handle_notify_missing_txs
  <2> HIDE DEF m
  <2>4. QED
    BY <1>8, <1>12, <1>13, <2>1, <2>2, <2>3, Zenon
<1>14. CASE m.type = "timedSync"
  <2> DEFINE e == [type |-> "timedSync", top |-> tip]
  <2>1. Post(p, e)
    BY <1>2, <1>14, Zenon
  <2>2. e.type = "timedSync"
    BY Zenon
  <2> HIDE DEF e, m, tip
  <2>3. e.type \notin Answers /\ m.type \in Others
    BY <1>14, <2>2, Zenon DEF Answers, Others
  <2>4. QED
    BY <1>7, <2>1, <2>3, Zenon
<1>15. \/ m.type = "requestChain" \/ m.type = "getObjects" \/ m.type = "timedSync"
       \/ m.type = "requestTxPool" \/ m.type = "missingTxs"
  BY <1>5, Zenon DEF RequestFor, Requests, Others
<1>16. QED
  BY <1>10, <1>11, <1>13, <1>14, <1>15, Zenon

(* A message that a peer sends of itself, with the chain it has by then.   *)
LEMMA RelayKeeps ==
    ASSUME ProtocolInv, NEW p \in Peers, NEW e, e.type \notin Answers, Post(p, e),
           peerTip' \in [Peers -> Blocks], UNCHANGED <<topBlock, conn, parsed, outbox>>
    PROVE  ProtocolInv'
<1> DEFINE ib == inbox[p]
<1>1. /\ Connection(conn[p], ib, outbox[p], parsed[p]) /\ topBlock \in Blocks
      /\ DOMAIN conn = Peers /\ DOMAIN outbox = Peers /\ DOMAIN parsed = Peers
  BY Before, Zenon
<1>2. /\ Sets(conn', conn, p, conn[p]) /\ Sets(outbox', outbox, p, outbox[p])
      /\ Sets(parsed', parsed, p, parsed[p]) /\ topBlock' \in Blocks
  BY <1>1, SetsFacts, Zenon
<1>3. CASE conn[p].state # "closed"
  <2>1. Connection(conn[p], Append(ib, e), outbox[p], parsed[p])
    BY <1>1, <1>3, PostKeeps, Zenon
  <2>2. Sets(inbox', inbox, p, Append(ib, e))
    BY <1>3, PostFacts, Zenon
  <2>3. QED
    BY <1>2, <2>1, <2>2, OneConnection, Zenon
<1>4. CASE conn[p].state = "closed"
  <2>1. Sets(inbox', inbox, p, ib)
    BY <1>4, PostFacts, Zenon
  <2>2. QED
    BY <1>1, <1>2, <2>1, OneConnection, Zenon
<1>5. QED
  BY <1>3, <1>4, Zenon

LEMMA RelayBlockKeeps ==
    ASSUME ProtocolInv, NEW p \in Peers, relay_block(p)
    PROVE  ProtocolInv'
<1>1. peerTip \in [Peers -> Blocks]
  BY Before, Zenon
<1>2. PICK b \in Blocks :
          /\ peerTip' = [peerTip EXCEPT ![p] = b]
          /\ Post(p, [type |-> IF p \in FullBlockPeers THEN "newBlock" ELSE "newLiteBlock",
                      block |-> b, height |-> Height(b)])
  BY Zenon DEF relay_block
<1>3. UNCHANGED <<topBlock, conn, parsed, outbox>>
  BY Zenon DEF relay_block, coreVars
<1> DEFINE e == [type |-> IF p \in FullBlockPeers THEN "newBlock" ELSE "newLiteBlock",
                 block |-> b, height |-> Height(b)]
<1>4. e.type = "newBlock" \/ e.type = "newLiteBlock"
  BY Zenon
<1>5. Post(p, e) /\ peerTip' \in [Peers -> Blocks]
  BY <1>1, <1>2, Zenon
<1> HIDE DEF e
<1>6. e.type \notin Answers
  BY <1>4, Zenon DEF Answers
<1>7. QED
  BY <1>3, <1>5, <1>6, RelayKeeps, Zenon

LEMMA RelayTransactionKeeps ==
    ASSUME ProtocolInv, NEW p \in Peers, relay_transactions(p)
    PROVE  ProtocolInv'
<1>1. PICK t : Post(p, [type |-> "newTransactions", txs |-> {t}])
  BY Zenon DEF relay_transactions
<1>2. UNCHANGED <<topBlock, conn, parsed, outbox, peerTip>>
  BY Zenon DEF relay_transactions, coreVars
<1> DEFINE e == [type |-> "newTransactions", txs |-> {t}]
<1>3. Post(p, e) /\ e.type \notin Answers
  BY <1>1, Zenon DEF Answers
<1>4. peerTip' \in [Peers -> Blocks]
  BY <1>2, Before, Zenon
<1> HIDE DEF e
<1>5. QED
  BY <1>2, <1>3, <1>4, RelayKeeps, Zenon

-----------------------------------------------------------------------------
(* The node starts with no connection.                                     *)
LEMMA ProtocolInvInit == ProtocolInit => ProtocolInv
<1> SUFFICES ASSUME ProtocolInit
             PROVE  ProtocolInv
  BY Zenon
<1>1. topBlock \in Blocks /\ peerTip \in [Peers -> Blocks]
  BY ChainAssumption, Zenon DEF ProtocolInit
<1>2. /\ conn = [p \in Peers |-> Closed] /\ parsed = [p \in Peers |-> <<>>]
      /\ inbox = [p \in Peers |-> <<>>] /\ outbox = [p \in Peers |-> <<>>]
  BY Zenon DEF ProtocolInit
<1>3. ASSUME NEW p \in Peers
      PROVE  Connection(conn[p], inbox[p], outbox[p], parsed[p])
  <2>1. conn[p] = Closed /\ inbox[p] = <<>> /\ outbox[p] = <<>> /\ parsed[p] = <<>>
    BY <1>2, Zenon
  <2>2. QED
    BY <2>1, ClosedFacts, Zenon
<1>4. /\ DOMAIN conn = Peers /\ DOMAIN inbox = Peers /\ DOMAIN outbox = Peers
      /\ DOMAIN parsed = Peers
  BY <1>2, Zenon
<1>5. QED
  BY <1>1, <1>3, <1>4, Zenon DEF ProtocolInv

(* Every step of the node and of its peers keeps every connection.         *)
LEMMA ProtocolInvStep ==
    ASSUME ProtocolInv, [ProtocolNext]_protocolVars
    PROVE  ProtocolInv'
<1>1. CASE UNCHANGED protocolVars
  <2>1. UNCHANGED <<topBlock, conn, parsed, inbox, outbox, peerTip>>
    BY <1>1, Zenon DEF protocolVars, coreVars
  <2>2. QED
    BY <2>1, Zenon DEF ProtocolInv
<1>2. CASE timedSync
  BY <1>2, TimerKeeps, Zenon
<1>3. ASSUME NEW p \in Peers,
             \/ handshake(p) \/ handlerStep(p) \/ onConnectionClosed(p)
             \/ peerAnswers(p) \/ relay_block(p) \/ relay_transactions(p)
      PROVE  ProtocolInv'
  <2>1. CASE handlerStep(p)
    BY <2>1, HandlerKeeps, ProcessKeeps, TimedSyncKeeps, ChainEntryKeeps, ObjectsKeeps,
       NotifyBlockKeeps, NotifyLiteBlockKeeps, NotifyTransactionsKeeps, Zenon DEF handlerStep
  <2>2. QED
    BY <1>3, <2>1, HandshakeKeeps, CloseKeeps, AnswersKeep, RelayBlockKeeps,
       RelayTransactionKeeps, Zenon
<1>4. QED
  BY <1>1, <1>2, <1>3, Zenon DEF ProtocolNext

-----------------------------------------------------------------------------
(* Nothing and one thing, counted.                                         *)
LEMMA SmallCounts == Cardinality({}) = 0 /\ \A x : Cardinality({x}) = 1
<1>1. ASSUME NEW x
      PROVE  Cardinality({x}) = 1
  <2> DEFINE G(f) == [T \in SUBSET {x} |-> IF T = {} THEN 0 ELSE 1 + f[T \ {CHOOSE y : y \in T}]]
             CS == CHOOSE f : f = G(f)
             z == [T \in SUBSET {x} |-> IF T = {} THEN 0 ELSE 1]
  <2>1. \A T \in SUBSET {x} : T = {} \/ T \ {CHOOSE y : y \in T} = {}
    <3> SUFFICES ASSUME NEW T \in SUBSET {x}, T # {}
                 PROVE  T \ {CHOOSE y : y \in T} = {}
      BY Zenon
    <3>1. (CHOOSE y : y \in T) \in T
      BY Zenon
    <3>2. QED
      BY <3>1, Zenon
  <2>2. z = G(z)
    <3>1. ASSUME NEW T \in SUBSET {x}
          PROVE  z[T] = IF T = {} THEN 0 ELSE 1 + z[T \ {CHOOSE y : y \in T}]
      <4>1. z[{}] = 0 /\ z[T] = IF T = {} THEN 0 ELSE 1
        BY Zenon
      <4> HIDE DEF z
      <4>2. QED
        BY <2>1, <4>1
    <3>2. z = [T \in SUBSET {x} |-> z[T]]
      BY Zenon
    <3> HIDE DEF z
    <3>3. QED
      BY <3>1, <3>2, Zenon
  <2>3. Cardinality({x}) = CS[{x}]
    BY Zenon DEF Cardinality
  <2> HIDE DEF G, z
  <2>4. CS = G(CS)
    BY <2>2, Zenon
  <2> HIDE DEF CS
  <2>5. /\ CS[{}] = 0 /\ CS[{x}] = 1 + CS[{x} \ {CHOOSE y : y \in {x}}]
    BY <2>4, Zenon DEF G
  <2>6. {x} \ {CHOOSE y : y \in {x}} = {}
    BY <2>1, Zenon
  <2>7. QED
    BY <2>3, <2>5, <2>6
<1>2. Cardinality({}) = 0
  <2> DEFINE G(f) == [T \in SUBSET {} |-> IF T = {} THEN 0 ELSE 1 + f[T \ {CHOOSE y : y \in T}]]
             CS == CHOOSE f : f = G(f)
             z == [T \in SUBSET {} |-> 0]
  <2>1. z = G(z)
    BY \A T \in SUBSET {} : T = {}, Zenon
  <2>2. Cardinality({}) = CS[{}]
    BY Zenon DEF Cardinality
  <2> HIDE DEF G, z
  <2>3. CS = G(CS)
    BY <2>1, Zenon
  <2> HIDE DEF CS
  <2>4. CS[{}] = 0
    BY <2>3, Zenon DEF G
  <2>5. QED
    BY <2>2, <2>4, Zenon
<1>3. QED
  BY <1>1, <1>2, Zenon

(* A connection that synchronises always has exactly one request, answer   *)
(* or processing under way, whatever peers say and whenever; and none once *)
(* request_missing_objects has come to its "final condition failed".       *)
THEOREM SyncAlwaysDriven == ProtocolSpec => []SyncDriven
<1>1. ASSUME ProtocolInv, NEW p \in Peers, conn[p].state = "synchronizing"
      PROVE  (IF conn[p].failed THEN 0 ELSE 1)
               = Cardinality(Where(outbox[p], Requests)) + Cardinality(Where(inbox[p], Answers))
                 + Len(parsed[p])
  <2>1. Connection(conn[p], inbox[p], outbox[p], parsed[p])
    BY <1>1, Before, Zenon
  <2>2. Len(<<>>) = 0 /\ \A x : Len(<<x>>) = 1
    BY Zenon
  <2> DEFINE o == Cardinality(Where(outbox[p], Requests))
             i == Cardinality(Where(inbox[p], Answers))
             n == Len(parsed[p])
  <2>3. CASE conn[p].failed
    <3>1. Still(inbox[p], outbox[p], parsed[p])
      BY <2>1, <2>3, Zenon DEF Connection
    <3>2. o = 0 /\ i = 0 /\ n = 0
      BY <2>2, <3>1, SmallCounts, Zenon DEF Still, None
    <3> HIDE DEF o, i, n
    <3>3. 0 = o + i + n
      BY <3>2
    <3>4. QED
      BY <2>3, <3>3, Zenon DEF o, i, n
  <2>4. CASE ~conn[p].failed
    <3>1. Driven(inbox[p], outbox[p], parsed[p])
      BY <1>1, <2>1, <2>4, Zenon DEF Connection
    <3>2. \/ o = 1 /\ i = 0 /\ n = 0
          \/ o = 0 /\ i = 1 /\ n = 0
          \/ o = 0 /\ i = 0 /\ n = 1
      BY <2>2, <3>1, SmallCounts, Zenon DEF Driven, One, None
    <3> HIDE DEF o, i, n
    <3>3. 1 = o + i + n
      BY <3>2
    <3>4. QED
      BY <2>4, <3>3, Zenon DEF o, i, n
  <2>5. QED
    BY <2>3, <2>4, Zenon
<1>2. ProtocolInv => SyncDriven
  BY <1>1, Zenon DEF SyncDriven, Where, Requests, Answers
<1>3. ProtocolInv /\ [ProtocolNext]_protocolVars => ProtocolInv'
  BY ProtocolInvStep, Zenon
<1>4. QED
  BY <1>2, <1>3, ProtocolInvInit, PTL DEF ProtocolSpec

(* The assertions of start_sync hold whenever it can be called, and when   *)
(* request_missing_objects comes to its "final condition failed" no block  *)
(* is needed or on request: only the heights do not fit.                   *)
THEOREM HandlersAlwaysRight == ProtocolSpec => []HandlerAssertions
<1>1. ProtocolInv => HandlerAssertions
  <2> SUFFICES ASSUME ProtocolInv, NEW p \in Peers,
                      conn[p].failed \/ conn[p].state \in {"idle", "normal", "sync_required"}
               PROVE  conn[p].needed = <<>> /\ conn[p].requested = {}
    BY Zenon DEF HandlerAssertions
  <2>1. Context(conn[p])
    BY Before, Zenon
  <2>2. QED
    BY <2>1, Zenon DEF Context, Quiet
<1>2. ProtocolInv /\ [ProtocolNext]_protocolVars => ProtocolInv'
  BY ProtocolInvStep, Zenon
<1>3. QED
  BY <1>1, <1>2, ProtocolInvInit, PTL DEF ProtocolSpec

=============================================================================
