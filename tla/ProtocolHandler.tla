--------------------------- MODULE ProtocolHandler ---------------------------
(***************************************************************************)
(* CryptoNoteProtocolHandler and the connections of NodeServer: how a node *)
(* gets the blocks and the transactions of its peers.                      *)
(*                                                                         *)
(* All connections run as contexts on one dispatcher thread.  A handler    *)
(* runs to its end without another one in between, except that             *)
(* processObjects yields after each block (m_sync_lock is recursive and    *)
(* keeps no context of the same thread out).  A connection is a pair of    *)
(* queues.  Peers answer with the handlers of the same class; they get     *)
(* their own blocks from elsewhere, and a connection can break at any      *)
(* time.                                                                   *)
(*                                                                         *)
(* Every block is valid, and the chain of most work wins.  Heights are     *)
(* numbers of blocks as the messages have them, one more than the index of *)
(* the last block.                                                         *)
(***************************************************************************)
EXTENDS Integers, Sequences, FiniteSets, Functions, FiniteSetsExt

CONSTANTS
    Peers,
    FullBlockPeers,        \* peers of a version that sends whole blocks
    Blocks, Genesis,
    Parent,                \* Parent[b] for every block but the genesis block
    Work,                  \* cumulative difficulty
    TxsOf,                 \* the transactions of a block
    MaxObjects,            \* BLOCKS_SYNCHRONIZING_DEFAULT_COUNT
    MaxIds,                \* BLOCKS_IDS_SYNCHRONIZING_DEFAULT_COUNT
    PeerStarts,            \* the chains that peers may have when the node starts
    MaxPeerBlocks, MaxRelays, MaxBreaks   \* bounds

VARIABLES
    topBlock, haveBlocks, pool,   \* m_core: the last block, all blocks, the pool
    m_observedHeight, m_synchronized,
    conn,                  \* the CryptoNoteConnectionContext of each peer
    parsed,                \* <<bs>> while processObjects has still to add the blocks bs
    inbox, outbox,         \* messages from and to each peer
    peerTip,
    peerBlocks, relays, breaks

coreVars == <<topBlock, haveBlocks, pool>>
boundVars == <<peerBlocks, relays, breaks>>
protocolVars == <<coreVars, m_observedHeight, m_synchronized, conn, parsed, inbox, outbox, peerTip,
                  boundVars>>

NoPending == [block |-> Genesis, missed |-> {}]
Closed == [state |-> "closed", needed |-> <<>>, requested |-> {}, remote |-> 0, last |-> 0,
           pending |-> NoPending, failed |-> FALSE]

-----------------------------------------------------------------------------
ChainOf[b \in Blocks] == IF b = Genesis THEN <<b>> ELSE Append(ChainOf[Parent[b]], b)

Height(b) == Len(ChainOf[b])

(* Every block leads back to the genesis block.                             *)
ASSUME ChainAssumption ==
    /\ Genesis \in Blocks
    /\ \A b \in Blocks : ChainOf[b] \in Seq(Blocks) /\ ChainOf[b] # <<>> /\ ChainOf[b][1] = Genesis
    /\ PeerStarts \subseteq [Peers -> Blocks]

ASSUME IdsAssumption == MaxIds \in Nat \ {0}

ChainTxs(b) == UNION {TxsOf[c] : c \in Range(ChainOf[b])}

AllTxs == UNION {TxsOf[b] : b \in Blocks}

(* handle_incoming_tx: the pool takes what neither it nor the chain has.    *)
PoolWith(txs) == pool \cup (txs \ ChainTxs(topBlock))

(* addNewBlock for a block that is not known and whose parent is.           *)
switches(b) == b \in Blocks /\ Work[b] > Work[topBlock]

Added(b, txs) ==
    /\ haveBlocks' = haveBlocks \cup {b}
    /\ IF switches(b) THEN /\ topBlock' = b
                           /\ pool' = (PoolWith(txs) \cup ChainTxs(topBlock)) \ ChainTxs(b)
       ELSE topBlock' = topBlock /\ pool' = PoolWith(txs)

(* What a handler makes of a context, and the messages it posts.            *)
Result(c, messages) == [conn |-> c, sent |-> messages]

Shutdown(c) == Result([c EXCEPT !.state = "shutdown"], <<>>)

RequestChain == [type |-> "requestChain", ids |-> ChainOf[topBlock]]
RequestTxPool == [type |-> "requestTxPool", txs |-> pool]

(* connectionHandler before it reads the next command.                      *)
LoopTop(c) ==
    CASE c.state = "sync_required" -> Result([c EXCEPT !.state = "synchronizing"], <<RequestChain>>)
      [] c.state = "pool_sync_required" -> Result([c EXCEPT !.state = "normal"], <<RequestTxPool>>)
      [] OTHER -> Result(c, <<>>)

-----------------------------------------------------------------------------
(* The largest height that peers have told of, for a connection in a state. *)
recalculateMaxObservedHeight(p, state) ==
    IF state = "normal" THEN Height(topBlock) - 1
    ELSE Max({conn[q].remote : q \in Peers \ {p}} \cup {Height(topBlock)})

updateObservedHeight(p, state, height) ==
    CASE height > conn[p].remote -> Max({m_observedHeight, height})
      [] height < conn[p].remote /\ conn[p].remote = m_observedHeight ->
             recalculateMaxObservedHeight(p, state)
      [] OTHER -> m_observedHeight

(* As if a synchronisation under way were not left alone.                   *)
process_payload_sync_dataAlways(c, top, is_initial) ==
    [c EXCEPT !.remote = Height(top),
              !.state = IF top \notin haveBlocks THEN "sync_required"
                        ELSE IF is_initial THEN "pool_sync_required" ELSE "normal"]

process_payload_sync_data(c, top, is_initial) ==
    [c EXCEPT !.remote = Height(top),
              !.state = IF c.state = "synchronizing" THEN c.state
                        ELSE IF top \notin haveBlocks THEN "sync_required"
                        ELSE IF is_initial THEN "pool_sync_required" ELSE "normal"]

(* request_missing_objects: the next blocks, the ids of more blocks, or     *)
(* the end of the synchronisation.  When the last case does not fit the     *)
(* heights it logs, returns false, which no caller looks at, and leaves the *)
(* state alone: failed records it.                                          *)
Missing(c, check_having_blocks) ==
    SelectSeq(c.needed, LAMBDA b : ~(check_having_blocks /\ b \in haveBlocks))

AfterRequested(c, missing) ==
    IF Len(missing) < MaxObjects THEN <<>>
    ELSE SubSeq(c.needed, 1 + CHOOSE i \in DOMAIN c.needed : c.needed[i] = missing[MaxObjects],
                Len(c.needed))

completesSync(c) == c.last = c.remote - 1 /\ c.needed = <<>> /\ c.requested = {}

request_missing_objects(c, check_having_blocks) ==
    IF c.needed # <<>>
    THEN LET missing == Missing(c, check_having_blocks)
             req == SubSeq(missing, 1, Min({Len(missing), MaxObjects}))
         IN Result([c EXCEPT !.needed = AfterRequested(c, missing),
                             !.requested = @ \cup Range(req)],
                   <<[type |-> "getObjects", blocks |-> req]>>)
    ELSE IF c.last < c.remote - 1 THEN Result(c, <<RequestChain>>)
    ELSE IF completesSync(c) THEN Result([c EXCEPT !.state = "normal"], <<RequestTxPool>>)
    ELSE Result([c EXCEPT !.failed = TRUE], <<>>)

(* As if a connection that goes idle kept what it needs.                    *)
IdleKeeping(c) == Result([c EXCEPT !.state = "idle"], <<>>)

(* As if the state were not set to idle.                                    *)
IdleForgotten(c) == Result([c EXCEPT !.needed = <<>>, !.requested = {}], <<>>)

(* Another connection was faster.                                           *)
Idle(c) == Result([c EXCEPT !.state = "idle", !.needed = <<>>, !.requested = {}], <<>>)

-----------------------------------------------------------------------------
(* The state of connection p after a handler.                               *)
Settle(p, r) ==
    /\ conn' = [conn EXCEPT ![p] = r.conn]
    /\ outbox' = [outbox EXCEPT ![p] = @ \o r.sent]

(* "You are now synchronized" is said once, when a peer has nothing more.   *)
Synchronized(p, c) ==
    m_synchronized' = (m_synchronized \/ (conn[p].state = "synchronizing" /\ c.state = "normal"))

ProtocolInit ==
    /\ topBlock = Genesis /\ haveBlocks = {Genesis} /\ pool = {}
    /\ m_observedHeight = 0 /\ m_synchronized = FALSE
    /\ conn = [p \in Peers |-> Closed] /\ parsed = [p \in Peers |-> <<>>]
    /\ inbox = [p \in Peers |-> <<>>] /\ outbox = [p \in Peers |-> <<>>]
    /\ peerTip \in PeerStarts
    /\ peerBlocks = 0 /\ relays = 0 /\ breaks = 0

(* A connection with its handshake.                                         *)
handshake(p) ==
    /\ conn[p].state = "closed"
    /\ conn' = [conn EXCEPT ![p] = process_payload_sync_data(Closed, peerTip[p], TRUE)]
    /\ m_observedHeight' = updateObservedHeight(p, conn'[p].state, Height(peerTip[p]))
    /\ m_synchronized' = (m_synchronized \/ peerTip[p] \in haveBlocks)
    /\ UNCHANGED <<coreVars, parsed, inbox, outbox, peerTip, boundVars>>

connectionHandler(p) ==
    /\ conn[p].state \in {"sync_required", "pool_sync_required"}
    /\ Settle(p, LoopTop(conn[p]))
    /\ UNCHANGED <<coreVars, m_observedHeight, m_synchronized, parsed, inbox, peerTip, boundVars>>

(* Connection p reads its next command.                                     *)
reads(p, type) ==
    /\ conn[p].state \notin {"closed", "shutdown", "sync_required", "pool_sync_required"}
    /\ parsed[p] = <<>>
    /\ inbox[p] # <<>> /\ Head(inbox[p]).type = type
    /\ inbox' = [inbox EXCEPT ![p] = Tail(@)]

(* A timed sync of the peer, or its answer to one.                          *)
handle_timed_sync(p) ==
    /\ reads(p, "timedSync")
    /\ LET top == Head(inbox[p]).top
           c == process_payload_sync_data(conn[p], top, FALSE)
       IN /\ Settle(p, LoopTop(c))
          /\ m_observedHeight' = updateObservedHeight(p, c.state, Height(top))
    /\ UNCHANGED <<coreVars, m_synchronized, parsed, peerTip, boundVars>>

handle_response_chain_entry(p) ==
    /\ reads(p, "chainEntry")
    /\ LET m == Head(inbox[p])
           c == [conn[p] EXCEPT !.remote = m.total, !.last = m.start + Len(m.ids) - 1,
                                !.needed = @ \o SelectSeq(m.ids, LAMBDA b : b \notin haveBlocks)]
           r == IF m.ids[1] \notin haveBlocks THEN Shutdown(conn[p])
                ELSE request_missing_objects(
                         IF c.last > c.remote THEN [c EXCEPT !.state = "shutdown"] ELSE c, FALSE)
       IN Settle(p, r) /\ Synchronized(p, r.conn)
    /\ UNCHANGED <<coreVars, m_observedHeight, parsed, peerTip, boundVars>>

(* The second block decides whether another connection was faster; blocks   *)
(* up to the last one of the chain are dismissed.                           *)
AfterTop(bs) == SubSeq(bs, 1 + Cardinality({i \in DOMAIN bs : \E j \in i..Len(bs) : bs[j] = topBlock}),
                       Len(bs))

handle_response_get_objects(p) ==
    /\ reads(p, "objects")
    /\ LET m == Head(inbox[p])
           c == [conn[p] EXCEPT !.remote = m.height]
           left == AfterTop(m.blocks)
       IN IF conn[p].last > m.height
          THEN /\ Settle(p, Shutdown(conn[p]))
               /\ UNCHANGED <<m_observedHeight, m_synchronized, parsed>>
          ELSE /\ m_observedHeight' = updateObservedHeight(p, conn[p].state, m.height)
               /\ \/ /\ Len(m.blocks) > 1 /\ m.blocks[2] \in haveBlocks
                     /\ Settle(p, Idle(c)) /\ Synchronized(p, Idle(c).conn)
                     /\ UNCHANGED parsed
                  \/ /\ ~(Len(m.blocks) > 1 /\ m.blocks[2] \in haveBlocks)
                     /\ Range(m.blocks) # c.requested
                     /\ Settle(p, Shutdown(c))
                     /\ UNCHANGED <<m_synchronized, parsed>>
                  \/ /\ ~(Len(m.blocks) > 1 /\ m.blocks[2] \in haveBlocks)
                     /\ Range(m.blocks) = c.requested
                     /\ LET d == [c EXCEPT !.requested = {}]
                            r == IF left # <<>> \/ c.state # "synchronizing" THEN Result(d, <<>>)
                                 ELSE request_missing_objects(d, TRUE)
                        IN Settle(p, r) /\ Synchronized(p, r.conn)
                     /\ parsed' = [parsed EXCEPT ![p] = IF left = <<>> THEN <<>> ELSE <<left>>]
    /\ UNCHANGED <<coreVars, peerTip, boundVars>>

(* One block of processObjects, up to the yield, or what follows the last.  *)
processObjects(p) ==
    /\ parsed[p] # <<>>
    /\ LET left == parsed[p][1]
           c == conn[p]
       IN \/ /\ left = <<>>
             /\ parsed' = [parsed EXCEPT ![p] = <<>>]
             /\ LET r == IF c.state = "synchronizing" THEN request_missing_objects(c, TRUE)
                         ELSE Result(c, <<>>)
                IN Settle(p, r) /\ Synchronized(p, r.conn)
             /\ UNCHANGED coreVars
          \/ /\ left # <<>> /\ (left[1] \in haveBlocks \/ Parent[left[1]] \notin haveBlocks)
             /\ parsed' = [parsed EXCEPT ![p] = <<>>]
             /\ pool' = PoolWith(TxsOf[left[1]])
             /\ Settle(p, IF left[1] \in haveBlocks THEN Idle(c) ELSE Shutdown(c))
             /\ UNCHANGED <<topBlock, haveBlocks, m_synchronized>>
          \/ /\ left # <<>> /\ left[1] \notin haveBlocks /\ Parent[left[1]] \in haveBlocks
             /\ parsed' = [parsed EXCEPT ![p] = <<Tail(left)>>]
             /\ Added(left[1], TxsOf[left[1]])
             /\ UNCHANGED <<conn, outbox, m_synchronized>>
    /\ UNCHANGED <<m_observedHeight, inbox, peerTip, boundVars>>

-----------------------------------------------------------------------------
(* A new block of the peer, with its transactions: the end of               *)
(* handle_notify_new_block and of doPushLiteBlock.                          *)
NewBlock(p, c, b, txs) ==
    \/ /\ b \in haveBlocks
       /\ pool' = PoolWith(txs) /\ UNCHANGED <<topBlock, haveBlocks>>
       /\ Settle(p, Result(c, <<>>))
    \/ /\ b \notin haveBlocks /\ Parent[b] \notin haveBlocks
       /\ pool' = PoolWith(txs) /\ UNCHANGED <<topBlock, haveBlocks>>
       /\ Settle(p, Result([c EXCEPT !.state = "synchronizing"], <<RequestChain>>))
    \/ /\ b \notin haveBlocks /\ Parent[b] \in haveBlocks
       /\ Added(b, txs)
       /\ Settle(p, Result(c, IF switches(b) /\ Parent[b] # topBlock
                              THEN <<[type |-> "requestTxPool", txs |-> pool']>> ELSE <<>>))

NoBlock(p, r) == Settle(p, r) /\ UNCHANGED coreVars

handle_notify_new_block(p) ==
    /\ reads(p, "newBlock")
    /\ LET m == Head(inbox[p])
           c == [conn[p] EXCEPT !.remote = m.height]
       IN /\ m_observedHeight' = updateObservedHeight(p, conn[p].state, m.height)
          /\ IF c.state # "normal" THEN NoBlock(p, Result(c, <<>>))
             ELSE NewBlock(p, c, m.block, TxsOf[m.block])
    /\ UNCHANGED <<m_synchronized, parsed, peerTip, boundVars>>

(* A block without its transactions: they are in the pool, in the chain,    *)
(* or provided now; if not, the peer is asked for them, once.               *)
doPushLiteBlock(p, c, b, provided) ==
    LET need == TxsOf[b] \ (provided \cup pool \cup ChainTxs(topBlock))
        reset == [c EXCEPT !.pending = NoPending]
    IN \/ /\ ~(c.pending.missed \subseteq provided)
          /\ NoBlock(p, Shutdown(reset))
       \/ /\ c.pending.missed \subseteq provided /\ need = {}
          /\ NewBlock(p, reset, b, TxsOf[b])
       \/ /\ c.pending.missed \subseteq provided /\ need # {}
          /\ NoBlock(p, IF c.pending # NoPending THEN Shutdown(reset)
                        ELSE Result([c EXCEPT !.pending = [block |-> b, missed |-> need]],
                                    <<[type |-> "missingTxs", txs |-> need]>>))

handle_notify_new_lite_block(p) ==
    /\ reads(p, "newLiteBlock")
    /\ LET m == Head(inbox[p])
           c == [conn[p] EXCEPT !.remote = m.height]
       IN /\ m_observedHeight' = updateObservedHeight(p, conn[p].state, m.height)
          /\ IF c.state # "normal" THEN NoBlock(p, Result(c, <<>>))
             ELSE doPushLiteBlock(p, c, m.block, {})
    /\ UNCHANGED <<m_synchronized, parsed, peerTip, boundVars>>

(* Transactions are the answer to a lite block if one is pending.           *)
handle_notify_new_transactions(p) ==
    /\ reads(p, "newTransactions")
    /\ LET txs == Head(inbox[p]).txs
           c == conn[p]
       IN \/ c.state # "normal" /\ NoBlock(p, Result(c, <<>>))
          \/ /\ c.state = "normal" /\ c.pending # NoPending
             /\ doPushLiteBlock(p, c, c.pending.block, txs)
          \/ /\ c.state = "normal" /\ c.pending = NoPending
             /\ pool' = PoolWith(txs) /\ UNCHANGED <<topBlock, haveBlocks, conn, outbox>>
    /\ UNCHANGED <<m_observedHeight, m_synchronized, parsed, peerTip, boundVars>>

-----------------------------------------------------------------------------
(* The timer of the node.  At most one timed sync of a connection is under  *)
(* way.                                                                     *)
timedSync ==
    LET due == {p \in Peers : /\ conn[p].state \in {"normal", "idle"}
                              /\ \A m \in Range(inbox[p]) \cup Range(outbox[p]) : m.type # "timedSync"}
    IN /\ due # {}
       /\ outbox' = [p \in Peers |-> IF p \in due THEN Append(outbox[p], [type |-> "timedSync"])
                                     ELSE outbox[p]]
       /\ UNCHANGED <<coreVars, m_observedHeight, m_synchronized, conn, parsed, inbox, peerTip,
                      boundVars>>

(* The connection breaks or is shut down.                                   *)
onConnectionClosed(p) ==
    /\ conn[p].state # "closed" /\ parsed[p] = <<>>
    /\ \/ conn[p].state = "shutdown" /\ UNCHANGED breaks
       \/ conn[p].state # "shutdown" /\ breaks < MaxBreaks /\ breaks' = breaks + 1
    /\ m_observedHeight' = recalculateMaxObservedHeight(p, conn[p].state)
    /\ conn' = [conn EXCEPT ![p] = Closed]
    /\ inbox' = [inbox EXCEPT ![p] = <<>>] /\ outbox' = [outbox EXCEPT ![p] = <<>>]
    /\ UNCHANGED <<coreVars, m_synchronized, parsed, peerTip, peerBlocks, relays>>

-----------------------------------------------------------------------------
(* The peer.                                                                *)
Post(p, m) == inbox' = [inbox EXCEPT ![p] = IF conn[p].state = "closed" THEN @ ELSE Append(@, m)]

findBlockchainSupplement(p, ids) ==
    Max({i \in DOMAIN ids : i <= Height(peerTip[p]) /\ ChainOf[peerTip[p]][i] = ids[i]})

getBlockIds(p, start) ==
    SubSeq(ChainOf[peerTip[p]], start, Min({start + MaxIds - 1, Height(peerTip[p])}))

handle_request_chain(p, ids) ==
    LET start == findBlockchainSupplement(p, ids)
    IN Post(p, [type |-> "chainEntry", total |-> Height(peerTip[p]), start |-> start - 1,
                ids |-> getBlockIds(p, start)])

handle_request_get_objects(p, blocks) ==
    Post(p, [type |-> "objects", height |-> Height(peerTip[p]),
             blocks |-> SelectSeq(blocks, LAMBDA b : b \in Range(ChainOf[peerTip[p]]))])

(* Every transaction that is not in its chain is in its pool.               *)
handle_request_tx_pool(p, txs) ==
    LET added == (AllTxs \ ChainTxs(peerTip[p])) \ txs
    IN IF added = {} THEN UNCHANGED inbox
       ELSE Post(p, [type |-> "newTransactions", txs |-> added])

handle_notify_missing_txs(p, txs) == Post(p, [type |-> "newTransactions", txs |-> txs])

peerAnswers(p) ==
    /\ outbox[p] # <<>>
    /\ outbox' = [outbox EXCEPT ![p] = Tail(@)]
    /\ LET m == Head(outbox[p])
       IN CASE m.type = "requestChain" -> handle_request_chain(p, m.ids)
            [] m.type = "getObjects" -> handle_request_get_objects(p, m.blocks)
            [] m.type = "requestTxPool" -> handle_request_tx_pool(p, m.txs)
            [] m.type = "missingTxs" -> handle_notify_missing_txs(p, m.txs)
            [] m.type = "timedSync" -> Post(p, [type |-> "timedSync", top |-> peerTip[p]])
    /\ UNCHANGED <<coreVars, m_observedHeight, m_synchronized, conn, parsed, peerTip, boundVars>>

(* The peer gets a block on a chain of more work, and relays it.            *)
relay_block(p) ==
    /\ peerBlocks < MaxPeerBlocks /\ peerBlocks' = peerBlocks + 1
    /\ \E b \in Blocks :
          /\ Work[b] > Work[peerTip[p]]
          /\ peerTip' = [peerTip EXCEPT ![p] = b]
          /\ Post(p, [type |-> IF p \in FullBlockPeers THEN "newBlock" ELSE "newLiteBlock",
                      block |-> b, height |-> Height(b)])
    /\ UNCHANGED <<coreVars, m_observedHeight, m_synchronized, conn, parsed, outbox, relays, breaks>>

(* The peer relays a transaction of its pool.                               *)
relay_transactions(p) ==
    /\ relays < MaxRelays /\ relays' = relays + 1
    /\ \E t \in AllTxs \ ChainTxs(peerTip[p]) : Post(p, [type |-> "newTransactions", txs |-> {t}])
    /\ UNCHANGED <<coreVars, m_observedHeight, m_synchronized, conn, parsed, outbox, peerTip,
                   peerBlocks, breaks>>

-----------------------------------------------------------------------------
handlerStep(p) ==
    \/ connectionHandler(p) \/ processObjects(p)
    \/ handle_timed_sync(p) \/ handle_response_chain_entry(p) \/ handle_response_get_objects(p)
    \/ handle_notify_new_block(p) \/ handle_notify_new_lite_block(p)
    \/ handle_notify_new_transactions(p)

ProtocolNext ==
    \/ timedSync
    \/ \E p \in Peers :
        \/ handshake(p) \/ handlerStep(p) \/ onConnectionClosed(p)
        \/ peerAnswers(p) \/ relay_block(p) \/ relay_transactions(p)

(* The dispatcher runs every context that can run, messages arrive, a       *)
(* connection that is shut down is closed and made again, and the timer     *)
(* fires.                                                                   *)
ProtocolFairness ==
    /\ WF_protocolVars(timedSync)
    /\ \A p \in Peers :
          /\ WF_protocolVars(handlerStep(p)) /\ WF_protocolVars(peerAnswers(p))
          /\ WF_protocolVars(conn[p].state = "shutdown" /\ onConnectionClosed(p))
          /\ WF_protocolVars(handshake(p))

ProtocolSpec == ProtocolInit /\ [][ProtocolNext]_protocolVars /\ ProtocolFairness

-----------------------------------------------------------------------------
(* A connection that synchronises has exactly one request, answer or        *)
(* processing under way: with none it would wait for ever, with two the     *)
(* second answer would be taken for a wrong one.  After the "final          *)
(* condition failed" of request_missing_objects it has none.                *)
SyncDriven ==
    \A p \in Peers : conn[p].state = "synchronizing" =>
        (IF conn[p].failed THEN 0 ELSE 1)
          = Cardinality({i \in DOMAIN outbox[p] : outbox[p][i].type \in {"requestChain", "getObjects"}})
            + Cardinality({i \in DOMAIN inbox[p] : inbox[p][i].type \in {"chainEntry", "objects"}})
            + Len(parsed[p])

(* The assertions of start_sync hold in any state that can become           *)
(* state_sync_required, nothing being left over from an earlier round; and  *)
(* it is never for blocks needed or requested that the final condition of   *)
(* request_missing_objects fails.                                           *)
HandlerAssertions ==
    \A p \in Peers :
        conn[p].failed \/ conn[p].state \in {"idle", "normal", "sync_required"} =>
            conn[p].needed = <<>> /\ conn[p].requested = {}

(* The condition that request_missing_objects checks at its end holds       *)
(* whenever it gets there.                                                  *)
FinalCondition == \A p \in Peers : ~conn[p].failed

(* Whatever blocks, transactions, breaks and races between connections      *)
(* there were, the node ends on a chain with as much work as that of any    *)
(* peer with which the synchronisation has not failed.                      *)
CatchesUp == <>[](\A p \in Peers : conn[p].failed \/ Work[topBlock] >= Work[peerTip[p]])
=============================================================================
