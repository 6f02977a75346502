----------------------------- MODULE MCNetwork -----------------------------
(***************************************************************************)
(* A node that starts with the first block and two peers, one of which     *)
(* sends whole blocks.  The chains are two branches on the first block but *)
(* one, and the same transaction is in both.  The shorter one has the more *)
(* work.                                                                   *)
(***************************************************************************)
EXTENDS ProtocolHandler

MCBlocks == {"g", "a1", "a2", "a3", "a4", "b1"}
MCParent == [a1 |-> "g", a2 |-> "a1", a3 |-> "a2", a4 |-> "a3", b1 |-> "a1"]
MCWork == [g |-> 1, a1 |-> 2, a2 |-> 3, a3 |-> 4, a4 |-> 5, b1 |-> 6]
MCTxsOf == [g |-> {}, a1 |-> {}, a2 |-> {}, a3 |-> {"t"}, a4 |-> {}, b1 |-> {"t"}]

(* Where the peer that sends whole blocks starts, and where the other one. *)
MCStarts == {<<"a3", "a3">>, <<"a3", "a4">>, <<"a2", "b1">>, <<"b1", "a2">>, <<"b1", "a1">>}
MCPeerStarts == {[p \in Peers |-> IF p \in FullBlockPeers THEN s[1] ELSE s[2]] : s \in MCStarts}
=============================================================================
