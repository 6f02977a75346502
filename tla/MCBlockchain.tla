---------------------------- MODULE MCBlockchain ----------------------------
(***************************************************************************)
(* Block trees on which the chain switch is model-checked.  A tree is      *)
(* given by the parent of each block; Path and Work follow from it.        *)
(***************************************************************************)
EXTENDS Blockchain, TLC

CONSTANTS Parent,   \* Parent[b]: the previous block of b, for b # Genesis
          Heavy,    \* blocks whose difficulty is HeavyDifficulty instead of two
          HeavyDifficulty

TreeBlocks == {Genesis} \cup DOMAIN Parent

pathTo[b \in TreeBlocks] ==
    IF b = Genesis THEN <<Genesis>> ELSE Append(pathTo[Parent[b]], b)

workTo[b \in TreeBlocks] ==
    IF b = Genesis THEN 1 ELSE workTo[Parent[b]] + IF b \in Heavy THEN HeavyDifficulty ELSE 2

(* As tables: TLC evaluates a recursive function anew each time it is      *)
(* applied, and an extension of it once.                                   *)
TreePath == pathTo @@ <<>>
TreeWork == workTo @@ <<>>

(* The blocks of a tree that hold no transaction.                          *)
Empty == [b \in TreeBlocks |-> {}]

-----------------------------------------------------------------------------
(*   g -- a1 {t1} -- a2 {t2} -- a3                                         *)
(*     |         \-- e2 {t2} -- e3 {t4}                                    *)
(*     \- b1 -- b2 {t1, t2} -- b3 -- b4 {t4}                               *)
(*          |-- c2 {t1, t2, t3}     t3 spends a key image of t2            *)
(*          |-- d2 {t1, t2} -- d3   d3 has a wrong reward                  *)
(*          \-- f2 {t2}                                                    *)
ForkParent == "a1" :> "g" @@ "a2" :> "a1" @@ "a3" :> "a2" @@ "e2" :> "a1" @@ "e3" :> "e2"
              @@ "b1" :> "g" @@ "b2" :> "b1" @@ "b3" :> "b2" @@ "b4" :> "b3"
              @@ "c2" :> "b1" @@ "d2" :> "b1" @@ "d3" :> "d2" @@ "f2" :> "b1"
ForkTxs == "a1" :> {"t1"} @@ "a2" :> {"t2"} @@ "e2" :> {"t2"} @@ "e3" :> {"t4"}
           @@ "b2" :> {"t1", "t2"} @@ "b4" :> {"t4"}
           @@ "c2" :> {"t1", "t2", "t3"} @@ "d2" :> {"t1", "t2"} @@ "f2" :> {"t2"} @@ Empty
ForkImages == "t1" :> {"k1"} @@ "t2" :> {"k2"} @@ "t3" :> {"k2"} @@ "t4" :> {"k4"}

(*   g -- p1 -- p2 -- a3 -- a4 -- a5 {t1} -- a6 {t3}                       *)
(*     |            |          |- c5 {t1} -- c6                            *)
(*     |            |          |- d5 {t1, t2}                              *)
(*     |            |          \- e5 {t1, t2} -- e6                        *)
(*     |            \- b3 -- b4 {t1} -- b5 -- b6 -- b7                     *)
(*     \- x1 {t1}                                                          *)
(* p2 is a checkpoint, and x1 has more work.  The tree is deep enough      *)
(* above p2 for a switch that the unlock window refuses.  d5 is too big,   *)
(* an input of e5 throws, and t3 spends a key image of t1.                 *)
DeepParent == "p1" :> "g" @@ "p2" :> "p1" @@ "x1" :> "g"
              @@ "a3" :> "p2" @@ "a4" :> "a3" @@ "a5" :> "a4" @@ "a6" :> "a5"
              @@ "c5" :> "a4" @@ "c6" :> "c5"
              @@ "b3" :> "p2" @@ "b4" :> "b3" @@ "b5" :> "b4" @@ "b6" :> "b5" @@ "b7" :> "b6"
              @@ "d5" :> "a4" @@ "e5" :> "a4" @@ "e6" :> "e5"
DeepTxs == "a5" :> {"t1"} @@ "a6" :> {"t3"} @@ "b4" :> {"t1"} @@ "c5" :> {"t1"} @@ "x1" :> {"t1"}
           @@ "d5" :> {"t1", "t2"} @@ "e5" :> {"t1", "t2"} @@ Empty
DeepImages == "t1" :> {"k1"} @@ "t2" :> {"k2"} @@ "t3" :> {"k1"}

(*   g -- a1 {t1} -- a2                                                    *)
(*     |         \-- c2                                                    *)
(*     \- b1 {t1} -- b2 -- b3                                              *)
(* b3 has the most work.                                                   *)
SyncParent == "a1" :> "g" @@ "a2" :> "a1" @@ "c2" :> "a1"
              @@ "b1" :> "g" @@ "b2" :> "b1" @@ "b3" :> "b2"
SyncTxs == "a1" :> {"t1"} @@ "b1" :> {"t1"} @@ Empty
SyncImages == "t1" :> {"k1"} @@ "t2" :> {"k2"}

(*   g -- a1 {t1} -- a2 {t3}     t3 spends a key image of t1               *)
(*     \- b1 {t1, t2} -- b2       b1 is too big                            *)
LeakParent == "a1" :> "g" @@ "a2" :> "a1" @@ "b1" :> "g" @@ "b2" :> "b1"
LeakTxs == "a1" :> {"t1"} @@ "a2" :> {"t3"} @@ "b1" :> {"t1", "t2"} @@ Empty
LeakImages == "t1" :> {"k1"} @@ "t2" :> {"k2"} @@ "t3" :> {"k1"}
=============================================================================
