---------------------------- MODULE DurableVector ----------------------------
(***************************************************************************)
(* What SwappedVector promises: a vector that survives the process.  v is  *)
(* what it holds, up to the first item a crash has damaged, undo the same  *)
(* before the last operation, and that is how far back a crash may take    *)
(* it.                                                                     *)
(***************************************************************************)
EXTENDS Integers, Sequences

CONSTANTS Items,      \* the values of T
          Rebuilt     \* Rebuilt[x]: what rebuildBlocks replaces x by

VARIABLES v, undo

vars == <<v, undo>>

Init == v = <<>> /\ undo = <<>>

Push(x) == v' = Append(v, x) /\ undo' = v

Pop == /\ v # <<>>
       /\ v' = SubSeq(v, 1, Len(v) - 1)
       /\ undo' = v

Clear == v' = <<>> /\ undo' = v

Reopen == v' = v /\ undo' = v

RebuiltTo(n) == [i \in 1 .. Len(v) |-> IF i <= n THEN Rebuilt[v[i]] ELSE v[i]]

(* rebuildBlocks, to the end or not.                                       *)
Rebuild(n) == v' = RebuiltTo(n) /\ undo' = v'

(* A crash while item n is replaced: the items before it are rebuilt.      *)
CrashInRebuild(n) == v' = SubSeq(RebuiltTo(n - 1), 1, n - 1) /\ undo' = v'

Crash == v' = undo /\ UNCHANGED undo

Next == \/ \E x \in Items : Push(x)
        \/ Pop
        \/ Clear
        \/ Reopen
        \/ \E n \in 0 .. Len(v) : Rebuild(n)
        \/ \E n \in 1 .. Len(v) : CrashInRebuild(n)
        \/ Crash

Spec == Init /\ [][Next]_vars
=============================================================================
