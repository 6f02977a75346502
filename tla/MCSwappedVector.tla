--------------------------- MODULE MCSwappedVector ---------------------------
(* Instance for TLC: items of two sizes, a pool smaller than the vector,   *)
(* and a rebuild that turns the longer item into the shorter one.          *)
EXTENDS SwappedVector

CONSTANTS b, c

MCItems == {b, c}
MCSize == [x \in MCItems |-> IF x = b THEN 1 ELSE 2]
MCRebuilt == [x \in MCItems |-> b]
=============================================================================
