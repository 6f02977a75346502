------------------------ MODULE MCTransfersConsumer ------------------------
(* Instance for TLC: blocks with more transactions than the queue and the  *)
(* workers hold together, and one that is skipped.                         *)
EXTENDS TransfersConsumer

MCBatch == <<<<1>>, <<>>, <<2, 3, 4, 5, 6, 7>>>>
=============================================================================
