------------------------- MODULE MCBlockchainStorage -------------------------
(***************************************************************************)
(* The trees of MCBlockchain, with crashes and restarts.                   *)
(***************************************************************************)
EXTENDS BlockchainStorage, MCBlockchain
=============================================================================
