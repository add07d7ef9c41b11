------------------------- MODULE MC_CollateralHistory -----------------------
(* The constants of MC_CdpPositions for CollateralHistory. *)
EXTENDS MC_CdpPositions, CollateralHistory
=============================================================================
