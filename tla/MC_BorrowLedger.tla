--------------------------- MODULE MC_BorrowLedger --------------------------
(* The constants of MC_CdpPositions for BorrowLedger. *)
EXTENDS MC_CdpPositions, BorrowLedger
=============================================================================
