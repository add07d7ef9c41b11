--------------------------- MODULE MC_GaugeLedger ---------------------------
(* Constant values for model checking GaugeLedger. *)
EXTENDS GaugeLedger

CONSTANTS u1, u2, g1, g2

MCUsers == {u1, u2}
MCOneGauge == {g1}
MCEmissions == {3}
MCFullWeight == {2}
MCAmounts == {1, 2, 3}
=============================================================================
