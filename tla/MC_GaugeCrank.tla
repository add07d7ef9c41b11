--------------------------- MODULE MC_GaugeCrank ----------------------------
(* Constant values for model checking GaugeCrank. *)
EXTENDS GaugeCrank

CONSTANTS u1, u2, g1, g2

MCOneUser == {u1}
MCGauges == {g1, g2}
MCEmissions == {3}
MCFullWeight == {2}
MCNone == {}
=============================================================================
