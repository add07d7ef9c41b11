--------------------------- MODULE MC_StakingPool ---------------------------
(* Constant values for model checking StakingPool. *)
EXTENDS StakingPool, TLC

CONSTANTS u1, u2

MCUsers == {u1, u2}
MCOneUser == {u1}
MCNone == {}
MCOne == {1}
MCTwo == {2}
MCZero == {0}
MCOneTwo == {1, 2}
MCOneThree == {1, 3}
MCZeroTwo == {0, 2}
=============================================================================
