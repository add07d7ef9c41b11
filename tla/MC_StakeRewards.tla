-------------------------- MODULE MC_StakeRewards --------------------------
(* Constant values for model checking StakeRewards. *)
EXTENDS StakeRewards, TLC

CONSTANTS u1, u2

MCUsers == {u1, u2}
Symmetry == Permutations(MCUsers)
MCOne == {1}
MCTwo == {2}
MCOneTwo == {1, 2}
=============================================================================
