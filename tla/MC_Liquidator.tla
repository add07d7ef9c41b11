---------------------------- MODULE MC_Liquidator ---------------------------
(* Constant values for model checking Liquidator. *)
EXTENDS Liquidator

CONSTANTS u1, n1

MCUsers == {u1}
MCNonces == {n1}
MCNone == {}
MCZero == {0}
MCOne == {1}
MCOneTwo == {1, 2}
MCTwo == {2}
MCZeroTwo == {0, 2}
MCFour == {4}
MCTripled == {30}
MCTrue == {TRUE}

\* Half of the value may be borrowed and liquidation starts at 70%.
MCConfig == {[max_ltv_bps |-> 5, liquidation_threshold_bps |-> 7,
              liquidation_penalty_bps |-> 2, base_rate_bps |-> 5,
              rate_slope1_bps |-> 5, rate_slope2_bps |-> 5,
              optimal_utilization_bps |-> 5, active |-> TRUE]}
=============================================================================
