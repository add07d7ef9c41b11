--------------------------- MODULE MC_CdpPositions --------------------------
(* Constant values for model checking CdpPositions. *)
EXTENDS CdpPositions, TLC

CONSTANTS u1, n1, n2

MCUsers == {u1}
MCNonces == {n1, n2}
NonceSymmetry == Permutations(MCNonces)
MCNone == {}
MCZero == {0}
MCOne == {1}
MCTwo == {2}
MCFour == {4}
MCOneTwo == {1, 2}
MCTwoFour == {2, 4}
MCTripled == {30}
MCDoubled == {20}
MCOneOrThreefold == {10, 30}
MCPriceOrNone == {0, 1}
\* Over a token of 3 base units: neither deposit is worth a whole number of USD units.
MCFractionPrices == {28, 34}
MCTrue == {TRUE}

\* Half of the value may be borrowed, liquidation starts at 70%, and one slot
\* at full utilization costs half of the principal.
Config == [max_ltv_bps |-> 5, liquidation_threshold_bps |-> 7,
           liquidation_penalty_bps |-> 2, base_rate_bps |-> 5,
           rate_slope1_bps |-> 5, rate_slope2_bps |-> 5,
           optimal_utilization_bps |-> 5, active |-> TRUE]
MCConfig == {Config}
MCTwoConfigs == {Config, [Config EXCEPT !.max_ltv_bps = 6, !.active = FALSE]}
=============================================================================
