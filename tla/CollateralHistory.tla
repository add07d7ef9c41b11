------------------------- MODULE CollateralHistory -------------------------
(***************************************************************************)
(* CdpPositions with the history of the collateral: which closed positions *)
(* have had theirs already, how much was sold for the liquidity of stakers,*)
(* and how much was claimed a second time.                                 *)
(***************************************************************************)
EXTENDS CdpPositions

CONSTANT MaxSpent    \* bound: collateral sold or claimed twice

ASSUME CollateralAssumption == MaxSpent \in Nat

VARIABLES
  returned,        \* positions closed or liquidated whose account still exists
  sold,            \* collateral redeemed for liquidity
  claimed_twice    \* collateral claimed from returned positions

historyVars == <<returned, sold, claimed_twice>>

CollateralInit == CdpInit /\ returned = {} /\ sold = 0 /\ claimed_twice = 0

Paid == collateral_vault - collateral_vault'

\* close_position and liquidate hand the collateral over and keep the account.
Returns(p) == ClosePosition(p) \/ \E proceeds \in SwapOutputs : Liquidate(p, proceeds)

Sells ==
  \E requested \in Deposits, proceeds \in SwapOutputs :
    RedeemCollateralForLiquidity(requested, proceeds)

\* claim_collateral does not ask how the position was closed.
ClaimsTwice == \E p \in returned : ClaimCollateral(p)

CollateralNext ==
  /\ CdpNext \/ Maintenance
  /\ returned' = {p \in Positions : /\ position'[p].exists
                                    /\ ~position'[p].is_open
                                    /\ p \in returned \/ Returns(p)}
  /\ sold' = sold + (IF Sells THEN Paid ELSE 0)
  /\ claimed_twice' = claimed_twice + (IF ClaimsTwice THEN Paid ELSE 0)
  /\ sold' + claimed_twice' <= MaxSpent

CollateralSpec == CollateralInit /\ [][CollateralNext]_<<allVars, historyVars>>

-----------------------------------------------------------------------------
(* Property *)

\* The collateral of every position that has not had it: open, or repaid and
\* not claimed yet.
HeldCollateral ==
  SumFunctionOnSet([p \in Positions |-> IF p \in returned THEN 0
                                        ELSE position[p].collateral], Positions)

\* Each position's collateral leaves the vault once: what is not there was sold
\* for liquidity or claimed a second time, and nothing else, not a withdrawal, a
\* liquidation or a shortfall bought back, ever costs another position.
CollateralAccountedFor == HeldCollateral <= collateral_vault + sold + claimed_twice
=============================================================================
