----------------------------- MODULE Liquidator -----------------------------
(***************************************************************************)
(* Who calls liquidate.  CdpSpec lets anybody call it at any time; the      *)
(* liquidation monitor of crank-bot is the protocol's own caller.  It finds *)
(* its positions by CdpPosition.health_factor, the value the last borrowing *)
(* instruction stored, so that field, which no instruction reads, is kept   *)
(* here.  Between its transactions everybody else moves.                    *)
(*                                                                         *)
(* The account names the bot passes to liquidate are taken to match.  Its   *)
(* transactions fail only when the program refuses them: a lost one is      *)
(* retried, and the loop comes back to the position.                        *)
(***************************************************************************)
EXTENDS CdpPositions

CONSTANTS
  HF_SCALE,       \* health factor one (10^18 on chain)
  HF_THRESHOLD,   \* the bot looks at positions below it (0.99)
  HF_INFINITE     \* u128::MAX: nothing is owed

VARIABLES
  health_factor,   \* CdpPosition.health_factor
  suspects,        \* positions the scan selected and has not visited yet
  visited,         \* {}, or the position the bot is working on
  stage            \* its next transaction or read: "accrue", "fetch", "liquidate"

botVars == <<suspects, visited, stage>>
liquidatorVars == <<allVars, health_factor, botVars>>

LiquidatorInit ==
  /\ CdpInit
  /\ health_factor = [p \in Positions |-> 0]
  /\ suspects = {}
  /\ visited = {}
  /\ stage = "accrue"

-----------------------------------------------------------------------------
(* The stored health factor *)

HealthFactor(tokens, debt_usd) ==
  IF debt_usd = 0 THEN HF_INFINITE
  ELSE (((CollateralUsd(tokens) * collateral_config.liquidation_threshold_bps) \div BPS)
          * HF_SCALE) \div debt_usd

Store(p, debt_usd) ==
  health_factor' =
    [health_factor EXCEPT ![p] = HealthFactor(position'[p].collateral, debt_usd)]

\* The four instructions that write it; borrow_more values the debt at the
\* exchange rate, the others price riseSOL like SOL.
Borrow(p) ==
  \/ /\ \/ \E deposit \in Deposits, loan \in Loans : OpenPosition(p, deposit, loan)
        \/ \E amount \in Deposits : AddCollateral(p, amount) \/ WithdrawExcess(p, amount)
     /\ Store(p, SolUsd(Owed(position'[p])))
  \/ /\ \E extra \in Loans : BorrowMore(p, extra)
     /\ Store(p, SolUsd(RiseSolToSol(Owed(position'[p]))))

Others ==
  /\ \/ \E p \in Positions : Borrow(p)
     \/ /\ PoolStep \/ (\E p \in Positions : Settles(p)) \/ Anybody \/ CdpAuthority \/ World
        /\ UNCHANGED health_factor
  /\ UNCHANGED botVars

-----------------------------------------------------------------------------
(* The monitor *)

Skip == visited' = {} /\ stage' = "accrue"

\* One getProgramAccounts call: open positions, by their stored health factor.
Scan ==
  /\ suspects = {}
  /\ visited = {}
  /\ suspects' = {p \in OpenPositions : health_factor[p] < HF_THRESHOLD}
  /\ UNCHANGED <<allVars, health_factor, visited, stage>>

Visit(p) ==
  /\ visited = {}
  /\ p \in suspects
  /\ visited' = {p}
  /\ suspects' = suspects \ {p}
  /\ UNCHANGED <<allVars, health_factor, stage>>

\* accrue_interest returns Ok without effect when the position is current.
BotAccrues(p) ==
  /\ visited = {p}
  /\ stage = "accrue"
  /\ \/ /\ ~position[p].is_open
        /\ Skip
        /\ UNCHANGED allVars
     \/ /\ position[p].is_open
        /\ AccrueInterest(p) \/ (slot <= position[p].last_accrual_slot /\ UNCHANGED allVars)
        /\ stage' = "fetch"
        /\ UNCHANGED visited
  /\ UNCHANGED <<health_factor, suspects>>

\* The position is read again, and with it the same stored value.
Refetch(p) ==
  /\ visited = {p}
  /\ stage = "fetch"
  /\ \/ /\ position[p].exists
        /\ health_factor[p] < HF_SCALE
        /\ stage' = "liquidate"
        /\ UNCHANGED visited
     \/ /\ ~position[p].exists \/ health_factor[p] >= HF_SCALE
        /\ Skip
  /\ UNCHANGED <<allVars, health_factor, suspects>>

BotLiquidates(p) ==
  /\ visited = {p}
  /\ stage = "liquidate"
  /\ \E proceeds \in SwapOutputs : Liquidate(p, proceeds)
  /\ Skip
  /\ UNCHANGED <<health_factor, suspects>>

\* No collateral, no Jupiter route, or a transaction that keeps failing.
BotGivesUp(p) ==
  /\ visited = {p}
  /\ stage = "liquidate"
  /\ Skip
  /\ UNCHANGED <<allVars, health_factor, suspects>>

Bot ==
  \/ Scan
  \/ \E p \in Positions :
       \/ Visit(p) \/ BotAccrues(p) \/ Refetch(p)
       \/ BotLiquidates(p) \/ BotGivesUp(p)

\* runLoop repeats the monitor for ever and survives every error, and a
\* liquidation that may go through again and again goes through once.
LiquidatorSpec ==
  /\ LiquidatorInit
  /\ [][Others \/ Bot]_liquidatorVars
  /\ WF_liquidatorVars(Bot)
  /\ \A p \in Positions : SF_liquidatorVars(BotLiquidates(p))

-----------------------------------------------------------------------------
Underwater(p) ==
  position[p].is_open /\ PythPrice /\ ~Healthy(position[p].collateral, Owed(position[p]))

\* An open position that may be liquidated does not stay so for ever: the
\* monitor "polls all open CDP positions and liquidates any with a health factor
\* below the configured threshold".
UnderwaterLiquidated == \A p \in Positions : Underwater(p) ~> ~Underwater(p)
=============================================================================
