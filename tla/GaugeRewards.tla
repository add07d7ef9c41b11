---------------------------- MODULE GaugeRewards ----------------------------
(***************************************************************************)
(* Program rise-rewards: LP tokens are deposited into gauges, and every    *)
(* epoch a permissionless checkpoint turns a gauge's share of the RISE     *)
(* emissions into reward_per_token, from which depositors claim.           *)
(*                                                                         *)
(* One action is one instruction; an instruction that fails is rolled back *)
(* by the runtime, so its failures are guards.  A UserStake that does not  *)
(* exist is the all-zero one init_if_needed would create.  Not part of the *)
(* state: Gauge.active (create_gauge sets it, no instruction clears it),   *)
(* gauge_count and index (identifiers), and EpochGaugeRewards (declared,   *)
(* never used).                                                            *)
(***************************************************************************)
EXTENDS Integers, FiniteSets, FiniteSetsExt

CONSTANTS
  Users,            \* LP depositors
  Gauges,           \* pools a gauge can be created for
  REWARD_SCALE,     \* fixed-point one of reward_per_token (10^12 on chain)
  BPS,              \* fixed-point one of a weight (10_000 on chain)
  SLOTS_PER_EPOCH,  \* slots of a rewards epoch (604_800 on chain)
  MIN_DEPOSIT,      \* smallest deposit and smallest remainder (1_000 on chain)
  Emissions,        \* values the authority gives epoch_emissions
  Weights,          \* values the authority gives weight_bps
  Amounts,          \* inputs of deposit_lp and withdraw_lp
  InitialLp,        \* LP tokens of every pool each user starts with
  InitialRise,      \* RISE the rewards vault is funded with
  MaxSlot,          \* bound: last slot of the clock
  MaxConfigs        \* bound: number of times the config is initialised

ASSUME ScaleAssumption ==
  /\ REWARD_SCALE \in Nat \ {0}
  /\ BPS \in Nat \ {0}
  /\ SLOTS_PER_EPOCH \in Nat \ {0}
  /\ MIN_DEPOSIT \in Nat \ {0}

ASSUME InputAssumption ==
  /\ IsFiniteSet(Users)
  /\ IsFiniteSet(Gauges)
  /\ Emissions \subseteq Nat
  /\ Weights \subseteq Nat
  /\ Amounts \subseteq Nat
  /\ InitialLp \in Nat
  /\ InitialRise \in Nat

VARIABLES
  \* RewardsConfig
  config_open,
  current_epoch,
  epoch_start_slot,
  epoch_emissions,
  configs,                \* how often the config was initialised
  \* Gauge, indexed by its pool
  gauge_open,
  weight_bps,
  reward_per_token,
  total_lp_deposited,
  last_checkpoint_epoch,
  total_distributed,
  pending_emissions,
  \* UserStake, indexed by its owner and gauge
  lp_amount,
  reward_debt,
  pending_rewards,
  \* token accounts
  lp_wallet,
  gauge_lp_vault,
  rewards_vault,
  rise,                   \* RISE each user was paid
  \* Clock
  slot

epochVars == <<current_epoch, epoch_start_slot>>
configVars == <<config_open, epochVars, epoch_emissions, configs>>
accrualVars == <<reward_per_token, last_checkpoint_epoch, total_distributed,
                 pending_emissions>>
gaugeVars == <<gauge_open, weight_bps, accrualVars, total_lp_deposited>>
stakeVars == <<lp_amount, reward_debt, pending_rewards>>
lpVars == <<lp_wallet, gauge_lp_vault>>
riseVars == <<rewards_vault, rise>>
vars == <<configVars, gaugeVars, stakeVars, lpVars, riseVars, slot>>

-----------------------------------------------------------------------------
(* Helpers.  An operator whose name ends in _Mutant_<what> is a deliberately *)
(* broken form of the operator after it, used to show that a property can   *)
(* fail; no specification uses it.                                          *)

\* RISE that lp tokens have accrued since reward_per_token was zero.
Accrued(lp, g) == (lp * reward_per_token[g]) \div REWARD_SCALE

Unsettled(u, g) == Accrued(lp_amount[<<u, g>>], g) - reward_debt[<<u, g>>]

\* claim_rewards and force_withdraw_lp subtract with saturation.
Claimable(u, g) ==
  pending_rewards[<<u, g>>] + (IF Unsettled(u, g) > 0 THEN Unsettled(u, g) ELSE 0)

\* A gauge's share of the emissions of one epoch.
Allocation(g) == (epoch_emissions * weight_bps[g]) \div BPS

EpochDue_Mutant_OneSlotEarly == slot - epoch_start_slot >= SLOTS_PER_EPOCH - 1

EpochDue == slot - epoch_start_slot >= SLOTS_PER_EPOCH

EpochAfter == IF EpochDue THEN current_epoch + 1 ELSE current_epoch

SetLp_Mutant_DebtKept(u, g, lp) ==
  /\ lp_amount' = [lp_amount EXCEPT ![<<u, g>>] = lp]
  /\ UNCHANGED reward_debt

\* Every change of a stake restarts its accrual at the current index.
SetLp(u, g, lp) ==
  /\ lp_amount' = [lp_amount EXCEPT ![<<u, g>>] = lp]
  /\ reward_debt' = [reward_debt EXCEPT ![<<u, g>>] = Accrued(lp, g)]

\* deposit_lp and withdraw_lp settle with checked_sub before the change.
Settle(u, g) ==
  /\ Unsettled(u, g) >= 0
  /\ pending_rewards' = [pending_rewards EXCEPT ![<<u, g>>] = @ + Unsettled(u, g)]

CloseStake_Mutant_LeftOpen(u, g) == UNCHANGED stakeVars

\* Anchor's close = depositor: the UserStake account is gone.
CloseStake(u, g) ==
  /\ lp_amount' = [lp_amount EXCEPT ![<<u, g>>] = 0]
  /\ reward_debt' = [reward_debt EXCEPT ![<<u, g>>] = 0]
  /\ pending_rewards' = [pending_rewards EXCEPT ![<<u, g>>] = 0]

Vacant_Mutant_Unchecked(g) == TRUE

Vacant(g) == total_lp_deposited[g] = 0

-----------------------------------------------------------------------------
RewardsConfigInit ==
  /\ config_open = FALSE
  /\ current_epoch = 0
  /\ epoch_start_slot = 0
  /\ epoch_emissions = 0
  /\ configs = 0

GaugeInit ==
  /\ gauge_open = [g \in Gauges |-> FALSE]
  /\ weight_bps = [g \in Gauges |-> 0]
  /\ reward_per_token = [g \in Gauges |-> 0]
  /\ total_lp_deposited = [g \in Gauges |-> 0]
  /\ last_checkpoint_epoch = [g \in Gauges |-> 0]
  /\ total_distributed = [g \in Gauges |-> 0]
  /\ pending_emissions = [g \in Gauges |-> 0]

\* The vaults are created once, empty, and outlive gauges and configs; the
\* rewards vault is funded by plain transfers.
GaugeLpVaultInit == gauge_lp_vault = [g \in Gauges |-> 0]
RewardsVaultInit == rewards_vault = InitialRise

Init ==
  /\ RewardsConfigInit
  /\ GaugeInit
  /\ GaugeLpVaultInit
  /\ RewardsVaultInit
  /\ lp_amount = [ug \in Users \X Gauges |-> 0]
  /\ reward_debt = [ug \in Users \X Gauges |-> 0]
  /\ pending_rewards = [ug \in Users \X Gauges |-> 0]
  /\ lp_wallet = [ug \in Users \X Gauges |-> InitialLp]
  /\ rise = [u \in Users |-> 0]
  /\ slot = 0

(* Instructions of depositors.  deposit_lp and withdraw_lp do not read the  *)
(* config; a gauge must exist.                                              *)

DepositLp(u, g, amount) ==
  /\ gauge_open[g]
  /\ amount >= MIN_DEPOSIT
  /\ lp_wallet[<<u, g>>] >= amount
  /\ Settle(u, g)
  /\ SetLp(u, g, lp_amount[<<u, g>>] + amount)
  /\ total_lp_deposited' = [total_lp_deposited EXCEPT ![g] = @ + amount]
  /\ lp_wallet' = [lp_wallet EXCEPT ![<<u, g>>] = @ - amount]
  /\ gauge_lp_vault' = [gauge_lp_vault EXCEPT ![g] = @ + amount]
  /\ UNCHANGED <<configVars, gauge_open, weight_bps, accrualVars, riseVars, slot>>

WithdrawLp(u, g, amount) ==
  LET remaining == lp_amount[<<u, g>>] - amount IN
  /\ gauge_open[g]
  /\ amount > 0
  /\ remaining = 0 \/ remaining >= MIN_DEPOSIT
  /\ gauge_lp_vault[g] >= amount
  /\ total_lp_deposited[g] >= amount
  /\ Settle(u, g)
  /\ SetLp(u, g, remaining)
  /\ total_lp_deposited' = [total_lp_deposited EXCEPT ![g] = @ - amount]
  /\ lp_wallet' = [lp_wallet EXCEPT ![<<u, g>>] = @ + amount]
  /\ gauge_lp_vault' = [gauge_lp_vault EXCEPT ![g] = @ - amount]
  /\ UNCHANGED <<configVars, gauge_open, weight_bps, accrualVars, riseVars, slot>>

PayRise(u, amount) ==
  /\ rewards_vault' = rewards_vault - amount
  /\ rise' = [rise EXCEPT ![u] = @ + amount]

ClaimRewards(u, g) ==
  /\ config_open
  /\ gauge_open[g]
  /\ Claimable(u, g) > 0
  /\ rewards_vault >= Claimable(u, g)
  /\ PayRise(u, Claimable(u, g))
  /\ pending_rewards' = [pending_rewards EXCEPT ![<<u, g>>] = 0]
  /\ SetLp(u, g, lp_amount[<<u, g>>])
  /\ UNCHANGED <<configVars, gaugeVars, lpVars, slot>>

-----------------------------------------------------------------------------
(* The permissionless checkpoint.  One call advances the epoch by at most   *)
(* one, however many have elapsed.                                          *)

Distribute(g, amount) ==
  /\ reward_per_token' = [reward_per_token EXCEPT ![g] =
       @ + (amount * REWARD_SCALE) \div total_lp_deposited[g]]
  /\ total_distributed' = [total_distributed EXCEPT ![g] = @ + amount]
  /\ pending_emissions' = [pending_emissions EXCEPT ![g] = 0]

RollOver(g, amount) ==
  /\ pending_emissions' = [pending_emissions EXCEPT ![g] = amount]
  /\ UNCHANGED <<reward_per_token, total_distributed>>

CheckpointGauge(g) ==
  LET due == Allocation(g) + pending_emissions[g] IN
  /\ config_open
  /\ gauge_open[g]
  /\ current_epoch' = EpochAfter
  /\ epoch_start_slot' =
       IF EpochDue THEN epoch_start_slot + SLOTS_PER_EPOCH ELSE epoch_start_slot
  /\ \/ /\ last_checkpoint_epoch[g] >= EpochAfter     \* already checkpointed
        /\ UNCHANGED accrualVars
     \/ /\ last_checkpoint_epoch[g] < EpochAfter
        /\ last_checkpoint_epoch' = [last_checkpoint_epoch EXCEPT ![g] = EpochAfter]
        /\ IF total_lp_deposited[g] = 0
           THEN RollOver(g, due)
           ELSE Distribute(g, due)
  /\ UNCHANGED <<config_open, epoch_emissions, configs, gauge_open, weight_bps,
                 total_lp_deposited, stakeVars, lpVars, riseVars, slot>>

-----------------------------------------------------------------------------
(* Instructions of the authority *)

InitializeRewards(emissions) ==
  /\ ~config_open
  /\ configs < MaxConfigs
  /\ emissions > 0
  /\ config_open' = TRUE
  /\ current_epoch' = 0
  /\ epoch_start_slot' = slot
  /\ epoch_emissions' = emissions
  /\ configs' = configs + 1
  /\ UNCHANGED <<gaugeVars, stakeVars, lpVars, riseVars, slot>>

\* Gauges, stakes and vaults outlive the config.
CloseRewardsConfig ==
  /\ config_open
  /\ config_open' = FALSE
  /\ UNCHANGED <<epochVars, epoch_emissions, configs, gaugeVars, stakeVars,
                 lpVars, riseVars, slot>>

SetEpochEmissions(emissions) ==
  /\ config_open
  /\ emissions > 0
  /\ epoch_emissions' = emissions
  /\ UNCHANGED <<config_open, epochVars, configs, gaugeVars, stakeVars, lpVars,
                 riseVars, slot>>

\* The account is zero-initialised; no field survives an earlier gauge.
CreateGauge(g) ==
  /\ config_open
  /\ ~gauge_open[g]
  /\ gauge_open' = [gauge_open EXCEPT ![g] = TRUE]
  /\ weight_bps' = [weight_bps EXCEPT ![g] = 0]
  /\ reward_per_token' = [reward_per_token EXCEPT ![g] = 0]
  /\ total_lp_deposited' = [total_lp_deposited EXCEPT ![g] = 0]
  /\ last_checkpoint_epoch' = [last_checkpoint_epoch EXCEPT ![g] = current_epoch]
  /\ total_distributed' = [total_distributed EXCEPT ![g] = 0]
  /\ pending_emissions' = [pending_emissions EXCEPT ![g] = 0]
  /\ UNCHANGED <<configVars, stakeVars, lpVars, riseVars, slot>>

CloseGauge(g) ==
  /\ config_open
  /\ gauge_open[g]
  /\ Vacant(g)
  /\ gauge_open' = [gauge_open EXCEPT ![g] = FALSE]
  /\ UNCHANGED <<configVars, weight_bps, accrualVars, total_lp_deposited,
                 stakeVars, lpVars, riseVars, slot>>

SetGaugeWeight(g, weight) ==
  /\ config_open
  /\ gauge_open[g]
  /\ weight <= BPS
  /\ weight_bps' = [weight_bps EXCEPT ![g] = weight]
  /\ UNCHANGED <<configVars, gauge_open, accrualVars, total_lp_deposited,
                 stakeVars, lpVars, riseVars, slot>>

\* The stake is refunded and closed.  Rewards are capped at the vault's balance;
\* what the vault cannot pay is forfeited.
ForceWithdrawLp(u, g) ==
  LET lp == lp_amount[<<u, g>>]
      owed == Claimable(u, g)
  IN
  /\ config_open
  /\ gauge_open[g]
  /\ lp > 0
  /\ gauge_lp_vault[g] >= lp
  /\ total_lp_deposited[g] >= lp
  /\ PayRise(u, IF owed <= rewards_vault THEN owed ELSE rewards_vault)
  /\ CloseStake(u, g)
  /\ total_lp_deposited' = [total_lp_deposited EXCEPT ![g] = @ - lp]
  /\ lp_wallet' = [lp_wallet EXCEPT ![<<u, g>>] = @ + lp]
  /\ gauge_lp_vault' = [gauge_lp_vault EXCEPT ![g] = @ - lp]
  /\ UNCHANGED <<configVars, gauge_open, weight_bps, accrualVars, slot>>

NextSlot ==
  /\ slot < MaxSlot
  /\ slot' = slot + 1
  /\ UNCHANGED <<configVars, gaugeVars, stakeVars, lpVars, riseVars>>

-----------------------------------------------------------------------------
Depositor ==
  \E u \in Users, g \in Gauges :
    \/ \E amount \in Amounts : DepositLp(u, g, amount) \/ WithdrawLp(u, g, amount)
    \/ ClaimRewards(u, g)

Authority ==
  \/ CloseRewardsConfig
  \/ \E emissions \in Emissions :
       InitializeRewards(emissions) \/ SetEpochEmissions(emissions)
  \/ \E g \in Gauges :
       \/ CreateGauge(g) \/ CloseGauge(g)
       \/ \E weight \in Weights : SetGaugeWeight(g, weight)
       \/ \E u \in Users : ForceWithdrawLp(u, g)

Next ==
  \/ Depositor
  \/ \E g \in Gauges : CheckpointGauge(g)
  \/ Authority
  \/ NextSlot

Spec == Init /\ [][Next]_vars

-----------------------------------------------------------------------------
(* Properties *)

\* Every field is in its range.
TypeOK ==
  /\ config_open \in BOOLEAN
  /\ current_epoch \in Nat
  /\ epoch_start_slot \in Nat
  /\ epoch_start_slot <= slot
  /\ epoch_emissions \in Nat
  /\ configs \in Nat
  /\ gauge_open \in [Gauges -> BOOLEAN]
  /\ weight_bps \in [Gauges -> 0..BPS]
  /\ reward_per_token \in [Gauges -> Nat]
  /\ total_lp_deposited \in [Gauges -> Nat]
  /\ last_checkpoint_epoch \in [Gauges -> Nat]
  /\ total_distributed \in [Gauges -> Nat]
  /\ pending_emissions \in [Gauges -> Nat]
  /\ lp_amount \in [Users \X Gauges -> Nat]
  /\ reward_debt \in [Users \X Gauges -> Nat]
  /\ pending_rewards \in [Users \X Gauges -> Nat]
  /\ lp_wallet \in [Users \X Gauges -> Nat]
  /\ gauge_lp_vault \in [Gauges -> Nat]
  /\ rewards_vault \in Nat
  /\ rise \in [Users -> Nat]
  /\ slot \in Nat

\* The LP vault of a gauge, its total_lp_deposited and the stakes in it agree,
\* through forced withdrawals and through closing and re-creating the gauge: no
\* withdrawal can fail on somebody else's account.
LpConserved ==
  \A g \in Gauges :
    /\ gauge_lp_vault[g] = SumFunctionOnSet([u \in Users |-> lp_amount[<<u, g>>]], Users)
    /\ gauge_open[g] => total_lp_deposited[g] = gauge_lp_vault[g]

\* The reward debt of a stake never runs ahead of what it accrued, even when a
\* gauge is closed and re-created with its index back at zero: the checked_sub
\* of deposit_lp and withdraw_lp never locks LP tokens in.
DebtWithinAccrued ==
  \A u \in Users, g \in Gauges : gauge_open[g] => Unsettled(u, g) >= 0
=============================================================================
