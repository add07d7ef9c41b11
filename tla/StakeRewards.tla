---------------------------- MODULE StakeRewards ----------------------------
(***************************************************************************)
(* The RISE rewards of rise-staking: a permissionless checkpoint turns the   *)
(* emissions of the slots gone by into reward_per_token, and every           *)
(* registered wallet has a tracker that settles against that index when the *)
(* wallet stakes, unstakes or claims.                                        *)
(*                                                                         *)
(* stake_sol and unstake_rise_sol take the config and the tracker as         *)
(* optional accounts: the caller may leave out either.  riseSOL is a plain   *)
(* token that also changes hands, and that rise-cdp mints and burns, with no *)
(* word to the trackers.  The SOL side of the two instructions is module     *)
(* StakingPool; here they move riseSOL amounts.                              *)
(***************************************************************************)
EXTENDS Integers, FiniteSets, FiniteSetsExt

CONSTANTS
  Users,             \* wallets, with one riseSOL account each
  REWARD_SCALE,      \* fixed-point one of reward_per_token (10^12 on chain)
  EPOCH_EMISSIONS,   \* StakeRewardsConfig.epoch_emissions
  SLOTS_PER_EPOCH,   \* StakeRewardsConfig.slots_per_epoch
  Amounts,           \* riseSOL minted by stake_sol, burned by unstake_rise_sol
  OutsideAmounts,    \* riseSOL transferred, or minted by rise-cdp
  BurnAmounts,       \* riseSOL burned as CDP interest
  Funds,             \* RISE sent to the rewards vault
  MaxSupply,         \* bound: riseSOL in wallets, and total_staking_supply
  MaxVault,          \* bound: RISE in the rewards vault
  MaxConfigs,        \* bound: how often the config is initialised
  MaxResizes,        \* bound: changes of trackers
  MaxSlot            \* bound: last slot of the clock

ASSUME StakeRewardsAssumption ==
  /\ IsFiniteSet(Users)
  /\ {REWARD_SCALE, EPOCH_EMISSIONS, SLOTS_PER_EPOCH} \subseteq Nat \ {0}
  /\ Amounts \cup OutsideAmounts \cup BurnAmounts \cup Funds \subseteq Nat \ {0}
  /\ {MaxSupply, MaxVault, MaxConfigs, MaxResizes, MaxSlot} \subseteq Nat

VARIABLES
  \* StakeRewardsConfig and its vault
  config_open,
  reward_per_token,
  total_staking_supply,
  last_checkpoint_slot,
  rewards_vault,
  configs,                  \* how often the config was initialised
  tracker,                  \* UserStakeRewards, per wallet
  \* the pool and the tokens
  staking_rise_sol_supply,  \* GlobalPool
  rise_sol,                 \* riseSOL per wallet
  rise,                     \* RISE claimed per wallet
  slot,
  \* history: RISE emitted by checkpoints, how often a tracker took on a size, and
  \* whether so far callers passed every account that exists and all riseSOL
  \* stayed with the wallet that staked for it
  emitted,
  resizes,
  by_the_book

configVars == <<config_open, reward_per_token, total_staking_supply,
                last_checkpoint_slot, configs>>
poolVars == <<staking_rise_sol_supply, rise_sol>>
vars == <<configVars, rewards_vault, tracker, poolVars, rise, slot, emitted, resizes,
          by_the_book>>

NoTracker == [exists |-> FALSE, rise_sol_amount |-> 0, reward_debt |-> 0,
              pending_rewards |-> 0]

Circulating == SumFunctionOnSet(rise_sol, Users)

-----------------------------------------------------------------------------
(* UserStakeRewards *)

Accrued(amount, index) == (amount * index) \div REWARD_SCALE

CanSettle_Mutant_Unchecked(t, index) == TRUE

\* settle subtracts the debt with checked_sub.
CanSettle(t, index) == Accrued(t.rise_sol_amount, index) >= t.reward_debt

Settled(t, index) ==
  [t EXCEPT !.pending_rewards =
              @ + Accrued(t.rise_sol_amount, index) - t.reward_debt]

Synced_Mutant_OldAmount(t, index, amount) ==
  [t EXCEPT !.rise_sol_amount = amount,
            !.reward_debt = Accrued(t.rise_sol_amount, index)]

Synced(t, index, amount) ==
  [t EXCEPT !.rise_sol_amount = amount, !.reward_debt = Accrued(amount, index)]

\* Settle and resync at a new balance the tracker a caller passes; the index
\* is 0 for a caller that leaves out the config.
Resize(u, index, new_amount) ==
  /\ CanSettle(tracker[u], index)
  /\ tracker' = [tracker EXCEPT
       ![u] = Synced(Settled(@, index), index, new_amount)]
  /\ resizes < MaxResizes
  /\ resizes' = resizes + 1

\* Which of the optional accounts that exist a caller passes.
Passes(u) == [config : {FALSE, config_open}, tracker : {FALSE, tracker[u].exists}]

PassesAll(u, passed) ==
  passed = [config |-> config_open, tracker |-> tracker[u].exists]

TrackBalance(u, passed, new_amount) ==
  IF passed.tracker
  THEN Resize(u, IF passed.config THEN reward_per_token ELSE 0, new_amount)
  ELSE UNCHANGED <<tracker, resizes>>

-----------------------------------------------------------------------------
Init ==
  /\ config_open = FALSE
  /\ reward_per_token = 0
  /\ total_staking_supply = 0
  /\ last_checkpoint_slot = 0
  /\ rewards_vault = 0
  /\ configs = 0
  /\ tracker = [u \in Users |-> NoTracker]
  /\ staking_rise_sol_supply = 0
  /\ rise_sol = [u \in Users |-> 0]
  /\ rise = [u \in Users |-> 0]
  /\ slot = 0
  /\ emitted = 0
  /\ resizes = 0
  /\ by_the_book = TRUE

(* Instructions of stakers *)

StakeSol(u, minted, passed) ==
  /\ Circulating + minted <= MaxSupply
  /\ passed.config => total_staking_supply + minted <= MaxSupply
  /\ TrackBalance(u, passed, rise_sol[u] + minted)
  /\ total_staking_supply' =
       IF passed.config THEN total_staking_supply + minted ELSE total_staking_supply
  /\ staking_rise_sol_supply' = staking_rise_sol_supply + minted
  /\ rise_sol' = [rise_sol EXCEPT ![u] = @ + minted]
  /\ by_the_book' = (by_the_book /\ PassesAll(u, passed))
  /\ UNCHANGED <<config_open, reward_per_token, last_checkpoint_slot, configs,
                 rewards_vault, rise, slot, emitted>>

UnstakeRiseSol(u, amount, passed) ==
  /\ rise_sol[u] >= amount
  /\ staking_rise_sol_supply >= amount
  /\ passed.config => total_staking_supply >= amount
  /\ TrackBalance(u, passed, rise_sol[u] - amount)
  /\ total_staking_supply' =
       IF passed.config THEN total_staking_supply - amount ELSE total_staking_supply
  /\ staking_rise_sol_supply' = staking_rise_sol_supply - amount
  /\ rise_sol' = [rise_sol EXCEPT ![u] = @ - amount]
  /\ by_the_book' = (by_the_book /\ PassesAll(u, passed))
  /\ UNCHANGED <<config_open, reward_per_token, last_checkpoint_slot, configs,
                 rewards_vault, rise, slot, emitted>>

Registered_Mutant_NoDebt(amount) ==
  [NoTracker EXCEPT !.exists = TRUE, !.rise_sol_amount = amount]

\* A new tracker starts at the wallet's whole balance, wherever it came from;
\* total_staking_supply is not touched.
Registered(amount) ==
  Synced([NoTracker EXCEPT !.exists = TRUE], reward_per_token, amount)

RegisterStakeRewards(u) ==
  /\ config_open
  /\ ~tracker[u].exists
  /\ resizes < MaxResizes
  /\ tracker' = [tracker EXCEPT ![u] = Registered(rise_sol[u])]
  /\ resizes' = resizes + 1
  /\ UNCHANGED <<configVars, rewards_vault, poolVars, rise, slot, emitted, by_the_book>>

ClaimStakeRewards(u) ==
  LET settled == Settled(tracker[u], reward_per_token) IN
  /\ config_open
  /\ tracker[u].exists
  /\ CanSettle(tracker[u], reward_per_token)
  /\ settled.pending_rewards > 0
  /\ rewards_vault >= settled.pending_rewards
  /\ rewards_vault' = rewards_vault - settled.pending_rewards
  /\ rise' = [rise EXCEPT ![u] = @ + settled.pending_rewards]
  /\ tracker' = [tracker EXCEPT
       ![u] = Synced([settled EXCEPT !.pending_rewards = 0], reward_per_token,
                     settled.rise_sol_amount)]
  /\ UNCHANGED <<configVars, poolVars, slot, emitted, resizes, by_the_book>>

-----------------------------------------------------------------------------
(* Checkpoint and configuration *)

SlotsElapsed == slot - last_checkpoint_slot
EmissionsDue == (EPOCH_EMISSIONS * SlotsElapsed) \div SLOTS_PER_EPOCH

\* The slots count as paid for even when nobody stakes or the emissions due
\* round to nothing.
CheckpointStakeRewards ==
  /\ config_open
  /\ SlotsElapsed > 0
  /\ last_checkpoint_slot' = slot
  /\ IF total_staking_supply = 0
     THEN UNCHANGED <<reward_per_token, emitted>>
     ELSE /\ reward_per_token' = reward_per_token
               + (EmissionsDue * REWARD_SCALE) \div total_staking_supply
          /\ emitted' = emitted + EmissionsDue
  /\ UNCHANGED <<config_open, total_staking_supply, configs, rewards_vault,
                 tracker, poolVars, rise, slot, resizes, by_the_book>>

InitializeStakeRewards ==
  /\ ~config_open
  /\ configs < MaxConfigs
  /\ config_open' = TRUE
  /\ reward_per_token' = 0
  /\ total_staking_supply' = staking_rise_sol_supply
  /\ last_checkpoint_slot' = slot
  /\ configs' = configs + 1
  /\ UNCHANGED <<rewards_vault, tracker, poolVars, rise, slot, emitted, resizes,
                 by_the_book>>

\* The vault's RISE goes back to the authority; trackers stay as they are.
CloseStakeRewards ==
  /\ config_open
  /\ config_open' = FALSE
  /\ reward_per_token' = 0
  /\ total_staking_supply' = 0
  /\ last_checkpoint_slot' = 0
  /\ rewards_vault' = 0
  /\ UNCHANGED <<configs, tracker, poolVars, rise, slot, emitted, resizes, by_the_book>>

-----------------------------------------------------------------------------
(* Around the program *)

FundRewardsVault(amount) ==
  /\ config_open
  /\ rewards_vault + amount <= MaxVault
  /\ rewards_vault' = rewards_vault + amount
  /\ UNCHANGED <<configVars, tracker, poolVars, rise, slot, emitted, resizes,
                 by_the_book>>

\* An SPL transfer between wallets.
TransferRiseSol(from, to, amount) ==
  /\ from # to
  /\ rise_sol[from] >= amount
  /\ rise_sol' = [rise_sol EXCEPT ![from] = @ - amount, ![to] = @ + amount]
  /\ by_the_book' = FALSE
  /\ UNCHANGED <<configVars, rewards_vault, tracker, staking_rise_sol_supply,
                 rise, slot, emitted, resizes>>

\* A CDP loan: mint_for_cdp counts it nowhere in rise-staking.
MintForCdp(u, amount) ==
  /\ Circulating + amount <= MaxSupply
  /\ rise_sol' = [rise_sol EXCEPT ![u] = @ + amount]
  /\ by_the_book' = FALSE
  /\ UNCHANGED <<configVars, rewards_vault, tracker, staking_rise_sol_supply,
                 rise, slot, emitted, resizes>>

\* CDP interest paid in riseSOL: burned, and notified to the pool only.
NotifyRiseSolBurned(u, amount) ==
  /\ rise_sol[u] >= amount
  /\ staking_rise_sol_supply >= amount
  /\ rise_sol' = [rise_sol EXCEPT ![u] = @ - amount]
  /\ staking_rise_sol_supply' = staking_rise_sol_supply - amount
  /\ UNCHANGED <<configVars, rewards_vault, tracker, rise, slot, emitted, resizes,
                 by_the_book>>

NextSlot ==
  /\ slot < MaxSlot
  /\ slot' = slot + 1
  /\ UNCHANGED <<configVars, rewards_vault, tracker, poolVars, rise, emitted, resizes,
                 by_the_book>>

-----------------------------------------------------------------------------
Staker(u) ==
  \/ \E amount \in Amounts, passed \in Passes(u) :
       StakeSol(u, amount, passed) \/ UnstakeRiseSol(u, amount, passed)
  \/ RegisterStakeRewards(u)
  \/ ClaimStakeRewards(u)
  \/ \E amount \in OutsideAmounts :
       MintForCdp(u, amount) \/ \E to \in Users : TransferRiseSol(u, to, amount)
  \/ \E amount \in BurnAmounts : NotifyRiseSolBurned(u, amount)

Next ==
  \/ \E u \in Users : Staker(u)
  \/ CheckpointStakeRewards
  \/ InitializeStakeRewards
  \/ CloseStakeRewards
  \/ \E amount \in Funds : FundRewardsVault(amount)
  \/ NextSlot

Spec == Init /\ [][Next]_vars

-----------------------------------------------------------------------------
(* Properties *)

TrackerType == [exists : BOOLEAN, rise_sol_amount : Nat, reward_debt : Nat,
                pending_rewards : Nat]

\* Every field is in its range; in particular no settlement leaves a negative
\* pending reward, even while the config is closed.
TypeOK ==
  /\ config_open \in BOOLEAN
  /\ reward_per_token \in Nat
  /\ total_staking_supply \in Nat
  /\ last_checkpoint_slot \in Nat
  /\ rewards_vault \in Nat
  /\ staking_rise_sol_supply \in Nat
  /\ emitted \in Nat
  /\ configs \in 0..MaxConfigs
  /\ tracker \in [Users -> TrackerType]
  /\ rise_sol \in [Users -> Nat]
  /\ rise \in [Users -> Nat]
  /\ slot \in 0..MaxSlot
  /\ resizes \in 0..MaxResizes
  /\ by_the_book \in BOOLEAN

\* While the config that a tracker was synced with is open, its settlement
\* cannot fail: a failing settlement would lock the wallet out of staking and
\* claiming with its tracker.  It holds whatever accounts callers leave out and
\* wherever the riseSOL goes.
StakersCanSettle ==
  config_open => \A u \in Users : CanSettle(tracker[u], reward_per_token)

OwedTo(u) ==
  IF config_open /\ CanSettle(tracker[u], reward_per_token)
  THEN Settled(tracker[u], reward_per_token).pending_rewards
  ELSE tracker[u].pending_rewards

Owed == SumFunctionOnSet([u \in Users |-> OwedTo(u)], Users)
Paid == SumFunctionOnSet(rise, Users)

\* As long as callers pass every account and riseSOL stays with its stakers, they
\* are never paid or owed more RISE than checkpoints emitted, but for one unit of
\* rounding per size a tracker took on; CDP interest burns do not disturb it.
RewardsWithinEmissions == by_the_book => Paid + Owed <= emitted + resizes
=============================================================================
