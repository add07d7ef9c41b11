------------------------- MODULE GaugeRewardsProofs -------------------------
(***************************************************************************)
(* Theorems about GaugeRewards, for every value of its constants: its types, *)
(* that the LP tokens of a gauge are its stakes, and that no reward debt    *)
(* runs ahead of what the stake accrued.                                    *)
(*                                                                         *)
(* Re-creating a gauge puts total_lp_deposited and reward_per_token back at *)
(* zero under stakes and a vault that outlive it.  That is right only       *)
(* because a closed gauge is empty (ClosedIsEmpty), and it is empty because *)
(* close_gauge finds total_lp_deposited at zero while that is the sum of    *)
(* the stakes: the invariants are inductive together, not one by one.       *)
(***************************************************************************)
EXTENDS GaugeRewards, Arithmetic, Sums

\* A closed gauge has no LP tokens, no stakes and no debts.
ClosedIsEmpty ==
  \A g \in Gauges : ~gauge_open[g] =>
    /\ gauge_lp_vault[g] = 0
    /\ \A u \in Users : lp_amount[<<u, g>>] = 0 /\ reward_debt[<<u, g>>] = 0

IInv == TypeOK /\ LpConserved /\ DebtWithinAccrued /\ ClosedIsEmpty

\* The stakes in a gauge.
LpIn(stakes, g) == SumFunctionOnSet([u \in Users |-> stakes[<<u, g>>]], Users)

-----------------------------------------------------------------------------
(* Helpers *)

\* The constants, as the proofs use them.
LEMMA TypeOfConstants ==
  /\ IsFiniteSet(Users) /\ IsFiniteSet(Gauges)
  /\ REWARD_SCALE \in Nat /\ REWARD_SCALE > 0
  /\ BPS \in Nat /\ BPS > 0
  /\ SLOTS_PER_EPOCH \in Nat /\ SLOTS_PER_EPOCH > 0
  /\ MIN_DEPOSIT \in Nat /\ MIN_DEPOSIT > 0
  /\ Emissions \subseteq Nat /\ Weights \subseteq Nat /\ Amounts \subseteq Nat
  /\ InitialLp \in Nat /\ InitialRise \in Nat
  BY ScaleAssumption, InputAssumption

\* A gauge whose stakes stay keeps their sum.
LEMMA StakesSame ==
  ASSUME NEW old, NEW new, NEW g \in Gauges,
         \A v \in Users : new[<<v, g>>] = old[<<v, g>>]
  PROVE  LpIn(new, g) = LpIn(old, g)
<1>1. [v \in Users |-> new[<<v, g>>]] = [v \in Users |-> old[<<v, g>>]]
  OBVIOUS
<1>2. QED BY <1>1 DEF LpIn

\* A stake that is written changes the sum of its gauge by what it changes
\* itself, and was part of it.
LEMMA StakeWritten ==
  ASSUME NEW old \in [Users \X Gauges -> Nat], NEW new \in [Users \X Gauges -> Nat],
         NEW u \in Users, NEW g \in Gauges,
         \A v \in Users \ {u} : new[<<v, g>>] = old[<<v, g>>]
  PROVE  /\ LpIn(old, g) \in Nat /\ old[<<u, g>>] <= LpIn(old, g)
         /\ LpIn(new, g) = LpIn(old, g) - old[<<u, g>>] + new[<<u, g>>]
<1> DEFINE F == [v \in Users |-> old[<<v, g>>]]
           G == [v \in Users |-> new[<<v, g>>]]
<1>1. /\ F \in [Users -> Nat] /\ G \in [Users -> Nat]
      /\ \A v \in Users \ {u} : G[v] = F[v]
      /\ F[u] = old[<<u, g>>] /\ G[u] = new[<<u, g>>]
  OBVIOUS
<1> HIDE DEF F, G
<1>2. /\ SumFunctionOnSet(F, Users) \in Nat /\ F[u] <= SumFunctionOnSet(F, Users)
      /\ SumFunctionOnSet(G, Users) = SumFunctionOnSet(F, Users) - F[u] + G[u]
  BY <1>1, TypeOfConstants, SumChange
<1>3. QED BY <1>1, <1>2 DEF LpIn, F, G

\* LpConserved in those terms.
LEMMA ConservedByGauge ==
  LpConserved <=>
    \A g \in Gauges : /\ gauge_lp_vault[g] = LpIn(lp_amount, g)
                      /\ gauge_open[g] => total_lp_deposited[g] = gauge_lp_vault[g]
  BY DEF LpConserved, LpIn

\* What a stake accrued, has not settled and can claim.
LEMMA StakeType ==
  ASSUME TypeOK, NEW u \in Users, NEW g \in Gauges
  PROVE  /\ \A lp \in Nat : Accrued(lp, g) \in Nat
         /\ Accrued(0, g) = 0
         /\ Unsettled(u, g) \in Int
         /\ Claimable(u, g) \in Nat
<1>1. /\ reward_per_token[g] \in Nat /\ lp_amount[<<u, g>>] \in Nat
      /\ reward_debt[<<u, g>>] \in Nat /\ pending_rewards[<<u, g>>] \in Nat
  BY DEF TypeOK
<1>2. \A lp \in Nat : Accrued(lp, g) \in Nat
  BY <1>1, ScaledType, TypeOfConstants DEF Accrued
<1>3. Accrued(0, g) = 0
  BY <1>1, ScaledZero, TypeOfConstants DEF Accrued
<1>4. Unsettled(u, g) \in Int
  BY <1>1, <1>2 DEF Unsettled
<1>5. Claimable(u, g) \in Nat
  BY <1>1, <1>4 DEF Claimable
<1>6. QED BY <1>2, <1>3, <1>4, <1>5

\* An action that leaves stakes, indices and LP tokens alone.
StakesKept ==
  UNCHANGED <<gauge_open, reward_per_token, total_lp_deposited, lp_amount, reward_debt,
              gauge_lp_vault>>

\* ... leaves everything but the types to prove.
LEMMA KeptInv ==
  ASSUME IInv, StakesKept
  PROVE  LpConserved' /\ DebtWithinAccrued' /\ ClosedIsEmpty'
  BY DEF IInv, StakesKept, LpConserved, DebtWithinAccrued, ClosedIsEmpty, Unsettled,
     Accrued

\* A change of one stake in an open gauge, with its debt restarted and the LP
\* tokens moved to match.
StakeResized(u, g, lp) ==
  /\ gauge_open[g]
  /\ lp_amount' = [lp_amount EXCEPT ![<<u, g>>] = lp]
  /\ reward_debt' = [reward_debt EXCEPT ![<<u, g>>] = Accrued(lp, g)]
  /\ total_lp_deposited' = [total_lp_deposited EXCEPT ![g] = @ - lp_amount[<<u, g>>] + lp]
  /\ gauge_lp_vault' = [gauge_lp_vault EXCEPT ![g] = @ - lp_amount[<<u, g>>] + lp]
  /\ UNCHANGED <<gauge_open, reward_per_token>>

LEMMA ResizedInv ==
  ASSUME IInv, NEW u \in Users, NEW g \in Gauges, NEW lp \in Nat, StakeResized(u, g, lp)
  PROVE  LpConserved' /\ DebtWithinAccrued' /\ ClosedIsEmpty'
<1> USE DEF StakeResized
<1>1. TypeOK /\ LpConserved /\ DebtWithinAccrued /\ ClosedIsEmpty
  BY DEF IInv
<1>2. /\ lp_amount \in [Users \X Gauges -> Nat] /\ reward_debt \in [Users \X Gauges -> Nat]
      /\ gauge_lp_vault \in [Gauges -> Nat] /\ total_lp_deposited \in [Gauges -> Nat]
  BY <1>1 DEF TypeOK
<1>3. LpConserved'
  <2>0. /\ lp_amount' \in [Users \X Gauges -> Nat] /\ lp_amount'[<<u, g>>] = lp
        /\ \A v \in Users, h \in Gauges :
             v # u \/ h # g => lp_amount'[<<v, h>>] = lp_amount[<<v, h>>]
    BY <1>2
  <2>1. LpIn(lp_amount', g) = LpIn(lp_amount, g) - lp_amount[<<u, g>>] + lp
    BY ONLY <1>2, <2>0, StakeWritten
  <2>4. \A h \in Gauges \ {g} : LpIn(lp_amount', h) = LpIn(lp_amount, h)
    BY ONLY <2>0, StakesSame
  <2>2. \A h \in Gauges : gauge_lp_vault'[h] = LpIn(lp_amount', h)
    BY <1>1, <1>2, <2>1, <2>4, ConservedByGauge
  <2>3. \A h \in Gauges : gauge_open'[h] => total_lp_deposited'[h] = gauge_lp_vault'[h]
    BY <1>1, <1>2 DEF LpConserved
  <2>5. QED BY <2>2, <2>3 DEF LpConserved, LpIn
<1>4. DebtWithinAccrued'
  <2> SUFFICES ASSUME NEW v \in Users, NEW h \in Gauges, gauge_open'[h]
               PROVE  Unsettled(v, h)' >= 0
    BY DEF DebtWithinAccrued
  <2>1. CASE v = u /\ h = g
    <3>1. lp_amount'[<<v, h>>] = lp /\ reward_debt'[<<v, h>>] = Accrued(lp, g)
      BY <1>2, <2>1
    <3>2. Accrued(lp, g) \in Nat /\ Accrued(lp, g)' = Accrued(lp, g)
      BY <1>1, StakeType DEF Accrued
    <3>3. Unsettled(v, h)' = Accrued(lp, g) - Accrued(lp, g)
      BY <2>1, <3>1 DEF Unsettled, Accrued
    <3>4. QED BY <3>2, <3>3
  <2>2. CASE ~(v = u /\ h = g)
    <3>1. /\ lp_amount'[<<v, h>>] = lp_amount[<<v, h>>]
          /\ reward_debt'[<<v, h>>] = reward_debt[<<v, h>>]
      BY <1>2, <2>2
    <3>2. QED BY <1>1, <3>1 DEF DebtWithinAccrued, Unsettled, Accrued
  <2>3. QED BY <2>1, <2>2
<1>5. ClosedIsEmpty'
  BY <1>1, <1>2 DEF ClosedIsEmpty
<1>6. QED BY <1>3, <1>4, <1>5

-----------------------------------------------------------------------------
(* Initial states, and one lemma per instruction that moves stakes or indices *)

\* Gauges begin closed and empty.
LEMMA InitInv == Init => IInv
<1> SUFFICES ASSUME Init PROVE IInv
  OBVIOUS
<1> USE DEF Init, RewardsConfigInit, GaugeInit, GaugeLpVaultInit, RewardsVaultInit
<1>1. TypeOK
  <2>1. weight_bps \in [Gauges -> 0..BPS]
    BY TypeOfConstants
  <2>2. /\ lp_amount \in [Users \X Gauges -> Nat]
        /\ reward_debt \in [Users \X Gauges -> Nat]
        /\ pending_rewards \in [Users \X Gauges -> Nat]
        /\ lp_wallet \in [Users \X Gauges -> Nat]
    BY TypeOfConstants
  <2>3. /\ gauge_open \in [Gauges -> BOOLEAN]
        /\ reward_per_token \in [Gauges -> Nat]
        /\ total_lp_deposited \in [Gauges -> Nat]
        /\ last_checkpoint_epoch \in [Gauges -> Nat]
        /\ total_distributed \in [Gauges -> Nat]
        /\ pending_emissions \in [Gauges -> Nat]
        /\ gauge_lp_vault \in [Gauges -> Nat]
        /\ rise \in [Users -> Nat]
    OBVIOUS
  <2>4. /\ config_open \in BOOLEAN
        /\ current_epoch = 0 /\ epoch_start_slot = 0 /\ epoch_emissions = 0
        /\ configs = 0 /\ rewards_vault = InitialRise /\ slot = 0
    OBVIOUS
  <2>5. QED BY ONLY <2>1, <2>2, <2>3, <2>4, TypeOfConstants DEF TypeOK
<1>2. LpConserved
  <2> SUFFICES ASSUME NEW g \in Gauges PROVE LpIn(lp_amount, g) = 0
    BY ConservedByGauge
  <2> DEFINE F == [u \in Users |-> lp_amount[<<u, g>>]]
  <2>1. \A u \in Users : F[u] = 0
    OBVIOUS
  <2> HIDE DEF F
  <2>2. SumFunctionOnSet(F, Users) = 0
    BY <2>1, TypeOfConstants, SumZero
  <2>3. QED BY <2>2 DEF LpIn, F
<1>3. DebtWithinAccrued /\ ClosedIsEmpty
  BY DEF DebtWithinAccrued, ClosedIsEmpty
<1>4. QED BY <1>1, <1>2, <1>3 DEF IInv

\* A deposit: the settled stake grows, and the vault with it.
LEMMA DepositInv ==
  ASSUME IInv, NEW u \in Users, NEW g \in Gauges, NEW amount \in Amounts,
         DepositLp(u, g, amount)
  PROVE  IInv'
<1> DEFINE lp == lp_amount[<<u, g>>] + amount
<1>1. TypeOK /\ amount \in Nat
  BY TypeOfConstants DEF IInv
<1>2. lp \in Nat /\ Accrued(lp, g) \in Nat /\ Unsettled(u, g) \in Nat
  BY <1>1, StakeType DEF DepositLp, Settle, TypeOK
<1>3. TypeOK'
  <2> HIDE DEF lp
  <2>1. /\ lp_amount' = [lp_amount EXCEPT ![<<u, g>>] = lp]
        /\ reward_debt' = [reward_debt EXCEPT ![<<u, g>>] = Accrued(lp, g)]
        /\ pending_rewards' = [pending_rewards EXCEPT ![<<u, g>>] = @ + Unsettled(u, g)]
    BY DEF DepositLp, SetLp, Settle, lp
  <2>2. /\ lp_amount' \in [Users \X Gauges -> Nat]
        /\ reward_debt' \in [Users \X Gauges -> Nat]
        /\ pending_rewards' \in [Users \X Gauges -> Nat]
        /\ lp_wallet' \in [Users \X Gauges -> Nat]
        /\ total_lp_deposited' \in [Gauges -> Nat]
        /\ gauge_lp_vault' \in [Gauges -> Nat]
    BY <1>1, <1>2, <2>1 DEF DepositLp, TypeOK
  <2>3. QED BY <1>1, <2>2 DEF DepositLp, TypeOK, configVars, epochVars, accrualVars,
               riseVars
<1>4. StakeResized(u, g, lp)
  <2>1. /\ total_lp_deposited[g] + amount = total_lp_deposited[g] - lp_amount[<<u, g>>] + lp
        /\ gauge_lp_vault[g] + amount = gauge_lp_vault[g] - lp_amount[<<u, g>>] + lp
    BY <1>1 DEF TypeOK
  <2> HIDE DEF lp
  <2>2. SetLp(u, g, lp)
    BY DEF DepositLp, lp
  <2>3. QED BY <2>1, <2>2 DEF DepositLp, SetLp, StakeResized, accrualVars
<1>5. QED BY <1>2, <1>3, <1>4, ResizedInv DEF IInv

\* A withdrawal: the settled stake shrinks by what leaves the vault.
LEMMA WithdrawInv ==
  ASSUME IInv, NEW u \in Users, NEW g \in Gauges, NEW amount \in Amounts,
         WithdrawLp(u, g, amount)
  PROVE  IInv'
<1> DEFINE lp == lp_amount[<<u, g>>] - amount
<1>1. TypeOK /\ amount \in Nat
  BY TypeOfConstants DEF IInv
<1>2. lp \in Nat /\ Accrued(lp, g) \in Nat /\ Unsettled(u, g) \in Nat
  <2>1. lp \in Nat
    BY <1>1, TypeOfConstants DEF WithdrawLp, TypeOK
  <2>2. QED BY <1>1, <2>1, StakeType DEF WithdrawLp, Settle
<1>3. TypeOK'
  <2> HIDE DEF lp
  <2>1. /\ lp_amount' = [lp_amount EXCEPT ![<<u, g>>] = lp]
        /\ reward_debt' = [reward_debt EXCEPT ![<<u, g>>] = Accrued(lp, g)]
        /\ pending_rewards' = [pending_rewards EXCEPT ![<<u, g>>] = @ + Unsettled(u, g)]
    BY DEF WithdrawLp, SetLp, Settle, lp
  <2>2. /\ lp_amount' \in [Users \X Gauges -> Nat]
        /\ reward_debt' \in [Users \X Gauges -> Nat]
        /\ pending_rewards' \in [Users \X Gauges -> Nat]
        /\ lp_wallet' \in [Users \X Gauges -> Nat]
        /\ total_lp_deposited' \in [Gauges -> Nat]
        /\ gauge_lp_vault' \in [Gauges -> Nat]
    BY <1>1, <1>2, <2>1 DEF WithdrawLp, TypeOK
  <2>3. QED BY <1>1, <2>2 DEF WithdrawLp, TypeOK, configVars, epochVars, accrualVars,
               riseVars
<1>4. StakeResized(u, g, lp)
  <2>1. /\ total_lp_deposited[g] - amount = total_lp_deposited[g] - lp_amount[<<u, g>>] + lp
        /\ gauge_lp_vault[g] - amount = gauge_lp_vault[g] - lp_amount[<<u, g>>] + lp
    BY <1>1 DEF TypeOK
  <2> HIDE DEF lp
  <2>2. SetLp(u, g, lp)
    BY DEF WithdrawLp, lp
  <2>3. QED BY <2>1, <2>2 DEF WithdrawLp, SetLp, StakeResized, accrualVars
<1>5. QED BY <1>2, <1>3, <1>4, ResizedInv DEF IInv

\* A claim: the stake keeps its size and restarts its debt.
LEMMA ClaimInv ==
  ASSUME IInv, NEW u \in Users, NEW g \in Gauges, ClaimRewards(u, g)
  PROVE  IInv'
<1> DEFINE lp == lp_amount[<<u, g>>]
<1>1. TypeOK
  BY DEF IInv
<1>2. lp \in Nat /\ Accrued(lp, g) \in Nat /\ Claimable(u, g) \in Nat
  BY <1>1, StakeType DEF TypeOK
<1>3. TypeOK'
  <2> HIDE DEF lp
  <2>1. /\ lp_amount' = [lp_amount EXCEPT ![<<u, g>>] = lp]
        /\ reward_debt' = [reward_debt EXCEPT ![<<u, g>>] = Accrued(lp, g)]
    BY DEF ClaimRewards, SetLp, lp
  <2>2. /\ lp_amount' \in [Users \X Gauges -> Nat]
        /\ reward_debt' \in [Users \X Gauges -> Nat]
        /\ pending_rewards' \in [Users \X Gauges -> Nat]
        /\ rewards_vault' \in Nat
        /\ rise' \in [Users -> Nat]
    BY <1>1, <1>2, <2>1 DEF ClaimRewards, PayRise, TypeOK
  <2>3. QED BY <1>1, <2>2 DEF ClaimRewards, TypeOK, configVars, epochVars, gaugeVars,
               accrualVars, lpVars
<1>4. StakeResized(u, g, lp)
  BY <1>1 DEF ClaimRewards, SetLp, StakeResized, TypeOK, gaugeVars, accrualVars, lpVars
<1>5. QED BY <1>2, <1>3, <1>4, ResizedInv DEF IInv

\* A forced withdrawal: the stake is gone, paid from the vault as far as it goes.
LEMMA ForceWithdrawInv ==
  ASSUME IInv, NEW u \in Users, NEW g \in Gauges, ForceWithdrawLp(u, g)
  PROVE  IInv'
<1> DEFINE payment == IF Claimable(u, g) <= rewards_vault THEN Claimable(u, g)
                      ELSE rewards_vault
<1>1. TypeOK
  BY DEF IInv
<1>2. payment \in Nat /\ payment <= rewards_vault /\ Accrued(0, g) = 0
  BY <1>1, StakeType DEF TypeOK
<1>3. TypeOK'
  <2>1. PayRise(u, payment)
    BY DEF ForceWithdrawLp
  <2> HIDE DEF payment
  <2>2. /\ lp_amount' \in [Users \X Gauges -> Nat]
        /\ reward_debt' \in [Users \X Gauges -> Nat]
        /\ pending_rewards' \in [Users \X Gauges -> Nat]
        /\ lp_wallet' \in [Users \X Gauges -> Nat]
    BY <1>1 DEF ForceWithdrawLp, CloseStake, TypeOK
  <2>3. /\ total_lp_deposited' \in [Gauges -> Nat]
        /\ gauge_lp_vault' \in [Gauges -> Nat]
    BY <1>1 DEF ForceWithdrawLp, TypeOK
  <2>4. rewards_vault' \in Nat /\ rise' \in [Users -> Nat]
    BY <1>1, <1>2, <2>1 DEF PayRise, TypeOK
  <2>5. QED BY <1>1, <2>2, <2>3, <2>4
            DEF ForceWithdrawLp, TypeOK, configVars, epochVars, accrualVars
<1>4. StakeResized(u, g, 0)
  <2>1. /\ total_lp_deposited[g] - lp_amount[<<u, g>>]
             = total_lp_deposited[g] - lp_amount[<<u, g>>] + 0
        /\ gauge_lp_vault[g] - lp_amount[<<u, g>>]
             = gauge_lp_vault[g] - lp_amount[<<u, g>>] + 0
    BY <1>1 DEF TypeOK
  <2>2. QED BY <1>2, <2>1 DEF ForceWithdrawLp, CloseStake, StakeResized, accrualVars
<1>5. QED BY <1>3, <1>4, ResizedInv DEF IInv

-----------------------------------------------------------------------------
(* Checkpoints, and the instructions of the authority *)

\* Every term that a checkpoint computes is a natural number.
LEMMA DueType ==
  ASSUME TypeOK, NEW g \in Gauges
  PROVE  Allocation(g) \in Nat /\ Allocation(g) <= epoch_emissions
<1>1. weight_bps[g] \in Nat /\ weight_bps[g] <= BPS /\ epoch_emissions \in Nat
  BY TypeOfConstants DEF TypeOK
<1>2. QED BY <1>1, FractionBound, TypeOfConstants DEF Allocation

\* A checkpoint types its own fields, and never lowers an index.
LEMMA CheckpointStep ==
  ASSUME TypeOK, NEW g \in Gauges, CheckpointGauge(g)
  PROVE  /\ TypeOK'
         /\ \A h \in Gauges : reward_per_token[h] <= reward_per_token'[h]
<1> DEFINE due == Allocation(g) + pending_emissions[g]
<1>1. due \in Nat
  BY DueType DEF TypeOK
<1>2. /\ current_epoch' \in Nat /\ epoch_start_slot' \in Nat /\ epoch_start_slot' <= slot'
      /\ EpochAfter \in Nat
  BY TypeOfConstants DEF CheckpointGauge, EpochAfter, EpochDue, TypeOK
<1> HIDE DEF due
<1>3. /\ reward_per_token' \in [Gauges -> Nat]
      /\ last_checkpoint_epoch' \in [Gauges -> Nat]
      /\ total_distributed' \in [Gauges -> Nat]
      /\ pending_emissions' \in [Gauges -> Nat]
      /\ \A h \in Gauges : reward_per_token[h] <= reward_per_token'[h]
  <2>1. CASE UNCHANGED accrualVars
    BY <2>1 DEF accrualVars, TypeOK
  <2>2. CASE /\ last_checkpoint_epoch' = [last_checkpoint_epoch EXCEPT ![g] = EpochAfter]
             /\ RollOver(g, due)
    BY <1>1, <1>2, <2>2 DEF RollOver, TypeOK
  <2>3. CASE /\ last_checkpoint_epoch' = [last_checkpoint_epoch EXCEPT ![g] = EpochAfter]
             /\ total_lp_deposited[g] # 0
             /\ Distribute(g, due)
    <3> DEFINE step == (due * REWARD_SCALE) \div total_lp_deposited[g]
    <3>1. total_lp_deposited[g] \in Nat /\ total_lp_deposited[g] > 0
      BY <2>3 DEF TypeOK
    <3>2. step \in Nat
      BY <1>1, <3>1, ScaledType, TypeOfConstants
    <3> HIDE DEF step
    <3>3. reward_per_token' = [reward_per_token EXCEPT ![g] = @ + step]
      BY <2>3 DEF Distribute, step
    <3>4. QED BY <1>1, <1>2, <2>3, <3>2, <3>3 DEF Distribute, TypeOK
  <2>4. QED BY <2>1, <2>2, <2>3 DEF CheckpointGauge, due
<1>4. TypeOK'
  BY <1>2, <1>3 DEF CheckpointGauge, TypeOK, stakeVars, lpVars, riseVars
<1>5. QED BY <1>3, <1>4

LEMMA CheckpointInv ==
  ASSUME IInv, NEW g \in Gauges, CheckpointGauge(g)
  PROVE  IInv'
<1>1. TypeOK /\ TypeOK' /\ \A h \in Gauges : reward_per_token[h] <= reward_per_token'[h]
  BY CheckpointStep DEF IInv
<1>2. UNCHANGED <<gauge_open, total_lp_deposited, lp_amount, reward_debt, gauge_lp_vault>>
  BY DEF CheckpointGauge, stakeVars, lpVars
<1>3. LpConserved' /\ ClosedIsEmpty'
  BY <1>2 DEF IInv, LpConserved, ClosedIsEmpty
<1>4. DebtWithinAccrued'
  <2> SUFFICES ASSUME NEW u \in Users, NEW h \in Gauges, gauge_open[h]
               PROVE  Unsettled(u, h)' >= 0
    BY <1>2 DEF DebtWithinAccrued
  <2> DEFINE lp == lp_amount[<<u, h>>]
             debt == reward_debt[<<u, h>>]
  <2>1. /\ lp \in Nat /\ debt \in Nat
        /\ reward_per_token[h] \in Nat /\ reward_per_token'[h] \in Nat
        /\ reward_per_token[h] <= reward_per_token'[h]
    BY <1>1 DEF TypeOK
  <2>2. /\ Unsettled(u, h) = Accrued(lp, h) - debt
        /\ Unsettled(u, h)' = (lp * reward_per_token'[h]) \div REWARD_SCALE - debt
    BY <1>2 DEF Unsettled, Accrued
  <2>3. Unsettled(u, h) >= 0
    BY DEF IInv, DebtWithinAccrued
  <2> HIDE DEF lp, debt
  <2>4. /\ Accrued(lp, h) <= (lp * reward_per_token'[h]) \div REWARD_SCALE
        /\ Accrued(lp, h) \in Nat
        /\ (lp * reward_per_token'[h]) \div REWARD_SCALE \in Nat
    BY <2>1, ScaledMono, ScaledType, TypeOfConstants DEF Accrued
  <2>5. QED BY <2>1, <2>2, <2>3, <2>4
<1>5. QED BY <1>1, <1>3, <1>4 DEF IInv

\* A gauge that is created over an empty vault starts with all its books at zero.
LEMMA CreateInv ==
  ASSUME IInv, NEW g \in Gauges, CreateGauge(g)
  PROVE  IInv'
<1>1. TypeOK /\ LpConserved /\ DebtWithinAccrued /\ ClosedIsEmpty
  BY DEF IInv
<1>2. /\ gauge_open' = [gauge_open EXCEPT ![g] = TRUE]
      /\ reward_per_token' = [reward_per_token EXCEPT ![g] = 0]
      /\ total_lp_deposited' = [total_lp_deposited EXCEPT ![g] = 0]
      /\ UNCHANGED <<lp_amount, reward_debt, gauge_lp_vault>>
  BY DEF CreateGauge, stakeVars, lpVars
<1>3. TypeOK'
  BY <1>1, TypeOfConstants
     DEF CreateGauge, TypeOK, configVars, epochVars, stakeVars, lpVars, riseVars
<1>4. /\ gauge_lp_vault[g] = 0
      /\ \A u \in Users : lp_amount[<<u, g>>] = 0 /\ reward_debt[<<u, g>>] = 0
  BY <1>1 DEF ClosedIsEmpty, CreateGauge
<1>5. LpConserved'
  BY <1>1, <1>2, <1>4 DEF LpConserved, TypeOK
<1>6. ClosedIsEmpty'
  BY <1>1, <1>2 DEF ClosedIsEmpty, TypeOK
<1>7. DebtWithinAccrued'
  <2> SUFFICES ASSUME NEW u \in Users, NEW h \in Gauges, gauge_open'[h]
               PROVE  Unsettled(u, h)' >= 0
    BY DEF DebtWithinAccrued
  <2>1. CASE h = g
    <3>1. /\ lp_amount'[<<u, h>>] = 0 /\ reward_debt'[<<u, h>>] = 0
      BY <1>2, <1>4, <2>1
    <3>2. Accrued(0, h)' = 0
      BY <1>3, ScaledZero, TypeOfConstants DEF Accrued, TypeOK
    <3>3. Unsettled(u, h)' = Accrued(0, h)' - 0
      BY <3>1 DEF Unsettled, Accrued
    <3>4. QED BY <3>2, <3>3
  <2>2. CASE h # g
    <3>1. gauge_open[h] /\ reward_per_token'[h] = reward_per_token[h]
      BY <1>1, <1>2, <2>2 DEF TypeOK
    <3>2. QED BY <1>1, <1>2, <3>1 DEF DebtWithinAccrued, Unsettled, Accrued
  <2>3. QED BY <2>1, <2>2
<1>8. QED BY <1>3, <1>5, <1>6, <1>7 DEF IInv

\* A gauge that close_gauge finds vacant is empty: its total is the sum of its
\* stakes, and no debt outlives a stake.
LEMMA CloseInv ==
  ASSUME IInv, NEW g \in Gauges, CloseGauge(g)
  PROVE  IInv'
<1>1. TypeOK /\ LpConserved /\ DebtWithinAccrued /\ ClosedIsEmpty
  BY DEF IInv
<1>2. /\ gauge_open' = [gauge_open EXCEPT ![g] = FALSE]
      /\ UNCHANGED <<reward_per_token, total_lp_deposited, lp_amount, reward_debt,
                     gauge_lp_vault>>
  BY DEF CloseGauge, accrualVars, stakeVars, lpVars
<1>3. TypeOK'
  BY <1>1 DEF CloseGauge, TypeOK, configVars, epochVars, accrualVars, stakeVars, lpVars,
              riseVars
<1>4. gauge_lp_vault[g] = 0 /\ LpIn(lp_amount, g) = 0
  BY <1>1, ConservedByGauge DEF CloseGauge, Vacant
<1>5. ASSUME NEW u \in Users PROVE lp_amount[<<u, g>>] = 0 /\ reward_debt[<<u, g>>] = 0
  <2>1. lp_amount \in [Users \X Gauges -> Nat] /\ reward_debt[<<u, g>>] \in Nat
    BY <1>1 DEF TypeOK
  <2>2. lp_amount[<<u, g>>] <= LpIn(lp_amount, g) /\ lp_amount[<<u, g>>] \in Nat
    BY <2>1, StakeWritten
  <2>3. lp_amount[<<u, g>>] = 0
    BY <1>4, <2>2
  <2>4. Unsettled(u, g) >= 0 /\ Accrued(0, g) = 0
    BY <1>1, StakeType DEF DebtWithinAccrued, CloseGauge
  <2>5. reward_debt[<<u, g>>] = 0
    BY <2>1, <2>3, <2>4 DEF Unsettled
  <2>6. QED BY <2>3, <2>5
<1>6. ClosedIsEmpty'
  BY <1>1, <1>2, <1>4, <1>5 DEF ClosedIsEmpty, TypeOK
<1>7. LpConserved' /\ DebtWithinAccrued'
  BY <1>1, <1>2 DEF LpConserved, DebtWithinAccrued, Unsettled, Accrued, TypeOK
<1>8. QED BY <1>3, <1>6, <1>7 DEF IInv

\* The other instructions of the authority and the clock touch no stake.
LEMMA OtherInv ==
  ASSUME IInv,
         \/ CloseRewardsConfig
         \/ \E emissions \in Emissions :
              InitializeRewards(emissions) \/ SetEpochEmissions(emissions)
         \/ \E g \in Gauges, weight \in Weights : SetGaugeWeight(g, weight)
         \/ NextSlot
  PROVE  IInv'
<1> USE DEF configVars, epochVars, gaugeVars, accrualVars, stakeVars, lpVars, riseVars
<1>1. TypeOK
  BY DEF IInv
<1>2. StakesKept
  BY DEF CloseRewardsConfig, InitializeRewards, SetEpochEmissions, SetGaugeWeight,
     NextSlot,
         StakesKept
<1>3. TypeOK'
  <2>1. CASE CloseRewardsConfig
    BY <1>1, <2>1 DEF CloseRewardsConfig, TypeOK
  <2>2. ASSUME NEW emissions \in Emissions,
               InitializeRewards(emissions) \/ SetEpochEmissions(emissions)
        PROVE  TypeOK'
    <3>1. emissions \in Nat
      BY TypeOfConstants
    <3>2. CASE InitializeRewards(emissions)
      BY <1>1, <3>1, <3>2 DEF InitializeRewards, TypeOK
    <3>3. CASE SetEpochEmissions(emissions)
      BY <1>1, <3>1, <3>3 DEF SetEpochEmissions, TypeOK
    <3>4. QED BY <2>2, <3>2, <3>3
  <2>3. ASSUME NEW g \in Gauges, NEW weight \in Weights, SetGaugeWeight(g, weight)
        PROVE  TypeOK'
    <3>1. weight \in 0..BPS
      BY <2>3, TypeOfConstants DEF SetGaugeWeight
    <3>2. QED BY <1>1, <2>3, <3>1 DEF SetGaugeWeight, TypeOK
  <2>4. CASE NextSlot
    BY <1>1, <2>4 DEF NextSlot, TypeOK
  <2>5. QED BY <2>1, <2>2, <2>3, <2>4
<1>4. QED BY <1>2, <1>3, KeptInv DEF IInv

-----------------------------------------------------------------------------
(* Theorems *)

LEMMA StepInv == IInv /\ [Next]_vars => IInv'
<1> SUFFICES ASSUME IInv, [Next]_vars PROVE IInv'
  OBVIOUS
<1>1. CASE Depositor
  BY <1>1, DepositInv, WithdrawInv, ClaimInv DEF Depositor
<1>2. CASE \E g \in Gauges : CheckpointGauge(g)
  BY <1>2, CheckpointInv
<1>3. CASE Authority
  BY <1>3, CreateInv, CloseInv, ForceWithdrawInv, OtherInv DEF Authority
<1>4. CASE NextSlot
  BY <1>4, OtherInv
<1>5. CASE UNCHANGED vars
  <2> USE DEF vars, configVars, epochVars, gaugeVars, accrualVars, stakeVars, lpVars, riseVars
  <2>1. StakesKept
    BY <1>5 DEF StakesKept
  <2>2. TypeOK'
    BY <1>5 DEF IInv, TypeOK
  <2>3. QED BY <2>1, <2>2, KeptInv DEF IInv
<1>6. QED BY <1>1, <1>2, <1>3, <1>4, <1>5 DEF Next

LEMMA Inductive == Spec => []IInv
  BY InitInv, StepInv, PTL DEF Spec

\* Every field is in its range, whatever instructions run: no unsigned
\* subtraction of the program goes below zero.
THEOREM TypeCorrect == Spec => []TypeOK
<1>1. IInv => TypeOK
  BY DEF IInv
<1>2. QED BY <1>1, Inductive, PTL

\* The LP vault, total_lp_deposited and the stakes of a gauge agree for ever,
\* through closing and re-creating the gauge.
THEOREM LpAlwaysConserved == Spec => []LpConserved
<1>1. IInv => LpConserved
  BY DEF IInv
<1>2. QED BY <1>1, Inductive, PTL

\* No reward debt ever runs ahead of its stake, so a deposit or a withdrawal
\* never fails on the checked_sub of its settlement.
THEOREM DebtNeverAhead == Spec => []DebtWithinAccrued
<1>1. IInv => DebtWithinAccrued
  BY DEF IInv
<1>2. QED BY <1>1, Inductive, PTL
=============================================================================
