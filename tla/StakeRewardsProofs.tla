-------------------------- MODULE StakeRewardsProofs --------------------------
(***************************************************************************)
(* Theorems about StakeRewards, for every value of its constants.           *)
(*                                                                         *)
(* TypeOK is inductive.  The other two speak of the first config only: a    *)
(* second one restarts the index at zero while trackers keep their debts    *)
(* (configs <= 1 in what follows).  Then                                    *)
(*   - no settlement fails (FirstConfig);                                   *)
(*   - while everybody plays by the book, total_staking_supply covers what  *)
(*     the trackers count on, although interest burns lower the balances    *)
(*     behind them (SupplyCovers); each checkpoint thus gives out no more   *)
(*     than it emits;                                                       *)
(*   - in units of 1 / REWARD_SCALE, where a rounded debt loses nothing,    *)
(*     the RISE paid and credited is covered by the RISE emitted, but for   *)
(*     one unit of RISE per size a tracker took on (Solvent).               *)
(***************************************************************************)
EXTENDS StakeRewards, Arithmetic, Sums

LEMMA TypeOfConstants ==
  /\ IsFiniteSet(Users)
  /\ REWARD_SCALE \in Nat /\ REWARD_SCALE > 0
  /\ EPOCH_EMISSIONS \in Nat /\ SLOTS_PER_EPOCH \in Nat /\ SLOTS_PER_EPOCH > 0
  /\ \A a \in Amounts \cup OutsideAmounts \cup BurnAmounts \cup Funds : a \in Nat /\ a > 0
  /\ MaxConfigs \in Nat /\ MaxResizes \in Nat /\ MaxSlot \in Nat
  BY StakeRewardsAssumption

-----------------------------------------------------------------------------
(* Trackers *)

LEMMA AccruedType ==
  ASSUME NEW amount \in Nat, NEW index \in Nat
  PROVE  Accrued(amount, index) \in Nat /\ Accrued(amount, 0) = 0 /\ Accrued(0, index) = 0
<1>1. Accrued(amount, index) \in Nat
  BY ScaledType, TypeOfConstants DEF Accrued
<1>2. Accrued(amount, 0) = 0 /\ Accrued(0, index) = 0
  BY ScaledZero, TypeOfConstants DEF Accrued
<1>3. QED BY <1>1, <1>2

\* A tracker is made of its fields.
Fields(exists, amount, debt, pending) ==
  [exists |-> exists, rise_sol_amount |-> amount, reward_debt |-> debt,
   pending_rewards |-> pending]

LEMMA TrackerFields ==
  ASSUME NEW t \in TrackerType
  PROVE  /\ t = Fields(t.exists, t.rise_sol_amount, t.reward_debt, t.pending_rewards)
         /\ t.exists \in BOOLEAN /\ t.rise_sol_amount \in Nat
         /\ t.reward_debt \in Nat /\ t.pending_rewards \in Nat
  BY DEF TrackerType, Fields

LEMMA PartsOfFields ==
  ASSUME NEW exists, NEW amount, NEW debt, NEW pending
  PROVE  /\ Fields(exists, amount, debt, pending).exists = exists
         /\ Fields(exists, amount, debt, pending).rise_sol_amount = amount
         /\ Fields(exists, amount, debt, pending).reward_debt = debt
         /\ Fields(exists, amount, debt, pending).pending_rewards = pending
  BY DEF Fields

LEMMA FieldsType ==
  ASSUME NEW exists \in BOOLEAN, NEW amount \in Nat, NEW debt \in Nat, NEW pending \in Nat
  PROVE  Fields(exists, amount, debt, pending) \in TrackerType
  BY DEF TrackerType, Fields

LEMMA SyncedFields ==
  ASSUME NEW t \in TrackerType, NEW index, NEW amount
  PROVE  Synced(t, index, amount)
           = Fields(t.exists, amount, Accrued(amount, index), t.pending_rewards)
<1> DEFINE u == [t EXCEPT !.rise_sol_amount = amount]
           debt == Accrued(amount, index)
<1>1. u = Fields(t.exists, amount, t.reward_debt, t.pending_rewards)
  BY DEF TrackerType, Fields
<1>2. Synced(t, index, amount) = [u EXCEPT !.reward_debt = debt]
  BY DEF Synced
<1> HIDE DEF u, debt
<1>3. [u EXCEPT !.reward_debt = debt] = Fields(t.exists, amount, debt, t.pending_rewards)
  BY <1>1 DEF Fields
<1>4. QED BY <1>2, <1>3 DEF debt

\* Settling and resyncing a tracker that can settle.
LEMMA ResyncedType ==
  ASSUME NEW t \in TrackerType, NEW index \in Nat, NEW amount \in Nat, CanSettle(t, index)
  PROVE  /\ Settled(t, index) \in TrackerType
         /\ Synced(Settled(t, index), index, amount) \in TrackerType
         /\ Settled(t, index).pending_rewards
              = t.pending_rewards + (Accrued(t.rise_sol_amount, index) - t.reward_debt)
         /\ Settled(t, index).rise_sol_amount = t.rise_sol_amount
         /\ Settled(t, index).exists = t.exists
         /\ Synced(Settled(t, index), index, amount)
              = Fields(t.exists, amount, Accrued(amount, index),
                       Settled(t, index).pending_rewards)
<1>1. /\ Accrued(t.rise_sol_amount, index) \in Nat /\ Accrued(amount, index) \in Nat
      /\ t.reward_debt \in Nat /\ t.pending_rewards \in Nat /\ t.rise_sol_amount \in Nat
      /\ t.exists \in BOOLEAN
  BY AccruedType, TrackerFields
<1>2. Accrued(t.rise_sol_amount, index) >= t.reward_debt
  BY DEF CanSettle
<1> DEFINE p == t.pending_rewards + (Accrued(t.rise_sol_amount, index) - t.reward_debt)
<1>3. /\ p \in Nat
      /\ t.pending_rewards + Accrued(t.rise_sol_amount, index) - t.reward_debt = p
  BY <1>1, <1>2
<1> HIDE DEF p
<1>4. Settled(t, index) = Fields(t.exists, t.rise_sol_amount, t.reward_debt, p)
  BY <1>3 DEF Settled, TrackerType, Fields
<1>5. /\ Settled(t, index) \in TrackerType /\ Settled(t, index).exists = t.exists
      /\ Settled(t, index).pending_rewards = p
      /\ Settled(t, index).rise_sol_amount = t.rise_sol_amount
  BY <1>1, <1>3, <1>4, FieldsType DEF Fields
<1>6. Synced(Settled(t, index), index, amount)
        = Fields(t.exists, amount, Accrued(amount, index), p)
  BY <1>5, SyncedFields
<1>7. QED BY <1>1, <1>3, <1>5, <1>6, FieldsType DEF p

LEMMA RegisteredType ==
  ASSUME NEW amount \in Nat, reward_per_token \in Nat
  PROVE  /\ Registered(amount) \in TrackerType
         /\ Registered(amount) = Fields(TRUE, amount, Accrued(amount, reward_per_token), 0)
<1> DEFINE t == [NoTracker EXCEPT !.exists = TRUE]
<1>1. t = Fields(TRUE, 0, 0, 0)
  <2>1. ASSUME NEW e \in BOOLEAN, NEW x \in TrackerType
        PROVE  [x EXCEPT !.exists = e]
                 = Fields(e, x.rise_sol_amount, x.reward_debt, x.pending_rewards)
    BY DEF TrackerType, Fields
  <2>2. NoTracker \in TrackerType
    BY DEF NoTracker, TrackerType
  <2>3. /\ NoTracker.rise_sol_amount = 0 /\ NoTracker.reward_debt = 0
        /\ NoTracker.pending_rewards = 0
    BY DEF NoTracker
  <2>4. TRUE \in BOOLEAN
    OBVIOUS
  <2>5. t = Fields(TRUE, NoTracker.rise_sol_amount, NoTracker.reward_debt,
                   NoTracker.pending_rewards)
    BY <2>1, <2>2, <2>4
  <2>6. QED BY <2>3, <2>5
<1> HIDE DEF t
<1>2. t \in TrackerType
  BY <1>1, FieldsType
<1>3. t.exists = TRUE /\ t.pending_rewards = 0
  BY <1>1 DEF Fields
<1>4. Registered(amount) = Synced(t, reward_per_token, amount)
  BY DEF Registered, t
<1>5. Registered(amount) = Fields(TRUE, amount, Accrued(amount, reward_per_token), 0)
  BY <1>2, <1>3, <1>4, SyncedFields
<1>6. Accrued(amount, reward_per_token) \in Nat
  BY AccruedType
<1>7. Fields(TRUE, amount, Accrued(amount, reward_per_token), 0) \in TrackerType
  BY <1>6, FieldsType
<1>8. QED BY <1>5, <1>7

LEMMA NoTrackerType ==
  /\ NoTracker \in TrackerType
  /\ NoTracker.rise_sol_amount = 0 /\ NoTracker.reward_debt = 0
  /\ NoTracker.pending_rewards = 0
  BY DEF NoTracker, TrackerType

\* A claim takes the settled rewards out of the vault and restarts the tracker.
ClaimedFrom(u) ==
  LET t == tracker[u]
      due == t.pending_rewards + (Accrued(t.rise_sol_amount, reward_per_token)
                                    - t.reward_debt)
  IN
  /\ config_open
  /\ CanSettle(t, reward_per_token)
  /\ due \in Nat
  /\ tracker'[u] = Fields(t.exists, t.rise_sol_amount,
                          Accrued(t.rise_sol_amount, reward_per_token), 0)
  /\ \A v \in Users \ {u} : tracker'[v] = tracker[v]
  /\ \A v \in Users : tracker'[v].rise_sol_amount = tracker[v].rise_sol_amount
  /\ rise' = [rise EXCEPT ![u] = @ + due]
  /\ UNCHANGED <<configVars, poolVars, emitted, resizes, by_the_book>>

LEMMA ClaimSteps ==
  ASSUME TypeOK, NEW u \in Users, ClaimStakeRewards(u)
  PROVE  ClaimedFrom(u)
<1> DEFINE t == tracker[u]
           settled == Settled(t, reward_per_token)
           cleared == [settled EXCEPT !.pending_rewards = 0]
           due == t.pending_rewards + (Accrued(t.rise_sol_amount, reward_per_token)
                                         - t.reward_debt)
<1>1. /\ t \in TrackerType /\ CanSettle(t, reward_per_token) /\ config_open
      /\ reward_per_token \in Nat /\ tracker \in [Users -> TrackerType]
      /\ rise' = [rise EXCEPT ![u] = @ + settled.pending_rewards]
      /\ tracker' = [tracker EXCEPT
           ![u] = Synced(cleared, reward_per_token, settled.rise_sol_amount)]
      /\ UNCHANGED <<configVars, poolVars, emitted, resizes, by_the_book>>
  BY DEF ClaimStakeRewards, TypeOK
<1>2. t.rise_sol_amount \in Nat /\ t.exists \in BOOLEAN
  BY <1>1, TrackerFields
<1>3. /\ settled \in TrackerType /\ settled.rise_sol_amount = t.rise_sol_amount
      /\ settled.pending_rewards = due /\ settled.exists = t.exists
  BY <1>1, <1>2, ResyncedType
<1> HIDE DEF settled, t, due
<1>4. /\ cleared \in TrackerType /\ cleared.exists = t.exists
      /\ cleared.pending_rewards = 0
  BY <1>3 DEF TrackerType
<1> HIDE DEF cleared
<1>5. Synced(cleared, reward_per_token, settled.rise_sol_amount)
        = Fields(t.exists, t.rise_sol_amount,
                 Accrued(t.rise_sol_amount, reward_per_token), 0)
  BY <1>3, <1>4, SyncedFields
<1>6. due \in Nat
  BY <1>3, TrackerFields
<1>7. /\ tracker'[u] = Fields(t.exists, t.rise_sol_amount,
                              Accrued(t.rise_sol_amount, reward_per_token), 0)
      /\ \A v \in Users \ {u} : tracker'[v] = tracker[v]
      /\ tracker'[u].rise_sol_amount = t.rise_sol_amount
  BY <1>1, <1>5, PartsOfFields
<1>8. QED BY <1>1, <1>3, <1>6, <1>7 DEF ClaimedFrom, t, due

\* A tracker that a caller passes is resized at the index, or at 0 when the caller
\* leaves out the config.
ResizedAt(u, index, amount) ==
  /\ tracker' = [tracker EXCEPT ![u] = Synced(Settled(@, index), index, amount)]
  /\ CanSettle(tracker[u], index)
  /\ resizes < MaxResizes
  /\ resizes' = resizes + 1

LEMMA TrackBalanceSteps ==
  ASSUME NEW u \in Users, NEW passed \in Passes(u), NEW amount,
         TrackBalance(u, passed, amount)
  PROVE  \/ ~passed.tracker /\ UNCHANGED <<tracker, resizes>>
         \/ /\ passed.tracker
            /\ \/ passed.config /\ ResizedAt(u, reward_per_token, amount)
               \/ ~passed.config /\ ResizedAt(u, 0, amount)
  BY DEF TrackBalance, Resize, ResizedAt, Passes

LEMMA PassedType ==
  ASSUME TypeOK, NEW u \in Users, NEW passed \in Passes(u)
  PROVE  /\ passed.config \in BOOLEAN /\ passed.tracker \in BOOLEAN
         /\ passed.config => config_open
         /\ passed.tracker => tracker[u].exists
  BY DEF Passes, TypeOK, TrackerType

-----------------------------------------------------------------------------
(* TypeOK *)

LEMMA InitType == Init => TypeOK
<1> SUFFICES ASSUME Init PROVE TypeOK
  OBVIOUS
<1>1. tracker \in [Users -> TrackerType]
  BY NoTrackerType DEF Init
<1>2. /\ rise_sol \in [Users -> Nat] /\ rise \in [Users -> Nat]
      /\ configs \in 0..MaxConfigs /\ slot \in 0..MaxSlot /\ resizes \in 0..MaxResizes
  BY TypeOfConstants DEF Init
<1>3. QED BY <1>1, <1>2 DEF Init, TypeOK

LEMMA ResizedType ==
  ASSUME TypeOK, NEW u \in Users, NEW index \in Nat, NEW amount \in Nat,
         ResizedAt(u, index, amount)
  PROVE  tracker' \in [Users -> TrackerType] /\ resizes' \in 0..MaxResizes
<1>1. tracker \in [Users -> TrackerType] /\ resizes \in 0..MaxResizes
  BY DEF TypeOK
<1>2. Synced(Settled(tracker[u], index), index, amount) \in TrackerType
  BY <1>1, ResyncedType DEF ResizedAt
<1>3. QED BY <1>1, <1>2, TypeOfConstants DEF ResizedAt

LEMMA TrackBalanceType ==
  ASSUME TypeOK, NEW u \in Users, NEW passed \in Passes(u), NEW amount \in Nat,
         TrackBalance(u, passed, amount)
  PROVE  tracker' \in [Users -> TrackerType] /\ resizes' \in 0..MaxResizes
<1>1. reward_per_token \in Nat /\ 0 \in Nat
  BY DEF TypeOK
<1>2. QED BY <1>1, TrackBalanceSteps, ResizedType DEF TypeOK

LEMMA StepType == TypeOK /\ [Next]_vars => TypeOK'
<1> SUFFICES ASSUME TypeOK, [Next]_vars PROVE TypeOK'
  OBVIOUS
<1> USE DEF TypeOK
<1>1. ASSUME NEW u \in Users, NEW amount \in Amounts, NEW passed \in Passes(u),
             StakeSol(u, amount, passed)
      PROVE  TypeOK'
  <2>1. amount \in Nat /\ rise_sol[u] + amount \in Nat
    BY TypeOfConstants
  <2>2. tracker' \in [Users -> TrackerType] /\ resizes' \in 0..MaxResizes
    BY <1>1, <2>1, TrackBalanceType DEF StakeSol
  <2>3. total_staking_supply' \in Nat
    BY <1>1, <2>1, PassedType DEF StakeSol
  <2>4. rise_sol' \in [Users -> Nat] /\ staking_rise_sol_supply' \in Nat
    BY <1>1, <2>1 DEF StakeSol
  <2>5. QED BY <1>1, <2>2, <2>3, <2>4 DEF StakeSol
<1>2. ASSUME NEW u \in Users, NEW amount \in Amounts, NEW passed \in Passes(u),
             UnstakeRiseSol(u, amount, passed)
      PROVE  TypeOK'
  <2>1. /\ amount \in Nat /\ rise_sol[u] - amount \in Nat
        /\ staking_rise_sol_supply - amount \in Nat
    BY <1>2, TypeOfConstants DEF UnstakeRiseSol
  <2>2. tracker' \in [Users -> TrackerType] /\ resizes' \in 0..MaxResizes
    BY <1>2, <2>1, TrackBalanceType DEF UnstakeRiseSol
  <2>3. total_staking_supply' \in Nat
    BY <1>2, <2>1, PassedType DEF UnstakeRiseSol
  <2>4. QED BY <1>2, <2>1, <2>2, <2>3 DEF UnstakeRiseSol
<1>3. ASSUME NEW u \in Users, RegisterStakeRewards(u)
      PROVE  TypeOK'
  <2>1. Registered(rise_sol[u]) \in TrackerType
    BY RegisteredType
  <2>2. QED BY <1>3, <2>1, TypeOfConstants
            DEF RegisterStakeRewards, configVars, poolVars, TypeOK
<1>4. ASSUME NEW u \in Users, ClaimStakeRewards(u)
      PROVE  TypeOK'
  <2> DEFINE t == tracker[u]
             settled == Settled(t, reward_per_token)
             cleared == [settled EXCEPT !.pending_rewards = 0]
  <2>1. t \in TrackerType /\ CanSettle(t, reward_per_token)
    BY <1>4 DEF ClaimStakeRewards
  <2>2. /\ settled \in TrackerType /\ settled.pending_rewards \in Nat
        /\ settled.rise_sol_amount \in Nat
    <3>1. settled \in TrackerType
      BY <2>1, ResyncedType DEF TrackerType
    <3>2. QED BY <3>1 DEF TrackerType
  <2>3. Synced(cleared, reward_per_token, settled.rise_sol_amount) \in TrackerType
    <3> HIDE DEF settled
    <3>1. Accrued(settled.rise_sol_amount, reward_per_token) \in Nat
      BY <2>2, AccruedType
    <3>2. QED BY <2>2, <3>1 DEF Synced, TrackerType
  <2>4. /\ rewards_vault' \in Nat /\ rise' \in [Users -> Nat]
        /\ tracker' \in [Users -> TrackerType]
    <3>1. /\ rewards_vault >= settled.pending_rewards
          /\ rewards_vault' = rewards_vault - settled.pending_rewards
          /\ rise' = [rise EXCEPT ![u] = @ + settled.pending_rewards]
          /\ tracker' = [tracker EXCEPT
               ![u] = Synced(cleared, reward_per_token, settled.rise_sol_amount)]
      BY <1>4 DEF ClaimStakeRewards
    <3> HIDE DEF settled, cleared
    <3>2. QED BY <2>2, <2>3, <3>1
  <2>5. QED BY <1>4, <2>4 DEF ClaimStakeRewards, configVars, poolVars
<1>5. CASE CheckpointStakeRewards
  <2>1. SlotsElapsed \in Nat
    BY <1>5 DEF CheckpointStakeRewards, SlotsElapsed
  <2>2. EmissionsDue \in Nat
    BY <2>1, ScaledType, TypeOfConstants DEF EmissionsDue
  <2>3. total_staking_supply # 0 =>
          (EmissionsDue * REWARD_SCALE) \div total_staking_supply \in Nat
    BY <2>2, ScaledType, TypeOfConstants
  <2>4. reward_per_token' \in Nat /\ emitted' \in Nat
    BY <1>5, <2>2, <2>3 DEF CheckpointStakeRewards
  <2>5. QED BY <1>5, <2>4 DEF CheckpointStakeRewards, poolVars
<1>6. CASE InitializeStakeRewards
  BY <1>6, TypeOfConstants DEF InitializeStakeRewards, poolVars
<1>7. CASE CloseStakeRewards
  BY <1>7 DEF CloseStakeRewards, poolVars
<1>8. ASSUME NEW amount \in Funds, FundRewardsVault(amount)
      PROVE  TypeOK'
  BY <1>8, TypeOfConstants DEF FundRewardsVault, configVars, poolVars
<1>9. ASSUME NEW u \in Users, NEW to \in Users, NEW amount \in OutsideAmounts,
             TransferRiseSol(u, to, amount)
      PROVE  TypeOK'
  <2>1. amount \in Nat /\ rise_sol[u] - amount \in Nat
    BY <1>9, TypeOfConstants DEF TransferRiseSol
  <2>2. rise_sol' \in [Users -> Nat]
    BY <1>9, <2>1 DEF TransferRiseSol
  <2>3. QED BY <1>9, <2>2 DEF TransferRiseSol, configVars
<1>10. ASSUME NEW u \in Users, NEW amount \in OutsideAmounts, MintForCdp(u, amount)
       PROVE  TypeOK'
  <2>1. amount \in Nat
    BY TypeOfConstants
  <2>2. rise_sol' \in [Users -> Nat]
    BY <1>10, <2>1 DEF MintForCdp
  <2>3. by_the_book' \in BOOLEAN
    BY <1>10 DEF MintForCdp
  <2>4. QED BY <1>10, <2>2, <2>3 DEF MintForCdp, configVars
<1>11. ASSUME NEW u \in Users, NEW amount \in BurnAmounts, NotifyRiseSolBurned(u, amount)
       PROVE  TypeOK'
  <2>1. /\ amount \in Nat /\ rise_sol[u] - amount \in Nat
        /\ staking_rise_sol_supply - amount \in Nat
    BY <1>11, TypeOfConstants DEF NotifyRiseSolBurned
  <2>2. QED BY <1>11, <2>1 DEF NotifyRiseSolBurned, configVars
<1>12. CASE NextSlot
  BY <1>12, TypeOfConstants DEF NextSlot, configVars, poolVars
<1>13. CASE UNCHANGED vars
  BY <1>13 DEF vars, configVars, poolVars
<1>14. QED BY <1>1, <1>2, <1>3, <1>4, <1>5, <1>6, <1>7, <1>8, <1>9, <1>10, <1>11, <1>12,
              <1>13 DEF Next, Staker

\* Every field is in its range: with the guards of the program no unsigned
\* subtraction goes below zero, whatever accounts callers leave out, however often
\* the config is replaced.
THEOREM TypeCorrect == Spec => []TypeOK
  BY InitType, StepType, PTL DEF Spec

-----------------------------------------------------------------------------
(* StakersCanSettle *)

FirstConfig ==
  configs <= 1 =>
    /\ StakersCanSettle
    /\ configs = 0 => ~config_open /\ tracker = [u \in Users |-> NoTracker]

LEMMA InitFirst == Init => FirstConfig
  BY DEF Init, FirstConfig, StakersCanSettle

\* A tracker resized at the index, or at zero, can settle at the index.
LEMMA ResizedSettles ==
  ASSUME TypeOK, NEW u \in Users, NEW index \in {0, reward_per_token}, NEW amount \in Nat,
         ResizedAt(u, index, amount)
  PROVE  /\ tracker'[u] = Fields(tracker[u].exists, amount, Accrued(amount, index),
                                 Settled(tracker[u], index).pending_rewards)
         /\ \A v \in Users \ {u} : tracker'[v] = tracker[v]
         /\ tracker'[u].exists = tracker[u].exists
         /\ tracker'[u].rise_sol_amount = amount
         /\ CanSettle(tracker'[u], reward_per_token)
<1>1. /\ tracker[u] \in TrackerType /\ CanSettle(tracker[u], index)
      /\ tracker' = [tracker EXCEPT ![u] = Synced(Settled(@, index), index, amount)]
      /\ index \in Nat /\ reward_per_token \in Nat /\ tracker \in [Users -> TrackerType]
  BY DEF ResizedAt, TypeOK
<1>2. tracker'[u] = Fields(tracker[u].exists, amount, Accrued(amount, index),
                           Settled(tracker[u], index).pending_rewards)
  BY <1>1, ResyncedType
<1>3. \A v \in Users \ {u} : tracker'[v] = tracker[v]
  BY <1>1
<1>4. CanSettle(tracker'[u], reward_per_token)
  <2>1. /\ Accrued(amount, reward_per_token) \in Nat /\ Accrued(amount, 0) = 0
    BY <1>1, AccruedType
  <2>2. Accrued(amount, index) <= Accrued(amount, reward_per_token)
    BY <2>1
  <2>3. Accrued(amount, index) \in Nat
    BY <2>1
  <2>4. /\ tracker'[u].rise_sol_amount = amount
        /\ tracker'[u].reward_debt = Accrued(amount, index)
    BY <1>2, PartsOfFields
  <2>5. QED BY <2>1, <2>2, <2>3, <2>4 DEF CanSettle
<1>5. QED BY <1>2, <1>3, <1>4, PartsOfFields

LEMMA StakeKeepsFirst ==
  ASSUME TypeOK, FirstConfig, UNCHANGED <<configs, config_open, reward_per_token>>,
         NEW u \in Users, NEW passed \in Passes(u), NEW amount \in Nat,
         TrackBalance(u, passed, amount)
  PROVE  FirstConfig'
<1> SUFFICES ASSUME configs <= 1
             PROVE  /\ StakersCanSettle'
                    /\ configs = 0 => ~config_open /\ tracker' = [v \in Users |-> NoTracker]
  BY DEF FirstConfig
<1>1. CASE UNCHANGED tracker
  BY <1>1 DEF FirstConfig, StakersCanSettle
<1>2. CASE passed.tracker /\ \E index \in {0, reward_per_token} : ResizedAt(u, index, amount)
  <2>1. PICK index \in {0, reward_per_token} : ResizedAt(u, index, amount)
    BY <1>2
  <2>2. configs # 0
    <3>1. tracker[u].exists
      BY <1>2, PassedType
    <3>2. ~NoTracker.exists
      BY DEF NoTracker
    <3>3. QED BY <3>1, <3>2 DEF FirstConfig
  <2>3. /\ CanSettle(tracker'[u], reward_per_token)
        /\ \A v \in Users \ {u} : tracker'[v] = tracker[v]
    BY <2>1, ResizedSettles
  <2>4. QED BY <2>2, <2>3 DEF FirstConfig, StakersCanSettle
<1>3. QED BY <1>1, <1>2, TrackBalanceSteps

\* A checkpoint raises the index, and with it what every tracker accrued.
LEMMA CheckpointRaises ==
  ASSUME TypeOK, CheckpointStakeRewards
  PROVE  /\ EmissionsDue \in Nat
         /\ reward_per_token' \in Nat /\ reward_per_token <= reward_per_token'
         /\ \/ UNCHANGED <<reward_per_token, emitted>>
            \/ \E d \in Nat :
                 /\ reward_per_token' = reward_per_token + d
                 /\ emitted' = emitted + EmissionsDue
                 /\ d * total_staking_supply <= EmissionsDue * REWARD_SCALE
<1> USE DEF TypeOK
<1>1. SlotsElapsed \in Nat
  BY DEF CheckpointStakeRewards, SlotsElapsed
<1>2. EmissionsDue \in Nat
  BY <1>1, ScaledType, TypeOfConstants DEF EmissionsDue
<1>3. CASE total_staking_supply = 0
  BY <1>2, <1>3 DEF CheckpointStakeRewards
<1>4. CASE total_staking_supply # 0
  <2> DEFINE n == EmissionsDue * REWARD_SCALE
             d == n \div total_staking_supply
  <2>1. n \in Nat /\ total_staking_supply \in Nat /\ total_staking_supply > 0
    BY <1>2, <1>4, MulDistributes, TypeOfConstants
  <2>2. reward_per_token' = reward_per_token + d /\ emitted' = emitted + EmissionsDue
    BY <1>4 DEF CheckpointStakeRewards
  <2> HIDE DEF n
  <2>3. d \in Nat /\ d * total_staking_supply <= n
    BY <2>1, DivBounds
  <2> HIDE DEF d
  <2>4. QED BY <1>2, <2>2, <2>3 DEF n
<1>5. QED BY <1>3, <1>4

LEMMA StepFirst == TypeOK /\ FirstConfig /\ [Next]_vars => FirstConfig'
<1> SUFFICES ASSUME TypeOK, FirstConfig, [Next]_vars PROVE FirstConfig'
  OBVIOUS
<1>1. configs \in Nat /\ reward_per_token \in Nat
  BY TypeOfConstants DEF TypeOK
<1>2. ASSUME NEW u \in Users, NEW amount \in Amounts, NEW passed \in Passes(u),
             StakeSol(u, amount, passed) \/ UnstakeRiseSol(u, amount, passed)
      PROVE  FirstConfig'
  <2>1. amount \in Nat /\ rise_sol[u] \in Nat
    BY TypeOfConstants DEF TypeOK
  <2>2. CASE StakeSol(u, amount, passed)
    <3>1. rise_sol[u] + amount \in Nat
      BY <2>1
    <3>2. QED BY <2>2, <3>1, StakeKeepsFirst DEF StakeSol
  <2>3. CASE UnstakeRiseSol(u, amount, passed)
    <3>1. rise_sol[u] - amount \in Nat
      BY <2>1, <2>3 DEF UnstakeRiseSol
    <3>2. QED BY <2>3, <3>1, StakeKeepsFirst DEF UnstakeRiseSol
  <2>4. QED BY <1>2, <2>2, <2>3
<1>3. ASSUME NEW u \in Users, RegisterStakeRewards(u)
      PROVE  FirstConfig'
  <2>1. /\ config_open /\ UNCHANGED <<configs, config_open, reward_per_token>>
        /\ tracker' = [tracker EXCEPT ![u] = Registered(rise_sol[u])]
    BY <1>3 DEF RegisterStakeRewards, configVars
  <2>2. /\ tracker'[u] = Fields(TRUE, rise_sol[u], Accrued(rise_sol[u], reward_per_token), 0)
        /\ \A v \in Users \ {u} : tracker'[v] = tracker[v]
        /\ rise_sol[u] \in Nat
    BY <1>1, <2>1, RegisteredType DEF TypeOK
  <2>3. CanSettle(tracker'[u], reward_per_token)
    BY <1>1, <2>2, AccruedType DEF CanSettle, Fields
  <2>4. QED BY <2>1, <2>2, <2>3 DEF FirstConfig, StakersCanSettle
<1>4. ASSUME NEW u \in Users, ClaimStakeRewards(u)
      PROVE  FirstConfig'
  <2>1. ClaimedFrom(u) /\ tracker[u].rise_sol_amount \in Nat
    BY <1>4, ClaimSteps, TrackerFields DEF TypeOK
  <2>2. CanSettle(tracker'[u], reward_per_token)
    <3> DEFINE amount == tracker[u].rise_sol_amount
    <3>1. tracker'[u] = Fields(tracker[u].exists, amount, Accrued(amount, reward_per_token), 0)
      BY <2>1 DEF ClaimedFrom
    <3>2. /\ tracker'[u].rise_sol_amount = amount
          /\ tracker'[u].reward_debt = Accrued(amount, reward_per_token)
      BY <3>1, PartsOfFields
    <3>3. Accrued(amount, reward_per_token) \in Nat
      BY <1>1, <2>1, AccruedType
    <3>4. QED BY <3>2, <3>3 DEF CanSettle
  <2>3. QED BY <2>1, <2>2 DEF ClaimedFrom, configVars, FirstConfig, StakersCanSettle
<1>5. CASE CheckpointStakeRewards
  <2>1. /\ config_open /\ UNCHANGED <<configs, config_open, tracker>>
        /\ reward_per_token' \in Nat /\ reward_per_token <= reward_per_token'
    BY <1>5, CheckpointRaises DEF CheckpointStakeRewards
  <2>2. ASSUME NEW u \in Users, CanSettle(tracker[u], reward_per_token)
        PROVE  CanSettle(tracker[u], reward_per_token')
    <3> DEFINE amount == tracker[u].rise_sol_amount
    <3>1. amount \in Nat /\ tracker[u].reward_debt \in Nat
      BY TrackerFields DEF TypeOK
    <3>2. Accrued(amount, reward_per_token) <= Accrued(amount, reward_per_token')
      BY <1>1, <2>1, <3>1, ScaledMono, TypeOfConstants DEF Accrued
    <3>3. /\ Accrued(amount, reward_per_token) \in Nat
          /\ Accrued(amount, reward_per_token') \in Nat
      BY <1>1, <2>1, <3>1, AccruedType
    <3>4. QED BY <2>2, <3>1, <3>2, <3>3 DEF CanSettle
  <2>3. QED BY <2>1, <2>2 DEF FirstConfig, StakersCanSettle
<1>6. CASE InitializeStakeRewards
  <2>1. /\ configs' = configs + 1 /\ reward_per_token' = 0 /\ UNCHANGED tracker
    BY <1>6 DEF InitializeStakeRewards
  <2>2. CanSettle(NoTracker, 0)
    BY AccruedType, NoTrackerType DEF CanSettle
  <2>3. configs' <= 1 => configs = 0
    BY <1>1, <2>1
  <2>4. QED BY <1>1, <2>1, <2>2, <2>3 DEF FirstConfig, StakersCanSettle
<1>7. CASE CloseStakeRewards
  BY <1>7 DEF CloseStakeRewards, FirstConfig, StakersCanSettle
<1>8. CASE UNCHANGED <<config_open, configs, reward_per_token, tracker>>
  BY <1>8 DEF FirstConfig, StakersCanSettle
<1>9. QED
  <2>1. ASSUME NEW u \in Users, NEW to \in Users, NEW amount,
               \/ TransferRiseSol(u, to, amount) \/ MintForCdp(u, amount)
               \/ NotifyRiseSolBurned(u, amount)
        PROVE  FirstConfig'
    BY <1>8, <2>1 DEF TransferRiseSol, MintForCdp, NotifyRiseSolBurned, configVars
  <2>2. ASSUME NEW amount, FundRewardsVault(amount) \/ NextSlot \/ UNCHANGED vars
        PROVE  FirstConfig'
    BY <1>8, <2>2 DEF FundRewardsVault, NextSlot, vars, configVars
  <2>3. QED BY <1>2, <1>3, <1>4, <1>5, <1>6, <1>7, <2>1, <2>2 DEF Next, Staker

LEMMA FirstConfigInductive == Spec => [](TypeOK /\ FirstConfig)
  BY InitType, StepType, InitFirst, StepFirst, PTL DEF Spec

\* While the first config lives no settlement fails, whatever accounts callers
\* leave out and wherever the riseSOL goes: no wallet is locked out by its tracker.
THEOREM StakersAlwaysSettle == Spec => [](configs <= 1 => StakersCanSettle)
<1>1. FirstConfig => (configs <= 1 => StakersCanSettle)
  BY DEF FirstConfig
<1>2. QED BY <1>1, FirstConfigInductive, PTL

-----------------------------------------------------------------------------
(* What total_staking_supply covers *)

Unregistered == \A u \in Users : ~tracker[u].exists => tracker[u] = NoTracker

\* A burn lowers the balance of a wallet and leaves its tracker ahead of it.
Covered(u) ==
  IF tracker[u].rise_sol_amount >= rise_sol[u]
  THEN tracker[u].rise_sol_amount ELSE rise_sol[u]

Held == SumFunctionOnSet([u \in Users |-> Covered(u)], Users)

FirstByTheBook == by_the_book /\ configs <= 1

SupplyCovers ==
  FirstByTheBook =>
    /\ configs = 0 => Circulating = staking_rise_sol_supply
    /\ config_open => Held <= total_staking_supply

TrackerInv == TypeOK /\ FirstConfig /\ Unregistered

LEMMA CoveredType ==
  ASSUME TypeOK, NEW u \in Users
  PROVE  /\ tracker[u].rise_sol_amount \in Nat /\ rise_sol[u] \in Nat
         /\ Covered(u) \in Nat
  BY TrackerFields DEF TypeOK, Covered

SumsAreNat ==
  /\ Circulating \in Nat
  /\ Held \in Nat
  /\ Paid \in Nat
  /\ \A u \in Users : Covered(u) \in Nat

LEMMA SumsType ==
  /\ TypeOK => SumsAreNat
  /\ TypeOK' => SumsAreNat'
<1>1. ASSUME TypeOK PROVE SumsAreNat
  <2>1. \A u \in Users : /\ Covered(u) \in Nat
                         /\ [v \in Users |-> Covered(v)][u] \in Nat
                         /\ rise_sol[u] \in Nat /\ rise[u] \in Nat
    BY <1>1, CoveredType DEF TypeOK
  <2>2. QED BY <2>1, SumNat, TypeOfConstants DEF SumsAreNat, Circulating, Held, Paid
<1>2. TypeOK => SumsAreNat
  BY <1>1
<1>3. QED BY <1>2, PTL

\* One wallet and its tracker change.
LEMMA WalletMoved ==
  ASSUME TypeOK, TypeOK', NEW u \in Users,
         \A v \in Users \ {u} : tracker'[v] = tracker[v] /\ rise_sol'[v] = rise_sol[v]
  PROVE  /\ Circulating' = Circulating - rise_sol[u] + rise_sol'[u]
         /\ Held' = Held - Covered(u) + Covered(u)'
<1>1. Circulating' = Circulating - rise_sol[u] + rise_sol'[u]
  BY SumChange, TypeOfConstants DEF TypeOK, Circulating
<1> DEFINE F == [v \in Users |-> Covered(v)]
           G == [v \in Users |-> Covered(v)']
<1>2. /\ F \in [Users -> Nat] /\ G \in [Users -> Nat]
      /\ \A v \in Users \ {u} : G[v] = F[v]
      /\ F[u] = Covered(u) /\ G[u] = Covered(u)'
  BY SumsType DEF SumsAreNat, Covered
<1>3. Held = SumFunctionOnSet(F, Users) /\ Held' = SumFunctionOnSet(G, Users)
  BY DEF Held
<1> HIDE DEF F, G
<1>4. QED BY <1>1, <1>2, <1>3, SumChange, TypeOfConstants

\* Every step keeps the book closed once it is, and counts configs up.
LEMMA BookSteps ==
  ASSUME TypeOK, TypeOK', [Next]_vars, FirstByTheBook'
  PROVE  FirstByTheBook
<1> USE DEF FirstByTheBook
<1>1. configs \in Nat /\ configs' \in Nat
  BY TypeOfConstants DEF TypeOK
<1>2. configs' = configs \/ configs' = configs + 1
  <2>1. ASSUME NEW u \in Users, Staker(u) PROVE configs' = configs
    BY <2>1 DEF Staker, StakeSol, UnstakeRiseSol, RegisterStakeRewards, ClaimStakeRewards,
       MintForCdp, TransferRiseSol, NotifyRiseSolBurned, configVars
  <2>2. ASSUME ~\E u \in Users : Staker(u)
        PROVE  configs' = configs \/ configs' = configs + 1
    BY <2>2 DEF Next, CheckpointStakeRewards, InitializeStakeRewards, CloseStakeRewards,
       FundRewardsVault, NextSlot, vars, configVars
  <2>3. QED BY <2>1, <2>2
<1>3. by_the_book
  <2>1. by_the_book \in BOOLEAN /\ by_the_book' \in BOOLEAN
    BY DEF TypeOK
  <2>2. ASSUME NEW u \in Users, Staker(u) PROVE by_the_book
    BY <2>1, <2>2 DEF Staker, StakeSol, UnstakeRiseSol, RegisterStakeRewards,
       ClaimStakeRewards, MintForCdp, TransferRiseSol, NotifyRiseSolBurned
  <2>3. ASSUME ~\E u \in Users : Staker(u) PROVE by_the_book
    BY <2>3 DEF Next, CheckpointStakeRewards, InitializeStakeRewards, CloseStakeRewards,
       FundRewardsVault, NextSlot, vars
  <2>4. QED BY <2>2, <2>3
<1>4. QED BY <1>1, <1>2, <1>3

\* By the book, a wallet that stakes or unstakes has its tracker resized, if any.
LEMMA BookedBalance ==
  ASSUME TypeOK, NEW u \in Users, NEW passed \in Passes(u), NEW amount,
         PassesAll(u, passed), TrackBalance(u, passed, amount)
  PROVE  /\ passed.config = config_open
         /\ \/ ~tracker[u].exists /\ UNCHANGED <<tracker, resizes>>
            \/ /\ tracker[u].exists
               /\ \/ config_open /\ ResizedAt(u, reward_per_token, amount)
                  \/ ~config_open /\ ResizedAt(u, 0, amount)
<1>1. passed.config = config_open /\ passed.tracker = tracker[u].exists
  BY DEF PassesAll
<1>2. QED BY <1>1, TrackBalanceSteps

\* ... so that its cover moves with its balance.
LEMMA BookedCover ==
  ASSUME TrackerInv, TypeOK', NEW u \in Users, NEW passed \in Passes(u), NEW amount \in Nat,
         PassesAll(u, passed), TrackBalance(u, passed, amount),
         rise_sol' = [rise_sol EXCEPT ![u] = amount]
  PROVE  /\ Circulating' = Circulating - rise_sol[u] + amount
         /\ Held' = Held - Covered(u) + Covered(u)'
         /\ Covered(u)' = amount /\ rise_sol[u] <= Covered(u)
<1>1. TypeOK /\ rise_sol'[u] = amount /\ rise_sol[u] \in Nat
      /\ \A v \in Users \ {u} : rise_sol'[v] = rise_sol[v]
  BY DEF TrackerInv, TypeOK
<1>2. CASE ~tracker[u].exists /\ UNCHANGED <<tracker, resizes>>
  <2>1. tracker'[u].rise_sol_amount = 0
    BY <1>2, NoTrackerType DEF TrackerInv, Unregistered
  <2>2. Covered(u)' = amount
    BY <1>1, <2>1 DEF Covered
  <2>3. QED BY <1>1, <1>2, <2>2, WalletMoved, CoveredType DEF Covered
<1>3. CASE \E index \in {0, reward_per_token} : ResizedAt(u, index, amount)
  <2>1. /\ tracker'[u].rise_sol_amount = amount
        /\ \A v \in Users \ {u} : tracker'[v] = tracker[v]
    <3>1. PICK index \in {0, reward_per_token} : ResizedAt(u, index, amount)
      BY <1>3
    <3>2. QED BY <1>1, <3>1, ResizedSettles
  <2>2. Covered(u)' = amount
    BY <1>1, <2>1 DEF Covered
  <2>3. QED BY <1>1, <2>1, <2>2, WalletMoved, CoveredType DEF Covered
<1>4. QED BY <1>1, <1>2, <1>3, BookedBalance

\* Every tracker that changes exists, and stays itself.
LEMMA StepUnregistered == TrackerInv /\ TypeOK' /\ [Next]_vars => Unregistered'
<1> SUFFICES ASSUME TrackerInv, TypeOK', [Next]_vars PROVE Unregistered'
  OBVIOUS
<1> USE DEF TrackerInv
<1>1. CASE UNCHANGED tracker
  BY <1>1 DEF Unregistered
<1>2. ASSUME NEW u \in Users, NEW t, t.exists, tracker' = [tracker EXCEPT ![u] = t]
      PROVE  Unregistered'
  BY <1>2 DEF Unregistered, TypeOK
<1>3. ASSUME NEW u \in Users, NEW passed \in Passes(u), NEW amount \in Nat,
             TrackBalance(u, passed, amount)
      PROVE  Unregistered'
  <2>1. CASE passed.tracker /\ \E index \in {0, reward_per_token} : ResizedAt(u, index, amount)
    <3>1. tracker[u].exists
      BY <2>1, PassedType
    <3>2. PICK index \in {0, reward_per_token} : ResizedAt(u, index, amount)
      BY <2>1
    <3>3. tracker'[u].exists /\ \A v \in Users \ {u} : tracker'[v] = tracker[v]
      BY <3>1, <3>2, ResizedSettles
    <3>4. QED BY <3>3 DEF Unregistered
  <2>2. QED BY <1>1, <1>3, <2>1, TrackBalanceSteps
<1>4. ASSUME NEW u \in Users, NEW amount \in Amounts, NEW passed \in Passes(u),
             StakeSol(u, amount, passed)
      PROVE  Unregistered'
  <2>1. rise_sol[u] + amount \in Nat
    BY TypeOfConstants DEF TypeOK
  <2>2. QED BY <1>3, <1>4, <2>1 DEF StakeSol
<1>5. ASSUME NEW u \in Users, NEW amount \in Amounts, NEW passed \in Passes(u),
             UnstakeRiseSol(u, amount, passed)
      PROVE  Unregistered'
  <2>1. rise_sol[u] - amount \in Nat
    BY <1>5, TypeOfConstants DEF TypeOK, UnstakeRiseSol
  <2>2. QED BY <1>3, <1>5, <2>1 DEF UnstakeRiseSol
<1>6. ASSUME NEW u \in Users, RegisterStakeRewards(u)
      PROVE  Unregistered'
  <2>1. Registered(rise_sol[u]).exists
    BY RegisteredType DEF TypeOK, Fields
  <2>2. QED BY <1>2, <1>6, <2>1 DEF RegisterStakeRewards
<1>7. ASSUME NEW u \in Users, ClaimStakeRewards(u)
      PROVE  Unregistered'
  <2>1. tracker[u].exists /\ \A v \in Users \ {u} : tracker'[v] = tracker[v]
    BY <1>7 DEF ClaimStakeRewards, TypeOK
  <2>2. tracker'[u].exists
    BY <1>7, <2>1 DEF ClaimStakeRewards, TypeOK, TrackerType, Settled, Synced
  <2>3. QED BY <2>1, <2>2 DEF Unregistered
<1>8. QED
  <2>1. ASSUME NEW u \in Users, NEW to \in Users, NEW amount,
               \/ TransferRiseSol(u, to, amount) \/ MintForCdp(u, amount)
               \/ NotifyRiseSolBurned(u, amount)
        PROVE  Unregistered'
    BY <1>1, <2>1 DEF TransferRiseSol, MintForCdp, NotifyRiseSolBurned
  <2>2. ASSUME NEW amount,
               \/ FundRewardsVault(amount) \/ NextSlot \/ UNCHANGED vars
               \/ CheckpointStakeRewards \/ InitializeStakeRewards \/ CloseStakeRewards
        PROVE  Unregistered'
    BY <1>1, <2>2 DEF FundRewardsVault, NextSlot, vars, CheckpointStakeRewards,
       InitializeStakeRewards, CloseStakeRewards
  <2>3. QED BY <1>4, <1>5, <1>6, <1>7, <2>1, <2>2 DEF Next, Staker

LEMMA InitTrackers == Init => TrackerInv /\ SupplyCovers
<1> SUFFICES ASSUME Init PROVE TrackerInv /\ SupplyCovers
  OBVIOUS
<1>1. TypeOK /\ FirstConfig /\ Unregistered
  BY InitType, InitFirst DEF Init, Unregistered
<1>2. Circulating = 0
  BY SumZero, TypeOfConstants DEF Init, Circulating
<1>3. QED BY <1>1, <1>2 DEF Init, TrackerInv, SupplyCovers

\* Before the first config the pool counts every riseSOL, so the supply a config
\* starts with covers all balances; from then on each instruction moves both.
LEMMA StepSupply == TrackerInv /\ TypeOK' /\ SupplyCovers /\ [Next]_vars => SupplyCovers'
<1> SUFFICES ASSUME TrackerInv, TypeOK', SupplyCovers, [Next]_vars, FirstByTheBook'
             PROVE  /\ configs' = 0 => Circulating' = staking_rise_sol_supply'
                    /\ config_open' => Held' <= total_staking_supply'
  BY DEF SupplyCovers
<1> DEFINE Covers == /\ configs' = 0 => Circulating' = staking_rise_sol_supply'
                     /\ config_open' => Held' <= total_staking_supply'
<1>1. /\ FirstByTheBook
      /\ configs = 0 => Circulating = staking_rise_sol_supply
      /\ config_open => Held <= total_staking_supply
  BY BookSteps DEF TrackerInv, SupplyCovers
<1>2. /\ Circulating \in Nat /\ Held \in Nat
      /\ staking_rise_sol_supply \in Nat /\ total_staking_supply \in Nat
      /\ configs \in Nat /\ TypeOK
  BY SumsType, TypeOfConstants DEF TrackerInv, TypeOK, SumsAreNat
<1>3. ASSUME NEW u \in Users, NEW amount \in Amounts, NEW passed \in Passes(u),
             StakeSol(u, amount, passed)
      PROVE  Covers
  <2>1. amount \in Nat /\ rise_sol[u] \in Nat /\ Covered(u) \in Nat
    BY <1>2, CoveredType, TypeOfConstants
  <2>2. rise_sol[u] + amount \in Nat
    BY <2>1
  <2>3. PassesAll(u, passed) /\ passed.config = config_open
    <3>1. by_the_book' = (by_the_book /\ PassesAll(u, passed)) /\ by_the_book'
      BY <1>3 DEF StakeSol, FirstByTheBook
    <3>2. PassesAll(u, passed)
      BY <3>1
    <3>3. QED BY <3>2 DEF PassesAll
  <2>4. /\ TrackBalance(u, passed, rise_sol[u] + amount)
        /\ rise_sol' = [rise_sol EXCEPT ![u] = rise_sol[u] + amount]
        /\ staking_rise_sol_supply' = staking_rise_sol_supply + amount
        /\ config_open => total_staking_supply' = total_staking_supply + amount
        /\ UNCHANGED <<config_open, configs>>
    <3>1. /\ TrackBalance(u, passed, rise_sol[u] + amount)
          /\ rise_sol' = [rise_sol EXCEPT ![u] = rise_sol[u] + amount]
          /\ staking_rise_sol_supply' = staking_rise_sol_supply + amount
          /\ UNCHANGED <<config_open, configs>>
      BY <1>3 DEF StakeSol
    <3>2. total_staking_supply' = IF passed.config THEN total_staking_supply + amount
                                  ELSE total_staking_supply
      BY <1>3 DEF StakeSol
    <3>3. QED BY <2>3, <3>1, <3>2
  <2>5. /\ Circulating' = Circulating - rise_sol[u] + (rise_sol[u] + amount)
        /\ Held' = Held - Covered(u) + (rise_sol[u] + amount)
        /\ rise_sol[u] <= Covered(u)
    BY <2>2, <2>3, <2>4, BookedCover
  <2>6. Circulating' = Circulating + amount /\ Held' <= Held + amount
    BY <1>2, <2>1, <2>5
  <2>7. configs' = 0 => Circulating' = staking_rise_sol_supply'
    BY <1>1, <1>2, <2>1, <2>4, <2>6
  <2>8. ASSUME config_open' PROVE Held' <= total_staking_supply'
    <3>1. ASSUME NEW h \in Int, h <= Held + amount PROVE h <= total_staking_supply + amount
      BY <1>1, <1>2, <2>1, <2>4, <2>8, <3>1
    <3>2. Held' \in Int
      BY SumsType DEF SumsAreNat
    <3>3. QED BY <2>4, <2>6, <2>8, <3>1, <3>2
  <2>9. QED BY <2>7, <2>8
<1>4. ASSUME NEW u \in Users, NEW amount \in Amounts, NEW passed \in Passes(u),
             UnstakeRiseSol(u, amount, passed)
      PROVE  Covers
  <2>1. /\ amount \in Nat /\ rise_sol[u] \in Nat /\ Covered(u) \in Nat
        /\ rise_sol[u] >= amount
    BY <1>2, <1>4, CoveredType, TypeOfConstants DEF UnstakeRiseSol
  <2>2. rise_sol[u] - amount \in Nat
    BY <2>1
  <2>3. PassesAll(u, passed) /\ passed.config = config_open
    <3>1. by_the_book' = (by_the_book /\ PassesAll(u, passed)) /\ by_the_book'
      BY <1>4 DEF UnstakeRiseSol, FirstByTheBook
    <3>2. PassesAll(u, passed)
      BY <3>1
    <3>3. QED BY <3>2 DEF PassesAll
  <2>4. /\ TrackBalance(u, passed, rise_sol[u] - amount)
        /\ rise_sol' = [rise_sol EXCEPT ![u] = rise_sol[u] - amount]
        /\ staking_rise_sol_supply' = staking_rise_sol_supply - amount
        /\ config_open => total_staking_supply' = total_staking_supply - amount
        /\ UNCHANGED <<config_open, configs>>
    <3>1. /\ TrackBalance(u, passed, rise_sol[u] - amount)
          /\ rise_sol' = [rise_sol EXCEPT ![u] = rise_sol[u] - amount]
          /\ staking_rise_sol_supply' = staking_rise_sol_supply - amount
          /\ UNCHANGED <<config_open, configs>>
      BY <1>4 DEF UnstakeRiseSol
    <3>2. total_staking_supply' = IF passed.config THEN total_staking_supply - amount
                                  ELSE total_staking_supply
      BY <1>4 DEF UnstakeRiseSol
    <3>3. QED BY <2>3, <3>1, <3>2
  <2>5. /\ Circulating' = Circulating - rise_sol[u] + (rise_sol[u] - amount)
        /\ Held' = Held - Covered(u) + (rise_sol[u] - amount)
        /\ rise_sol[u] <= Covered(u)
    BY <2>2, <2>3, <2>4, BookedCover
  <2>6. Circulating' = Circulating - amount /\ Held' <= Held - amount
    BY <1>2, <2>1, <2>5
  <2>7. configs' = 0 => Circulating' = staking_rise_sol_supply'
    BY <1>1, <1>2, <2>1, <2>4, <2>6
  <2>8. ASSUME config_open' PROVE Held' <= total_staking_supply'
    <3>1. ASSUME NEW h \in Int, h <= Held - amount PROVE h <= total_staking_supply - amount
      BY <1>1, <1>2, <2>1, <2>4, <2>8, <3>1
    <3>2. Held' \in Int
      BY SumsType DEF SumsAreNat
    <3>3. QED BY <2>4, <2>6, <2>8, <3>1, <3>2
  <2>9. QED BY <2>7, <2>8
<1>5. ASSUME NEW u \in Users, RegisterStakeRewards(u)
      PROVE  Covers
  <2>1. /\ config_open /\ ~tracker[u].exists
        /\ tracker' = [tracker EXCEPT ![u] = Registered(rise_sol[u])]
        /\ UNCHANGED <<config_open, configs, rise_sol, staking_rise_sol_supply,
                       total_staking_supply>>
    BY <1>5 DEF RegisterStakeRewards, configVars, poolVars
  <2>2. tracker[u].rise_sol_amount = 0 /\ Covered(u) \in Nat /\ rise_sol[u] \in Nat
    BY <1>2, <2>1, NoTrackerType, CoveredType DEF TrackerInv, Unregistered
  <2>3. tracker'[u].rise_sol_amount = rise_sol[u] /\ rise_sol'[u] = rise_sol[u]
    <3>1. tracker'[u] = Registered(rise_sol[u])
      BY <1>2, <2>1 DEF TypeOK
    <3>2. Registered(rise_sol[u])
            = Fields(TRUE, rise_sol[u], Accrued(rise_sol[u], reward_per_token), 0)
      BY <1>2, <2>2, RegisteredType DEF TypeOK
    <3>3. tracker'[u].rise_sol_amount = rise_sol[u]
      BY <3>1, <3>2 DEF Fields
    <3>4. QED BY <2>1, <3>3
  <2>4. Covered(u)' = Covered(u)
    BY <2>2, <2>3 DEF Covered
  <2>5. \A v \in Users \ {u} : tracker'[v] = tracker[v] /\ rise_sol'[v] = rise_sol[v]
    BY <1>2, <2>1 DEF TypeOK
  <2>6. Circulating' = Circulating - rise_sol[u] + rise_sol[u]
        /\ Held' = Held - Covered(u) + Covered(u)
    BY <1>2, <2>3, <2>4, <2>5, WalletMoved
  <2>7. Circulating' = Circulating /\ Held' = Held
    BY <1>2, <2>2, <2>6
  <2>8. QED BY <1>1, <2>1, <2>7
<1>6. ASSUME NEW u \in Users, NEW amount \in BurnAmounts, NotifyRiseSolBurned(u, amount)
      PROVE  Covers
  <2>1. /\ amount \in Nat /\ rise_sol[u] \in Nat /\ rise_sol[u] >= amount
        /\ rise_sol' = [rise_sol EXCEPT ![u] = @ - amount]
        /\ staking_rise_sol_supply' = staking_rise_sol_supply - amount
        /\ UNCHANGED <<configVars, tracker>>
    BY <1>2, <1>6, TypeOfConstants DEF NotifyRiseSolBurned, TypeOK
  <2>2. /\ rise_sol'[u] = rise_sol[u] - amount /\ tracker' = tracker
        /\ \A v \in Users \ {u} : rise_sol'[v] = rise_sol[v]
    BY <1>2, <2>1 DEF TypeOK
  <2>3. Covered(u) \in Nat /\ Covered(u)' \in Nat /\ Covered(u)' <= Covered(u)
    BY <1>2, <2>1, <2>2, CoveredType DEF Covered
  <2>4. /\ Circulating' = Circulating - rise_sol[u] + (rise_sol[u] - amount)
        /\ Held' = Held - Covered(u) + Covered(u)'
    BY <1>2, <2>2, WalletMoved
  <2>5. Circulating' = Circulating - amount /\ Held' <= Held
    <3>1. ASSUME NEW c \in Nat, c <= Covered(u) PROVE Held - Covered(u) + c <= Held
      BY <1>2, <2>3, <3>1
    <3>2. QED BY <1>2, <2>1, <2>3, <2>4, <3>1
  <2>6. ASSUME config_open' PROVE Held' <= total_staking_supply'
    <3>1. ASSUME NEW h \in Int, h <= Held PROVE h <= total_staking_supply
      BY <1>1, <1>2, <2>1, <2>6, <3>1 DEF configVars
    <3>2. Held' \in Int
      BY SumsType DEF SumsAreNat
    <3>3. QED BY <2>1, <2>5, <3>1, <3>2 DEF configVars
  <2>7. QED BY <1>1, <1>2, <2>1, <2>5, <2>6 DEF configVars
<1>7. CASE InitializeStakeRewards
  <2>1. /\ configs' = configs + 1 /\ total_staking_supply' = staking_rise_sol_supply
        /\ UNCHANGED <<tracker, rise_sol>>
    BY <1>7 DEF InitializeStakeRewards, poolVars
  <2>2. configs = 0 /\ configs' # 0
    BY <1>2, <2>1 DEF FirstByTheBook
  <2>3. tracker = [u \in Users |-> NoTracker]
    BY <2>2 DEF TrackerInv, FirstConfig
  <2>4. ASSUME NEW u \in Users PROVE Covered(u)' = rise_sol[u]
    BY <1>2, <2>1, <2>3, NoTrackerType, CoveredType DEF Covered
  <2>5. Held' = Circulating
    <3>1. [u \in Users |-> Covered(u)'] = rise_sol
      BY <1>2, <2>4 DEF TypeOK
    <3>2. QED BY <3>1 DEF Held, Circulating
  <2>6. QED BY <1>1, <1>2, <2>1, <2>2, <2>5
<1>8. CASE CloseStakeRewards
  <2>1. config_open /\ ~config_open' /\ UNCHANGED configs
    BY <1>8 DEF CloseStakeRewards
  <2>2. configs # 0
    BY <2>1 DEF TrackerInv, FirstConfig
  <2>3. QED BY <2>1, <2>2
<1>9. ASSUME UNCHANGED <<config_open, configs, total_staking_supply, rise_sol,
                         staking_rise_sol_supply>>,
             \A u \in Users : tracker'[u].rise_sol_amount = tracker[u].rise_sol_amount
      PROVE  Covers
  <2>1. Circulating' = Circulating
    BY <1>9 DEF Circulating
  <2>2. [u \in Users |-> Covered(u)'] = [u \in Users |-> Covered(u)]
    BY <1>9 DEF Covered
  <2>3. Held' = Held
    BY <2>2 DEF Held
  <2>4. QED BY <1>1, <1>9, <2>1, <2>3
<1>10. ASSUME NEW u \in Users, ClaimStakeRewards(u)
       PROVE  Covers
  <2>1. ClaimedFrom(u)
    BY <1>2, <1>10, ClaimSteps
  <2>2. /\ UNCHANGED <<config_open, configs, total_staking_supply, rise_sol,
                       staking_rise_sol_supply>>
        /\ \A v \in Users : tracker'[v].rise_sol_amount = tracker[v].rise_sol_amount
    BY <2>1 DEF ClaimedFrom, configVars, poolVars
  <2>3. QED BY <1>9, <2>2
<1>11. QED
  <2>1. ASSUME NEW u \in Users, NEW to \in Users, NEW amount,
               TransferRiseSol(u, to, amount) \/ MintForCdp(u, amount)
        PROVE  FALSE
    BY <2>1 DEF TransferRiseSol, MintForCdp, FirstByTheBook
  <2>2. ASSUME NEW amount,
               \/ FundRewardsVault(amount) \/ NextSlot \/ UNCHANGED vars
               \/ CheckpointStakeRewards
        PROVE  Covers
    BY <1>9, <2>2 DEF FundRewardsVault, NextSlot, vars, CheckpointStakeRewards,
       configVars,
       poolVars
  <2>3. QED BY <1>3, <1>4, <1>5, <1>6, <1>7, <1>8, <1>10, <2>1, <2>2 DEF Next, Staker

-----------------------------------------------------------------------------
(* RewardsWithinEmissions *)

\* What a tracker counts on, in units of 1 / REWARD_SCALE: its pending rewards, and
\* while the config is open the exact reward of its size less the debt.
CreditAt(t, open, index) ==
  t.pending_rewards * REWARD_SCALE
    + (IF open THEN t.rise_sol_amount * index - t.reward_debt * REWARD_SCALE ELSE 0)

Credit(u) == CreditAt(tracker[u], config_open, reward_per_token)
Credits == SumFunctionOnSet([u \in Users |-> Credit(u)], Users)

\* What was paid and credited was emitted, but for one RISE per size a tracker
\* took on.
Solvent ==
  FirstByTheBook =>
    Paid * REWARD_SCALE + Credits <= (emitted + resizes) * REWARD_SCALE

SettlesFirst == TypeOK /\ FirstConfig /\ configs <= 1

\* A debt is never ahead, so credits are natural; they back what is owed.
LEMMA CreditAtType ==
  ASSUME NEW t \in TrackerType, NEW open \in BOOLEAN, NEW index \in Nat,
         open => CanSettle(t, index)
  PROVE  /\ CreditAt(t, open, index) \in Nat
         /\ t.pending_rewards * REWARD_SCALE <= CreditAt(t, open, index)
         /\ open => Settled(t, index).pending_rewards * REWARD_SCALE
                      <= CreditAt(t, open, index)
<1> DEFINE p == t.pending_rewards
           d == t.reward_debt
           n == t.rise_sol_amount * index
           c == p * REWARD_SCALE
           e == n - d * REWARD_SCALE
<1>1. /\ p \in Nat /\ d \in Nat /\ t.rise_sol_amount \in Nat
      /\ REWARD_SCALE \in Nat /\ REWARD_SCALE > 0
  BY TrackerFields, TypeOfConstants
<1>2. n \in Nat /\ c \in Nat
  BY <1>1, MulDistributes
<1>3. CreditAt(t, open, index) = c + (IF open THEN e ELSE 0)
  BY DEF CreditAt
<1>4. ASSUME open PROVE /\ e \in Nat
                        /\ Settled(t, index).pending_rewards * REWARD_SCALE <= c + e
  <2>1. Accrued(t.rise_sol_amount, index) = n \div REWARD_SCALE
    BY DEF Accrued
  <2>2. CanSettle(t, index)
    BY <1>4
  <2>3. d <= n \div REWARD_SCALE
    <3>1. n \div REWARD_SCALE \in Nat
      BY <1>1, <1>2, DivBounds
    <3>2. QED BY <1>1, <2>1, <2>2, <3>1 DEF CanSettle
  <2>4. Settled(t, index).pending_rewards = p + (n \div REWARD_SCALE - d)
    BY <1>1, <2>1, <2>2, ResyncedType
  <2> HIDE DEF p, d, n
  <2>5. e \in Nat /\ (p + (n \div REWARD_SCALE - d)) * REWARD_SCALE <= c + e
    BY <1>1, <1>2, <2>3, RoundedCredit
  <2>6. QED BY <2>4, <2>5
<1> HIDE DEF c, e
<1>5. c + (IF open THEN e ELSE 0) \in Nat /\ c <= c + (IF open THEN e ELSE 0)
  BY <1>2, <1>4
<1>6. QED BY <1>3, <1>4, <1>5 DEF c

CreditsAreNat ==
  /\ Credits \in Nat
  /\ [u \in Users |-> Credit(u)] \in [Users -> Nat]
  /\ \A u \in Users : Credit(u) \in Nat

LEMMA CreditsType ==
  /\ SettlesFirst => CreditsAreNat
  /\ SettlesFirst' => CreditsAreNat'
<1>1. ASSUME SettlesFirst PROVE CreditsAreNat
  <2>1. ASSUME NEW u \in Users PROVE Credit(u) \in Nat
    <3>1. /\ tracker[u] \in TrackerType /\ config_open \in BOOLEAN /\ reward_per_token \in Nat
          /\ config_open => CanSettle(tracker[u], reward_per_token)
      BY <1>1 DEF SettlesFirst, TypeOK, FirstConfig, StakersCanSettle
    <3>2. QED BY <3>1, CreditAtType DEF Credit
  <2> DEFINE F == [u \in Users |-> Credit(u)]
  <2>2. F \in [Users -> Nat] /\ \A u \in Users : F[u] \in Nat
    BY <2>1
  <2>3. Credits = SumFunctionOnSet(F, Users)
    BY DEF Credits
  <2>4. SumFunctionOnSet(F, Users) \in Nat
    <3> HIDE DEF F
    <3>1. QED BY <2>2, SumNat, TypeOfConstants
  <2>5. QED BY <2>1, <2>2, <2>3, <2>4 DEF CreditsAreNat
<1>2. SettlesFirst => CreditsAreNat
  BY <1>1
<1>3. QED BY <1>2, PTL

\* One tracker changes.
LEMMA CreditMoved ==
  ASSUME SettlesFirst, SettlesFirst', NEW u \in Users,
         \A v \in Users \ {u} : tracker'[v] = tracker[v],
         UNCHANGED <<config_open, reward_per_token>>
  PROVE  Credits' = Credits - Credit(u) + Credit(u)'
<1> DEFINE F == [v \in Users |-> Credit(v)]
           G == [v \in Users |-> Credit(v)']
<1>1. /\ F \in [Users -> Nat] /\ G \in [Users -> Nat]
      /\ F[u] = Credit(u) /\ G[u] = Credit(u)'
  BY CreditsType DEF CreditsAreNat
<1>2. \A v \in Users \ {u} : G[v] = F[v]
  BY DEF Credit
<1>3. Credits = SumFunctionOnSet(F, Users) /\ Credits' = SumFunctionOnSet(G, Users)
  BY DEF Credits
<1> HIDE DEF F, G
<1>4. QED BY <1>1, <1>2, <1>3, SumChange, TypeOfConstants

\* Payments and credits grow by no more than the emissions and resizes do.
LEMMA BooksMoved ==
  ASSUME SettlesFirst, SettlesFirst', FirstByTheBook, Solvent,
         NEW a \in Nat, NEW k \in Nat,
         Paid' = Paid + a,
         Credits' + a * REWARD_SCALE <= Credits + k * REWARD_SCALE,
         emitted + resizes + k <= emitted' + resizes'
  PROVE  Paid' * REWARD_SCALE + Credits' <= (emitted' + resizes') * REWARD_SCALE
<1>1. /\ Paid \in Nat /\ Paid' \in Nat /\ Credits \in Nat /\ Credits' \in Nat
      /\ emitted + resizes \in Nat /\ emitted' + resizes' \in Nat
  <2>1. /\ Paid \in Nat /\ Paid' \in Nat /\ Credits \in Nat /\ Credits' \in Nat
    BY SumsType, CreditsType DEF SettlesFirst, SumsAreNat, CreditsAreNat
  <2>2. emitted + resizes \in Nat
    BY DEF SettlesFirst, TypeOK
  <2>3. emitted' \in Nat /\ resizes' \in Nat
    BY DEF SettlesFirst, TypeOK
  <2>4. \A x, y \in Nat : x + y \in Nat
    OBVIOUS
  <2>5. QED BY <2>1, <2>2, <2>3, <2>4
<1>2. Paid * REWARD_SCALE + Credits <= (emitted + resizes) * REWARD_SCALE
  BY DEF Solvent
<1> DEFINE budget == emitted + resizes
           new_budget == emitted' + resizes'
<1>3. budget \in Nat /\ new_budget \in Nat /\ budget + k <= new_budget
  BY <1>1
<1>4. Paid * REWARD_SCALE + Credits <= budget * REWARD_SCALE
  BY <1>2
<1> HIDE DEF budget, new_budget
<1>5. Paid' * REWARD_SCALE + Credits' <= new_budget * REWARD_SCALE
  BY <1>1, <1>3, <1>4, BudgetStep, TypeOfConstants
<1>6. QED BY <1>5 DEF new_budget

\* Settling loses nothing; taking on a new size gains less than one RISE.
LEMMA ResizedCredit ==
  ASSUME SettlesFirst, NEW u \in Users, NEW index, NEW amount \in Nat,
         ResizedAt(u, index, amount),
         \/ config_open /\ index = reward_per_token
         \/ ~config_open /\ index = 0,
         UNCHANGED <<config_open, reward_per_token>>
  PROVE  Credit(u)' <= Credit(u) + REWARD_SCALE
<1> DEFINE t == tracker[u]
           p == t.pending_rewards
           d == t.reward_debt
           n == t.rise_sol_amount * index
           m == amount * index
           S == REWARD_SCALE
<1>1. /\ TypeOK /\ t \in TrackerType /\ index \in Nat /\ index \in {0, reward_per_token}
      /\ p \in Nat /\ d \in Nat /\ t.rise_sol_amount \in Nat /\ S \in Nat /\ S > 0
      /\ CanSettle(t, index)
  BY TrackerFields, TypeOfConstants DEF SettlesFirst, TypeOK, ResizedAt
<1>2. /\ n \in Nat /\ m \in Nat /\ n \div S \in Nat
      /\ Accrued(t.rise_sol_amount, index) = n \div S /\ Accrued(amount, index) = m \div S
  BY <1>1, MulDistributes, DivBounds DEF Accrued
<1>3. d <= n \div S
  BY <1>1, <1>2 DEF CanSettle
<1> DEFINE q == p + (n \div S - d)
<1>4. tracker'[u] = Fields(t.exists, amount, m \div S, q)
  BY <1>1, <1>2, ResizedSettles, ResyncedType
<1> HIDE DEF p, d, n, m
<1>5. /\ q * S + (m - (m \div S) * S) <= p * S + (n - d * S) + S
      /\ m - (m \div S) * S \in Nat /\ n - d * S \in Nat
  <2>1. /\ p \in Nat /\ d \in Nat /\ n \in Nat /\ m \in Nat
        /\ S \in Nat /\ S > 0 /\ d <= n \div S
    BY <1>1, <1>2, <1>3
  <2> HIDE DEF S
  <2>2. QED BY <2>1, RoundedCredit
<1>6. Credit(u)' = q * S + (IF config_open THEN amount * reward_per_token - (m \div S) * S
                            ELSE 0)
  <2>1. Credit(u)' = CreditAt(Fields(t.exists, amount, m \div S, q), config_open,
                              reward_per_token)
    BY <1>4 DEF Credit
  <2> HIDE DEF q
  <2>2. QED BY <2>1 DEF CreditAt, Fields
<1>7. Credit(u) = p * S + (IF config_open
                           THEN t.rise_sol_amount * reward_per_token - d * S ELSE 0)
  BY DEF Credit, CreditAt, p, d
<1>8. CASE config_open /\ index = reward_per_token
  <2>1. /\ Credit(u)' = q * S + (m - (m \div S) * S)
        /\ Credit(u) = p * S + (n - d * S)
    BY <1>6, <1>7, <1>8 DEF m, n
  <2>2. QED BY <1>5, <2>1
<1>9. CASE ~config_open /\ index = 0
  <2>1. n = 0 /\ n \div S = 0
    BY <1>1, <1>9, ScaledZero DEF n
  <2>2. q = p
    BY <1>1, <1>3, <2>1
  <2>3. p * S \in Nat
    BY <1>1, MulDistributes
  <2>4. Credit(u)' = p * S + 0 /\ Credit(u) = p * S + 0
    BY <1>6, <1>7, <1>9, <2>2
  <2>5. QED BY <1>1, <2>3, <2>4
<1>10. QED BY <1>8, <1>9

\* A claim pays out what it takes off the credit, to the last fraction.
LEMMA ClaimedCredit ==
  ASSUME SettlesFirst, NEW u \in Users, ClaimedFrom(u)
  PROVE  \E due \in Nat : /\ rise' = [rise EXCEPT ![u] = @ + due]
                          /\ Credit(u)' + due * REWARD_SCALE = Credit(u)
<1> DEFINE t == tracker[u]
           p == t.pending_rewards
           d == t.reward_debt
           n == t.rise_sol_amount * reward_per_token
           S == REWARD_SCALE
           due == p + (n \div S - d)
<1>1. /\ t \in TrackerType /\ reward_per_token \in Nat
      /\ p \in Nat /\ d \in Nat /\ t.rise_sol_amount \in Nat /\ S \in Nat /\ S > 0
      /\ CanSettle(t, reward_per_token) /\ config_open /\ config_open'
      /\ reward_per_token' = reward_per_token
  BY TrackerFields, TypeOfConstants DEF SettlesFirst, TypeOK, ClaimedFrom, configVars
<1>2. /\ n \in Nat /\ n \div S \in Nat
      /\ Accrued(t.rise_sol_amount, reward_per_token) = n \div S
  BY <1>1, MulDistributes, DivBounds DEF Accrued
<1>3. d <= n \div S
  BY <1>1, <1>2 DEF CanSettle
<1>4. /\ tracker'[u] = Fields(t.exists, t.rise_sol_amount, n \div S, 0)
      /\ due \in Nat /\ rise' = [rise EXCEPT ![u] = @ + due]
  BY <1>2 DEF ClaimedFrom
<1>5. Credit(u)' = 0 * S + (n - (n \div S) * S)
  <2>1. Credit(u)' = CreditAt(Fields(t.exists, t.rise_sol_amount, n \div S, 0), TRUE,
                              reward_per_token)
    BY <1>1, <1>4 DEF Credit
  <2>2. QED BY <2>1 DEF CreditAt, Fields
<1>6. Credit(u) = p * S + (n - d * S)
  BY <1>1 DEF Credit, CreditAt
<1> HIDE DEF p, d, n
<1>7. /\ due * S + (n - (n \div S) * S) = p * S + (n - d * S)
      /\ n - (n \div S) * S \in Nat /\ 0 * S = 0
  BY <1>1, <1>2, <1>3, RoundedCredit
<1>8. due * S \in Nat
  BY <1>1, <1>4, MulDistributes
<1> DEFINE x == due * S
           y == n - (n \div S) * S
<1>9. x \in Nat /\ y \in Nat /\ Credit(u)' = 0 + y /\ x + y = Credit(u)
  BY <1>5, <1>6, <1>7, <1>8
<1> HIDE DEF x, y
<1>10. Credit(u)' + x = Credit(u)
  BY <1>9
<1>11. QED BY <1>4, <1>10 DEF x

\* A new tracker starts with less than one RISE.
LEMMA RegisteredCredit ==
  ASSUME SettlesFirst, Unregistered, NEW u \in Users, RegisterStakeRewards(u)
  PROVE  Credit(u) = 0 /\ Credit(u)' <= REWARD_SCALE
<1> DEFINE m == rise_sol[u] * reward_per_token
           S == REWARD_SCALE
<1>1. /\ rise_sol[u] \in Nat /\ reward_per_token \in Nat /\ S \in Nat /\ S > 0
      /\ config_open /\ config_open' /\ reward_per_token' = reward_per_token
      /\ tracker[u] = NoTracker
      /\ tracker'[u] = Registered(rise_sol[u])
  BY TypeOfConstants DEF SettlesFirst, TypeOK, RegisterStakeRewards, configVars,
     Unregistered
<1>2. Registered(rise_sol[u]) = Fields(TRUE, rise_sol[u], m \div S, 0)
  BY <1>1, RegisteredType DEF Accrued
<1>3. 0 * S = 0 /\ 0 * reward_per_token = 0 /\ m \in Nat
  BY <1>1, MulDistributes
<1>4. Credit(u) = 0
  BY <1>1, <1>3 DEF Credit, CreditAt, NoTracker
<1>5. Credit(u)' = 0 * S + (m - (m \div S) * S)
  <2>1. Credit(u)' = CreditAt(Fields(TRUE, rise_sol[u], m \div S, 0), TRUE,
                              reward_per_token)
    BY <1>1, <1>2 DEF Credit
  <2>2. QED BY <2>1 DEF CreditAt, Fields
<1> HIDE DEF m
<1>6. m - (m \div S) * S <= S
  <2>1. m \div S \in Nat /\ m < (m \div S + 1) * S
    BY <1>1, <1>3, DivBounds
  <2> DEFINE q == m \div S
  <2> HIDE DEF q
  <2>2. (q + 1) * S = q * S + 1 * S /\ 1 * S = S /\ q * S \in Nat
    BY <1>1, <2>1, MulDistributes DEF q
  <2>3. m < q * S + S
    BY <2>1, <2>2 DEF q
  <2>4. m - q * S <= S
    BY <1>1, <1>3, <2>2, <2>3
  <2>5. QED BY <2>4 DEF q
<1>7. m - (m \div S) * S \in Int
  BY <1>1, <1>3, DivBounds, MulDistributes
<1>8. QED BY <1>3, <1>4, <1>5, <1>6, <1>7

\* A checkpoint raises every credit by the size of its tracker: at most what it
\* emits, as the supply it divides by covers the sizes.
LEMMA CheckpointCredits ==
  ASSUME SettlesFirst, SettlesFirst', Held <= total_staking_supply,
         config_open, UNCHANGED <<config_open, tracker>>,
         NEW d \in Nat, reward_per_token' = reward_per_token + d
  PROVE  Credits' <= Credits + d * total_staking_supply
<1> DEFINE F == [u \in Users |-> Credit(u)]
           A == [u \in Users |-> tracker[u].rise_sol_amount]
           R == [u \in Users |-> tracker[u].rise_sol_amount * d]
           C == [u \in Users |-> Covered(u)]
           G == [u \in Users |-> Credit(u)']
<1>1. TypeOK /\ IsFiniteSet(Users) /\ total_staking_supply \in Nat
  BY TypeOfConstants DEF SettlesFirst, TypeOK
<1>2. ASSUME NEW u \in Users
      PROVE  /\ tracker[u].rise_sol_amount \in Nat /\ Covered(u) \in Nat
             /\ tracker[u].rise_sol_amount <= Covered(u)
             /\ tracker[u].rise_sol_amount * d \in Nat
             /\ Credit(u)' = Credit(u) + tracker[u].rise_sol_amount * d
  <2> DEFINE a == tracker[u].rise_sol_amount
             p == tracker[u].pending_rewards * REWARD_SCALE
             b == tracker[u].reward_debt * REWARD_SCALE
             x == a * reward_per_token
             y == a * d
  <2>1. /\ a \in Nat /\ Covered(u) \in Nat /\ a <= Covered(u)
        /\ reward_per_token \in Nat /\ tracker[u] \in TrackerType
    BY <1>1, CoveredType DEF Covered, TypeOK
  <2>2. p \in Nat /\ b \in Nat
    BY <2>1, TrackerFields, MulDistributes, TypeOfConstants
  <2>3. x \in Nat /\ y \in Nat /\ a * (reward_per_token + d) = x + y
    <3>1. \A n, r, e \in Nat : n * (r + e) = n * r + n * e
      OBVIOUS
    <3>2. QED BY <2>1, <3>1, MulDistributes
  <2>4. Credit(u) = p + (x - b)
    BY DEF Credit, CreditAt
  <2>5. Credit(u)' = p + (a * (reward_per_token + d) - b)
    BY DEF Credit, CreditAt
  <2> HIDE DEF p, b, x, y, a
  <2>6. Credit(u)' = Credit(u) + y
    <3>1. p + ((x + y) - b) = (p + (x - b)) + y
      BY <2>2, <2>3
    <3>2. QED BY <2>3, <2>4, <2>5, <3>1
  <2>7. QED BY <2>1, <2>3, <2>6 DEF a, y
<1>3. /\ Credits = SumFunctionOnSet(F, Users) /\ Credits' = SumFunctionOnSet(G, Users)
      /\ Held = SumFunctionOnSet(C, Users)
  BY DEF Credits, Held
<1>4. /\ \A u \in Users : F[u] \in Nat
      /\ \A u \in Users : A[u] \in Nat /\ C[u] \in Nat /\ A[u] <= C[u]
      /\ \A u \in Users : R[u] \in Nat /\ R[u] = A[u] * d
      /\ \A u \in Users : G[u] = F[u] + R[u]
  BY <1>2, CreditsType DEF CreditsAreNat
<1> HIDE DEF F, A, R, C, G
<1>5. SumFunctionOnSet(G, Users) = SumFunctionOnSet(F, Users) + SumFunctionOnSet(R, Users)
  BY <1>1, <1>4, SumPlus
<1>6. SumFunctionOnSet(R, Users) = SumFunctionOnSet(A, Users) * d
  BY <1>1, <1>4, SumScale
<1>7. /\ SumFunctionOnSet(A, Users) <= SumFunctionOnSet(C, Users)
      /\ SumFunctionOnSet(A, Users) \in Nat /\ SumFunctionOnSet(C, Users) \in Nat
      /\ SumFunctionOnSet(F, Users) \in Nat
  BY <1>1, <1>4, SumMono, SumNat
<1> DEFINE sizes == SumFunctionOnSet(A, Users)
<1>8. sizes \in Nat /\ sizes <= total_staking_supply
  BY <1>1, <1>3, <1>7
<1> HIDE DEF sizes
<1>9. /\ sizes * d <= total_staking_supply * d
      /\ sizes * d \in Nat /\ total_staking_supply * d = d * total_staking_supply
      /\ d * total_staking_supply \in Nat
  <2>1. \A x, y \in Nat : x * y = y * x
    OBVIOUS
  <2>2. QED BY <1>1, <1>8, <2>1, MulMono, MulDistributes
<1>10. Credits' = Credits + sizes * d /\ Credits \in Nat
  BY <1>3, <1>5, <1>6, <1>7 DEF sizes
<1>11. QED BY <1>9, <1>10

LEMMA StepSolvent ==
  TrackerInv /\ SupplyCovers /\ Solvent /\ TypeOK' /\ FirstConfig' /\ [Next]_vars
    => Solvent'
<1> SUFFICES ASSUME TrackerInv, SupplyCovers, Solvent, TypeOK', FirstConfig', [Next]_vars,
                    FirstByTheBook'
             PROVE  Paid' * REWARD_SCALE + Credits' <= (emitted' + resizes') * REWARD_SCALE
  BY DEF Solvent
<1> DEFINE Kept == Paid' * REWARD_SCALE + Credits' <= (emitted' + resizes') * REWARD_SCALE
<1>1. /\ TypeOK /\ FirstByTheBook /\ SettlesFirst /\ SettlesFirst' /\ Unregistered
      /\ config_open => Held <= total_staking_supply
  <2>1. TypeOK /\ FirstByTheBook /\ FirstConfig /\ Unregistered
    BY BookSteps DEF TrackerInv
  <2>2. configs <= 1 /\ configs' <= 1
    BY <2>1 DEF FirstByTheBook
  <2>3. QED BY <2>1, <2>2 DEF SettlesFirst, SupplyCovers
<1>2. /\ Paid \in Nat /\ Credits \in Nat /\ Credits' \in Nat
      /\ emitted \in Nat /\ resizes \in Nat
      /\ REWARD_SCALE \in Nat /\ 0 * REWARD_SCALE = 0 /\ 1 * REWARD_SCALE = REWARD_SCALE
      /\ \A u \in Users : Credit(u) \in Nat /\ Credit(u)' \in Nat
  BY <1>1, SumsType, CreditsType, TypeOfConstants DEF SumsAreNat, CreditsAreNat, TypeOK
\* Nothing is paid, and the credits do not grow.
<1>3. ASSUME UNCHANGED <<rise, emitted>>, Credits' <= Credits,
             resizes' = resizes \/ resizes' = resizes + 1
      PROVE  Kept
  <2>1. Paid' = Paid + 0
    BY <1>2, <1>3 DEF Paid
  <2>2. Credits' + 0 * REWARD_SCALE <= Credits + 0 * REWARD_SCALE
    <3>1. ASSUME NEW c \in Nat, NEW d \in Nat, c <= d PROVE c + 0 <= d + 0
      BY <3>1
    <3>2. Credits' + 0 <= Credits + 0
      BY <1>2, <1>3, <3>1
    <3>3. QED BY <1>2, <3>2
  <2>3. emitted + resizes + 0 <= emitted' + resizes'
    BY <1>2, <1>3
  <2>4. QED BY <1>1, <2>1, <2>2, <2>3, BooksMoved
\* Nothing is paid, and one tracker takes on a size.
<1>4. ASSUME UNCHANGED <<rise, emitted>>, resizes' = resizes + 1,
             UNCHANGED <<config_open, reward_per_token>>,
             NEW u \in Users, \A v \in Users \ {u} : tracker'[v] = tracker[v],
             Credit(u)' <= Credit(u) + REWARD_SCALE
      PROVE  Kept
  <2>1. Paid' = Paid + 0
    BY <1>2, <1>4 DEF Paid
  <2>2. Credits' = Credits - Credit(u) + Credit(u)'
    BY <1>1, <1>4, CreditMoved
  <2>3. ASSUME NEW c \in Nat, c <= Credit(u) + REWARD_SCALE
        PROVE  Credits - Credit(u) + c + 0 * REWARD_SCALE <= Credits + 1 * REWARD_SCALE
    BY <1>2, <2>3
  <2>4. Credits' + 0 * REWARD_SCALE <= Credits + 1 * REWARD_SCALE
    BY <1>2, <1>4, <2>2, <2>3
  <2>5. emitted + resizes + 1 <= emitted' + resizes'
    BY <1>2, <1>4
  <2>6. QED BY <1>1, <2>1, <2>4, <2>5, BooksMoved
\* No tracker changes, nor the index.
<1>5. ASSUME UNCHANGED <<rise, emitted, resizes, tracker, config_open, reward_per_token>>
      PROVE  Kept
  <2>1. [u \in Users |-> Credit(u)'] = [u \in Users |-> Credit(u)]
    BY <1>5 DEF Credit
  <2>2. Credits' = Credits
    BY <2>1 DEF Credits
  <2>3. QED BY <1>2, <1>3, <1>5, <2>2
<1>6. ASSUME NEW u \in Users, NEW passed \in Passes(u), NEW amount \in Nat,
             PassesAll(u, passed), TrackBalance(u, passed, amount),
             UNCHANGED <<rise, emitted, config_open, reward_per_token>>
      PROVE  Kept
  <2>1. ASSUME NEW index \in {0, reward_per_token}, ResizedAt(u, index, amount),
               \/ config_open /\ index = reward_per_token
               \/ ~config_open /\ index = 0
        PROVE  Kept
    <3>1. Credit(u)' <= Credit(u) + REWARD_SCALE
      BY <1>1, <1>6, <2>1, ResizedCredit
    <3>2. \A v \in Users \ {u} : tracker'[v] = tracker[v]
      BY <1>1, <2>1, ResizedSettles
    <3>3. QED BY <1>4, <1>6, <2>1, <3>1, <3>2 DEF ResizedAt
  <2>2. QED BY <1>1, <1>5, <1>6, <2>1, BookedBalance
<1>7. ASSUME NEW u \in Users, NEW amount \in Amounts, NEW passed \in Passes(u),
             StakeSol(u, amount, passed)
      PROVE  Kept
  <2>1. rise_sol[u] + amount \in Nat
    BY <1>1, TypeOfConstants DEF TypeOK
  <2>2. /\ TrackBalance(u, passed, rise_sol[u] + amount)
        /\ UNCHANGED <<rise, emitted, config_open, reward_per_token>>
    BY <1>7 DEF StakeSol
  <2>3. PassesAll(u, passed)
    <3>1. by_the_book' = (by_the_book /\ PassesAll(u, passed)) /\ by_the_book'
      BY <1>7 DEF StakeSol, FirstByTheBook
    <3>2. QED BY <3>1
  <2>4. QED BY <1>6, <2>1, <2>2, <2>3
<1>8. ASSUME NEW u \in Users, NEW amount \in Amounts, NEW passed \in Passes(u),
             UnstakeRiseSol(u, amount, passed)
      PROVE  Kept
  <2>1. rise_sol[u] - amount \in Nat
    BY <1>1, <1>8, TypeOfConstants DEF TypeOK, UnstakeRiseSol
  <2>2. /\ TrackBalance(u, passed, rise_sol[u] - amount)
        /\ UNCHANGED <<rise, emitted, config_open, reward_per_token>>
    BY <1>8 DEF UnstakeRiseSol
  <2>3. PassesAll(u, passed)
    <3>1. by_the_book' = (by_the_book /\ PassesAll(u, passed)) /\ by_the_book'
      BY <1>8 DEF UnstakeRiseSol, FirstByTheBook
    <3>2. QED BY <3>1
  <2>4. QED BY <1>6, <2>1, <2>2, <2>3
<1>9. ASSUME NEW u \in Users, RegisterStakeRewards(u)
      PROVE  Kept
  <2>1. /\ UNCHANGED <<rise, emitted, config_open, reward_per_token>>
        /\ resizes' = resizes + 1
        /\ tracker' = [tracker EXCEPT ![u] = Registered(rise_sol[u])]
    BY <1>9 DEF RegisterStakeRewards, configVars
  <2>2. \A v \in Users \ {u} : tracker'[v] = tracker[v]
    BY <1>1, <2>1 DEF TypeOK
  <2>3. Credit(u)' <= Credit(u) + REWARD_SCALE
    BY <1>1, <1>2, <1>9, RegisteredCredit
  <2>4. QED BY <1>4, <2>1, <2>2, <2>3
<1>10. ASSUME NEW u \in Users, ClaimStakeRewards(u)
       PROVE  Kept
  <2>1. ClaimedFrom(u)
    BY <1>1, <1>10, ClaimSteps
  <2>2. PICK due \in Nat : /\ rise' = [rise EXCEPT ![u] = @ + due]
                           /\ Credit(u)' + due * REWARD_SCALE = Credit(u)
    BY <1>1, <2>1, ClaimedCredit
  <2>3. /\ \A v \in Users \ {u} : tracker'[v] = tracker[v]
        /\ UNCHANGED <<config_open, reward_per_token, emitted, resizes>>
    BY <2>1 DEF ClaimedFrom, configVars
  <2>4. Paid' = Paid + due
    <3>1. /\ rise \in [Users -> Nat] /\ rise' \in [Users -> Nat]
          /\ rise'[u] = rise[u] + due /\ \A v \in Users \ {u} : rise'[v] = rise[v]
      BY <1>1, <2>2 DEF TypeOK
    <3>2. Paid' = Paid - rise[u] + rise'[u]
      BY <3>1, SumChange, TypeOfConstants DEF Paid
    <3>3. QED BY <1>2, <3>1, <3>2
  <2>5. Credits' = Credits - Credit(u) + Credit(u)'
    BY <1>1, <2>3, CreditMoved
  <2>6. ASSUME NEW c \in Nat, NEW x \in Nat, c + x = Credit(u)
        PROVE  Credits - Credit(u) + c + x <= Credits + 0 * REWARD_SCALE
    BY <1>2, <2>6
  <2>7. due * REWARD_SCALE \in Nat
    BY <1>2, MulDistributes
  <2>8. Credits' + due * REWARD_SCALE <= Credits + 0 * REWARD_SCALE
    BY <1>2, <2>2, <2>5, <2>6, <2>7
  <2>9. emitted + resizes + 0 <= emitted' + resizes'
    BY <1>2, <2>3
  <2>10. QED BY <1>1, <2>4, <2>8, <2>9, BooksMoved
<1>11. CASE CheckpointStakeRewards
  <2>1. config_open /\ UNCHANGED <<config_open, tracker, rise, resizes>>
    BY <1>11 DEF CheckpointStakeRewards
  <2>2. CASE UNCHANGED <<reward_per_token, emitted>>
    BY <1>5, <2>1, <2>2
  <2>3. ASSUME NEW d \in Nat, reward_per_token' = reward_per_token + d,
               emitted' = emitted + EmissionsDue,
               d * total_staking_supply <= EmissionsDue * REWARD_SCALE
        PROVE  Kept
    <3>1. Credits' <= Credits + d * total_staking_supply
      BY <1>1, <2>1, <2>3, CheckpointCredits
    <3>2. EmissionsDue \in Nat
      BY <1>1, <1>11, CheckpointRaises
    <3>3. d * total_staking_supply \in Nat /\ EmissionsDue * REWARD_SCALE \in Nat
      BY <1>1, <1>2, <3>2, MulDistributes DEF TypeOK
    <3>4. ASSUME NEW x \in Nat, NEW y \in Nat, NEW c \in Nat, x <= y, c <= Credits + x
          PROVE  c + 0 * REWARD_SCALE <= Credits + y
      BY <1>2, <3>4
    <3>5. Credits' + 0 * REWARD_SCALE <= Credits + EmissionsDue * REWARD_SCALE
      BY <1>2, <2>3, <3>1, <3>3, <3>4
    <3>6. emitted + resizes + EmissionsDue <= emitted' + resizes'
      BY <1>2, <2>1, <2>3, <3>2
    <3>7. Paid' = Paid + 0
      BY <1>2, <2>1 DEF Paid
    <3>8. QED BY <1>1, <3>2, <3>5, <3>6, <3>7, BooksMoved
  <2>4. QED BY <1>1, <1>11, <2>2, <2>3, CheckpointRaises
<1>12. CASE InitializeStakeRewards
  <2>1. /\ configs' = configs + 1 /\ reward_per_token' = 0 /\ config_open' = TRUE
        /\ UNCHANGED <<tracker, rise, emitted, resizes>>
    BY <1>12 DEF InitializeStakeRewards
  <2>2. configs \in Nat
    BY <1>1, TypeOfConstants DEF TypeOK
  <2>3. configs = 0
    BY <2>1, <2>2 DEF FirstByTheBook
  <2>4. tracker = [u \in Users |-> NoTracker]
    BY <2>3 DEF TrackerInv, FirstConfig
  <2>5. ~config_open
    BY <2>3 DEF TrackerInv, FirstConfig
  <2>6. ASSUME NEW u \in Users PROVE Credit(u)' = Credit(u)
    <3>1. Credit(u) = 0 * REWARD_SCALE + 0
      BY <2>4, <2>5 DEF Credit, CreditAt, NoTracker
    <3>2. Credit(u)' = 0 * REWARD_SCALE + (0 * 0 - 0 * REWARD_SCALE)
      BY <2>1, <2>4 DEF Credit, CreditAt, NoTracker
    <3>3. QED BY <1>2, <3>1, <3>2
  <2>7. [u \in Users |-> Credit(u)'] = [u \in Users |-> Credit(u)]
    BY <2>6
  <2>8. Credits' = Credits
    BY <2>7 DEF Credits
  <2>9. QED BY <1>2, <1>3, <2>1, <2>8
<1>13. CASE CloseStakeRewards
  <2>1. config_open /\ ~config_open' /\ UNCHANGED <<tracker, rise, emitted, resizes>>
    BY <1>13 DEF CloseStakeRewards
  <2>2. ASSUME NEW u \in Users PROVE Credit(u)' <= Credit(u)
    <3>1. /\ tracker[u] \in TrackerType /\ config_open \in BOOLEAN /\ reward_per_token \in Nat
          /\ CanSettle(tracker[u], reward_per_token)
      BY <1>1, <2>1 DEF SettlesFirst, TypeOK, FirstConfig, StakersCanSettle
    <3>2. tracker[u].pending_rewards * REWARD_SCALE <= Credit(u)
      BY <3>1, CreditAtType DEF Credit
    <3>3. tracker[u].pending_rewards * REWARD_SCALE \in Nat
      BY <1>2, <3>1, TrackerFields, MulDistributes
    <3>4. Credit(u)' = tracker[u].pending_rewards * REWARD_SCALE + 0
      BY <2>1 DEF Credit, CreditAt
    <3>5. QED BY <3>2, <3>3, <3>4
  <2> DEFINE F == [u \in Users |-> Credit(u)]
             G == [u \in Users |-> Credit(u)']
  <2>3. \A u \in Users : F[u] \in Int /\ G[u] \in Int /\ G[u] <= F[u]
    BY <1>2, <2>2
  <2>4. Credits = SumFunctionOnSet(F, Users) /\ Credits' = SumFunctionOnSet(G, Users)
    BY DEF Credits
  <2> HIDE DEF F, G
  <2>5. Credits' <= Credits
    BY <2>3, <2>4, SumMono, TypeOfConstants
  <2>6. QED BY <1>3, <2>1, <2>5
<1>14. QED
  <2>1. ASSUME NEW u \in Users, NEW to \in Users, NEW amount,
               TransferRiseSol(u, to, amount) \/ MintForCdp(u, amount)
        PROVE  FALSE
    BY <2>1 DEF TransferRiseSol, MintForCdp, FirstByTheBook
  <2>2. ASSUME NEW u, NEW amount, NotifyRiseSolBurned(u, amount)
        PROVE  Kept
    BY <1>5, <2>2 DEF NotifyRiseSolBurned, configVars
  <2>3. ASSUME NEW amount, FundRewardsVault(amount) \/ NextSlot \/ UNCHANGED vars
        PROVE  Kept
    BY <1>5, <2>3 DEF FundRewardsVault, NextSlot, vars, configVars
  <2>4. QED BY <1>7, <1>8, <1>9, <1>10, <1>11, <1>12, <1>13, <2>1, <2>2, <2>3
            DEF Next, Staker

TrackersInductive == TrackerInv /\ SupplyCovers /\ Solvent

LEMMA InitSolvent == Init => Solvent
<1> SUFFICES ASSUME Init
             PROVE  Paid * REWARD_SCALE + Credits <= (emitted + resizes) * REWARD_SCALE
  BY DEF Solvent
<1>1. Paid = 0
  BY SumZero, TypeOfConstants DEF Init, Paid
<1>2. 0 * REWARD_SCALE = 0
  BY TypeOfConstants, MulDistributes
<1>3. Credits = 0
  <2>1. ASSUME NEW u \in Users PROVE Credit(u) = 0
    <3>1. Credit(u) = 0 * REWARD_SCALE + 0
      BY DEF Init, Credit, CreditAt, NoTracker
    <3>2. QED BY <1>2, <3>1
  <2> DEFINE F == [u \in Users |-> Credit(u)]
  <2>2. \A u \in Users : F[u] = 0
    BY <2>1
  <2> HIDE DEF F
  <2>3. SumFunctionOnSet(F, Users) = 0
    BY <2>2, SumZero, TypeOfConstants
  <2>4. QED BY <2>3 DEF Credits, F
<1>4. QED BY <1>1, <1>2, <1>3 DEF Init

LEMMA StepTrackers == TrackersInductive /\ [Next]_vars => TrackersInductive'
<1> SUFFICES ASSUME TrackersInductive, [Next]_vars PROVE TrackersInductive'
  OBVIOUS
<1>1. TypeOK' /\ FirstConfig'
  BY StepType, StepFirst DEF TrackersInductive, TrackerInv
<1>2. Unregistered'
  BY <1>1, StepUnregistered DEF TrackersInductive
<1>3. SupplyCovers'
  BY <1>1, StepSupply DEF TrackersInductive
<1>4. Solvent'
  BY <1>1, StepSolvent DEF TrackersInductive
<1>5. QED BY <1>1, <1>2, <1>3, <1>4 DEF TrackersInductive, TrackerInv

\* What is owed is backed by the credits.
LEMMA CreditsBackOwed ==
  TrackersInductive => (configs <= 1 => RewardsWithinEmissions)
<1> SUFFICES ASSUME TrackersInductive, configs <= 1, by_the_book
             PROVE  Paid + Owed <= emitted + resizes
  BY DEF RewardsWithinEmissions
<1> DEFINE O == [u \in Users |-> OwedTo(u)]
           F == [u \in Users |-> Credit(u)]
           H == [u \in Users |-> OwedTo(u) * REWARD_SCALE]
<1>1. /\ SettlesFirst /\ TypeOK
      /\ Paid * REWARD_SCALE + Credits <= (emitted + resizes) * REWARD_SCALE
  BY DEF TrackersInductive, TrackerInv, SettlesFirst, Solvent, FirstByTheBook
<1>2. /\ IsFiniteSet(Users) /\ REWARD_SCALE \in Nat /\ REWARD_SCALE > 0
      /\ Paid \in Nat /\ Credits \in Nat /\ emitted + resizes \in Nat
  <2>1. emitted \in Nat /\ resizes \in Nat
    BY <1>1, TypeOfConstants DEF TypeOK
  <2>2. QED BY <1>1, <2>1, SumsType, CreditsType, TypeOfConstants
            DEF SumsAreNat, CreditsAreNat
<1>3. ASSUME NEW u \in Users
      PROVE  /\ OwedTo(u) \in Nat /\ OwedTo(u) * REWARD_SCALE \in Nat
             /\ OwedTo(u) * REWARD_SCALE <= Credit(u) /\ Credit(u) \in Nat
  <2>1. /\ tracker[u] \in TrackerType /\ config_open \in BOOLEAN /\ reward_per_token \in Nat
        /\ config_open => CanSettle(tracker[u], reward_per_token)
    BY <1>1 DEF SettlesFirst, TypeOK, FirstConfig, StakersCanSettle
  <2>2. OwedTo(u) = IF config_open
                    THEN Settled(tracker[u], reward_per_token).pending_rewards
                    ELSE tracker[u].pending_rewards
    BY <2>1 DEF OwedTo
  <2>3. CASE config_open
    <3>1. Settled(tracker[u], reward_per_token) \in TrackerType
      BY <2>1, <2>3, TrackerFields, ResyncedType
    <3>2. OwedTo(u) \in Nat
      BY <2>2, <2>3, <3>1, TrackerFields
    <3>3. OwedTo(u) * REWARD_SCALE <= Credit(u) /\ Credit(u) \in Nat
      BY <2>1, <2>2, <2>3, CreditAtType DEF Credit
    <3>4. QED BY <1>2, <3>2, <3>3, MulDistributes
  <2>4. CASE ~config_open
    <3>1. OwedTo(u) \in Nat
      BY <2>1, <2>2, <2>4, TrackerFields
    <3>2. OwedTo(u) * REWARD_SCALE <= Credit(u) /\ Credit(u) \in Nat
      BY <2>1, <2>2, <2>4, CreditAtType DEF Credit
    <3>3. QED BY <1>2, <3>1, <3>2, MulDistributes
  <2>5. QED BY <2>1, <2>3, <2>4
<1>4. /\ \A u \in Users : O[u] \in Nat
      /\ \A u \in Users : H[u] \in Nat /\ H[u] = O[u] * REWARD_SCALE
      /\ \A u \in Users : F[u] \in Nat /\ H[u] <= F[u]
  BY <1>3
<1>5. Owed = SumFunctionOnSet(O, Users) /\ Credits = SumFunctionOnSet(F, Users)
  BY DEF Owed, Credits
<1> HIDE DEF O, F, H
<1>6. SumFunctionOnSet(H, Users) = SumFunctionOnSet(O, Users) * REWARD_SCALE
  BY <1>2, <1>4, SumScale
<1>7. /\ SumFunctionOnSet(H, Users) <= SumFunctionOnSet(F, Users)
      /\ SumFunctionOnSet(O, Users) \in Nat
  BY <1>2, <1>4, SumMono, SumNat
<1>8. Owed \in Nat /\ Owed * REWARD_SCALE <= Credits
  BY <1>5, <1>6, <1>7
<1> DEFINE budget == emitted + resizes
<1>9. budget \in Nat /\ Paid * REWARD_SCALE + Credits <= budget * REWARD_SCALE
  BY <1>1, <1>2
<1> HIDE DEF budget
<1>10. Paid + Owed <= budget
  BY <1>2, <1>8, <1>9, BudgetCovers
<1>11. QED BY <1>10 DEF budget

LEMMA TrackersAreInductive == Spec => []TrackersInductive
<1>1. Init => TrackersInductive
  BY InitTrackers, InitSolvent DEF TrackersInductive
<1>2. QED BY <1>1, StepTrackers, PTL DEF Spec

\* As long as the first config lives, callers pass every account and riseSOL stays
\* with its stakers: what stakers were paid and are owed was emitted by checkpoints,
\* but for one RISE of rounding per size a tracker took on, however stakes, claims,
\* checkpoints, interest burns and the closing of the config interleave.
THEOREM StakersWithinEmissions == Spec => [](configs <= 1 => RewardsWithinEmissions)
  BY CreditsBackOwed, TrackersAreInductive, PTL
=============================================================================
