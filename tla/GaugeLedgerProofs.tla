-------------------------- MODULE GaugeLedgerProofs --------------------------
(***************************************************************************)
(* Theorems about GaugeLedger, for every value of its constants.            *)
(*                                                                         *)
(* NoFasterThanSchedule needs to know what a gauge may still be credited:   *)
(* one epoch's emissions for every epoch it lies behind (OnSchedule).  It   *)
(* is bounded by the epochs that fit before epoch_start_slot, which a new   *)
(* config moves forward and never back, though it restarts the count.      *)
(*                                                                         *)
(* RewardsWithinEmissions is not inductive in RISE: a debt is a rounded     *)
(* product, and its rounding is lost until the stake changes.  In units of  *)
(* 1 / REWARD_SCALE nothing is lost (Credit), and the books balance but for *)
(* one unit of RISE per change of a stake (Solvent).                        *)
(***************************************************************************)
EXTENDS GaugeLedger, GaugeRewardsProofs

Most == Max(Emissions)

LEMMA MostIsMost ==
  Most \in Nat /\ \A e \in Emissions : e <= Most
<1>1. PICK e \in Emissions : \A f \in Emissions : f <= e
  BY LedgerAssumption
<1>2. \A x, y \in Emissions : (x >= y) = (y <= x)
  BY TypeOfConstants
<1>3. \E x \in Emissions : \A y \in Emissions : x >= y
  BY <1>1, <1>2
<1>4. Most \in Emissions /\ \A y \in Emissions : Most >= y
  BY <1>3 DEF Most, Max
<1>5. QED BY <1>2, <1>4, TypeOfConstants

-----------------------------------------------------------------------------
(* What a step does to the accrual of a gauge *)

\* Emissions are accrued by checkpoints alone; the epoch moves with them or with a
\* new config.
AccrualKept ==
  /\ UNCHANGED <<accrualVars, epochVars>>
  /\ epoch_emissions' = epoch_emissions \/ epoch_emissions' \in Emissions

ConfigReplaced ==
  /\ UNCHANGED accrualVars
  /\ current_epoch' = 0 /\ epoch_start_slot' = slot
  /\ epoch_emissions' \in Emissions

LEMMA AccrualSteps ==
  ASSUME Next
  PROVE  \/ \E g \in Gauges : CheckpointGauge(g) \/ CreateGauge(g)
         \/ AccrualKept
         \/ ConfigReplaced
<1> USE DEF configVars, epochVars, gaugeVars, accrualVars
<1>1. CASE Depositor
  BY <1>1 DEF Depositor, DepositLp, WithdrawLp, ClaimRewards, AccrualKept
<1>2. CASE \E g \in Gauges : CheckpointGauge(g)
  BY <1>2
<1>3. CASE Authority
  <2>1. CASE CloseRewardsConfig
    BY <2>1 DEF CloseRewardsConfig, AccrualKept
  <2>2. ASSUME NEW emissions \in Emissions, InitializeRewards(emissions)
        PROVE  ConfigReplaced
    BY <2>2 DEF InitializeRewards, ConfigReplaced
  <2>3. ASSUME NEW emissions \in Emissions, SetEpochEmissions(emissions)
        PROVE  AccrualKept
    BY <2>3 DEF SetEpochEmissions, AccrualKept
  <2>4. ASSUME NEW g \in Gauges, CloseGauge(g)
        PROVE  AccrualKept
    BY <2>4 DEF CloseGauge, AccrualKept
  <2>5. ASSUME NEW g \in Gauges, NEW weight \in Weights, SetGaugeWeight(g, weight)
        PROVE  AccrualKept
    BY <2>5 DEF SetGaugeWeight, AccrualKept
  <2>6. ASSUME NEW g \in Gauges, NEW u \in Users, ForceWithdrawLp(u, g)
        PROVE  AccrualKept
    BY <2>6 DEF ForceWithdrawLp, AccrualKept
  <2>7. QED BY <1>3, <2>1, <2>2, <2>3, <2>4, <2>5, <2>6 DEF Authority
<1>4. CASE NextSlot
  BY <1>4 DEF NextSlot, AccrualKept
<1>5. QED BY <1>1, <1>2, <1>3, <1>4 DEF Next

LedgerType ==
  /\ emitted \in [Gauges -> Nat]
  /\ resizes \in Nat

\* The history of emissions changes only with total_distributed.
LEMMA HistoryType ==
  ASSUME TypeOK, TypeOK', LedgerType, LedgerNext
  PROVE  /\ LedgerType'
         /\ resizes <= resizes'
         /\ \A g \in Gauges : Distributed(g) \in Nat
         /\ \A g \in Gauges : emitted'[g] = emitted[g] + Distributed(g)
         /\ \A g \in Gauges :
              total_distributed'[g] = total_distributed[g] => Distributed(g) = 0
<1>1. ASSUME NEW g \in Gauges
      PROVE  /\ Distributed(g) \in Nat
             /\ total_distributed'[g] = total_distributed[g] => Distributed(g) = 0
  <2>1. total_distributed[g] \in Nat /\ total_distributed'[g] \in Nat
    BY DEF TypeOK
  <2>2. QED BY <2>1 DEF Distributed
<1>2. emitted' = [g \in Gauges |-> emitted[g] + Distributed(g)]
  BY DEF LedgerNext
<1>3. resizes' \in Nat /\ resizes <= resizes'
  BY DEF LedgerNext, LedgerType
<1>4. QED BY <1>1, <1>2, <1>3 DEF LedgerType

\* What a checkpoint credits, if it credits anything.
LEMMA CheckpointCredits ==
  ASSUME IInv, IInv', LedgerType, LedgerNext, NEW g \in Gauges, CheckpointGauge(g)
  PROVE  /\ \A h \in Gauges \ {g} :
              /\ Distributed(h) = 0
              /\ pending_emissions'[h] = pending_emissions[h]
              /\ last_checkpoint_epoch'[h] = last_checkpoint_epoch[h]
         /\ \/ /\ last_checkpoint_epoch[g] >= EpochAfter
               /\ Distributed(g) = 0
               /\ pending_emissions'[g] = pending_emissions[g]
               /\ last_checkpoint_epoch'[g] = last_checkpoint_epoch[g]
            \/ /\ last_checkpoint_epoch[g] < EpochAfter
               /\ last_checkpoint_epoch'[g] = EpochAfter
               /\ Distributed(g) + pending_emissions'[g]
                    = pending_emissions[g] + Allocation(g)
<1> DEFINE due == Allocation(g) + pending_emissions[g]
<1>1. TypeOK /\ TypeOK' /\ Allocation(g) \in Nat /\ due \in Nat
  BY DueType DEF IInv, TypeOK
<1>2. \A h \in Gauges :
        total_distributed'[h] = total_distributed[h] => Distributed(h) = 0
  BY <1>1, HistoryType
<1>3. CASE last_checkpoint_epoch[g] >= EpochAfter /\ UNCHANGED accrualVars
  BY <1>2, <1>3 DEF accrualVars
<1>4. CASE /\ last_checkpoint_epoch[g] < EpochAfter
           /\ last_checkpoint_epoch' = [last_checkpoint_epoch EXCEPT ![g] = EpochAfter]
           /\ RollOver(g, due)
  <2>1. /\ total_distributed' = total_distributed
        /\ pending_emissions' = [pending_emissions EXCEPT ![g] = due]
    BY <1>4 DEF RollOver
  <2>2. QED BY <1>1, <1>2, <1>4, <2>1 DEF TypeOK
<1>5. CASE /\ last_checkpoint_epoch[g] < EpochAfter
           /\ last_checkpoint_epoch' = [last_checkpoint_epoch EXCEPT ![g] = EpochAfter]
           /\ Distribute(g, due)
  <2>1. /\ total_distributed' = [total_distributed EXCEPT ![g] = @ + due]
        /\ pending_emissions' = [pending_emissions EXCEPT ![g] = 0]
    BY <1>5 DEF Distribute
  <2>2. total_distributed[g] \in Nat /\ total_distributed'[g] = total_distributed[g] + due
    BY <1>1, <2>1 DEF TypeOK
  <2>3. Distributed(g) = due
    BY <1>1, <2>2 DEF Distributed
  <2>4. QED BY <1>1, <1>2, <1>5, <2>1, <2>3 DEF TypeOK
<1>6. QED BY <1>3, <1>4, <1>5 DEF CheckpointGauge

-----------------------------------------------------------------------------
(* NoFasterThanSchedule *)

\* Epochs a gauge has not been credited for.
Behind(g) ==
  IF last_checkpoint_epoch[g] < current_epoch
  THEN current_epoch - last_checkpoint_epoch[g] ELSE 0

Epochs == epoch_start_slot \div SLOTS_PER_EPOCH

OnSchedule ==
  /\ epoch_emissions <= Most
  /\ \A g \in Gauges :
       emitted[g] + pending_emissions[g] + Behind(g) * Most <= Epochs * Most

ScheduleInv == IInv /\ LedgerType /\ OnSchedule

LEMMA ScheduleTypes ==
  ASSUME IInv, LedgerType
  PROVE  /\ Epochs \in Nat
         /\ \A g \in Gauges : /\ Behind(g) \in Nat
                              /\ emitted[g] \in Nat
                              /\ pending_emissions[g] \in Nat
<1>1. Epochs \in Nat
  BY DivBounds, TypeOfConstants DEF IInv, TypeOK, Epochs
<1>2. QED BY <1>1 DEF IInv, TypeOK, LedgerType, Behind

LEMMA InitSchedule == LedgerInit => ScheduleInv
<1> SUFFICES ASSUME LedgerInit PROVE ScheduleInv
  OBVIOUS
<1>1. IInv /\ LedgerType
  BY InitInv DEF LedgerInit, LedgerType
<1>2. epoch_emissions = 0 /\ Epochs = 0
  BY TypeOfConstants DEF LedgerInit, Init, RewardsConfigInit, Epochs
<1>3. \A g \in Gauges : emitted[g] = 0 /\ pending_emissions[g] = 0 /\ Behind(g) = 0
  BY DEF LedgerInit, Init, RewardsConfigInit, GaugeInit, Behind
<1>4. QED BY <1>1, <1>2, <1>3, MostIsMost DEF ScheduleInv, OnSchedule

\* A checkpoint credits one epoch less than the gauge lay behind, or one of the
\* epoch it begins.
LEMMA CheckpointSchedule ==
  ASSUME ScheduleInv, IInv', LedgerNext, NEW g \in Gauges, CheckpointGauge(g)
  PROVE  OnSchedule'
<1> USE DEF ScheduleInv
<1>1. /\ TypeOK /\ TypeOK' /\ LedgerType' /\ epoch_emissions <= Most
      /\ \A h \in Gauges : emitted'[h] = emitted[h] + Distributed(h) /\ Distributed(h) \in Nat
  BY HistoryType DEF IInv, OnSchedule
<1>2. /\ epoch_emissions' = epoch_emissions
      /\ \/ Epochs' = Epochs + 1 /\ EpochAfter = current_epoch + 1
         \/ Epochs' = Epochs /\ EpochAfter = current_epoch
      /\ current_epoch' = EpochAfter
  <2>1. epoch_start_slot \in Nat
    BY <1>1 DEF TypeOK
  <2>2. (epoch_start_slot + SLOTS_PER_EPOCH) \div SLOTS_PER_EPOCH
          = epoch_start_slot \div SLOTS_PER_EPOCH + 1
    BY <2>1, DivShift, TypeOfConstants
  <2>3. QED BY <2>2 DEF CheckpointGauge, EpochAfter, Epochs
<1>3. Allocation(g) \in Nat /\ Allocation(g) <= Most
  BY <1>1, DueType, MostIsMost DEF TypeOK
<1>4. /\ Epochs \in Nat /\ Epochs' \in Nat /\ Most \in Nat
      /\ current_epoch \in Nat /\ EpochAfter \in Nat
  BY <1>1, <1>2, ScheduleTypes, MostIsMost DEF TypeOK
<1>5. ASSUME NEW h \in Gauges
      PROVE  emitted'[h] + pending_emissions'[h] + Behind(h)' * Most <= Epochs' * Most
  <2>1. /\ Behind(h) \in Nat /\ Behind(h)' \in Nat
        /\ emitted[h] \in Nat /\ pending_emissions[h] \in Nat
        /\ emitted'[h] \in Nat /\ pending_emissions'[h] \in Nat
        /\ last_checkpoint_epoch[h] \in Nat
    BY <1>1, ScheduleTypes DEF TypeOK, LedgerType, Behind
  <2>2. emitted[h] + pending_emissions[h] + Behind(h) * Most <= Epochs * Most
    BY DEF OnSchedule
  <2>3. /\ Behind(h) * Most \in Nat /\ Behind(h)' * Most \in Nat
        /\ (Behind(h) + 1) * Most = Behind(h) * Most + Most
        /\ (Behind(h)' + 1) * Most = Behind(h)' * Most + Most
        /\ Epochs * Most \in Nat /\ (Epochs + 1) * Most = Epochs * Most + Most
    <3>1. ASSUME NEW n \in Nat PROVE n * Most \in Nat /\ (n + 1) * Most = n * Most + Most
      BY <1>4, MulDistributes
    <3>2. QED BY <1>4, <2>1, <3>1
  <2>4. CASE /\ last_checkpoint_epoch'[h] = last_checkpoint_epoch[h]
             /\ Distributed(h) = 0
             /\ pending_emissions'[h] = pending_emissions[h]
    <3>1. \/ Epochs' = Epochs + 1 /\ Behind(h)' <= Behind(h) + 1
          \/ Epochs' = Epochs /\ Behind(h)' = Behind(h)
      BY <1>2, <1>4, <2>1, <2>4 DEF Behind
    <3>2. Behind(h)' <= Behind(h) + 1 => Behind(h)' * Most <= Behind(h) * Most + Most
      <4>1. Behind(h) + 1 \in Nat
        BY <2>1
      <4>2. QED BY <1>4, <2>1, <2>3, <4>1, MulMono
    <3>3. emitted'[h] = emitted[h]
      BY <1>1, <2>1, <2>4
    <3>4. CASE Epochs' = Epochs + 1 /\ Behind(h)' <= Behind(h) + 1
      <4>1. Epochs' * Most = Epochs * Most + Most
        BY <2>3, <3>4
      <4>2. QED BY <1>4, <2>1, <2>2, <2>3, <2>4, <3>2, <3>3, <3>4, <4>1
    <3>5. CASE Epochs' = Epochs /\ Behind(h)' = Behind(h)
      BY <2>2, <2>4, <3>3, <3>5
    <3>6. QED BY <3>1, <3>4, <3>5
  <2>5. CASE /\ h = g
             /\ last_checkpoint_epoch[g] < EpochAfter
             /\ last_checkpoint_epoch'[g] = EpochAfter
             /\ Distributed(g) + pending_emissions'[g]
                  = pending_emissions[g] + Allocation(g)
    <3>1. Behind(h)' = 0
      BY <1>2, <1>4, <2>5 DEF Behind
    <3>2. emitted'[h] + pending_emissions'[h]
            = emitted[h] + pending_emissions[h] + Allocation(g)
      BY <1>1, <1>3, <2>1, <2>5
    <3>3. CASE Epochs' = Epochs + 1
      <4>1. Epochs' * Most = Epochs * Most + Most /\ Behind(h)' * Most = 0
        BY <1>4, <2>3, <3>1, <3>3
      <4>2. emitted[h] + pending_emissions[h] <= Epochs * Most
        <5> DEFINE lag == Behind(h) * Most
                   budget == Epochs * Most
        <5>1. /\ lag \in Nat /\ budget \in Nat
              /\ emitted[h] + pending_emissions[h] + lag <= budget
          BY <2>2, <2>3
        <5> HIDE DEF lag, budget
        <5>2. emitted[h] + pending_emissions[h] <= budget
          BY <2>1, <5>1
        <5>3. QED BY <5>2 DEF budget
      <4>3. QED
        <5> DEFINE budget == Epochs * Most
        <5>1. /\ budget \in Nat /\ emitted[h] + pending_emissions[h] <= budget
              /\ Epochs' * Most = budget + Most
          BY <2>3, <4>1, <4>2
        <5> HIDE DEF budget
        <5>2. emitted'[h] + pending_emissions'[h] + 0 <= budget + Most
          BY <1>3, <1>4, <2>1, <3>2, <5>1
        <5>3. QED BY <4>1, <5>1, <5>2
    <3>4. CASE Epochs' = Epochs /\ EpochAfter = current_epoch
      <4>1. Behind(h) >= 1
        BY <1>4, <2>1, <2>5, <3>4 DEF Behind
      <4>2. Most <= Behind(h) * Most /\ Behind(h)' * Most = 0
        <5>1. 1 * Most <= Behind(h) * Most
          BY <1>4, <2>1, <4>1, MulMono
        <5>2. QED BY <1>4, <3>1, <5>1
      <4>3. Epochs' * Most = Epochs * Most
        BY <3>4
      <4>4. QED
        <5> DEFINE lag == Behind(h) * Most
                   budget == Epochs * Most
        <5>1. /\ lag \in Nat /\ budget \in Nat /\ Most <= lag
              /\ emitted[h] + pending_emissions[h] + lag <= budget
          BY <2>2, <2>3, <4>2
        <5> HIDE DEF lag, budget
        <5>2. emitted'[h] + pending_emissions'[h] + 0 <= budget
          BY <1>3, <1>4, <2>1, <3>2, <5>1
        <5>3. QED BY <4>2, <4>3, <5>2 DEF budget
    <3>5. QED BY <1>2, <3>3, <3>4
  <2>6. QED BY <2>4, <2>5, CheckpointCredits
<1>6. QED BY <1>1, <1>2, <1>5 DEF OnSchedule

\* Nothing else credits a gauge; a new gauge is not behind, and a new config puts
\* no gauge further behind.
LEMMA StepSchedule ==
  ScheduleInv /\ [LedgerNext]_ledgerVars => ScheduleInv'
<1> SUFFICES ASSUME ScheduleInv, [LedgerNext]_ledgerVars PROVE ScheduleInv'
  OBVIOUS
<1> USE DEF ScheduleInv
<1>1. IInv'
  BY StepInv DEF LedgerNext, ledgerVars
<1>2. CASE LedgerNext
  <2>1. /\ TypeOK /\ TypeOK' /\ LedgerType /\ LedgerType'
        /\ \A g \in Gauges : emitted'[g] = emitted[g] + Distributed(g)
        /\ \A g \in Gauges :
             total_distributed'[g] = total_distributed[g] => Distributed(g) = 0
        /\ \A g \in Gauges : emitted[g] \in Nat
    BY <1>1, <1>2, HistoryType DEF IInv, LedgerType
  <2>2. CASE \E g \in Gauges : CheckpointGauge(g)
    BY <1>1, <1>2, <2>1, <2>2, CheckpointSchedule
  <2>3. ASSUME NEW g \in Gauges, CreateGauge(g) PROVE OnSchedule'
    <3>1. /\ last_checkpoint_epoch' = [last_checkpoint_epoch EXCEPT ![g] = current_epoch]
          /\ total_distributed' = [total_distributed EXCEPT ![g] = 0]
          /\ pending_emissions' = [pending_emissions EXCEPT ![g] = 0]
          /\ UNCHANGED <<current_epoch, epoch_start_slot, epoch_emissions>>
      BY <2>3 DEF CreateGauge, configVars, epochVars
    <3>2. Distributed(g) = 0
      BY <2>1, <3>1 DEF Distributed, TypeOK
    <3>3. \A h \in Gauges \ {g} : Distributed(h) = 0
      BY <2>1, <3>1 DEF TypeOK
    <3>4. Epochs' = Epochs /\ epoch_emissions' <= Most
      BY <3>1 DEF Epochs, OnSchedule
    <3>5. ASSUME NEW h \in Gauges
          PROVE  emitted'[h] + pending_emissions'[h] + Behind(h)' * Most <= Epochs' * Most
      <4>1. emitted'[h] = emitted[h]
        BY <2>1, <3>2, <3>3
      <4>2. CASE h = g
        <5>1. Behind(h)' = 0 /\ pending_emissions'[h] = 0
          BY <2>1, <3>1, <4>2 DEF Behind, TypeOK
        <5>2. /\ Behind(h) * Most \in Nat /\ Epochs * Most \in Nat
              /\ emitted[h] \in Nat /\ pending_emissions[h] \in Nat /\ Most \in Nat
          BY ScheduleTypes, MostIsMost, MulDistributes
        <5>3. emitted[h] + pending_emissions[h] + Behind(h) * Most <= Epochs * Most
          BY DEF OnSchedule
        <5>4. Behind(h)' * Most = 0
          BY <5>1, <5>2
        <5>5. QED BY <3>4, <4>1, <5>1, <5>2, <5>3, <5>4
      <4>3. CASE h # g
        <5>1. Behind(h)' = Behind(h) /\ pending_emissions'[h] = pending_emissions[h]
          BY <2>1, <3>1, <4>3 DEF Behind, TypeOK
        <5>2. QED BY <3>4, <4>1, <5>1 DEF OnSchedule
      <4>4. QED BY <4>2, <4>3
    <3>6. QED BY <3>4, <3>5 DEF OnSchedule
  <2>4. CASE AccrualKept
    <3>1. /\ \A g \in Gauges : /\ emitted'[g] = emitted[g]
                               /\ pending_emissions'[g] = pending_emissions[g]
                               /\ Behind(g)' = Behind(g)
          /\ Epochs' = Epochs
      BY <2>1, <2>4 DEF AccrualKept, accrualVars, epochVars, Behind, Epochs
    <3>2. epoch_emissions' <= Most
      BY <2>4, MostIsMost DEF AccrualKept, OnSchedule
    <3>3. \A g \in Gauges :
            emitted[g] + pending_emissions[g] + Behind(g) * Most <= Epochs * Most
      BY DEF OnSchedule
    <3>4. QED BY <1>1, <2>1, <3>1, <3>2, <3>3 DEF OnSchedule
  <2>5. CASE ConfigReplaced
    <3>1. ASSUME NEW g \in Gauges
          PROVE  /\ emitted'[g] = emitted[g]
                 /\ pending_emissions'[g] = pending_emissions[g]
                 /\ Behind(g)' = 0
      BY <2>1, <2>5 DEF ConfigReplaced, accrualVars, Behind, TypeOK
    <3>2. Epochs' \in Nat /\ Epochs <= Epochs' /\ epoch_emissions' <= Most
      <4>1. epoch_start_slot \in Nat /\ slot \in Nat /\ epoch_start_slot <= slot
        BY <2>1 DEF TypeOK
      <4>2. Epochs' = slot \div SLOTS_PER_EPOCH
        BY <2>5 DEF ConfigReplaced, Epochs
      <4>3. QED BY <2>5, <4>1, <4>2, DivMono, DivBounds, TypeOfConstants, MostIsMost
                DEF ConfigReplaced, Epochs
    <3>3. ASSUME NEW g \in Gauges
          PROVE  emitted'[g] + pending_emissions'[g] + Behind(g)' * Most <= Epochs' * Most
      <4>1. /\ Behind(g) * Most \in Nat /\ Epochs * Most \in Nat /\ Epochs' * Most \in Nat
            /\ emitted[g] \in Nat /\ pending_emissions[g] \in Nat /\ Most \in Nat
            /\ Epochs \in Nat
        BY <3>2, ScheduleTypes, MostIsMost, MulDistributes
      <4>2. emitted[g] + pending_emissions[g] + Behind(g) * Most <= Epochs * Most
        BY DEF OnSchedule
      <4>3. Epochs * Most <= Epochs' * Most
        BY <3>2, <4>1, MulMono
      <4>4. Behind(g)' * Most = 0
        BY <3>1, <4>1
      <4>5. QED
        <5> DEFINE lag == Behind(g) * Most
                   budget == Epochs * Most
                   new_budget == Epochs' * Most
        <5>1. /\ lag \in Nat /\ budget \in Nat /\ new_budget \in Nat
              /\ emitted[g] + pending_emissions[g] + lag <= budget
              /\ budget <= new_budget
          BY <4>1, <4>2, <4>3
        <5> HIDE DEF lag, budget, new_budget
        <5>2. emitted[g] + pending_emissions[g] + 0 <= new_budget
          BY <4>1, <5>1
        <5>3. QED BY <3>1, <4>4, <5>2 DEF new_budget
    <3>4. QED BY <1>1, <2>1, <3>2, <3>3 DEF OnSchedule
  <2>6. QED BY <1>1, <1>2, <2>1, <2>2, <2>3, <2>4, <2>5, AccrualSteps DEF LedgerNext
<1>3. CASE UNCHANGED ledgerVars
  BY <1>1, <1>3 DEF ledgerVars, vars, configVars, epochVars, gaugeVars, accrualVars,
     LedgerType, OnSchedule, Behind, Epochs
<1>4. QED BY <1>2, <1>3

LEMMA ScheduleInductive == LedgerSpec => []ScheduleInv
  BY InitSchedule, StepSchedule, PTL DEF LedgerSpec

\* For every number of gauges, emissions and reconfigurations: what a gauge was
\* credited with fits the epochs of slots gone by.
THEOREM EmissionsOnSchedule == LedgerSpec => []NoFasterThanSchedule
<1>1. ScheduleInv => NoFasterThanSchedule
  <2> SUFFICES ASSUME ScheduleInv, NEW g \in Gauges
               PROVE  emitted[g] + pending_emissions[g]
                        <= Max(Emissions) * (slot \div SLOTS_PER_EPOCH)
    BY DEF NoFasterThanSchedule
  <2> DEFINE passed == slot \div SLOTS_PER_EPOCH
  <2>1. /\ Epochs \in Nat /\ Behind(g) \in Nat /\ emitted[g] \in Nat
        /\ pending_emissions[g] \in Nat /\ Most \in Nat
    BY ScheduleTypes, MostIsMost DEF ScheduleInv
  <2>2. emitted[g] + pending_emissions[g] + Behind(g) * Most <= Epochs * Most
    BY DEF ScheduleInv, OnSchedule
  <2>3. passed \in Nat /\ Epochs <= passed
    BY DivMono, DivBounds, TypeOfConstants DEF ScheduleInv, IInv, TypeOK, Epochs
  <2> HIDE DEF passed
  <2>4. /\ Epochs * Most <= passed * Most /\ Behind(g) * Most \in Nat
        /\ Epochs * Most \in Nat /\ passed * Most \in Nat
    BY <2>1, <2>3, MulMono, MulDistributes
  <2>5. emitted[g] + pending_emissions[g] <= passed * Most
    BY <2>1, <2>2, <2>4
  <2>6. passed * Most = Most * passed
    BY <2>1, <2>3
  <2>7. QED BY <2>5, <2>6 DEF passed, Most
<1>2. QED BY <1>1, ScheduleInductive, PTL

-----------------------------------------------------------------------------
(* RewardsWithinEmissions *)

\* What a stake is worth, in units of 1 / REWARD_SCALE.
Credit(u, g) ==
  pending_rewards[<<u, g>>] * REWARD_SCALE
    + (lp_amount[<<u, g>>] * reward_per_token[g] - reward_debt[<<u, g>>] * REWARD_SCALE)

CreditIn(g) == SumFunctionOnSet([u \in Users |-> Credit(u, g)], Users)
Credits == SumFunctionOnSet([g \in Gauges |-> CreditIn(g)], Gauges)

Solvent == Paid * REWARD_SCALE + Credits <= (Emitted + resizes) * REWARD_SCALE

\* The credit of a stake is not negative, and covers what the stake is owed.
LEMMA CreditType ==
  ASSUME IInv, NEW u \in Users, NEW g \in Gauges
  PROVE  /\ Credit(u, g) \in Nat
         /\ OwedTo(u, g) \in Nat
         /\ OwedTo(u, g) * REWARD_SCALE <= Credit(u, g)
<1> DEFINE p == pending_rewards[<<u, g>>]
           n == lp_amount[<<u, g>>] * reward_per_token[g]
           b == reward_debt[<<u, g>>]
<1>1. /\ p \in Nat /\ b \in Nat /\ lp_amount[<<u, g>>] \in Nat
      /\ reward_per_token[g] \in Nat
  BY DEF IInv, TypeOK
<1>2. n \in Nat
  BY <1>1, MulDistributes
<1>3. Credit(u, g) = p * REWARD_SCALE + (n - b * REWARD_SCALE)
  BY DEF Credit
<1>4. Unsettled(u, g) = n \div REWARD_SCALE - b
  BY DEF Unsettled, Accrued
<1>5. CASE gauge_open[g]
  <2>1. Unsettled(u, g) >= 0
    BY <1>5 DEF IInv, DebtWithinAccrued
  <2> HIDE DEF p, n, b
  <2>2. n \div REWARD_SCALE \in Nat /\ b <= n \div REWARD_SCALE
    BY <1>1, <1>2, <1>4, <2>1, DivBounds, TypeOfConstants
  <2>3. OwedTo(u, g) = p + (n \div REWARD_SCALE - b)
    BY <1>1, <1>4, <1>5, <2>1, <2>2 DEF OwedTo, Claimable, p
  <2>4. n - b * REWARD_SCALE \in Nat
    BY <1>1, <1>2, <2>2, RoundedCredit, TypeOfConstants
  <2>5. (p + (n \div REWARD_SCALE - b)) * REWARD_SCALE
          <= p * REWARD_SCALE + (n - b * REWARD_SCALE)
    BY <1>1, <1>2, <2>2, RoundedCredit, TypeOfConstants
  <2>6. p * REWARD_SCALE \in Nat
    BY <1>1, MulDistributes, TypeOfConstants
  <2>7. QED BY <1>1, <1>3, <2>2, <2>3, <2>4, <2>5, <2>6
<1>6. CASE ~gauge_open[g]
  <2>1. lp_amount[<<u, g>>] = 0 /\ b = 0
    BY <1>6 DEF IInv, ClosedIsEmpty
  <2>2. n = 0 /\ b * REWARD_SCALE = 0
    BY <1>1, <2>1, TypeOfConstants
  <2>3. OwedTo(u, g) = p
    BY <1>6 DEF OwedTo
  <2> HIDE DEF p, n, b
  <2>4. p * REWARD_SCALE \in Nat
    BY <1>1, MulDistributes, TypeOfConstants
  <2>5. QED BY <1>1, <1>3, <2>2, <2>3, <2>4
<1>7. QED BY <1>5, <1>6

LEMMA CreditsType ==
  ASSUME IInv
  PROVE  Credits \in Nat /\ \A g \in Gauges : CreditIn(g) \in Nat
<1>1. ASSUME NEW g \in Gauges PROVE CreditIn(g) \in Nat
  <2> DEFINE F == [u \in Users |-> Credit(u, g)]
  <2>1. \A u \in Users : F[u] \in Nat
    BY CreditType
  <2> HIDE DEF F
  <2>2. SumFunctionOnSet(F, Users) \in Nat
    BY <2>1, SumNat, TypeOfConstants
  <2>3. QED BY <2>2 DEF CreditIn, F
<1>2. Credits \in Nat
  <2> DEFINE F == [g \in Gauges |-> CreditIn(g)]
  <2>1. \A g \in Gauges : F[g] \in Nat
    BY <1>1
  <2> HIDE DEF F
  <2>2. SumFunctionOnSet(F, Gauges) \in Nat
    BY <2>1, SumNat, TypeOfConstants
  <2>3. QED BY <2>2 DEF Credits, F
<1>3. QED BY <1>1, <1>2

\* The same before and after a step.
CreditsNat ==
  /\ Credits \in Nat
  /\ \A g \in Gauges : CreditIn(g) \in Nat
  /\ \A u \in Users, g \in Gauges : Credit(u, g) \in Nat

LEMMA CreditsAreNat ==
  /\ IInv => CreditsNat
  /\ IInv' => CreditsNat'
<1>1. IInv => CreditsNat
  BY CreditType, CreditsType DEF CreditsNat
<1>2. QED BY <1>1, PTL

\* The credits of one gauge that change, change the total by as much.
LEMMA GaugeCreditsMoved ==
  ASSUME IInv, IInv', NEW g \in Gauges,
         \A h \in Gauges \ {g}, v \in Users : Credit(v, h)' = Credit(v, h)
  PROVE  Credits' = Credits - CreditIn(g) + CreditIn(g)'
<1> DEFINE F == [h \in Gauges |-> CreditIn(h)]
           G == [h \in Gauges |-> CreditIn(h)']
<1>1. ASSUME NEW h \in Gauges \ {g} PROVE CreditIn(h)' = CreditIn(h)
  <2>1. [v \in Users |-> Credit(v, h)'] = [v \in Users |-> Credit(v, h)]
    OBVIOUS
  <2>2. QED BY <2>1 DEF CreditIn
<1>2. \A h \in Gauges : CreditIn(h) \in Nat /\ CreditIn(h)' \in Nat
  BY CreditsAreNat DEF CreditsNat
<1>3. /\ F \in [Gauges -> Nat] /\ G \in [Gauges -> Nat]
      /\ \A h \in Gauges \ {g} : G[h] = F[h]
      /\ F[g] = CreditIn(g) /\ G[g] = CreditIn(g)'
  BY <1>1, <1>2
<1>4. Credits = SumFunctionOnSet(F, Gauges) /\ Credits' = SumFunctionOnSet(G, Gauges)
  BY DEF Credits
<1> HIDE DEF F, G
<1>5. SumFunctionOnSet(G, Gauges) = SumFunctionOnSet(F, Gauges) - F[g] + G[g]
  BY <1>3, TypeOfConstants, SumChange
<1>6. QED BY <1>3, <1>4, <1>5

\* ... and so does the credit of one stake.
LEMMA StakeCreditMoved ==
  ASSUME IInv, IInv', NEW u \in Users, NEW g \in Gauges,
         \A v \in Users, h \in Gauges : v # u \/ h # g => Credit(v, h)' = Credit(v, h)
  PROVE  Credits' = Credits - Credit(u, g) + Credit(u, g)'
<1> DEFINE F == [v \in Users |-> Credit(v, g)]
           G == [v \in Users |-> Credit(v, g)']
<1>1. \A v \in Users : Credit(v, g) \in Nat /\ Credit(v, g)' \in Nat
  BY CreditsAreNat DEF CreditsNat
<1>2. /\ F \in [Users -> Nat] /\ G \in [Users -> Nat]
      /\ \A v \in Users \ {u} : G[v] = F[v]
      /\ F[u] = Credit(u, g) /\ G[u] = Credit(u, g)'
  BY <1>1
<1>3. CreditIn(g) = SumFunctionOnSet(F, Users) /\ CreditIn(g)' = SumFunctionOnSet(G, Users)
  BY DEF CreditIn
<1> HIDE DEF F, G
<1>4. SumFunctionOnSet(G, Users) = SumFunctionOnSet(F, Users) - F[u] + G[u]
  BY <1>2, TypeOfConstants, SumChange
<1>5. CreditIn(g)' = CreditIn(g) - Credit(u, g) + Credit(u, g)'
  BY <1>2, <1>3, <1>4
<1>6. Credits' = Credits - CreditIn(g) + CreditIn(g)'
  <2>1. \A h \in Gauges \ {g}, v \in Users : Credit(v, h)' = Credit(v, h)
    OBVIOUS
  <2>2. QED BY <2>1, GaugeCreditsMoved
<1>7. QED BY <1>1, <1>5, <1>6, CreditsType

\* A checkpoint of a gauge raises the credits by what its index rose per LP token.
LEMMA CreditsRaised ==
  ASSUME IInv, IInv', NEW g \in Gauges, NEW d \in Nat,
         UNCHANGED <<lp_amount, reward_debt, pending_rewards>>,
         reward_per_token' = [reward_per_token EXCEPT ![g] = @ + d]
  PROVE  Credits' = Credits + LpIn(lp_amount, g) * d
<1>1. /\ \A h \in Gauges \ {g} : reward_per_token'[h] = reward_per_token[h]
      /\ reward_per_token'[g] = reward_per_token[g] + d
      /\ reward_per_token[g] \in Nat
  BY DEF IInv, TypeOK
<1>2. \A h \in Gauges \ {g}, v \in Users : Credit(v, h)' = Credit(v, h)
  BY <1>1 DEF Credit
<1> DEFINE F == [v \in Users |-> Credit(v, g)]
           G == [v \in Users |-> Credit(v, g)']
           L == [v \in Users |-> lp_amount[<<v, g>>]]
           R == [v \in Users |-> lp_amount[<<v, g>>] * d]
<1>3. ASSUME NEW v \in Users
      PROVE  /\ Credit(v, g) \in Int
             /\ lp_amount[<<v, g>>] \in Int /\ lp_amount[<<v, g>>] * d \in Int
             /\ Credit(v, g)' = Credit(v, g) + lp_amount[<<v, g>>] * d
  <2>1. /\ lp_amount[<<v, g>>] \in Nat /\ reward_debt[<<v, g>>] \in Nat
        /\ pending_rewards[<<v, g>>] \in Nat
    BY DEF IInv, TypeOK
  <2> DEFINE a == lp_amount[<<v, g>>]
             rest == pending_rewards[<<v, g>>] * REWARD_SCALE
             debt == reward_debt[<<v, g>>] * REWARD_SCALE
  <2>2. /\ Credit(v, g) = rest + (a * reward_per_token[g] - debt)
        /\ Credit(v, g)' = rest + (a * (reward_per_token[g] + d) - debt)
    BY <1>1 DEF Credit
  <2>3. a \in Nat /\ rest \in Nat /\ debt \in Nat
    BY <2>1, MulDistributes, TypeOfConstants
  <2> HIDE DEF a, rest, debt
  <2>4. a * (reward_per_token[g] + d) = a * reward_per_token[g] + a * d
    BY <1>1, <2>3
  <2>5. a * reward_per_token[g] \in Nat /\ a * d \in Nat
    BY <1>1, <2>3, MulDistributes
  <2>6. QED BY <2>2, <2>3, <2>4, <2>5 DEF a
<1>4. /\ \A v \in Users : F[v] \in Int /\ R[v] \in Int /\ L[v] \in Int
      /\ \A v \in Users : G[v] = F[v] + R[v] /\ R[v] = L[v] * d
  BY <1>3
<1>5. /\ CreditIn(g) = SumFunctionOnSet(F, Users) /\ CreditIn(g)' = SumFunctionOnSet(G, Users)
      /\ LpIn(lp_amount, g) = SumFunctionOnSet(L, Users)
  BY DEF CreditIn, LpIn
<1> HIDE DEF F, G, L, R
<1>6. SumFunctionOnSet(G, Users) = SumFunctionOnSet(F, Users) + SumFunctionOnSet(R, Users)
  BY <1>4, SumPlus, TypeOfConstants
<1>7. SumFunctionOnSet(R, Users) = SumFunctionOnSet(L, Users) * d
  BY <1>4, SumScale, TypeOfConstants
<1>8. SumFunctionOnSet(R, Users) \in Int
  BY <1>4, SumInt, TypeOfConstants
<1>9. CreditIn(g)' = CreditIn(g) + SumFunctionOnSet(R, Users)
  BY <1>5, <1>6
<1>10. Credits' = Credits - CreditIn(g) + CreditIn(g)'
  BY <1>2, GaugeCreditsMoved
<1>11. Credits' = Credits + SumFunctionOnSet(R, Users)
  BY <1>8, <1>9, <1>10, CreditsType
<1>12. QED BY <1>5, <1>7, <1>11

\* A stake that is restarted with lp LP tokens and pending RISE.
StakeRestarted(u, g, lp, pending) ==
  /\ gauge_open[g]
  /\ lp_amount' = [lp_amount EXCEPT ![<<u, g>>] = lp]
  /\ reward_debt' = [reward_debt EXCEPT ![<<u, g>>] = Accrued(lp, g)]
  /\ pending_rewards' = [pending_rewards EXCEPT ![<<u, g>>] = pending]
  /\ UNCHANGED <<gauge_open, reward_per_token>>

\* It leaves every other stake alone.
LEMMA OthersUntouched ==
  ASSUME IInv, NEW u \in Users, NEW g \in Gauges, NEW lp, NEW pending,
         StakeRestarted(u, g, lp, pending)
  PROVE  \A v \in Users, h \in Gauges : v # u \/ h # g =>
           Credit(v, h)' = Credit(v, h) /\ Claimable(v, h)' = Claimable(v, h)
<1>1. /\ lp_amount \in [Users \X Gauges -> Nat]
      /\ reward_debt \in [Users \X Gauges -> Nat]
      /\ pending_rewards \in [Users \X Gauges -> Nat]
      /\ reward_per_token' = reward_per_token
  BY DEF IInv, TypeOK, StakeRestarted
<1>2. ASSUME NEW v \in Users, NEW h \in Gauges, v # u \/ h # g
      PROVE  Credit(v, h)' = Credit(v, h) /\ Claimable(v, h)' = Claimable(v, h)
  <2>1. /\ lp_amount'[<<v, h>>] = lp_amount[<<v, h>>]
        /\ reward_debt'[<<v, h>>] = reward_debt[<<v, h>>]
        /\ pending_rewards'[<<v, h>>] = pending_rewards[<<v, h>>]
    BY <1>1, <1>2 DEF StakeRestarted
  <2>2. QED BY <1>1, <2>1 DEF Credit, Claimable, Unsettled, Accrued
<1>3. QED BY <1>2

\* So the credits change by the credit of that stake.
LEMMA RestartedCredits ==
  ASSUME IInv, IInv', NEW u \in Users, NEW g \in Gauges, NEW lp, NEW pending,
         StakeRestarted(u, g, lp, pending)
  PROVE  Credits' = Credits - Credit(u, g) + Credit(u, g)'
<1>1. \A v \in Users, h \in Gauges : v # u \/ h # g => Credit(v, h)' = Credit(v, h)
  BY OthersUntouched
<1>2. QED BY <1>1, StakeCreditMoved

LEMMA RestartedStake ==
  ASSUME IInv, NEW u \in Users, NEW g \in Gauges, NEW lp \in Nat, NEW pending \in Nat,
         StakeRestarted(u, g, lp, pending)
  PROVE  /\ Claimable(u, g)' = pending
         /\ Credit(u, g)' = pending * REWARD_SCALE
              + (lp * reward_per_token[g] - Accrued(lp, g) * REWARD_SCALE)
<1> USE DEF StakeRestarted
<1>1. /\ lp_amount \in [Users \X Gauges -> Nat]
      /\ reward_debt \in [Users \X Gauges -> Nat]
      /\ pending_rewards \in [Users \X Gauges -> Nat]
  BY DEF IInv, TypeOK
<1>2. Accrued(lp, g) \in Nat
  BY StakeType DEF IInv
<1>3. /\ lp_amount'[<<u, g>>] = lp
      /\ reward_debt'[<<u, g>>] = Accrued(lp, g)
      /\ pending_rewards'[<<u, g>>] = pending
      /\ reward_per_token' = reward_per_token
  BY <1>1
<1>4. Claimable(u, g)' = pending
  <2>1. Accrued(lp, g)' = Accrued(lp, g)
    BY <1>3 DEF Accrued
  <2>2. Unsettled(u, g)' = Accrued(lp, g) - Accrued(lp, g)
    BY <1>3, <2>1 DEF Unsettled, Accrued
  <2>3. Unsettled(u, g)' = 0
    BY <1>2, <2>2
  <2>4. QED BY <1>3, <2>3 DEF Claimable
<1>5. Credit(u, g)' = pending * REWARD_SCALE
        + (lp * reward_per_token[g] - Accrued(lp, g) * REWARD_SCALE)
  BY <1>3 DEF Credit
<1>6. QED BY <1>4, <1>5

\* What an open stake can claim, in the terms of RoundedCredit.
LEMMA OpenStake ==
  ASSUME IInv, NEW u \in Users, NEW g \in Gauges, gauge_open[g]
  PROVE  /\ lp_amount[<<u, g>>] * reward_per_token[g] \in Nat
         /\ pending_rewards[<<u, g>>] \in Nat /\ reward_debt[<<u, g>>] \in Nat
         /\ reward_debt[<<u, g>>] <= Accrued(lp_amount[<<u, g>>], g)
         /\ Claimable(u, g) = pending_rewards[<<u, g>>] + Unsettled(u, g)
         /\ Claimable(u, g) \in Nat
         /\ Claimable(u, g) * REWARD_SCALE <= Credit(u, g)
<1>1. Unsettled(u, g) >= 0
  BY DEF IInv, DebtWithinAccrued
<1>2. /\ pending_rewards[<<u, g>>] \in Nat /\ reward_debt[<<u, g>>] \in Nat
      /\ lp_amount[<<u, g>>] \in Nat /\ reward_per_token[g] \in Nat
      /\ Accrued(lp_amount[<<u, g>>], g) \in Nat
  BY StakeType DEF IInv, TypeOK
<1>3. lp_amount[<<u, g>>] * reward_per_token[g] \in Nat
  BY <1>2, MulDistributes
<1>4. Claimable(u, g) = pending_rewards[<<u, g>>] + Unsettled(u, g) /\ Claimable(u, g) \in Nat
  BY <1>1, <1>2 DEF Claimable, Unsettled
<1>5. Claimable(u, g) * REWARD_SCALE <= Credit(u, g)
  BY CreditType DEF OwedTo
<1>6. QED BY <1>1, <1>2, <1>3, <1>4, <1>5 DEF Unsettled

\* Settled into pending_rewards and restarted at another size, a stake can claim
\* what it could, and gains less than a unit of RISE of credit.
LEMMA SettledStake ==
  ASSUME IInv, NEW u \in Users, NEW g \in Gauges, NEW lp \in Nat,
         gauge_open[g], Settle(u, g), SetLp(u, g, lp), UNCHANGED <<gauge_open,
                                                                   reward_per_token>>
  PROVE  /\ StakeRestarted(u, g, lp, Claimable(u, g))
         /\ Claimable(u, g)' = Claimable(u, g)
         /\ Credit(u, g)' <= Credit(u, g) + REWARD_SCALE
<1> DEFINE s == REWARD_SCALE
           n == lp_amount[<<u, g>>] * reward_per_token[g]
           m == lp * reward_per_token[g]
           p == pending_rewards[<<u, g>>]
           b == reward_debt[<<u, g>>]
<1>1. /\ n \in Nat /\ p \in Nat /\ b \in Nat /\ b <= n \div s
      /\ Claimable(u, g) = p + (n \div s - b) /\ Claimable(u, g) \in Nat
      /\ Claimable(u, g) = pending_rewards[<<u, g>>] + Unsettled(u, g)
  BY OpenStake DEF Accrued, Unsettled
<1>2. m \in Nat
  BY MulDistributes DEF IInv, TypeOK
<1>3. StakeRestarted(u, g, lp, Claimable(u, g))
  BY <1>1 DEF Settle, SetLp, StakeRestarted
<1>4. /\ Claimable(u, g)' = Claimable(u, g)
      /\ Credit(u, g)' = Claimable(u, g) * s + (m - (m \div s) * s)
  <2>1. Accrued(lp, g) = m \div s
    BY DEF Accrued
  <2>2. QED BY <1>1, <1>3, <2>1, RestartedStake
<1>5. Credit(u, g) = p * s + (n - b * s)
  BY DEF Credit
<1> HIDE DEF n, m, p, b, s
<1>6. (p + (n \div s - b)) * s + (m - (m \div s) * s) <= p * s + (n - b * s) + s
  BY <1>1, <1>2, RoundedCredit, TypeOfConstants DEF s
<1>7. Credit(u, g)' <= Credit(u, g) + s
  BY <1>1, <1>4, <1>5, <1>6
<1>8. QED BY <1>3, <1>4, <1>7 DEF s

\* A claim takes out of the credit what it pays.
LEMMA ClaimedStake ==
  ASSUME IInv, NEW u \in Users, NEW g \in Gauges, ClaimRewards(u, g)
  PROVE  /\ StakeRestarted(u, g, lp_amount[<<u, g>>], 0)
         /\ Claimable(u, g)' = 0
         /\ Credit(u, g)' + Claimable(u, g) * REWARD_SCALE = Credit(u, g)
<1> DEFINE s == REWARD_SCALE
           lp == lp_amount[<<u, g>>]
           n == lp * reward_per_token[g]
           p == pending_rewards[<<u, g>>]
           b == reward_debt[<<u, g>>]
<1>1. gauge_open[g] /\ lp \in Nat
  BY DEF ClaimRewards, IInv, TypeOK
<1>2. /\ n \in Nat /\ p \in Nat /\ b \in Nat /\ b <= n \div s
      /\ Claimable(u, g) = p + (n \div s - b) /\ Claimable(u, g) \in Nat
  BY <1>1, OpenStake DEF Accrued, Unsettled
<1>3. StakeRestarted(u, g, lp, 0)
  BY <1>1 DEF ClaimRewards, SetLp, StakeRestarted, gaugeVars, accrualVars
<1>4. Accrued(lp, g) = n \div s
  BY DEF Accrued
<1>5. Credit(u, g) = p * s + (n - b * s)
  BY DEF Credit
<1>6. Claimable(u, g)' = 0 /\ Credit(u, g)' = 0 * s + (n - (n \div s) * s)
  <2> HIDE DEF lp
  <2>1. 0 \in Nat
    OBVIOUS
  <2>2. QED BY <1>1, <1>3, <1>4, <2>1, RestartedStake
<1> HIDE DEF n, p, b, s
<1>7. /\ (p + (n \div s - b)) * s + (n - (n \div s) * s) = p * s + (n - b * s)
      /\ n - (n \div s) * s \in Nat
  BY <1>2, RoundedCredit, TypeOfConstants DEF s
<1>8. 0 * s = 0 /\ (p + (n \div s - b)) * s \in Nat
  <2>1. s \in Nat /\ p + (n \div s - b) \in Nat
    BY <1>2, TypeOfConstants DEF s
  <2>2. QED BY <2>1, MulDistributes
<1>9. Credit(u, g)' + Claimable(u, g) * s = Credit(u, g)
  <2> DEFINE x == (p + (n \div s - b)) * s
             r == n - (n \div s) * s
  <2>1. x \in Nat /\ r \in Nat /\ x + r = Credit(u, g)
    BY <1>5, <1>7, <1>8
  <2>2. Claimable(u, g) * s = x /\ Credit(u, g)' = 0 + r
    BY <1>2, <1>6, <1>8
  <2> HIDE DEF x, r
  <2>3. QED BY <2>1, <2>2
<1>10. QED BY <1>3, <1>6, <1>9 DEF s

\* A forced withdrawal leaves no credit and nothing to claim.
LEMMA ForcedStake ==
  ASSUME IInv, NEW u \in Users, NEW g \in Gauges, ForceWithdrawLp(u, g)
  PROVE  /\ StakeRestarted(u, g, 0, 0)
         /\ Claimable(u, g)' = 0
         /\ Credit(u, g)' = 0
<1>1. Accrued(0, g) = 0 /\ reward_per_token[g] \in Nat
  BY StakeType DEF IInv, TypeOK
<1>2. StakeRestarted(u, g, 0, 0)
  BY <1>1 DEF ForceWithdrawLp, CloseStake, StakeRestarted, accrualVars
<1>3. /\ Claimable(u, g)' = 0
      /\ Credit(u, g)' = 0 * REWARD_SCALE + (0 * reward_per_token[g] - 0 * REWARD_SCALE)
  <2>1. 0 \in Nat
    OBVIOUS
  <2>2. /\ Claimable(u, g)' = 0
        /\ Credit(u, g)' = 0 * REWARD_SCALE
             + (0 * reward_per_token[g] - Accrued(0, g) * REWARD_SCALE)
    BY <1>2, <2>1, RestartedStake
  <2>3. QED BY <1>1, <2>2
<1>4. 0 * REWARD_SCALE = 0 /\ 0 * reward_per_token[g] = 0
  BY <1>1, TypeOfConstants
<1>5. QED BY <1>2, <1>3, <1>4

TotalsAreNat == Paid \in Nat /\ Emitted \in Nat /\ resizes \in Nat /\ Credits \in Nat

LEMMA LedgerTotals ==
  /\ IInv /\ LedgerType => TotalsAreNat
  /\ IInv' /\ LedgerType' => TotalsAreNat'
<1>1. ASSUME IInv, LedgerType PROVE TotalsAreNat
  <2>1. \A u \in Users : rise[u] \in Nat
    BY <1>1 DEF IInv, TypeOK
  <2>2. \A g \in Gauges : emitted[g] \in Nat
    BY <1>1 DEF LedgerType
  <2>3. QED BY <1>1, <2>1, <2>2, SumNat, CreditsType, TypeOfConstants
            DEF TotalsAreNat, Paid, Emitted, LedgerType
<1>2. IInv /\ LedgerType => TotalsAreNat
  BY <1>1
<1>3. QED BY <1>2, PTL

LEMMA PaidMoved ==
  ASSUME IInv, NEW u \in Users, NEW a \in Nat, rise' = [rise EXCEPT ![u] = @ + a]
  PROVE  Paid' = Paid + a
<1>1. /\ rise \in [Users -> Nat] /\ rise' \in [Users -> Nat]
      /\ \A v \in Users \ {u} : rise'[v] = rise[v]
      /\ rise'[u] = rise[u] + a /\ rise[u] \in Nat
  BY DEF IInv, TypeOK
<1>2. /\ SumFunctionOnSet(rise', Users)
           = SumFunctionOnSet(rise, Users) - rise[u] + rise'[u]
      /\ SumFunctionOnSet(rise, Users) \in Nat
  BY ONLY <1>1, SumChange, TypeOfConstants
<1>3. QED BY <1>1, <1>2 DEF Paid

\* Emissions grow by what the one gauge of a checkpoint was credited.
LEMMA EmittedMoved ==
  ASSUME LedgerType, LedgerType', NEW g \in Gauges, NEW d \in Nat,
         \A h \in Gauges \ {g} : emitted'[h] = emitted[h],
         emitted'[g] = emitted[g] + d
  PROVE  Emitted' = Emitted + d
<1>1. emitted \in [Gauges -> Nat] /\ emitted' \in [Gauges -> Nat]
  BY DEF LedgerType
<1>2. /\ SumFunctionOnSet(emitted', Gauges)
           = SumFunctionOnSet(emitted, Gauges) - emitted[g] + emitted'[g]
      /\ SumFunctionOnSet(emitted, Gauges) \in Nat /\ emitted[g] \in Nat
  BY <1>1, SumChange, TypeOfConstants
<1>3. QED BY <1>2 DEF Emitted

LEMMA EmittedKept ==
  ASSUME LedgerType, LedgerType', \A h \in Gauges : emitted'[h] = emitted[h]
  PROVE  Emitted' = Emitted
<1>1. emitted' = emitted
  BY DEF LedgerType
<1>2. QED BY <1>1 DEF Emitted

SolventInv == ScheduleInv /\ Solvent

\* What a step may do to the books: pay a out of the credits, and round the
\* credits up by less than a unit of RISE when a stake changes.
LEMMA BooksBalance ==
  ASSUME SolventInv, IInv', LedgerType', NEW a \in Nat, NEW k \in Nat,
         Paid' = Paid + a,
         Credits' + a * REWARD_SCALE <= Credits + k * REWARD_SCALE,
         Emitted + resizes + k <= Emitted' + resizes'
  PROVE  Solvent'
<1>1. Paid \in Nat /\ Emitted \in Nat /\ resizes \in Nat /\ Credits \in Nat
  BY LedgerTotals DEF SolventInv, ScheduleInv, TotalsAreNat
<1>2. Paid' \in Nat /\ Emitted' \in Nat /\ resizes' \in Nat /\ Credits' \in Nat
  <2>1. TotalsAreNat'
    BY LedgerTotals
  <2>2. QED BY <2>1 DEF TotalsAreNat
<1>3. ASSUME NEW new_paid \in Nat, NEW new_c \in Nat, NEW e \in Nat, NEW r \in Nat,
             new_paid = Paid + a,
             new_c + a * REWARD_SCALE <= Credits + k * REWARD_SCALE,
             Emitted + resizes + k <= e + r
      PROVE  new_paid * REWARD_SCALE + new_c <= (e + r) * REWARD_SCALE
  <2>1. /\ Emitted + resizes \in Nat /\ e + r \in Nat
        /\ (Emitted + resizes) + k <= e + r
    BY <1>1, <1>3
  <2>2. Paid * REWARD_SCALE + Credits <= (Emitted + resizes) * REWARD_SCALE
    BY DEF SolventInv, Solvent
  <2>3. QED BY <1>1, <1>3, <2>1, <2>2, BudgetStep, TypeOfConstants
<1>4. QED BY <1>2, <1>3 DEF Solvent

\* Every other step keeps the credit and the claim of every stake: a gauge is
\* created or closed only while it is empty.
NothingDistributed ==
  \A g \in Gauges : total_distributed'[g] \in {total_distributed[g], 0}

StakesKeptWhole ==
  /\ UNCHANGED <<rewards_vault, rise>>
  /\ NothingDistributed
  /\ \A u \in Users, g \in Gauges :
       Credit(u, g)' = Credit(u, g) /\ Claimable(u, g)' = Claimable(u, g)

StakeKinds ==
  \/ \E g \in Gauges : CheckpointGauge(g)
  \/ \E u \in Users, g \in Gauges :
       \/ \E amount \in Amounts : DepositLp(u, g, amount) \/ WithdrawLp(u, g, amount)
       \/ ClaimRewards(u, g)
       \/ ForceWithdrawLp(u, g)
  \/ StakesKeptWhole

LEMMA StakeSteps ==
  ASSUME IInv, [Next]_vars
  PROVE  StakeKinds \/ UNCHANGED vars
<1> USE DEF configVars, epochVars, gaugeVars, accrualVars, stakeVars, lpVars, riseVars
<1>1. ASSUME UNCHANGED <<lp_amount, reward_debt, pending_rewards, reward_per_token>>,
             UNCHANGED <<rewards_vault, rise, total_distributed>>
      PROVE  StakesKeptWhole
  BY <1>1 DEF StakesKeptWhole, NothingDistributed, Credit, Claimable, Unsettled, Accrued
<1>2. ASSUME NEW g \in Gauges, CreateGauge(g) PROVE StakesKeptWhole
  <2>1. /\ UNCHANGED <<lp_amount, reward_debt, pending_rewards, rewards_vault, rise>>
        /\ reward_per_token' = [reward_per_token EXCEPT ![g] = 0]
        /\ total_distributed' = [total_distributed EXCEPT ![g] = 0]
        /\ ~gauge_open[g]
    BY <1>2 DEF CreateGauge
  <2>2. /\ \A h \in Gauges \ {g} : reward_per_token'[h] = reward_per_token[h]
        /\ reward_per_token'[g] = 0 /\ reward_per_token[g] \in Nat
    BY <2>1 DEF IInv, TypeOK
  <2>3. ASSUME NEW u \in Users
        PROVE  Credit(u, g)' = Credit(u, g) /\ Claimable(u, g)' = Claimable(u, g)
    <3>1. lp_amount[<<u, g>>] = 0 /\ lp_amount'[<<u, g>>] = 0
      BY <2>1 DEF IInv, ClosedIsEmpty
    <3>2. 0 * reward_per_token[g] = 0 * reward_per_token'[g]
      BY <2>2
    <3>3. QED BY <2>1, <3>1, <3>2 DEF Credit, Claimable, Unsettled, Accrued
  <2>4. ASSUME NEW u \in Users, NEW h \in Gauges \ {g}
        PROVE  Credit(u, h)' = Credit(u, h) /\ Claimable(u, h)' = Claimable(u, h)
    BY <2>1, <2>2 DEF Credit, Claimable, Unsettled, Accrued
  <2>5. NothingDistributed
    BY <2>1 DEF NothingDistributed, IInv, TypeOK
  <2>6. QED BY <2>1, <2>3, <2>4, <2>5 DEF StakesKeptWhole
<1>3. CASE Depositor
  BY <1>3 DEF Depositor, StakeKinds
<1>4. CASE \E g \in Gauges : CheckpointGauge(g)
  BY <1>4 DEF StakeKinds
<1>5. CASE Authority
  <2>1. CASE \/ CloseRewardsConfig
             \/ \E emissions \in Emissions :
                  InitializeRewards(emissions) \/ SetEpochEmissions(emissions)
             \/ \E g \in Gauges :
                  CloseGauge(g) \/ \E weight \in Weights : SetGaugeWeight(g, weight)
    BY <1>1, <2>1 DEF CloseRewardsConfig, InitializeRewards, SetEpochEmissions,
       CloseGauge,
                      SetGaugeWeight, StakeKinds
  <2>2. CASE \E g \in Gauges : CreateGauge(g)
    BY <1>2, <2>2 DEF StakeKinds
  <2>3. CASE \E u \in Users, g \in Gauges : ForceWithdrawLp(u, g)
    BY <2>3 DEF StakeKinds
  <2>4. QED BY <1>5, <2>1, <2>2, <2>3 DEF Authority
<1>6. CASE NextSlot
  BY <1>1, <1>6 DEF NextSlot, StakeKinds
<1>7. QED BY <1>3, <1>4, <1>5, <1>6 DEF Next

\* Nothing is emitted, and nothing paid but by a claim or a forced withdrawal.
LEMMA EmittedOutsideCheckpoints ==
  ASSUME SolventInv, LedgerNext, IInv', NothingDistributed
  PROVE  LedgerType' /\ Emitted' = Emitted /\ resizes <= resizes'
<1>1. /\ TypeOK /\ TypeOK' /\ LedgerType
  BY DEF SolventInv, ScheduleInv, IInv
<1>2. /\ LedgerType' /\ resizes <= resizes'
      /\ \A g \in Gauges : emitted'[g] = emitted[g] + Distributed(g) /\ emitted[g] \in Nat
  BY <1>1, HistoryType DEF LedgerType
<1>3. ASSUME NEW g \in Gauges PROVE Distributed(g) = 0
  <2>1. total_distributed[g] \in Nat /\ total_distributed'[g] \in {total_distributed[g], 0}
    BY <1>1 DEF NothingDistributed, TypeOK
  <2>2. QED BY <2>1 DEF Distributed
<1>4. QED BY <1>1, <1>2, <1>3, EmittedKept

\* An instruction that resizes a stake is counted.
LEMMA ResizeCounted ==
  ASSUME SolventInv, LedgerNext, lp_amount' # lp_amount
  PROVE  resizes' = resizes + 1
  BY DEF LedgerNext

LEMMA DepositSolvent ==
  ASSUME SolventInv, LedgerNext, IInv', NEW u \in Users, NEW g \in Gauges, NEW lp \in Nat,
         lp # lp_amount[<<u, g>>],
         gauge_open[g], Settle(u, g), SetLp(u, g, lp),
         UNCHANGED <<gauge_open, accrualVars, rise>>
  PROVE  Solvent'
<1>1. IInv /\ UNCHANGED reward_per_token /\ NothingDistributed
  BY DEF SolventInv, ScheduleInv, accrualVars, NothingDistributed
<1>2. /\ StakeRestarted(u, g, lp, Claimable(u, g)) /\ Claimable(u, g) \in Nat
      /\ Credit(u, g)' <= Credit(u, g) + REWARD_SCALE
  BY <1>1, SettledStake, OpenStake
<1>3. Credits' = Credits - Credit(u, g) + Credit(u, g)'
  BY <1>1, <1>2, RestartedCredits
<1>4. resizes' = resizes + 1
  <2>1. lp_amount'[<<u, g>>] = lp
    BY <1>1 DEF SetLp, IInv, TypeOK
  <2>2. QED BY <2>1, ResizeCounted
<1>5. LedgerType' /\ Emitted' = Emitted /\ Paid' = Paid
  BY <1>1, EmittedOutsideCheckpoints DEF Paid
<1>6. TotalsAreNat /\ Credit(u, g) \in Nat /\ Credit(u, g)' \in Nat
  BY <1>1, LedgerTotals, CreditsAreNat DEF CreditsNat, SolventInv, ScheduleInv
<1>7. Credits' + 0 * REWARD_SCALE <= Credits + 1 * REWARD_SCALE
  <2>1. ASSUME NEW c \in Nat, c <= Credit(u, g) + REWARD_SCALE
        PROVE  (Credits - Credit(u, g) + c) + 0 * REWARD_SCALE <= Credits + 1 * REWARD_SCALE
    BY <1>6, <2>1, TypeOfConstants DEF TotalsAreNat
  <2>2. QED BY <1>2, <1>3, <1>6, <2>1
<1>8. Paid' = Paid + 0 /\ Emitted + resizes + 1 <= Emitted' + resizes'
  BY <1>4, <1>5, <1>6 DEF TotalsAreNat
<1>9. 0 \in Nat /\ 1 \in Nat
  OBVIOUS
<1>10. QED BY <1>5, <1>7, <1>8, <1>9, BooksBalance

LEMMA ClaimSolvent ==
  ASSUME SolventInv, LedgerNext, IInv', NEW u \in Users, NEW g \in Gauges, ClaimRewards(u, g)
  PROVE  Solvent'
<1>1. IInv /\ gauge_open[g] /\ NothingDistributed
  BY DEF SolventInv, ScheduleInv, ClaimRewards, gaugeVars, accrualVars, NothingDistributed
<1>2. /\ StakeRestarted(u, g, lp_amount[<<u, g>>], 0) /\ lp_amount[<<u, g>>] \in Nat
      /\ Claimable(u, g) \in Nat
      /\ Credit(u, g)' + Claimable(u, g) * REWARD_SCALE = Credit(u, g)
  BY <1>1, ClaimedStake, OpenStake DEF IInv, TypeOK
<1>3. Credits' = Credits - Credit(u, g) + Credit(u, g)'
  BY <1>1, <1>2, RestartedCredits
<1>4. Paid' = Paid + Claimable(u, g)
  BY <1>1, <1>2, PaidMoved DEF ClaimRewards, PayRise
<1>5. LedgerType' /\ Emitted' = Emitted /\ resizes <= resizes'
  BY <1>1, EmittedOutsideCheckpoints
<1>6. /\ TotalsAreNat /\ TotalsAreNat' /\ Credit(u, g) \in Nat /\ Credit(u, g)' \in Nat
      /\ Claimable(u, g) * REWARD_SCALE \in Nat
  BY <1>1, <1>2, <1>5, LedgerTotals, CreditsAreNat, MulDistributes, TypeOfConstants
     DEF CreditsNat, SolventInv, ScheduleInv
<1>7. Credits' + Claimable(u, g) * REWARD_SCALE <= Credits + 0 * REWARD_SCALE
  <2>1. ASSUME NEW c \in Nat, NEW x \in Nat, c + x = Credit(u, g)
        PROVE  (Credits - Credit(u, g) + c) + x <= Credits + 0
    BY <1>6, <2>1 DEF TotalsAreNat
  <2>2. 0 * REWARD_SCALE = 0
    BY TypeOfConstants
  <2>3. QED BY <1>2, <1>3, <1>6, <2>1, <2>2
<1>8. 0 \in Nat /\ Emitted + resizes + 0 <= Emitted' + resizes'
  <2>1. ASSUME NEW r \in Nat, resizes <= r PROVE Emitted + resizes + 0 <= Emitted + r
    BY <1>6, <2>1 DEF TotalsAreNat
  <2>2. resizes' \in Nat
    BY <1>5 DEF LedgerType
  <2>3. QED BY <1>5, <2>1, <2>2
<1>9. QED BY <1>2, <1>4, <1>5, <1>7, <1>8, BooksBalance

LEMMA ForceWithdrawSolvent ==
  ASSUME SolventInv, LedgerNext, IInv', NEW u \in Users, NEW g \in Gauges,
         ForceWithdrawLp(u, g)
  PROVE  Solvent'
<1> DEFINE a == IF Claimable(u, g) <= rewards_vault THEN Claimable(u, g) ELSE rewards_vault
<1>1. IInv /\ gauge_open[g] /\ NothingDistributed
  BY DEF SolventInv, ScheduleInv, ForceWithdrawLp, accrualVars, NothingDistributed
<1>2. /\ StakeRestarted(u, g, 0, 0) /\ Credit(u, g)' = 0
      /\ Claimable(u, g) \in Nat /\ Claimable(u, g) * REWARD_SCALE <= Credit(u, g)
  BY <1>1, ForcedStake, OpenStake
<1>3. Credits' = Credits - Credit(u, g) + Credit(u, g)'
  BY <1>1, <1>2, RestartedCredits
<1>4. a \in Nat /\ a <= Claimable(u, g)
  BY <1>1, <1>2 DEF IInv, TypeOK
<1>5. Paid' = Paid + a
  <2>1. rise' = [rise EXCEPT ![u] = @ + a]
    BY DEF ForceWithdrawLp, PayRise
  <2> HIDE DEF a
  <2>2. IInv /\ a \in Nat
    BY <1>1, <1>4
  <2>3. QED BY <2>1, <2>2, PaidMoved
<1> HIDE DEF a
<1>6. LedgerType' /\ Emitted' = Emitted /\ resizes <= resizes'
  BY <1>1, EmittedOutsideCheckpoints
<1>7. /\ TotalsAreNat /\ Credit(u, g) \in Nat
      /\ a * REWARD_SCALE \in Nat /\ a * REWARD_SCALE <= Credit(u, g)
  <2>1. TotalsAreNat /\ Credit(u, g) \in Nat
    BY <1>1, LedgerTotals, CreditsAreNat DEF CreditsNat, SolventInv, ScheduleInv
  <2>2. /\ a * REWARD_SCALE \in Nat /\ Claimable(u, g) * REWARD_SCALE \in Nat
        /\ a * REWARD_SCALE <= Claimable(u, g) * REWARD_SCALE
    BY <1>2, <1>4, MulDistributes, MulMono, TypeOfConstants
  <2>3. QED BY <1>2, <2>1, <2>2
<1>8. Credits' + a * REWARD_SCALE <= Credits + 0 * REWARD_SCALE
  <2>1. ASSUME NEW x \in Nat, x <= Credit(u, g)
        PROVE  (Credits - Credit(u, g) + 0) + x <= Credits + 0
    BY <1>7, <2>1 DEF TotalsAreNat
  <2>2. 0 * REWARD_SCALE = 0
    BY TypeOfConstants
  <2>3. QED BY <1>2, <1>3, <1>7, <2>1, <2>2
<1>9. 0 \in Nat /\ Emitted + resizes + 0 <= Emitted' + resizes'
  <2>1. ASSUME NEW r \in Nat, resizes <= r PROVE Emitted + resizes + 0 <= Emitted + r
    BY <1>7, <2>1 DEF TotalsAreNat
  <2>2. resizes' \in Nat
    BY <1>6 DEF LedgerType
  <2>3. QED BY <1>6, <2>1, <2>2
<1>10. QED BY <1>4, <1>5, <1>6, <1>8, <1>9, BooksBalance

\* Credits that all stay add up to what they did.
LEMMA CreditsKept ==
  ASSUME \A u \in Users, g \in Gauges : Credit(u, g)' = Credit(u, g)
  PROVE  Credits' = Credits
<1>1. ASSUME NEW g \in Gauges PROVE CreditIn(g)' = CreditIn(g)
  <2>1. [v \in Users |-> Credit(v, g)'] = [v \in Users |-> Credit(v, g)]
    OBVIOUS
  <2>2. QED BY <2>1 DEF CreditIn
<1>2. [g \in Gauges |-> CreditIn(g)'] = [g \in Gauges |-> CreditIn(g)]
  BY <1>1
<1>3. QED BY <1>2 DEF Credits

\* A step that leaves the credits and the RISE paid.
LEMMA KeptSolvent ==
  ASSUME SolventInv, LedgerNext, IInv', NothingDistributed, UNCHANGED rise,
         \A u \in Users, g \in Gauges : Credit(u, g)' = Credit(u, g)
  PROVE  Solvent'
<1>1. LedgerType' /\ Emitted' = Emitted /\ resizes <= resizes'
  BY EmittedOutsideCheckpoints
<1>2. Paid' = Paid /\ Credits' = Credits
  BY CreditsKept DEF Paid
<1>3. TotalsAreNat
  BY LedgerTotals DEF SolventInv, ScheduleInv
<1>4. /\ Paid' = Paid + 0 /\ Credits' + 0 * REWARD_SCALE <= Credits + 0 * REWARD_SCALE
      /\ 0 \in Nat
  BY <1>2, <1>3, TypeOfConstants DEF TotalsAreNat
<1>5. Emitted + resizes + 0 <= Emitted' + resizes'
  <2>1. ASSUME NEW r \in Nat, resizes <= r PROVE Emitted + resizes + 0 <= Emitted + r
    BY <1>3, <2>1 DEF TotalsAreNat
  <2>2. resizes' \in Nat
    BY <1>1 DEF LedgerType
  <2>3. QED BY <1>1, <2>1, <2>2
<1>6. QED BY <1>1, <1>4, <1>5, BooksBalance

\* A checkpoint distributes nothing, or adds due to the emissions and to the index
\* no more than due covers for the LP tokens of the gauge.
LEMMA CheckpointDistributes ==
  ASSUME SolventInv, LedgerNext, IInv', NEW g \in Gauges, CheckpointGauge(g)
  PROVE  /\ UNCHANGED <<lp_amount, reward_debt, pending_rewards, rewards_vault, rise>>
         /\ \/ NothingDistributed /\ UNCHANGED reward_per_token
            \/ \E due, d \in Nat :
                 /\ reward_per_token' = [reward_per_token EXCEPT ![g] = @ + d]
                 /\ Emitted' = Emitted + due
                 /\ LpIn(lp_amount, g) \in Nat
                 /\ LpIn(lp_amount, g) * d <= due * REWARD_SCALE
                 /\ due = 0 => d = 0
<1> DEFINE due == Allocation(g) + pending_emissions[g]
           T == total_lp_deposited[g]
           d == (due * REWARD_SCALE) \div T
<1>1. /\ IInv /\ TypeOK /\ TypeOK' /\ LedgerType /\ LedgerType'
      /\ \A h \in Gauges : emitted'[h] = emitted[h] + Distributed(h) /\ emitted[h] \in Nat
  BY HistoryType DEF SolventInv, ScheduleInv, IInv, LedgerType
<1>2. due \in Nat
  BY <1>1, DueType DEF TypeOK
<1>3. UNCHANGED <<lp_amount, reward_debt, pending_rewards, rewards_vault, rise>>
  BY DEF CheckpointGauge, stakeVars, riseVars
<1>4. CASE UNCHANGED <<reward_per_token, total_distributed>>
  BY <1>3, <1>4 DEF NothingDistributed
<1>5. CASE /\ last_checkpoint_epoch[g] < EpochAfter
           /\ T # 0
           /\ Distribute(g, due)
  <2>1. T \in Nat /\ T > 0 /\ LpIn(lp_amount, g) = T
    BY <1>1, <1>5, ConservedByGauge DEF IInv, TypeOK, CheckpointGauge
  <2>2. due * REWARD_SCALE \in Nat
    BY <1>2, MulDistributes, TypeOfConstants
  <2> HIDE DEF due, T
  <2>3. d \in Nat /\ d * T <= due * REWARD_SCALE
    BY <2>1, <2>2, DivBounds
  <2>4. due = 0 => d = 0
    <3>1. (0 * REWARD_SCALE) \div T = 0
      BY <2>1, ScaledZero, TypeOfConstants
    <3>2. QED BY <3>1
  <2>5. /\ reward_per_token' = [reward_per_token EXCEPT ![g] = @ + d]
        /\ total_distributed' = [total_distributed EXCEPT ![g] = @ + due]
        /\ pending_emissions' = [pending_emissions EXCEPT ![g] = 0]
    BY <1>5 DEF Distribute, T
  <2> HIDE DEF d
  <2>6. Emitted' = Emitted + due
    <3>1. \A h \in Gauges \ {g} : Distributed(h) = 0
      BY <1>1, CheckpointCredits
    <3>2. total_distributed[g] \in Nat /\ total_distributed'[g] = total_distributed[g] + due
      BY <1>1, <2>5 DEF TypeOK
    <3>3. Distributed(g) = due
      BY <1>2, <3>2 DEF Distributed
    <3>4. emitted'[g] = emitted[g] + due /\ \A h \in Gauges \ {g} : emitted'[h] = emitted[h]
      BY <1>1, <3>1, <3>3
    <3>5. QED BY <1>1, <1>2, <3>4, EmittedMoved
  <2>7. T * d = d * T
    BY <2>1, <2>3
  <2>8. QED BY <1>2, <1>3, <2>1, <2>3, <2>4, <2>5, <2>6, <2>7
<1>6. QED BY <1>4, <1>5 DEF CheckpointGauge, RollOver, accrualVars

LEMMA CheckpointSolvent ==
  ASSUME SolventInv, LedgerNext, IInv', NEW g \in Gauges, CheckpointGauge(g)
  PROVE  Solvent'
<1>1. UNCHANGED <<lp_amount, reward_debt, pending_rewards, rewards_vault, rise>>
  BY CheckpointDistributes
<1>2. CASE NothingDistributed /\ UNCHANGED reward_per_token
  <2>1. \A u \in Users, h \in Gauges : Credit(u, h)' = Credit(u, h)
    BY <1>1, <1>2 DEF Credit
  <2>2. QED BY <1>1, <1>2, <2>1, KeptSolvent
<1>3. ASSUME NEW due \in Nat, NEW d \in Nat,
             reward_per_token' = [reward_per_token EXCEPT ![g] = @ + d],
             Emitted' = Emitted + due,
             LpIn(lp_amount, g) \in Nat,
             LpIn(lp_amount, g) * d <= due * REWARD_SCALE
      PROVE  Solvent'
  <2>1. IInv /\ TypeOK /\ TypeOK' /\ LedgerType /\ LedgerType' /\ resizes <= resizes'
    BY HistoryType DEF SolventInv, ScheduleInv, IInv
  <2>2. Credits' = Credits + LpIn(lp_amount, g) * d
    BY <1>1, <1>3, <2>1, CreditsRaised
  <2>3. TotalsAreNat /\ resizes' \in Nat
    BY <2>1, LedgerTotals DEF LedgerType
  <2>4. /\ LpIn(lp_amount, g) * d \in Nat /\ due * REWARD_SCALE \in Nat
    BY <1>3, MulDistributes, TypeOfConstants
  <2>5. Credits' + 0 * REWARD_SCALE <= Credits + due * REWARD_SCALE
    <3>1. ASSUME NEW x \in Nat, NEW y \in Nat, x <= y PROVE (Credits + x) + 0 <= Credits + y
      BY <2>3, <3>1 DEF TotalsAreNat
    <3>2. 0 * REWARD_SCALE = 0
      BY TypeOfConstants
    <3>3. QED BY <1>3, <2>2, <2>4, <3>1, <3>2
  <2>6. Paid' = Paid + 0 /\ 0 \in Nat
    BY <1>1, <2>3 DEF Paid, TotalsAreNat
  <2>7. Emitted + resizes + due <= Emitted' + resizes'
    <3>1. ASSUME NEW r \in Nat, resizes <= r
          PROVE  Emitted + resizes + due <= (Emitted + due) + r
      BY <2>3, <3>1 DEF TotalsAreNat
    <3>2. QED BY <1>3, <2>1, <2>3, <3>1
  <2>8. QED BY <2>1, <2>5, <2>6, <2>7, BooksBalance
<1>4. QED BY <1>2, <1>3, CheckpointDistributes

LEMMA InitSolvent == LedgerInit => SolventInv
<1> SUFFICES ASSUME LedgerInit PROVE SolventInv
  OBVIOUS
<1>1. ScheduleInv /\ IInv
  BY InitSchedule DEF ScheduleInv
<1>2. \A u \in Users, g \in Gauges : Credit(u, g) = 0
  <2>1. ASSUME NEW u \in Users, NEW g \in Gauges PROVE Credit(u, g) = 0
    <3>1. /\ lp_amount[<<u, g>>] = 0 /\ reward_debt[<<u, g>>] = 0
          /\ pending_rewards[<<u, g>>] = 0 /\ reward_per_token[g] = 0
      BY DEF LedgerInit, Init, GaugeInit
    <3>2. Credit(u, g) = 0 * REWARD_SCALE + (0 * 0 - 0 * REWARD_SCALE)
      BY <3>1 DEF Credit
    <3>3. QED BY <3>2, TypeOfConstants
  <2>2. QED BY <2>1
<1>3. \A g \in Gauges : CreditIn(g) = 0
  BY <1>2, SumZero, TypeOfConstants DEF CreditIn
<1>4. Credits = 0
  BY <1>3, SumZero, TypeOfConstants DEF Credits
<1>5. Paid = 0 /\ Emitted = 0 /\ resizes = 0
  <2>1. /\ \A u \in Users : rise[u] = 0
        /\ \A g \in Gauges : emitted[g] = 0
    BY DEF LedgerInit, Init
  <2>2. QED BY <2>1, SumZero, TypeOfConstants DEF LedgerInit, Paid, Emitted
<1>6. QED BY <1>1, <1>4, <1>5, TypeOfConstants DEF SolventInv, Solvent

LEMMA StepSolvent ==
  SolventInv /\ [LedgerNext]_ledgerVars => SolventInv'
<1> SUFFICES ASSUME SolventInv, [LedgerNext]_ledgerVars PROVE SolventInv'
  OBVIOUS
<1>1. ScheduleInv /\ IInv /\ ScheduleInv' /\ IInv' /\ TypeOK
  BY StepSchedule DEF SolventInv, ScheduleInv, IInv
<1>2. CASE LedgerNext
  <2>1. ASSUME NEW u \in Users, NEW g \in Gauges, NEW amount \in Amounts,
               DepositLp(u, g, amount) \/ WithdrawLp(u, g, amount)
        PROVE  Solvent'
    <3>1. lp_amount[<<u, g>>] \in Nat /\ amount \in Nat
      BY <1>1, TypeOfConstants DEF TypeOK
    <3>2. CASE DepositLp(u, g, amount)
      <4> DEFINE lp == lp_amount[<<u, g>>] + amount
      <4>1. lp \in Nat /\ lp # lp_amount[<<u, g>>]
        BY <3>1, <3>2, TypeOfConstants DEF DepositLp
      <4>2. /\ gauge_open[g] /\ Settle(u, g) /\ SetLp(u, g, lp)
            /\ UNCHANGED <<gauge_open, accrualVars, rise>>
        BY <3>2 DEF DepositLp, riseVars
      <4> HIDE DEF lp
      <4>3. QED BY <1>1, <1>2, <4>1, <4>2, DepositSolvent
    <3>3. CASE WithdrawLp(u, g, amount)
      <4> DEFINE lp == lp_amount[<<u, g>>] - amount
      <4>1. lp \in Nat /\ lp # lp_amount[<<u, g>>]
        BY <3>1, <3>3, TypeOfConstants DEF WithdrawLp
      <4>2. /\ gauge_open[g] /\ Settle(u, g) /\ SetLp(u, g, lp)
            /\ UNCHANGED <<gauge_open, accrualVars, rise>>
        BY <3>3 DEF WithdrawLp, riseVars
      <4> HIDE DEF lp
      <4>3. QED BY <1>1, <1>2, <4>1, <4>2, DepositSolvent
    <3>4. QED BY <2>1, <3>2, <3>3
  <2>2. ASSUME NEW u \in Users, NEW g \in Gauges, ClaimRewards(u, g)
        PROVE  Solvent'
    BY <1>1, <1>2, <2>2, ClaimSolvent
  <2>3. ASSUME NEW u \in Users, NEW g \in Gauges, ForceWithdrawLp(u, g)
        PROVE  Solvent'
    BY <1>1, <1>2, <2>3, ForceWithdrawSolvent
  <2>4. ASSUME NEW g \in Gauges, CheckpointGauge(g)
        PROVE  Solvent'
    BY <1>1, <1>2, <2>4, CheckpointSolvent
  <2>5. ASSUME StakesKeptWhole
        PROVE  Solvent'
    BY <1>1, <1>2, <2>5, KeptSolvent DEF StakesKeptWhole
  <2>6. ASSUME UNCHANGED vars
        PROVE  Solvent'
    <3>1. StakesKeptWhole
      BY <2>6 DEF vars, gaugeVars, accrualVars, stakeVars, riseVars, StakesKeptWhole,
                  NothingDistributed, Credit, Claimable, Unsettled, Accrued
    <3>2. QED BY <2>5, <3>1
  <2>7. Solvent'
    BY <1>1, <1>2, <2>1, <2>2, <2>3, <2>4, <2>5, <2>6, StakeSteps
       DEF StakeKinds, LedgerNext
  <2>8. QED BY <1>1, <2>7 DEF SolventInv
<1>3. CASE UNCHANGED ledgerVars
  <2>1. /\ \A u \in Users, g \in Gauges : Credit(u, g)' = Credit(u, g)
        /\ UNCHANGED <<rise, emitted, resizes>>
    BY <1>3 DEF ledgerVars, vars, gaugeVars, accrualVars, stakeVars, riseVars, Credit
  <2>2. Credits' = Credits /\ Paid' = Paid /\ Emitted' = Emitted /\ resizes' = resizes
    BY <2>1, CreditsKept DEF Paid, Emitted
  <2>3. QED BY <1>1, <2>2 DEF SolventInv, Solvent
<1>4. QED BY <1>2, <1>3

LEMMA SolventInductive == LedgerSpec => []SolventInv
  BY InitSolvent, StepSolvent, PTL DEF LedgerSpec

\* What every stake is owed is covered by its credit, hence in total.
LEMMA OwedWithinCredits ==
  ASSUME IInv
  PROVE  Owed \in Nat /\ Owed * REWARD_SCALE <= Credits
<1>1. ASSUME NEW g \in Gauges
      PROVE  OwedIn(g) \in Nat /\ OwedIn(g) * REWARD_SCALE <= CreditIn(g)
  <2> DEFINE F == [u \in Users |-> OwedTo(u, g)]
             H == [u \in Users |-> OwedTo(u, g) * REWARD_SCALE]
             C == [u \in Users |-> Credit(u, g)]
  <2>1. \A u \in Users : /\ F[u] \in Nat /\ H[u] \in Int /\ C[u] \in Int
                         /\ H[u] = F[u] * REWARD_SCALE /\ H[u] <= C[u]
    BY CreditType, MulDistributes, TypeOfConstants
  <2>2. OwedIn(g) = SumFunctionOnSet(F, Users) /\ CreditIn(g) = SumFunctionOnSet(C, Users)
    BY DEF OwedIn, CreditIn
  <2> HIDE DEF F, H, C
  <2>3. SumFunctionOnSet(F, Users) \in Nat
    BY <2>1, SumNat, TypeOfConstants
  <2>4. SumFunctionOnSet(H, Users) = SumFunctionOnSet(F, Users) * REWARD_SCALE
    BY <2>1, SumScale, TypeOfConstants
  <2>5. SumFunctionOnSet(H, Users) <= SumFunctionOnSet(C, Users)
    BY <2>1, SumMono, TypeOfConstants
  <2>6. QED BY <2>2, <2>3, <2>4, <2>5
<1> DEFINE F == [g \in Gauges |-> OwedIn(g)]
           H == [g \in Gauges |-> OwedIn(g) * REWARD_SCALE]
           C == [g \in Gauges |-> CreditIn(g)]
<1>2. \A g \in Gauges : /\ F[g] \in Nat /\ H[g] \in Int /\ C[g] \in Int
                        /\ H[g] = F[g] * REWARD_SCALE /\ H[g] <= C[g]
  BY <1>1, CreditsType, MulDistributes, TypeOfConstants
<1>3. Owed = SumFunctionOnSet(F, Gauges) /\ Credits = SumFunctionOnSet(C, Gauges)
  BY DEF Owed, Credits
<1> HIDE DEF F, H, C
<1>4. SumFunctionOnSet(F, Gauges) \in Nat
  BY <1>2, SumNat, TypeOfConstants
<1>5. SumFunctionOnSet(H, Gauges) = SumFunctionOnSet(F, Gauges) * REWARD_SCALE
  BY <1>2, SumScale, TypeOfConstants
<1>6. SumFunctionOnSet(H, Gauges) <= SumFunctionOnSet(C, Gauges)
  BY <1>2, SumMono, TypeOfConstants
<1>7. QED BY <1>3, <1>4, <1>5, <1>6

\* For every number of depositors, gauges and changes of stakes: what depositors
\* were paid and are still owed stays within the emissions that checkpoints
\* distributed, but for one base unit per change of a stake.
THEOREM RewardsAlwaysCovered == LedgerSpec => []RewardsWithinEmissions
<1>1. SolventInv => RewardsWithinEmissions
  <2> SUFFICES ASSUME SolventInv PROVE RewardsWithinEmissions
    OBVIOUS
  <2>1. /\ Paid \in Nat /\ Emitted \in Nat /\ resizes \in Nat /\ Credits \in Nat
        /\ Owed \in Nat /\ Owed * REWARD_SCALE <= Credits
    BY LedgerTotals, OwedWithinCredits DEF SolventInv, ScheduleInv, TotalsAreNat
  <2>2. Emitted + resizes \in Nat
    BY <2>1
  <2>3. Paid + Owed <= Emitted + resizes
    BY <2>1, <2>2, BudgetCovers, TypeOfConstants DEF SolventInv, Solvent
  <2>4. QED BY <2>3 DEF RewardsWithinEmissions
<1>2. QED BY <1>1, SolventInductive, PTL

-----------------------------------------------------------------------------
(* ImplementsRewardLedger *)

ClaimableOf(u) == SumFunctionOnSet([g \in Gauges |-> Claimable(u, g)], Gauges)

\* owed of RewardLedger.
Books == [u \in Users |-> ClaimableOf(u)]

ClaimsAreNat ==
  /\ Books \in [Users -> Nat]
  /\ \A u \in Users, g \in Gauges : Claimable(u, g) \in Nat

LEMMA ClaimsType ==
  /\ IInv => ClaimsAreNat
  /\ IInv' => ClaimsAreNat'
<1>1. ASSUME IInv PROVE ClaimsAreNat
  <2>1. \A u \in Users, g \in Gauges : Claimable(u, g) \in Nat
    BY <1>1, StakeType DEF IInv
  <2>2. ASSUME NEW u \in Users PROVE ClaimableOf(u) \in Nat
    BY <2>1, SumNat, TypeOfConstants DEF ClaimableOf
  <2>3. QED BY <2>1, <2>2 DEF ClaimsAreNat, Books
<1>2. IInv => ClaimsAreNat
  BY <1>1
<1>3. QED BY <1>2, PTL

\* A gauge whose claims change, changes what is owed in total by as much.
LEMMA ClaimMoved ==
  ASSUME IInv, IInv', NEW u \in Users, NEW g \in Gauges,
         \A h \in Gauges \ {g} : Claimable(u, h)' = Claimable(u, h)
  PROVE  /\ Books'[u] = Books[u] - Claimable(u, g) + Claimable(u, g)'
         /\ Claimable(u, g) <= Books[u]
<1> DEFINE F == [h \in Gauges |-> Claimable(u, h)]
           G == [h \in Gauges |-> Claimable(u, h)']
<1>1. /\ F \in [Gauges -> Nat] /\ G \in [Gauges -> Nat]
      /\ \A h \in Gauges \ {g} : G[h] = F[h]
      /\ F[g] = Claimable(u, g) /\ G[g] = Claimable(u, g)'
  BY ClaimsType DEF ClaimsAreNat
<1>2. Books[u] = SumFunctionOnSet(F, Gauges) /\ Books'[u] = SumFunctionOnSet(G, Gauges)
  BY DEF Books, ClaimableOf
<1> HIDE DEF F, G
<1>3. /\ F[g] <= SumFunctionOnSet(F, Gauges)
      /\ SumFunctionOnSet(G, Gauges) = SumFunctionOnSet(F, Gauges) - F[g] + G[g]
  BY <1>1, TypeOfConstants, SumChange
<1>4. QED BY <1>1, <1>2, <1>3

LEMMA ClaimsKept ==
  ASSUME NEW u \in Users, \A g \in Gauges : Claimable(u, g)' = Claimable(u, g)
  PROVE  Books'[u] = Books[u]
<1>1. [g \in Gauges |-> Claimable(u, g)'] = [g \in Gauges |-> Claimable(u, g)]
  OBVIOUS
<1>2. QED BY <1>1 DEF Books, ClaimableOf

LEMMA BooksKept ==
  ASSUME \A u \in Users, g \in Gauges : Claimable(u, g)' = Claimable(u, g)
  PROVE  Books' = Books
<1>1. \A u \in Users : Books'[u] = Books[u]
  BY ClaimsKept
<1>2. QED BY <1>1 DEF Books

LEMMA InitBooked == LedgerInit => RewardsBooked!Init
<1> SUFFICES ASSUME LedgerInit PROVE RewardsBooked!Init
  OBVIOUS
<1>1. ASSUME NEW u \in Users PROVE ClaimableOf(u) = 0
  <2>1. ASSUME NEW g \in Gauges PROVE Claimable(u, g) = 0
    <3>1. /\ lp_amount[<<u, g>>] = 0 /\ reward_debt[<<u, g>>] = 0
          /\ pending_rewards[<<u, g>>] = 0 /\ reward_per_token[g] = 0
      BY DEF LedgerInit, Init, GaugeInit
    <3>2. Accrued(0, g) = 0
      BY <3>1, ScaledZero, TypeOfConstants DEF Accrued
    <3>3. QED BY <3>1, <3>2 DEF Claimable, Unsettled
  <2>2. QED BY <2>1, SumZero, TypeOfConstants DEF ClaimableOf
<1>2. Emitted = 0
  BY SumZero, TypeOfConstants DEF LedgerInit, Emitted
<1>3. rewards_vault \in Nat /\ rise = [u \in Users |-> 0]
  BY TypeOfConstants DEF LedgerInit, Init, RewardsVaultInit
<1>4. [u \in Users |-> ClaimableOf(u)] = [u \in Users |-> 0]
  BY <1>1
<1>5. QED BY <1>2, <1>3, <1>4 DEF RewardsBooked!Init, ClaimableOf

\* A stake that is paid out: what it could claim leaves the books of its owner.
LEMMA ClaimBooked ==
  ASSUME IInv, IInv', NEW u \in Users, NEW g \in Gauges, Claimable(u, g) > 0,
         StakeRestarted(u, g, lp_amount'[<<u, g>>], 0), lp_amount'[<<u, g>>] \in Nat,
         PayRise(u, IF Claimable(u, g) <= rewards_vault THEN Claimable(u, g)
                    ELSE rewards_vault),
         Emitted' = Emitted
  PROVE  RewardsBooked!Next
<1>1. /\ Claimable(u, g)' = 0
      /\ \A v \in Users, h \in Gauges : v # u \/ h # g => Claimable(v, h)' = Claimable(v, h)
  <2>1. 0 \in Nat
    OBVIOUS
  <2>2. Claimable(u, g)' = 0
    BY <2>1, RestartedStake
  <2>3. QED BY <2>2, OthersUntouched
<1>2. \A v \in Users \ {u} : Books'[v] = Books[v]
  BY <1>1, ClaimsKept
<1>3. ClaimsAreNat /\ ClaimsAreNat'
  BY ClaimsType
<1>4. Books'[u] = Books[u] - Claimable(u, g) /\ Claimable(u, g) <= Books[u]
  <2>1. \A h \in Gauges \ {g} : Claimable(u, h)' = Claimable(u, h)
    BY <1>1
  <2>2. Books'[u] = Books[u] - Claimable(u, g) + 0 /\ Claimable(u, g) <= Books[u]
    BY <1>1, <2>1, ClaimMoved
  <2>3. QED BY <1>3, <2>2 DEF ClaimsAreNat
<1>5. Books[u] - Books'[u] = Claimable(u, g)
  BY <1>3, <1>4 DEF ClaimsAreNat
<1>6. Books' = [Books EXCEPT ![u] = Books'[u]]
  BY <1>2, <1>3 DEF ClaimsAreNat
<1>7. RewardsBooked!Pay(u)
  BY <1>5, <1>6 DEF RewardsBooked!Pay, PayRise, Books, ClaimableOf
<1>8. QED BY <1>7 DEF RewardsBooked!Next

\* A checkpoint that raises the index of a gauge by d raises the claim of each of
\* its stakes by what the stake earned, or by one unit of RISE less or more.
LEMMA ClaimRaised ==
  ASSUME IInv, IInv', NEW u \in Users, NEW g \in Gauges, NEW d \in Nat, gauge_open[g],
         UNCHANGED <<gauge_open, lp_amount, reward_debt, pending_rewards>>,
         reward_per_token' = [reward_per_token EXCEPT ![g] = @ + d]
  PROVE  /\ Claimable(u, g)' - Claimable(u, g) \in Nat
         /\ (Claimable(u, g)' - Claimable(u, g)) * REWARD_SCALE
              <= lp_amount[<<u, g>>] * d + REWARD_SCALE
         /\ d = 0 => Claimable(u, g)' = Claimable(u, g)
<1> DEFINE lp == lp_amount[<<u, g>>]
           s == REWARD_SCALE
           n == lp * reward_per_token[g]
           m == lp * d
           p == pending_rewards[<<u, g>>]
           b == reward_debt[<<u, g>>]
<1>1. /\ lp \in Nat /\ p \in Nat /\ b \in Nat /\ reward_per_token[g] \in Nat
      /\ reward_per_token'[g] = reward_per_token[g] + d
  BY DEF IInv, TypeOK
<1>2. n \in Nat /\ m \in Nat /\ lp * (reward_per_token[g] + d) = n + m
  <2> HIDE DEF lp
  <2>1. lp * (reward_per_token[g] + d) = lp * reward_per_token[g] + lp * d
    BY <1>1
  <2>2. QED BY <1>1, <2>1, MulDistributes
<1>3. /\ Unsettled(u, g) = n \div s - b
      /\ Unsettled(u, g)' = (n + m) \div s - b
  <2>1. Unsettled(u, g)' = (lp * (reward_per_token[g] + d)) \div s - b
    BY <1>1 DEF Unsettled, Accrued
  <2>2. QED BY <1>2, <2>1 DEF Unsettled, Accrued
<1>4. Unsettled(u, g) >= 0 /\ Unsettled(u, g)' >= 0
  BY DEF IInv, DebtWithinAccrued
<1>5. /\ Claimable(u, g) = p + Unsettled(u, g)
      /\ Claimable(u, g)' = p + Unsettled(u, g)'
  <2>1. /\ Unsettled(u, g) \in Int /\ Unsettled(u, g)' \in Int
    <3> HIDE DEF n, m, p, b, s
    <3>1. n \div s \in Nat /\ (n + m) \div s \in Nat
      BY <1>2, DivBounds, TypeOfConstants DEF s
    <3>2. QED BY <1>1, <1>3, <3>1
  <2>2. QED BY <1>1, <1>4, <2>1 DEF Claimable
<1> HIDE DEF n, m, p, b, s
<1>6. /\ n \div s \in Nat /\ (n + m) \div s \in Nat
      /\ (n + m) \div s - n \div s \in Nat
      /\ ((n + m) \div s - n \div s) * s <= m + s
  BY <1>2, DivBounds, RoundedRise, TypeOfConstants DEF s
<1>7. Claimable(u, g)' - Claimable(u, g) = (n + m) \div s - n \div s
  BY <1>1, <1>3, <1>5, <1>6
<1>8. d = 0 => m = 0
  <2> HIDE DEF lp
  <2>1. lp * 0 = 0
    BY <1>1
  <2>2. QED BY <2>1 DEF m
<1>9. d = 0 => Unsettled(u, g)' = Unsettled(u, g)
  BY <1>2, <1>3, <1>8
<1>10. d = 0 => Claimable(u, g)' = Claimable(u, g)
  BY <1>5, <1>9
<1>11. QED BY <1>6, <1>7, <1>10 DEF m, s

\* The instance has its own copies of the library's operators.
LEMMA SameLibrary ==
  /\ \A f, S : RewardsBooked!SumFunctionOnSet(f, S) = SumFunctionOnSet(f, S)
  /\ \A S : RewardsBooked!Cardinality(S) = Cardinality(S)
<1>1. \A f, S : RewardsBooked!SumFunctionOnSet(f, S) = SumFunctionOnSet(f, S)
  BY DEF RewardsBooked!SumFunctionOnSet, RewardsBooked!FoldFunctionOnSet,
     RewardsBooked!MapThenFoldSet, SumFunctionOnSet, FoldFunctionOnSet, MapThenFoldSet
<1>2. \A S : RewardsBooked!Cardinality(S) = Cardinality(S)
  BY DEF RewardsBooked!Cardinality, Cardinality
<1>3. QED BY <1>1, <1>2

\* Together the claims rise by no more than what was distributed, and one unit of
\* RISE for each depositor.
LEMMA DistributionBooked ==
  ASSUME IInv, IInv', NEW g \in Gauges, NEW due \in Nat, NEW d \in Nat, gauge_open[g],
         UNCHANGED <<gauge_open, lp_amount, reward_debt, pending_rewards>>,
         UNCHANGED <<rewards_vault, rise>>,
         reward_per_token' = [reward_per_token EXCEPT ![g] = @ + d],
         Emitted \in Nat, Emitted' = Emitted + due,
         LpIn(lp_amount, g) \in Nat,
         LpIn(lp_amount, g) * d <= due * REWARD_SCALE,
         due = 0 => d = 0
  PROVE  RewardsBooked!Next
<1> DEFINE Rise(u) == Claimable(u, g)' - Claimable(u, g)
           N == Cardinality(Users)
<1>1. /\ \A h \in Gauges \ {g} : reward_per_token'[h] = reward_per_token[h]
  BY DEF IInv, TypeOK
<1>2. \A u \in Users, h \in Gauges \ {g} : Claimable(u, h)' = Claimable(u, h)
  BY <1>1 DEF Claimable, Unsettled, Accrued
<1>3. ASSUME NEW u \in Users
      PROVE  /\ Rise(u) \in Nat
             /\ Rise(u) * REWARD_SCALE <= lp_amount[<<u, g>>] * d + REWARD_SCALE
             /\ d = 0 => Rise(u) = 0
             /\ Books[u] \in Nat /\ Books'[u] \in Nat
             /\ Books'[u] - Books[u] = Rise(u)
             /\ Claimable(u, g) \in Nat /\ Claimable(u, g)' \in Nat
  <2>1. /\ Rise(u) \in Nat
        /\ Rise(u) * REWARD_SCALE <= lp_amount[<<u, g>>] * d + REWARD_SCALE
        /\ d = 0 => Claimable(u, g)' = Claimable(u, g)
    BY ClaimRaised
  <2>2. Books'[u] = Books[u] - Claimable(u, g) + Claimable(u, g)'
    BY <1>2, ClaimMoved
  <2>3. /\ Books[u] \in Nat /\ Books'[u] \in Nat
        /\ Claimable(u, g) \in Nat /\ Claimable(u, g)' \in Nat
    BY ClaimsType DEF ClaimsAreNat
  <2>4. QED BY <2>1, <2>2, <2>3
<1> HIDE DEF Rise
<1>4. N \in Nat
  BY FS_CardinalityType, TypeOfConstants
<1> DEFINE R == [u \in Users |-> Rise(u)]
           RS == [u \in Users |-> Rise(u) * REWARD_SCALE]
           L == [u \in Users |-> lp_amount[<<u, g>>]]
           LD == [u \in Users |-> lp_amount[<<u, g>>] * d]
           One == [u \in Users |-> REWARD_SCALE]
           Top == [u \in Users |-> lp_amount[<<u, g>>] * d + REWARD_SCALE]
<1>5. \A u \in Users : /\ R[u] \in Nat /\ RS[u] \in Nat /\ L[u] \in Nat /\ LD[u] \in Nat
                       /\ One[u] \in Nat /\ Top[u] \in Nat
                       /\ RS[u] = R[u] * REWARD_SCALE /\ LD[u] = L[u] * d
                       /\ One[u] = REWARD_SCALE /\ Top[u] = LD[u] + One[u]
                       /\ RS[u] <= Top[u]
  <2> SUFFICES ASSUME NEW u \in Users
               PROVE  /\ Rise(u) \in Nat /\ Rise(u) * REWARD_SCALE \in Nat
                      /\ lp_amount[<<u, g>>] \in Nat /\ lp_amount[<<u, g>>] * d \in Nat
                      /\ lp_amount[<<u, g>>] * d + REWARD_SCALE \in Nat
                      /\ Rise(u) * REWARD_SCALE <= lp_amount[<<u, g>>] * d + REWARD_SCALE
    BY TypeOfConstants
  <2>1. lp_amount[<<u, g>>] \in Nat
    BY DEF IInv, TypeOK
  <2>2. Rise(u) * REWARD_SCALE \in Nat /\ lp_amount[<<u, g>>] * d \in Nat
    BY <1>3, <2>1, MulDistributes, TypeOfConstants
  <2>3. QED BY <1>3, <2>1, <2>2, TypeOfConstants
<1>6. LpIn(lp_amount, g) = SumFunctionOnSet(L, Users)
  BY DEF LpIn
<1>7. SumFunctionOnSet([u \in Users |-> Books'[u] - Books[u]], Users)
        = SumFunctionOnSet(R, Users)
  <2>1. [u \in Users |-> Books'[u] - Books[u]] = R
    BY <1>3
  <2>2. QED BY <2>1
<1> HIDE DEF R, RS, L, LD, One, Top, N
<1>8. /\ SumFunctionOnSet(R, Users) \in Nat
      /\ SumFunctionOnSet(LD, Users) \in Nat
  BY <1>5, SumNat, TypeOfConstants
<1>9. /\ SumFunctionOnSet(RS, Users) = SumFunctionOnSet(R, Users) * REWARD_SCALE
      /\ SumFunctionOnSet(LD, Users) = SumFunctionOnSet(L, Users) * d
  BY <1>5, SumScale, TypeOfConstants
<1>10. SumFunctionOnSet(One, Users) = N * REWARD_SCALE
  BY <1>5, SumConstant, TypeOfConstants DEF N
<1>11. SumFunctionOnSet(Top, Users)
         = SumFunctionOnSet(LD, Users) + SumFunctionOnSet(One, Users)
  BY <1>5, SumPlus, TypeOfConstants
<1>12. SumFunctionOnSet(RS, Users) <= SumFunctionOnSet(Top, Users)
  BY <1>5, SumMono, TypeOfConstants
<1>13. SumFunctionOnSet(R, Users) <= due + N
  <2> DEFINE total == SumFunctionOnSet(R, Users)
             x == LpIn(lp_amount, g) * d
             y == due * REWARD_SCALE
             z == N * REWARD_SCALE
  <2>1. /\ (due + N) * REWARD_SCALE = y + z /\ y \in Nat /\ z \in Nat
    BY <1>4, MulDistributes, TypeOfConstants
  <2>2. x \in Nat /\ x <= y
    BY MulDistributes
  <2>3. total * REWARD_SCALE <= x + z
    BY <1>6, <1>9, <1>10, <1>11, <1>12
  <2>4. total * REWARD_SCALE \in Nat
    BY <1>8, MulDistributes, TypeOfConstants
  <2> HIDE DEF x, y, z, total
  <2>5. total * REWARD_SCALE <= (due + N) * REWARD_SCALE
    BY <2>1, <2>2, <2>3, <2>4
  <2>6. total \in Nat /\ due + N \in Nat
    BY <1>4, <1>8 DEF total
  <2>7. QED BY <2>5, <2>6, MulCancel, TypeOfConstants DEF total
<1>14. Emitted' - Emitted = due /\ Emitted' >= Emitted
  <2>1. ASSUME NEW e \in Nat PROVE (e + due) - e = due /\ e + due >= e
    OBVIOUS
  <2>2. QED BY <2>1
<1>15. \A u \in Users : Books'[u] >= Books[u]
  <2>1. ASSUME NEW a \in Nat, NEW b \in Nat, NEW r \in Nat, b - a = r PROVE b >= a
    BY <2>1
  <2>2. ASSUME NEW u \in Users PROVE Books'[u] >= Books[u]
    BY <1>3, <2>1
  <2>3. QED BY <2>2
<1>16. Books' # Books => Emitted' > Emitted
  <2>1. CASE due = 0
    <3>1. ASSUME NEW u \in Users PROVE Claimable(u, g)' = Claimable(u, g)
      <4>1. Claimable(u, g)' - Claimable(u, g) = 0
        BY <1>3, <2>1 DEF Rise
      <4>2. ASSUME NEW a \in Nat, NEW b \in Nat, b - a = 0 PROVE b = a
        BY <4>2
      <4>3. QED BY <1>3, <4>1, <4>2
    <3>2. QED BY <1>2, <3>1, BooksKept
  <2>2. CASE due > 0
    <3>1. ASSUME NEW e \in Nat PROVE e + due > e
      BY <2>2
    <3>2. QED BY <3>1
  <2>3. QED BY <2>1, <2>2
<1>17. SumFunctionOnSet([u \in Users |-> Books'[u] - Books[u]], Users)
         <= Emitted' - Emitted + Cardinality(Users)
  BY <1>7, <1>13, <1>14 DEF N
<1>18. RewardsBooked!Accrue
  <2>1. Emitted' >= Emitted /\ UNCHANGED <<rewards_vault, rise>>
    BY <1>14
  <2>2. QED BY ONLY <1>15, <1>16, <1>17, <2>1, SameLibrary
            DEF RewardsBooked!Accrue, Books, ClaimableOf
<1>19. QED BY <1>18 DEF RewardsBooked!Next

LEMMA CheckpointBooked ==
  ASSUME SolventInv, LedgerNext, IInv', LedgerType', NEW g \in Gauges, CheckpointGauge(g)
  PROVE  RewardsBooked!Next \/ UNCHANGED RewardsBooked!vars
<1>1. UNCHANGED <<lp_amount, reward_debt, pending_rewards, rewards_vault, rise>>
  BY CheckpointDistributes
<1>2. gauge_open[g] /\ UNCHANGED gauge_open
  BY DEF CheckpointGauge
<1>3. IInv /\ Emitted \in Nat
  BY LedgerTotals DEF SolventInv, ScheduleInv, TotalsAreNat
<1>4. CASE NothingDistributed /\ UNCHANGED reward_per_token
  <2>1. \A u \in Users, h \in Gauges : Claimable(u, h)' = Claimable(u, h)
    BY <1>1, <1>4 DEF Claimable, Unsettled, Accrued
  <2>2. Emitted' = Emitted
    BY <1>4, EmittedOutsideCheckpoints
  <2>3. QED BY <1>1, <2>1, <2>2, BooksKept DEF RewardsBooked!vars, Books, ClaimableOf
<1>5. ASSUME NEW due \in Nat, NEW d \in Nat,
             reward_per_token' = [reward_per_token EXCEPT ![g] = @ + d],
             Emitted' = Emitted + due,
             LpIn(lp_amount, g) \in Nat,
             LpIn(lp_amount, g) * d <= due * REWARD_SCALE,
             due = 0 => d = 0
      PROVE  RewardsBooked!Next
  BY <1>1, <1>2, <1>3, <1>5, DistributionBooked
<1>6. QED BY <1>4, <1>5, CheckpointDistributes

\* Every step is a step of RewardLedger, or leaves what it speaks of.
LEMMA StepBooked ==
  SolventInv /\ SolventInv' /\ [LedgerNext]_ledgerVars
    => [RewardsBooked!Next]_RewardsBooked!vars
<1> SUFFICES ASSUME SolventInv, SolventInv', [LedgerNext]_ledgerVars
             PROVE  RewardsBooked!Next \/ UNCHANGED RewardsBooked!vars
  OBVIOUS
<1>1. IInv /\ IInv' /\ TypeOK /\ LedgerType'
  BY DEF SolventInv, ScheduleInv, IInv
<1> DEFINE Booked == RewardsBooked!Next \/ UNCHANGED RewardsBooked!vars
<1>2. ASSUME StakesKeptWhole, LedgerNext PROVE Booked
  <2>1. Books' = Books
    BY <1>2, BooksKept DEF StakesKeptWhole
  <2>2. Emitted' = Emitted
    BY <1>1, <1>2, EmittedOutsideCheckpoints DEF StakesKeptWhole
  <2>3. QED BY <1>2, <2>1, <2>2 DEF StakesKeptWhole, RewardsBooked!vars, Books,
               ClaimableOf
<1>3. ASSUME LedgerNext, NEW u \in Users, NEW g \in Gauges, NEW lp \in Nat,
             gauge_open[g], Settle(u, g), SetLp(u, g, lp),
             UNCHANGED <<gauge_open, accrualVars, riseVars>>
      PROVE  Booked
  <2>1. /\ UNCHANGED <<reward_per_token, rewards_vault, rise>>
        /\ NothingDistributed
    BY <1>3 DEF accrualVars, riseVars, NothingDistributed
  <2>2. StakeRestarted(u, g, lp, Claimable(u, g)) /\ Claimable(u, g)' = Claimable(u, g)
    BY <1>1, <1>3, <2>1, SettledStake
  <2>3. \A v \in Users, h \in Gauges : Claimable(v, h)' = Claimable(v, h)
    <3>1. \A v \in Users, h \in Gauges :
            v # u \/ h # g => Claimable(v, h)' = Claimable(v, h)
      BY <1>1, <1>3, <2>2, OthersUntouched
    <3>2. QED BY <2>2, <3>1
  <2>4. Books' = Books /\ Emitted' = Emitted
    BY <1>1, <1>3, <2>1, <2>3, BooksKept, EmittedOutsideCheckpoints
  <2>5. QED BY <2>1, <2>4 DEF RewardsBooked!vars, Books, ClaimableOf
<1>4. CASE LedgerNext
  <2>1. ASSUME NEW u \in Users, NEW g \in Gauges, NEW amount \in Amounts,
               DepositLp(u, g, amount)
        PROVE  Booked
    <3>1. lp_amount[<<u, g>>] + amount \in Nat
      BY <1>1, TypeOfConstants DEF TypeOK
    <3>2. QED BY <1>3, <1>4, <2>1, <3>1 DEF DepositLp
  <2>2. ASSUME NEW u \in Users, NEW g \in Gauges, NEW amount \in Amounts,
               WithdrawLp(u, g, amount)
        PROVE  Booked
    <3>1. lp_amount[<<u, g>>] - amount \in Nat
      BY <1>1, <2>2, TypeOfConstants DEF TypeOK, WithdrawLp
    <3>2. QED BY <1>3, <1>4, <2>2, <3>1 DEF WithdrawLp
  <2>3. ASSUME NEW u \in Users, NEW g \in Gauges, ClaimRewards(u, g)
        PROVE  Booked
    <3>1. StakeRestarted(u, g, lp_amount[<<u, g>>], 0) /\ lp_amount[<<u, g>>] \in Nat
      BY <1>1, <2>3, ClaimedStake DEF TypeOK
    <3>2. lp_amount'[<<u, g>>] = lp_amount[<<u, g>>]
      BY <1>1, <3>1 DEF StakeRestarted, TypeOK
    <3>3. Emitted' = Emitted
      BY <1>1, <1>4, <2>3, EmittedOutsideCheckpoints
         DEF ClaimRewards, gaugeVars, accrualVars, NothingDistributed
    <3>4. /\ Claimable(u, g) > 0
          /\ PayRise(u, IF Claimable(u, g) <= rewards_vault THEN Claimable(u, g)
                        ELSE rewards_vault)
      <4>1. Claimable(u, g) \in Nat /\ rewards_vault \in Nat
        BY <1>1, StakeType DEF TypeOK
      <4>2. /\ Claimable(u, g) > 0 /\ rewards_vault >= Claimable(u, g)
            /\ PayRise(u, Claimable(u, g))
        BY <2>3 DEF ClaimRewards
      <4>3. QED BY <4>1, <4>2
    <3>5. QED BY <1>1, <3>1, <3>2, <3>3, <3>4, ClaimBooked
  <2>4. ASSUME NEW u \in Users, NEW g \in Gauges, ForceWithdrawLp(u, g)
        PROVE  Booked
    <3>1. StakeRestarted(u, g, 0, 0) /\ 0 \in Nat /\ Claimable(u, g)' = 0
      BY <1>1, <2>4, ForcedStake
    <3>2. lp_amount'[<<u, g>>] = 0
      BY <1>1, <3>1 DEF StakeRestarted, TypeOK
    <3>3. Emitted' = Emitted
      BY <1>1, <1>4, <2>4, EmittedOutsideCheckpoints
         DEF ForceWithdrawLp, accrualVars, NothingDistributed
    <3>4. PayRise(u, IF Claimable(u, g) <= rewards_vault THEN Claimable(u, g)
                     ELSE rewards_vault)
      BY <2>4 DEF ForceWithdrawLp
    <3>5. Claimable(u, g) \in Nat /\ rewards_vault \in Nat /\ rise \in [Users -> Nat]
      BY <1>1, StakeType DEF TypeOK
    <3>6. CASE Claimable(u, g) > 0
      BY <1>1, <3>1, <3>2, <3>3, <3>4, <3>6, ClaimBooked
    <3>7. CASE Claimable(u, g) = 0
      <4>1. \A v \in Users, h \in Gauges : Claimable(v, h)' = Claimable(v, h)
        BY <1>1, <3>1, <3>7, OthersUntouched
      <4>2. UNCHANGED <<rewards_vault, rise>>
        <5>1. rewards_vault' = rewards_vault - 0 /\ rise' = [rise EXCEPT ![u] = @ + 0]
          BY <3>4, <3>5, <3>7 DEF PayRise
        <5>2. QED BY <3>5, <5>1
      <4>3. QED BY <3>3, <4>1, <4>2, BooksKept DEF RewardsBooked!vars, Books, ClaimableOf
    <3>8. QED BY <3>5, <3>6, <3>7
  <2>5. ASSUME NEW g \in Gauges, CheckpointGauge(g)
        PROVE  Booked
    BY <1>1, <1>4, <2>5, CheckpointBooked
  <2>6. ASSUME UNCHANGED vars
        PROVE  Booked
    <3>1. StakesKeptWhole
      BY <2>6 DEF vars, gaugeVars, accrualVars, stakeVars, riseVars, StakesKeptWhole,
                  NothingDistributed, Credit, Claimable, Unsettled, Accrued
    <3>2. QED BY <1>2, <1>4, <3>1
  <2>7. Booked
    BY <1>1, <1>2, <1>4, <2>1, <2>2, <2>3, <2>4, <2>5, <2>6, StakeSteps
       DEF StakeKinds, LedgerNext
  <2>8. QED BY <2>7
<1>5. CASE UNCHANGED ledgerVars
  <2>1. /\ \A u \in Users, g \in Gauges : Claimable(u, g)' = Claimable(u, g)
        /\ Emitted' = Emitted /\ UNCHANGED <<rewards_vault, rise>>
    BY <1>5 DEF ledgerVars, vars, gaugeVars, accrualVars, stakeVars, riseVars, Claimable,
                Unsettled, Accrued, Emitted
  <2>2. QED BY <2>1, BooksKept DEF RewardsBooked!vars, Books, ClaimableOf
<1>6. QED BY <1>4, <1>5

\* Gauges keep RewardLedger's promise for every number of depositors and gauges: a
\* claim grows only when a checkpoint distributes, and shrinks only by payment.
THEOREM RewardsAreBooked == LedgerSpec => ImplementsRewardLedger
<1>1. LedgerSpec => RewardsBooked!Spec
  BY InitBooked, StepBooked, SolventInductive, PTL DEF LedgerSpec, RewardsBooked!Spec
<1>2. QED BY <1>1 DEF ImplementsRewardLedger
=============================================================================
