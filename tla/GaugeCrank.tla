----------------------------- MODULE GaugeCrank -----------------------------
(***************************************************************************)
(* Who calls checkpoint_gauge.  Spec of GaugeRewards lets anybody call it   *)
(* at any time; crank-bot calls it only from checkpointAllGauges, which     *)
(* reads current_epoch once per scan, skips every gauge that is not behind  *)
(* it, and checkpoints the others one transaction at a time.               *)
(***************************************************************************)
EXTENDS GaugeRewards

VARIABLES
  scan_epoch,     \* rewardsConfig.currentEpoch as the scan fetched it
  todo            \* gauge accounts the scan has not visited yet

scanVars == <<scan_epoch, todo>>
crankVars == <<vars, scanVars>>

CrankInit == Init /\ scan_epoch = 0 /\ todo = {}

OpenGauges == {g \in Gauges : gauge_open[g]}

StartScan ==
  /\ config_open
  /\ todo = {}
  /\ todo' = OpenGauges
  /\ scan_epoch' = current_epoch
  /\ UNCHANGED vars

SkipGauge(g) ==
  /\ ~gauge_open[g] \/ last_checkpoint_epoch[g] >= scan_epoch
  /\ UNCHANGED vars

\* withRetry gives up after three attempts and the error ends the scan.
ScanAborts ==
  /\ todo # {}
  /\ todo' = {}
  /\ UNCHANGED <<vars, scan_epoch>>

VisitGauge(g) ==
  /\ g \in todo
  /\ todo' = todo \ {g}
  /\ UNCHANGED scan_epoch
  /\ \/ SkipGauge(g)
     \/ last_checkpoint_epoch[g] < scan_epoch /\ CheckpointGauge(g)

Bot == StartScan \/ ScanAborts \/ \E g \in Gauges : VisitGauge(g)

Others == (Depositor \/ Authority \/ NextSlot) /\ UNCHANGED scanVars

BotNext == Bot \/ Others

\* The clock never stops, the bot's loop never stops, and a scan is not
\* aborted for ever.
BotSpec ==
  /\ CrankInit
  /\ [][BotNext]_crankVars
  /\ WF_crankVars(NextSlot /\ UNCHANGED scanVars)
  /\ WF_crankVars(StartScan)
  /\ \A g \in Gauges : SF_crankVars(VisitGauge(g))

EpochOverdue == config_open /\ slot - epoch_start_slot >= SLOTS_PER_EPOCH

\* While a gauge is open, an epoch that is due eventually begins: the emissions
\* do not stop.
EpochsAdvance ==
  (EpochOverdue /\ \E g \in Gauges : gauge_open[g])
    ~> (~EpochOverdue \/ \A g \in Gauges : ~gauge_open[g])
=============================================================================
