---------------------------- MODULE GaugeLedger -----------------------------
(***************************************************************************)
(* GaugeRewards with two history variables: the RISE that checkpoints have *)
(* distributed to each gauge, and how often a stake has changed size.  Each *)
(* change rounds the stake's reward debt down once more.                    *)
(***************************************************************************)
EXTENDS GaugeRewards

CONSTANT MaxResizes    \* bound: changes of stakes

ASSUME LedgerAssumption ==
  /\ \E most \in Emissions : \A e \in Emissions : e <= most
  /\ MaxResizes \in Nat

VARIABLES emitted, resizes

ledgerVars == <<vars, emitted, resizes>>

LedgerInit == Init /\ emitted = [g \in Gauges |-> 0] /\ resizes = 0

\* total_distributed restarts at zero with a re-created gauge.
Distributed(g) ==
  IF total_distributed'[g] > total_distributed[g]
  THEN total_distributed'[g] - total_distributed[g] ELSE 0

LedgerNext ==
  /\ Next
  /\ emitted' = [g \in Gauges |-> emitted[g] + Distributed(g)]
  /\ resizes' = resizes + (IF lp_amount' # lp_amount THEN 1 ELSE 0)
  /\ resizes' <= MaxResizes

LedgerSpec == LedgerInit /\ [][LedgerNext]_ledgerVars

-----------------------------------------------------------------------------
(* Properties *)

Emitted == SumFunctionOnSet(emitted, Gauges)
Paid == SumFunctionOnSet(rise, Users)

OwedTo(u, g) == IF gauge_open[g] THEN Claimable(u, g) ELSE pending_rewards[<<u, g>>]
OwedIn(g) == SumFunctionOnSet([u \in Users |-> OwedTo(u, g)], Users)
Owed == SumFunctionOnSet([g \in Gauges |-> OwedIn(g)], Gauges)

\* Depositors are never promised more RISE than the checkpoints distributed,
\* but for one base unit of rounding per change of a stake (rounding alone can
\* favour them: the debt of a new stake is rounded down too).
RewardsWithinEmissions == Paid + Owed <= Emitted + resizes

\* A gauge is never credited with more than one epoch's emissions per epoch of
\* slots gone by, through late or repeated checkpoints, closing and re-creating
\* the gauge, and replacing the config, which restarts the epoch count.
NoFasterThanSchedule ==
  \A g \in Gauges :
    emitted[g] + pending_emissions[g] <= Max(Emissions) * (slot \div SLOTS_PER_EPOCH)

\* Implementation of RewardLedger: whatever depositors and the authority do, what
\* a depositor can claim grows only by a checkpoint and shrinks only by being
\* paid; a forced withdrawal forfeits just what the vault cannot pay.
RewardsBooked ==
  INSTANCE RewardLedger WITH
    Accounts <- Users,
    emitted <- Emitted,
    funds <- rewards_vault,
    owed <- [u \in Users |->
               SumFunctionOnSet([g \in Gauges |-> Claimable(u, g)], Gauges)],
    paid <- rise

ImplementsRewardLedger == RewardsBooked!Spec
=============================================================================
