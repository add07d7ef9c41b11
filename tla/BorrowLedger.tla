---------------------------- MODULE BorrowLedger ----------------------------
(***************************************************************************)
(* CdpPositions with two history variables: the RISE that claims have paid  *)
(* to borrowers, and how often BorrowRewards::sync_debt has rounded down    *)
(* the reward debt of a new principal.                                     *)
(***************************************************************************)
EXTENDS CdpPositions

CONSTANT MaxRounded    \* bound: reward debts rounded down

ASSUME BorrowLedgerAssumption == MaxRounded \in Nat

VARIABLES rewards_paid, rounded

borrowLedgerVars == <<allVars, rewards_paid, rounded>>

BorrowLedgerInit == CdpInit /\ rewards_paid = 0 /\ rounded = 0

\* What the position could claim now; settle does the same sum.
RewardOf(pos) == pos.pending_rewards + Earned(pos) - pos.reward_debt

Claimed(p) == ClaimBorrowRewards(p) /\ rewards_paid' = rewards_paid + RewardOf(position[p])

NothingClaimed ==
  /\ CdpNext
  /\ \A p \in Positions : ~ClaimBorrowRewards(p)
  /\ UNCHANGED rewards_paid

RoundsDebt(p) ==
  /\ position'[p].principal # position[p].principal
  /\ (position'[p].principal * reward_per_token) % REWARD_SCALE # 0

BorrowLedgerNext ==
  /\ (\E p \in Positions : Claimed(p)) \/ NothingClaimed
  /\ rounded' = rounded + (IF \E p \in Positions : RoundsDebt(p) THEN 1 ELSE 0)
  /\ rounded' <= MaxRounded

BorrowLedgerSpec == BorrowLedgerInit /\ [][BorrowLedgerNext]_borrowLedgerVars

-----------------------------------------------------------------------------
(* Property *)

\* What the epochs' emissions come to by the given slot.
EmittedBy(s) == (EPOCH_EMISSIONS * s) \div SLOTS_PER_EPOCH

RewardsOwed ==
  SumFunctionOnSet([p \in Positions |-> RewardOf(position[p])], Positions)

\* Borrowers are never paid and owed more RISE than the schedule emits in the
\* slots gone by, through late checkpoints, loans that open, grow, shrink, are
\* liquidated and open again, but for one base unit per reward debt that
\* sync_debt rounded down.
BorrowersWithinEmissions ==
  rewards_paid + RewardsOwed <= EmittedBy(slot) + rounded
=============================================================================
