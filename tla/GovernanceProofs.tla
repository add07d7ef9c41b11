-------------------------- MODULE GovernanceProofs --------------------------
(***************************************************************************)
(* Theorems about Governance, for every value of its constants: its types;  *)
(* that total_verise, rise_vault and active_proposal_count are what the     *)
(* locks and proposals say; that the tally of the gauge votes always gives  *)
(* weights the gauges accept; and that the revenue index allots no more     *)
(* than was booked as long as no lock grows after a booking.                *)
(*                                                                         *)
(* The counters are kept with saturating subtraction, so none of the three  *)
(* is inductive alone.  A subtraction never saturates because the amount    *)
(* is a summand of the total, and it is a summand because a closed lock or  *)
(* proposal is blank (Blank) and a new proposal takes a fresh index         *)
(* (Numbered).  The types need that a lock begins before it ends, or the    *)
(* decay of its veRISE would divide by zero (Dated).  The tally needs that  *)
(* stored votes have the full weight (VotesFull), the revenue that its      *)
(* divisor is the veRISE of the locks themselves (RevenueSolvent).          *)
(***************************************************************************)
EXTENDS GaugeTally, RevenueHistory, Arithmetic, Sums

\* An account that does not exist is all zeros.
Blank == \A l \in Locks : ~lock[l].exists => lock[l] = NoLock

\* No lock starts in the future.
Dated == \A l \in Locks : lock[l].exists => lock[l].lock_start_slot <= slot

\* Proposals are numbered below the count.
Numbered == \A i \in Indices : proposal[i].exists => i < proposal_count

LockInv == TypeOK /\ Blank /\ Dated /\ TotalIsLocks /\ VaultHoldsLocks

IInv == LockInv /\ Numbered /\ ActiveIsOpen

VeriseOf(locks) == SumOverLocks([l \in Locks |-> locks[l].verise_amount])
RiseOf(locks) == SumOverLocks([l \in Locks |-> locks[l].rise_locked])

OpenProposals == {i \in Indices : proposal[i].exists /\ ~proposal[i].executed}

-----------------------------------------------------------------------------
(* Helpers *)

\* The constants, as the proofs use them.
LEMMA TypeOfConstants ==
  /\ IsFiniteSet(Locks)
  /\ IsFiniteSet(Indices)
  /\ MAX_LOCK_SLOTS \in Nat /\ MAX_LOCK_SLOTS > 0
  /\ INDEX_SCALE \in Nat /\ INDEX_SCALE > 0
  /\ MaxProposals \in Nat
  /\ InitialRise \in Nat
  /\ LockAmounts \subseteq Nat /\ LockDurations \subseteq Nat
  /\ Extensions \subseteq Nat /\ Revenues \subseteq Nat
  /\ Settings \subseteq SettingsType
<1>1. IsFiniteSet(Locks)
  BY FS_Product, GovernanceAssumption DEF Locks
<1>2. MaxProposals \in Nat
  BY GovernanceAssumption
<1>3. IsFiniteSet(Indices)
  BY <1>2, FS_Interval DEF Indices
<1>4. QED BY <1>1, <1>2, <1>3, GovernanceAssumption

\* A lock that is written changes the two totals by what it changes itself, and
\* what it held before is part of them.
LEMMA LockWritten ==
  ASSUME NEW old \in [Locks -> LockType], NEW l \in Locks, NEW k \in LockType,
         NEW new, new = [old EXCEPT ![l] = k]
  PROVE  /\ VeriseOf(old) \in Nat /\ old[l].verise_amount <= VeriseOf(old)
         /\ VeriseOf(new) = VeriseOf(old) - old[l].verise_amount + k.verise_amount
         /\ RiseOf(old) \in Nat /\ old[l].rise_locked <= RiseOf(old)
         /\ RiseOf(new) = RiseOf(old) - old[l].rise_locked + k.rise_locked
<1> DEFINE V(locks) == [m \in Locks |-> locks[m].verise_amount]
           R(locks) == [m \in Locks |-> locks[m].rise_locked]
<1>1. new \in [Locks -> LockType] /\ new[l] = k /\ \A m \in Locks \ {l} : new[m] = old[m]
  OBVIOUS
<1>2. /\ V(old) \in [Locks -> Nat] /\ V(new) \in [Locks -> Nat]
      /\ R(old) \in [Locks -> Nat] /\ R(new) \in [Locks -> Nat]
  BY <1>1 DEF LockType
<1>3. /\ \A m \in Locks \ {l} : V(new)[m] = V(old)[m]
      /\ \A m \in Locks \ {l} : R(new)[m] = R(old)[m]
  BY <1>1
<1>4. /\ V(old)[l] = old[l].verise_amount /\ V(new)[l] = k.verise_amount
      /\ R(old)[l] = old[l].rise_locked /\ R(new)[l] = k.rise_locked
  BY <1>1
<1> HIDE DEF V, R
<1>5. /\ SumFunctionOnSet(V(old), Locks) \in Nat
      /\ V(old)[l] <= SumFunctionOnSet(V(old), Locks)
      /\ SumFunctionOnSet(V(new), Locks)
           = SumFunctionOnSet(V(old), Locks) - V(old)[l] + V(new)[l]
  BY <1>2, <1>3, TypeOfConstants, SumChange
<1>6. /\ SumFunctionOnSet(R(old), Locks) \in Nat
      /\ R(old)[l] <= SumFunctionOnSet(R(old), Locks)
      /\ SumFunctionOnSet(R(new), Locks)
           = SumFunctionOnSet(R(old), Locks) - R(old)[l] + R(new)[l]
  BY <1>2, <1>3, TypeOfConstants, SumChange
<1>7. QED BY <1>4, <1>5, <1>6 DEF VeriseOf, RiseOf, SumOverLocks, V, R

\* Current veRISE and claimable revenue are natural numbers.
LEMMA WeightType ==
  ASSUME LockInv, NEW l \in Locks
  PROVE  CurrentVerise(l) \in Nat /\ Claimable(l) \in Nat
<1>1. /\ lock[l] \in LockType /\ slot \in Nat /\ revenue_index \in Nat
      /\ lock[l].exists => lock[l].lock_start_slot <= slot
  BY DEF LockInv, TypeOK, Dated
<1>2. CurrentVerise(l) \in Nat
  <2>1. CASE ~lock[l].exists \/ slot >= lock[l].lock_end_slot
    BY <2>1 DEF CurrentVerise
  <2>2. CASE lock[l].exists /\ slot < lock[l].lock_end_slot
    <3> DEFINE total == lock[l].lock_end_slot - lock[l].lock_start_slot
               left == lock[l].lock_end_slot - slot
    <3>1. total \in Nat /\ total > 0 /\ left \in Nat /\ lock[l].verise_amount \in Nat
      BY <1>1, <2>2 DEF LockType
    <3> HIDE DEF total, left
    <3>2. lock[l].verise_amount * left \in Nat
      BY <3>1, MulDistributes
    <3>3. (lock[l].verise_amount * left) \div total \in Nat
      BY <3>1, <3>2, DivBounds
    <3>4. QED BY <3>3, <2>2 DEF CurrentVerise, AtLeastOne, total, left
  <2>3. QED BY <1>1, <2>1, <2>2 DEF LockType
<1>3. Claimable(l) \in Nat
  <2>1. /\ Monus(revenue_index, lock[l].last_revenue_index) \in Nat
        /\ lock[l].verise_amount \in Nat
    BY <1>1 DEF Monus, LockType
  <2>2. Monus(revenue_index, lock[l].last_revenue_index) * lock[l].verise_amount \in Nat
    BY <2>1, MulDistributes
  <2>3. QED BY <2>2, DivBounds, TypeOfConstants DEF Claimable
<1>4. QED BY <1>2, <1>3

\* The veRISE of a lock is a natural number.
LEMMA VeriseType ==
  ASSUME NEW amount \in Nat, NEW lock_slots \in Nat
  PROVE  Verise(amount, lock_slots) \in Nat
<1>1. amount * lock_slots \in Nat
  BY MulDistributes
<1>2. QED BY <1>1, DivBounds, TypeOfConstants DEF Verise

-----------------------------------------------------------------------------
(* The locks: initial states, and one lemma per instruction. *)

\* Nothing is locked at first.
LEMMA InitLocks == Init => LockInv
<1> SUFFICES ASSUME Init PROVE LockInv
  OBVIOUS
<1>1. TypeOK
  BY TypeOfConstants DEF Init, TypeOK, LockType, ProposalType, NoLock, NoProposal
<1>2. Blank /\ Dated
  BY DEF Init, Blank, Dated, NoLock
<1>3. TotalIsLocks /\ VaultHoldsLocks
  BY TypeOfConstants, SumZero DEF Init, TotalIsLocks, VaultHoldsLocks, SumOverLocks,
     NoLock
<1>4. QED BY <1>1, <1>2, <1>3 DEF LockInv

\* lock_rise adds what the new lock holds; the account was blank.
LEMMA LockRiseStep ==
  ASSUME LockInv, NEW l \in Locks, NEW amount \in LockAmounts,
         NEW lock_slots \in LockDurations, LockRise(l, amount, lock_slots)
  PROVE  LockInv'
<1> DEFINE verise == Verise(amount, lock_slots)
           k == [exists |-> TRUE, rise_locked |-> amount, verise_amount |-> verise,
                 lock_start_slot |-> slot, lock_end_slot |-> slot + lock_slots,
                 last_revenue_index |-> revenue_index]
<1>1. /\ lock \in [Locks -> LockType] /\ slot \in Nat /\ revenue_index \in Nat
      /\ amount \in Nat /\ lock_slots \in Nat
  BY TypeOfConstants DEF LockInv, TypeOK
<1>2. verise \in Nat
  BY <1>1, VeriseType
<1>3. /\ ~lock[l].exists
      /\ rise[OwnerOf(l)] >= amount
      /\ lock' = [lock EXCEPT ![l] = k]
      /\ total_verise' = total_verise + verise
      /\ rise' = [rise EXCEPT ![OwnerOf(l)] = @ - amount]
      /\ rise_vault' = rise_vault + amount
      /\ UNCHANGED <<settings, proposalVars, gauge_vote, revenueVars, slot>>
  BY DEF LockRise
<1> HIDE DEF verise
<1>4. k \in LockType
  BY <1>1, <1>2 DEF LockType
<1>5. lock[l] = NoLock
  BY <1>3 DEF LockInv, Blank
<1>6. TypeOK'
  <2>1. rise' \in [Owners -> Nat]
    BY <1>1, <1>3 DEF LockInv, TypeOK, Locks, OwnerOf
  <2>2. QED BY <1>1, <1>2, <1>3, <1>4, <2>1 DEF LockInv, TypeOK, proposalVars, revenueVars
<1>7. Blank' /\ Dated'
  BY <1>1, <1>3 DEF LockInv, Blank, Dated
<1> HIDE DEF k
<1>8. /\ VeriseOf(lock') = VeriseOf(lock) - NoLock.verise_amount + k.verise_amount
      /\ RiseOf(lock') = RiseOf(lock) - NoLock.rise_locked + k.rise_locked
      /\ VeriseOf(lock) \in Nat /\ RiseOf(lock) \in Nat
  BY <1>1, <1>3, <1>4, <1>5, LockWritten
<1>9. TotalIsLocks' /\ VaultHoldsLocks'
  BY <1>1, <1>2, <1>3, <1>8
     DEF LockInv, TotalIsLocks, VaultHoldsLocks, VeriseOf, RiseOf, NoLock, k
<1>10. QED BY <1>6, <1>7, <1>9 DEF LockInv

\* unlock_rise takes out what the lock held; the total never saturates.
LEMMA UnlockRiseStep ==
  ASSUME LockInv, NEW l \in Locks, UnlockRise(l)
  PROVE  LockInv'
<1>1. /\ lock \in [Locks -> LockType] /\ lock[l] \in LockType
      /\ total_verise \in Nat /\ rise_vault \in Nat
  BY DEF LockInv, TypeOK
<1>2. /\ rise_vault >= lock[l].rise_locked
      /\ lock' = [lock EXCEPT ![l] = NoLock]
      /\ total_verise' = Monus(total_verise, lock[l].verise_amount)
      /\ rise' = [rise EXCEPT ![OwnerOf(l)] = @ + lock[l].rise_locked]
      /\ rise_vault' = rise_vault - lock[l].rise_locked
      /\ UNCHANGED <<settings, proposalVars, gauge_vote, revenueVars, slot>>
  BY DEF UnlockRise, CloseLock
<1>3. NoLock \in LockType
  BY DEF NoLock, LockType
<1>4. TypeOK'
  <2>1. lock[l].rise_locked \in Nat /\ lock[l].verise_amount \in Nat
    BY <1>1 DEF LockType
  <2>2. rise' \in [Owners -> Nat]
    BY <1>2, <2>1 DEF LockInv, TypeOK, Locks, OwnerOf
  <2>3. total_verise' \in Nat /\ rise_vault' \in Nat
    BY <1>1, <1>2, <2>1 DEF Monus
  <2>4. QED BY <1>1, <1>2, <1>3, <2>2, <2>3
        DEF LockInv, TypeOK, proposalVars, revenueVars
<1>5. Blank' /\ Dated'
  BY <1>1, <1>2 DEF LockInv, Blank, Dated, NoLock
<1>6. /\ VeriseOf(lock') = VeriseOf(lock) - lock[l].verise_amount + NoLock.verise_amount
      /\ RiseOf(lock') = RiseOf(lock) - lock[l].rise_locked + NoLock.rise_locked
      /\ VeriseOf(lock) \in Nat /\ lock[l].verise_amount <= VeriseOf(lock)
      /\ RiseOf(lock) \in Nat
  <2>1. lock' = [lock EXCEPT ![l] = NoLock]
    BY <1>2
  <2>2. QED BY <1>1, <1>3, <2>1, LockWritten
<1>7. TotalIsLocks' /\ VaultHoldsLocks'
  BY <1>1, <1>2, <1>6 DEF LockInv, TotalIsLocks, VaultHoldsLocks, VeriseOf, RiseOf,
     NoLock, Monus, LockType
<1>8. QED BY <1>4, <1>5, <1>7 DEF LockInv

\* extend_lock replaces the lock's veRISE in the total.
LEMMA ExtendLockStep ==
  ASSUME LockInv, NEW l \in Locks, NEW additional_slots \in Extensions,
         ExtendLock(l, additional_slots)
  PROVE  LockInv'
<1> DEFINE end == lock[l].lock_end_slot + additional_slots
           verise == Verise(lock[l].rise_locked, end - slot)
           k == [lock[l] EXCEPT !.lock_end_slot = end, !.lock_start_slot = slot,
                                !.verise_amount = verise]
<1>1. /\ lock \in [Locks -> LockType] /\ lock[l] \in LockType
      /\ total_verise \in Nat /\ slot \in Nat /\ additional_slots \in Nat
  BY TypeOfConstants DEF LockInv, TypeOK
<1>2. /\ lock[l].exists
      /\ slot < lock[l].lock_end_slot
      /\ total_verise' = Monus(total_verise, lock[l].verise_amount) + verise
      /\ lock' = [lock EXCEPT ![l] = k]
      /\ UNCHANGED <<rise, rise_vault, settings, proposalVars, gauge_vote, revenueVars,
                     slot>>
  BY <1>1 DEF ExtendLock, ExtendedTotal
<1>3. verise \in Nat /\ end \in Nat
  <2>1. end \in Nat /\ end - slot \in Nat /\ lock[l].rise_locked \in Nat
    BY <1>1, <1>2 DEF LockType
  <2>2. QED BY <2>1, VeriseType
<1> HIDE DEF verise, end
<1>4. /\ k \in LockType /\ k.verise_amount = verise /\ k.rise_locked = lock[l].rise_locked
      /\ k.lock_start_slot = slot /\ k.exists
  BY <1>1, <1>2, <1>3 DEF LockType
<1> HIDE DEF k
<1>5. TypeOK'
  BY <1>1, <1>2, <1>3, <1>4 DEF LockInv, TypeOK, LockType, Monus, proposalVars,
     revenueVars
<1>6. Blank' /\ Dated'
  BY <1>1, <1>2, <1>4 DEF LockInv, Blank, Dated
<1>7. /\ VeriseOf(lock') = VeriseOf(lock) - lock[l].verise_amount + k.verise_amount
      /\ RiseOf(lock') = RiseOf(lock) - lock[l].rise_locked + k.rise_locked
      /\ VeriseOf(lock) \in Nat /\ lock[l].verise_amount <= VeriseOf(lock)
      /\ RiseOf(lock) \in Nat
  <2>1. lock' = [lock EXCEPT ![l] = k]
    BY <1>2
  <2>2. QED BY <1>1, <1>4, <2>1, LockWritten
<1>8. TotalIsLocks' /\ VaultHoldsLocks'
  BY <1>1, <1>2, <1>3, <1>4, <1>7 DEF LockInv, TotalIsLocks, VaultHoldsLocks, VeriseOf,
     RiseOf,
     Monus, LockType
<1>9. QED BY <1>5, <1>6, <1>8 DEF LockInv

-----------------------------------------------------------------------------
(* What the other instructions leave of the locks. *)

\* An instruction that keeps locks, totals and clock keeps the lock invariant if
\* it keeps the types.
LEMMA LocksKept ==
  ASSUME LockInv, TypeOK', UNCHANGED <<lock, total_verise, rise_vault, slot>>
  PROVE  LockInv'
  BY DEF LockInv, Blank, Dated, TotalIsLocks, VaultHoldsLocks

\* A proposal is written at its index.
LEMMA ProposalWritten ==
  ASSUME TypeOK, NEW i \in Indices, NEW p \in ProposalType,
         proposal' = [proposal EXCEPT ![i] = p]
  PROVE  /\ proposal' \in [Indices -> ProposalType]
         /\ proposal'[i] = p
         /\ \A j \in Indices \ {i} : proposal'[j] = proposal[j]
  BY DEF TypeOK

\* create_proposal, cast_vote, execute_proposal and close_proposal keep the types.
LEMMA CreateProposalLocks ==
  ASSUME LockInv, NEW owner \in Owners, CreateProposal(owner)
  PROVE  LockInv'
<1> DEFINE p == [NoProposal EXCEPT
                   !.exists = TRUE,
                   !.voting_end_slot = slot + settings.voting_period_slots,
                   !.execution_slot = slot + settings.voting_period_slots
                                        + settings.timelock_slots]
<1>1. /\ settings \in SettingsType /\ slot \in Nat /\ proposal_count \in Nat
      /\ active_proposal_count \in Nat
  BY TypeOfConstants DEF LockInv, TypeOK
<1>2. p \in ProposalType
  <2>1. /\ slot + settings.voting_period_slots \in Nat
        /\ slot + settings.voting_period_slots + settings.timelock_slots \in Nat
    BY <1>1 DEF SettingsType
  <2>2. QED BY <2>1 DEF ProposalType, NoProposal
<1>3. /\ proposal_count < MaxProposals
      /\ proposal' = [proposal EXCEPT ![proposal_count] = p]
      /\ proposal_count' = proposal_count + 1
      /\ active_proposal_count' = active_proposal_count + 1
      /\ UNCHANGED <<lockVars, settings, vote_records, gauge_vote, revenueVars, slot>>
  BY DEF CreateProposal
<1> HIDE DEF p
<1>4. TypeOK'
  BY <1>1, <1>2, <1>3, TypeOfConstants DEF LockInv, TypeOK, Indices, lockVars, revenueVars
<1>5. QED BY <1>3, <1>4, LocksKept DEF lockVars

LEMMA CastVoteLocks ==
  ASSUME LockInv, NEW l \in Locks, NEW i \in Indices, NEW vote_for \in BOOLEAN,
         CastVote(l, i, vote_for)
  PROVE  LockInv'
<1>1. CurrentVerise(l) \in Nat /\ proposal[i] \in ProposalType
  BY WeightType DEF LockInv, TypeOK
<1>2. /\ vote_records' = vote_records \cup {<<l, i>>}
      /\ UNCHANGED <<lockVars, settings, proposal_count, active_proposal_count,
                     gauge_vote,
                     revenueVars, slot>>
  BY DEF CastVote
<1>3. \E p \in ProposalType : proposal' = [proposal EXCEPT ![i] = p]
  <2> DEFINE weight == CurrentVerise(l)
             for == [proposal[i] EXCEPT !.votes_for = @ + weight]
             against == [proposal[i] EXCEPT !.votes_against = @ + weight]
  <2>1. for \in ProposalType /\ against \in ProposalType
    BY <1>1 DEF ProposalType
  <2>2. \/ proposal' = [proposal EXCEPT ![i] = for]
        \/ proposal' = [proposal EXCEPT ![i] = against]
    BY <1>1 DEF CastVote, LockInv, TypeOK
  <2>3. QED BY <2>1, <2>2
<1>4. TypeOK'
  BY <1>2, <1>3 DEF LockInv, TypeOK, lockVars, revenueVars
<1>5. QED BY <1>2, <1>4, LocksKept DEF lockVars

LEMMA ExecuteProposalLocks ==
  ASSUME LockInv, NEW i \in Indices, ExecuteProposal(i)
  PROVE  LockInv'
<1>1. proposal[i] \in ProposalType /\ active_proposal_count \in Nat
  BY DEF LockInv, TypeOK
<1> DEFINE p == [proposal[i] EXCEPT !.executed = TRUE]
<1>2. p \in ProposalType
  BY <1>1 DEF ProposalType
<1>3. /\ proposal' = [proposal EXCEPT ![i] = p]
      /\ active_proposal_count' = Monus(active_proposal_count, 1)
      /\ UNCHANGED <<lockVars, settings, proposal_count, vote_records, gauge_vote,
                     revenueVars, slot>>
  BY <1>1 DEF ExecuteProposal
<1> HIDE DEF p
<1>4. TypeOK'
  BY <1>1, <1>2, <1>3 DEF LockInv, TypeOK, Monus, lockVars, revenueVars
<1>5. QED BY <1>3, <1>4, LocksKept DEF lockVars

LEMMA CloseProposalLocks ==
  ASSUME LockInv, NEW i \in Indices, CloseProposal(i)
  PROVE  LockInv'
<1>1. NoProposal \in ProposalType /\ active_proposal_count \in Nat
  BY DEF LockInv, TypeOK, NoProposal, ProposalType
<1>2. TypeOK'
  BY <1>1 DEF CloseProposal, FreeSlot, LockInv, TypeOK, Monus, lockVars, revenueVars
<1>3. QED BY <1>2, LocksKept DEF CloseProposal, lockVars

\* Revenue moves the index by a quotient; votes and settings touch no lock.
LEMMA RevenueBookedLocks ==
  ASSUME LockInv, NEW amount \in Revenues, RevenueBooked(amount)
  PROVE  LockInv'
<1>1. /\ amount \in Nat /\ total_verise \in Nat /\ revenue_index \in Nat
      /\ verise_vault \in Nat
  BY TypeOfConstants DEF LockInv, TypeOK
<1>2. revenue_index' \in Nat
  <2>1. CASE total_verise > 0
    <3>1. amount * INDEX_SCALE \in Nat
      BY <1>1, TypeOfConstants, MulDistributes
    <3>2. (amount * INDEX_SCALE) \div total_verise \in Nat
      BY <1>1, <2>1, <3>1, DivBounds
    <3>3. QED BY <1>1, <2>1, <3>2 DEF RevenueBooked
  <2>2. CASE ~(total_verise > 0)
    BY <1>1, <2>2 DEF RevenueBooked
  <2>3. QED BY <2>1, <2>2
<1>3. TypeOK'
  BY <1>1, <1>2 DEF RevenueBooked, LockInv, TypeOK, lockVars, proposalVars
<1>4. QED BY <1>3, LocksKept DEF RevenueBooked, lockVars

LEMMA VoteGaugeLocks ==
  ASSUME LockInv, NEW l \in Locks, NEW allocation \in Allocations,
         VoteGauge(l, allocation)
  PROVE  LockInv'
<1>1. TypeOK'
  BY DEF VoteGauge, LockInv, TypeOK, lockVars, proposalVars, revenueVars, Locks, OwnerOf
<1>2. QED BY <1>1, LocksKept DEF VoteGauge, lockVars

LEMMA UpdateGovernanceConfigLocks ==
  ASSUME LockInv, NEW new \in Settings, UpdateGovernanceConfig(new)
  PROVE  LockInv'
<1>1. TypeOK'
  BY DEF UpdateGovernanceConfig, LockInv, TypeOK, lockVars, proposalVars, revenueVars
<1>2. QED BY <1>1, LocksKept DEF UpdateGovernanceConfig, lockVars

\* Time passing only ages the locks.
LEMMA NextSlotLocks ==
  ASSUME LockInv, NextSlot
  PROVE  LockInv'
<1>1. TypeOK'
  BY DEF NextSlot, LockInv, TypeOK, lockVars, proposalVars, revenueVars
<1>2. Dated'
  BY DEF NextSlot, LockInv, TypeOK, Dated, LockType, lockVars
<1>3. QED BY <1>1, <1>2
      DEF NextSlot, LockInv, Blank, TotalIsLocks, VaultHoldsLocks, lockVars

-----------------------------------------------------------------------------
(* The proposals. *)

\* The open proposals are finitely many.
LEMMA OpenFinite ==
  IsFiniteSet(OpenProposals) /\ Cardinality(OpenProposals) \in Nat
<1>1. OpenProposals \subseteq Indices
  BY DEF OpenProposals
<1>2. QED BY <1>1, TypeOfConstants, FS_Subset, FS_CardinalityType

\* No proposal is counted at first.
LEMMA InitProposals == Init => Numbered /\ ActiveIsOpen
<1> SUFFICES ASSUME Init PROVE Numbered /\ ActiveIsOpen
  OBVIOUS
<1>1. Numbered
  BY DEF Init, Numbered, NoProposal
<1>2. OpenProposals = {}
  BY DEF Init, OpenProposals, NoProposal
<1>3. QED BY <1>1, <1>2, FS_EmptySet DEF Init, ActiveIsOpen, OpenProposals

\* create_proposal takes an index that no proposal has, so it opens one more.
LEMMA CreateProposalStep ==
  ASSUME IInv, NEW owner \in Owners, CreateProposal(owner)
  PROVE  Numbered' /\ ActiveIsOpen'
<1>1. /\ proposal_count \in Indices /\ proposal_count \in Nat
      /\ proposal \in [Indices -> ProposalType]
      /\ ~proposal[proposal_count].exists
  <2>1. /\ proposal_count \in Nat /\ proposal_count < MaxProposals
        /\ proposal \in [Indices -> ProposalType]
    BY DEF CreateProposal, IInv, LockInv, TypeOK
  <2>2. proposal_count \in Indices
    BY <2>1, TypeOfConstants DEF Indices
  <2>3. QED BY <2>1, <2>2 DEF IInv, Numbered
<1>2. PICK p : /\ p.exists /\ ~p.executed
               /\ proposal' = [proposal EXCEPT ![proposal_count] = p]
  <2> DEFINE q == [NoProposal EXCEPT
                     !.exists = TRUE,
                     !.voting_end_slot = slot + settings.voting_period_slots,
                     !.execution_slot = slot + settings.voting_period_slots
                                          + settings.timelock_slots]
  <2>1. q.exists /\ ~q.executed
    BY DEF NoProposal
  <2>2. proposal' = [proposal EXCEPT ![proposal_count] = q]
    BY DEF CreateProposal
  <2>3. QED BY <2>1, <2>2
<1>3. /\ proposal_count' = proposal_count + 1
      /\ active_proposal_count' = active_proposal_count + 1
  BY DEF CreateProposal
<1>4. Numbered'
  BY <1>1, <1>2, <1>3 DEF IInv, Numbered, Indices
<1>5. /\ OpenProposals' = OpenProposals \cup {proposal_count}
      /\ proposal_count \notin OpenProposals
  BY <1>1, <1>2 DEF OpenProposals
<1>6. Cardinality(OpenProposals') = Cardinality(OpenProposals) + 1
  BY <1>5, OpenFinite, FS_AddElement
<1>7. ActiveIsOpen'
  BY <1>3, <1>6 DEF IInv, ActiveIsOpen, OpenProposals
<1>8. QED BY <1>4, <1>7

\* cast_vote opens and closes nothing.
LEMMA CastVoteStep ==
  ASSUME IInv, NEW l \in Locks, NEW i \in Indices, NEW vote_for \in BOOLEAN,
         CastVote(l, i, vote_for)
  PROVE  Numbered' /\ ActiveIsOpen'
<1>1. /\ proposal \in [Indices -> ProposalType]
      /\ UNCHANGED <<proposal_count, active_proposal_count>>
  BY DEF CastVote, IInv, LockInv, TypeOK
<1>2. \A j \in Indices : /\ proposal'[j].exists = proposal[j].exists
                         /\ proposal'[j].executed = proposal[j].executed
  BY <1>1 DEF CastVote, ProposalType
<1>3. OpenProposals' = OpenProposals
  BY <1>2 DEF OpenProposals
<1>4. QED BY <1>1, <1>2, <1>3 DEF IInv, Numbered, ActiveIsOpen, OpenProposals

\* A proposal that leaves the open ones takes one off their number, and so does
\* the saturating subtraction.
LEMMA LeavesOpen ==
  ASSUME IInv, NEW i \in OpenProposals, OpenProposals' = OpenProposals \ {i},
         active_proposal_count' = Monus(active_proposal_count, 1)
  PROVE  ActiveIsOpen'
<1>1. Cardinality(OpenProposals') = Cardinality(OpenProposals) - 1
  BY OpenFinite, FS_RemoveElement
<1>2. Cardinality(OpenProposals) \in Nat /\ Cardinality(OpenProposals) # 0
  BY OpenFinite, FS_EmptySet
<1>3. active_proposal_count = Cardinality(OpenProposals)
  BY DEF IInv, ActiveIsOpen, OpenProposals
<1>4. active_proposal_count' = Cardinality(OpenProposals')
  BY <1>1, <1>2, <1>3 DEF Monus
<1>5. QED BY <1>4 DEF ActiveIsOpen, OpenProposals

\* execute_proposal takes an open proposal out.
LEMMA ExecuteProposalStep ==
  ASSUME IInv, NEW i \in Indices, ExecuteProposal(i)
  PROVE  Numbered' /\ ActiveIsOpen'
<1>1. /\ proposal \in [Indices -> ProposalType]
      /\ proposal[i].exists /\ ~proposal[i].executed
      /\ proposal' = [proposal EXCEPT ![i].executed = TRUE]
      /\ active_proposal_count' = Monus(active_proposal_count, 1)
      /\ proposal_count' = proposal_count
  BY DEF ExecuteProposal, IInv, LockInv, TypeOK
<1>2. \A j \in Indices : /\ proposal'[j].exists = proposal[j].exists
                         /\ proposal'[j].executed = (proposal[j].executed \/ j = i)
  BY <1>1 DEF ProposalType
<1>3. Numbered'
  BY <1>1, <1>2 DEF IInv, Numbered
<1>4. i \in OpenProposals /\ OpenProposals' = OpenProposals \ {i}
  BY <1>1, <1>2 DEF OpenProposals
<1>5. QED BY <1>1, <1>3, <1>4, LeavesOpen

\* close_proposal frees the slot of a proposal that execution has not freed.
LEMMA CloseProposalStep ==
  ASSUME IInv, NEW i \in Indices, CloseProposal(i)
  PROVE  Numbered' /\ ActiveIsOpen'
<1>1. /\ proposal \in [Indices -> ProposalType]
      /\ proposal[i].exists
      /\ FreeSlot(proposal[i])
      /\ proposal' = [proposal EXCEPT ![i] = NoProposal]
      /\ proposal_count' = proposal_count
  BY DEF CloseProposal, IInv, LockInv, TypeOK
<1>2. OpenProposals' = OpenProposals \ {i}
  BY <1>1 DEF OpenProposals, NoProposal
<1>3. Numbered'
  BY <1>1 DEF IInv, Numbered, NoProposal
<1>4. CASE proposal[i].executed
  <2>1. OpenProposals' = OpenProposals /\ active_proposal_count' = active_proposal_count
    BY <1>1, <1>2, <1>4 DEF OpenProposals, FreeSlot
  <2>2. QED BY <1>3, <2>1 DEF IInv, ActiveIsOpen, OpenProposals
<1>5. CASE ~proposal[i].executed
  <2>1. /\ i \in OpenProposals
        /\ active_proposal_count' = Monus(active_proposal_count, 1)
    BY <1>1, <1>5 DEF OpenProposals, FreeSlot
  <2>2. QED BY <1>2, <1>3, <2>1, LeavesOpen
<1>6. QED BY <1>4, <1>5

\* Whatever leaves the proposals alone keeps what is said of them.
LEMMA ProposalsKept ==
  ASSUME IInv, UNCHANGED proposalVars
  PROVE  Numbered' /\ ActiveIsOpen'
  BY DEF IInv, Numbered, ActiveIsOpen, proposalVars

-----------------------------------------------------------------------------
(* Every step, and what follows. *)

\* Every step keeps the invariant.
LEMMA NextKeepsIInv == IInv /\ [Next]_vars => IInv'
<1> SUFFICES ASSUME IInv, [Next]_vars PROVE IInv'
  OBVIOUS
<1> USE DEF IInv
<1>1. ASSUME NEW l \in Locks, Locker(l) PROVE IInv'
  <2>1. CASE \E amount \in LockAmounts, lock_slots \in LockDurations :
               LockRise(l, amount, lock_slots)
    BY <2>1, LockRiseStep, ProposalsKept DEF LockRise
  <2>2. CASE \E additional_slots \in Extensions : ExtendLock(l, additional_slots)
    BY <2>2, ExtendLockStep, ProposalsKept DEF ExtendLock
  <2>3. CASE UnlockRise(l)
    BY <2>3, UnlockRiseStep, ProposalsKept DEF UnlockRise
  <2>4. CASE \E i \in Indices, vote_for \in BOOLEAN : CastVote(l, i, vote_for)
    BY <2>4, CastVoteLocks, CastVoteStep
  <2>5. CASE \E allocation \in Allocations : VoteGauge(l, allocation)
    BY <2>5, VoteGaugeLocks, ProposalsKept DEF VoteGauge
  <2>6. QED BY <1>1, <2>1, <2>2, <2>3, <2>4, <2>5 DEF Locker
<1>2. ASSUME NEW owner \in Owners, CreateProposal(owner) PROVE IInv'
  BY <1>2, CreateProposalLocks, CreateProposalStep
<1>3. ASSUME NEW i \in Indices, ExecuteProposal(i) \/ CloseProposal(i) PROVE IInv'
  BY <1>3, ExecuteProposalLocks, ExecuteProposalStep, CloseProposalLocks,
     CloseProposalStep
<1>4. ASSUME NEW new \in Settings, UpdateGovernanceConfig(new) PROVE IInv'
  BY <1>4, UpdateGovernanceConfigLocks, ProposalsKept DEF UpdateGovernanceConfig
<1>5. ASSUME NEW amount \in Revenues, RevenueBooked(amount) PROVE IInv'
  BY <1>5, RevenueBookedLocks, ProposalsKept DEF RevenueBooked
<1>6. CASE NextSlot
  BY <1>6, NextSlotLocks, ProposalsKept DEF NextSlot
<1>7. CASE UNCHANGED vars
  <2>1. TypeOK'
    BY <1>7 DEF vars, LockInv, TypeOK, lockVars, proposalVars, revenueVars
  <2>2. LockInv'
    BY <1>7, <2>1, LocksKept DEF vars, lockVars
  <2>3. QED BY <1>7, <2>2, ProposalsKept DEF vars
<1>8. QED BY <1>1, <1>2, <1>3, <1>4, <1>5, <1>6, <1>7 DEF Next

\* The invariant holds in every reachable state.
LEMMA Inductive == Spec => []IInv
<1>1. Init => IInv
  BY InitLocks, InitProposals DEF IInv
<1>2. QED BY <1>1, NextKeepsIInv, PTL DEF Spec

\* Every field of locks, proposals and configuration keeps its type: no counter
\* goes negative, and veRISE never decays by a division by zero.
THEOREM TypeCorrect == Spec => []TypeOK
<1>1. IInv => TypeOK
  BY DEF IInv, LockInv
<1>2. QED BY <1>1, Inductive, PTL

\* total_verise is the veRISE of the existing locks, however locks are extended,
\* unlocked and opened again under the same nonce: its saturating subtractions
\* never saturate.
THEOREM TotalAlwaysLocks == Spec => []TotalIsLocks
<1>1. IInv => TotalIsLocks
  BY DEF IInv, LockInv
<1>2. QED BY <1>1, Inductive, PTL

\* rise_vault holds the RISE of the existing locks.
THEOREM VaultAlwaysHoldsLocks == Spec => []VaultHoldsLocks
<1>1. IInv => VaultHoldsLocks
  BY DEF IInv, LockInv
<1>2. QED BY <1>1, Inductive, PTL

\* active_proposal_count is the number of proposals still open, through execution
\* and closing in either order.
THEOREM ActiveAlwaysOpen == Spec => []ActiveIsOpen
<1>1. IInv => ActiveIsOpen
  BY DEF IInv
<1>2. QED BY <1>1, Inductive, PTL

-----------------------------------------------------------------------------
(* The gauge votes and their tally. *)

\* Every vote on the books shares out the full weight.
VotesFull == \A o \in WithGaugeVote : FullWeight(gauge_vote[o])

\* Only vote_gauge writes gauge votes.
LEMMA GaugeVotesKept ==
  ASSUME [Next]_vars
  PROVE  \/ UNCHANGED gauge_vote
         \/ \E l \in Locks, allocation \in Allocations : VoteGauge(l, allocation)
<1>1. ASSUME NEW l \in Locks, Locker(l), UNCHANGED gauge_vote => FALSE
      PROVE  \E allocation \in Allocations : VoteGauge(l, allocation)
  BY <1>1 DEF Locker, LockRise, ExtendLock, UnlockRise, CastVote
<1>2. CASE UNCHANGED vars
  BY <1>2 DEF vars
<1>3. CASE Next
  BY <1>1, <1>3 DEF Next, CreateProposal, ExecuteProposal, CloseProposal,
     UpdateGovernanceConfig, RevenueBooked, NextSlot
<1>4. QED BY <1>2, <1>3

LEMMA VotesStayFull == IInv /\ VotesFull /\ [Next]_vars => VotesFull'
<1> SUFFICES ASSUME IInv, VotesFull, [Next]_vars PROVE VotesFull'
  OBVIOUS
<1>1. CASE UNCHANGED gauge_vote
  BY <1>1 DEF VotesFull, WithGaugeVote, FullWeight
<1>2. ASSUME NEW l \in Locks, NEW allocation \in Allocations, VoteGauge(l, allocation)
      PROVE  VotesFull'
  <2>1. gauge_vote' = [gauge_vote EXCEPT ![OwnerOf(l)] = allocation]
        /\ FullWeight(allocation)
    BY <1>2 DEF VoteGauge
  <2>2. gauge_vote \in [Owners -> Allocations \cup {NoVote}]
    BY DEF IInv, LockInv, TypeOK
  <2>3. ASSUME NEW o \in WithGaugeVote' PROVE FullWeight(gauge_vote'[o])
    <3>1. CASE o = OwnerOf(l)
      BY <2>1, <2>2, <2>3, <3>1 DEF WithGaugeVote
    <3>2. CASE o # OwnerOf(l)
      <4>1. gauge_vote'[o] = gauge_vote[o] /\ o \in WithGaugeVote
        BY <2>1, <2>2, <2>3, <3>2 DEF WithGaugeVote
      <4>2. QED BY <4>1 DEF VotesFull
    <3>3. QED BY <3>1, <3>2
  <2>4. QED BY <2>3 DEF VotesFull, FullWeight
<1>3. QED BY <1>1, <1>2, GaugeVotesKept

\* What a voter's vote looks like, and what the tally weighs it by.
LEMMA VoteType ==
  ASSUME IInv, VotesFull, NEW o \in Voters
  PROVE  /\ DOMAIN gauge_vote[o] \subseteq VotedPools
         /\ DOMAIN gauge_vote[o] \subseteq Pools
         /\ \A p \in DOMAIN gauge_vote[o] : gauge_vote[o][p] \in Nat
         /\ SumFunctionOnSet(gauge_vote[o], DOMAIN gauge_vote[o]) = BPS
<1>1. o \in WithGaugeVote
  BY DEF Voters
<1>2. gauge_vote[o] \in Allocations
  BY <1>1 DEF IInv, LockInv, TypeOK, WithGaugeVote
<1>3. FullWeight(gauge_vote[o])
  BY <1>1 DEF VotesFull
<1>4. QED BY <1>2, <1>3, GovernanceAssumption DEF FullWeight, VotedPools

LEMMA LockPowerType ==
  ASSUME IInv, NEW l \in Locks
  PROVE  LockPower(l) \in Nat
<1> DEFINE total == lock[l].lock_end_slot - lock[l].lock_start_slot
           left == lock[l].lock_end_slot - slot
<1>1. lock[l] \in LockType /\ slot \in Nat
  BY DEF IInv, LockInv, TypeOK
<1>2. CASE \/ ~lock[l].exists \/ slot >= lock[l].lock_end_slot
           \/ lock[l].lock_end_slot <= lock[l].lock_start_slot
  BY <1>2 DEF LockPower
<1>3. CASE /\ lock[l].exists /\ ~(slot >= lock[l].lock_end_slot)
           /\ ~(lock[l].lock_end_slot <= lock[l].lock_start_slot)
  <2>1. total \in Nat /\ total > 0 /\ left \in Nat /\ lock[l].verise_amount \in Nat
    BY <1>1, <1>3 DEF LockType
  <2> HIDE DEF total, left
  <2>2. (lock[l].verise_amount * left) \div total \in Nat
    BY <2>1, ScaledType
  <2>3. QED BY <1>3, <2>2 DEF LockPower, total, left
<1>4. QED BY <1>2, <1>3

LEMMA TallyTypes ==
  ASSUME IInv, VotesFull
  PROVE  /\ IsFiniteSet(Voters) /\ IsFiniteSet(VotedPools) /\ VotedPools \subseteq Pools
         /\ \A o \in Voters : Power(o) \in Nat /\ Power(o) > 0
         /\ \A o \in Voters, p \in VotedPools : Weight(o, p) \in Nat
         /\ TotalPower \in Nat
         /\ VotedPools # {} => TotalPower > 0
<1>1. IsFiniteSet(Voters)
  <2>1. Voters \subseteq Owners
    BY DEF Voters, WithGaugeVote
  <2>2. QED BY <2>1, FS_Subset, GovernanceAssumption
<1>2. VotedPools \subseteq Pools
  BY VoteType DEF VotedPools
<1>3. IsFiniteSet(VotedPools)
  BY <1>2, FS_Subset, GovernanceAssumption
<1>4. ASSUME NEW o \in Voters PROVE Power(o) \in Nat /\ Power(o) > 0
  <2> DEFINE own == {l \in Locks : OwnerOf(l) = o}
             f == [l \in Locks |-> LockPower(l)]
  <2>1. IsFiniteSet(own) /\ own \subseteq Locks
    BY FS_Subset, TypeOfConstants
  <2>2. \A l \in own : f[l] \in Nat
    BY <2>1, LockPowerType
  <2> HIDE DEF f, own
  <2>3. SumFunctionOnSet(f, own) \in Nat
    BY <2>1, <2>2, SumNat
  <2>4. Power(o) \in Nat
    BY <2>3 DEF Power, f, own
  <2>5. QED BY <2>4 DEF Voters
<1>5. ASSUME NEW o \in Voters, NEW p \in VotedPools PROVE Weight(o, p) \in Nat
  BY VoteType DEF Weight
<1> DEFINE f == [o \in Voters |-> Power(o)]
<1>6. \A o \in Voters : f[o] \in Nat /\ f[o] > 0
  BY <1>4
<1>7. TotalPower = SumFunctionOnSet(f, Voters)
  BY DEF TotalPower
<1> HIDE DEF f
<1>8. TotalPower \in Nat
  BY <1>1, <1>6, <1>7, SumNat
<1>9. ASSUME VotedPools # {} PROVE TotalPower > 0
  <2>1. PICK o \in Voters : TRUE
    BY <1>9 DEF VotedPools
  <2>2. f[o] <= SumFunctionOnSet(f, Voters)
    BY <1>1, <1>6, SumMember
  <2>3. QED BY <1>6, <1>7, <1>8, <2>2
<1>10. QED BY <1>1, <1>2, <1>3, <1>4, <1>5, <1>8, <1>9

\* Every voter casts the full weight, so the votes of all pools together weigh
\* BPS times the power that voted.
LEMMA VotesAddUp ==
  ASSUME IInv, VotesFull,
         NEW votes, \A p \in VotedPools : votes[p] = VotesFor(p)
  PROVE  /\ \A p \in VotedPools : VotesFor(p) \in Nat
         /\ SumFunctionOnSet(votes, VotedPools) = TotalPower * BPS
<1> DEFINE Cast(o) == [p \in VotedPools |-> Weight(o, p) * Power(o)]
           Got(p) == [o \in Voters |-> Weight(o, p) * Power(o)]
           cast == [o \in Voters |-> Cast(o)]
           got == [p \in VotedPools |-> Got(p)]
           power == [o \in Voters |-> Power(o)]
           row == [o \in Voters |-> Power(o) * BPS]
<1>1. /\ \A o \in Voters : Power(o) \in Nat
      /\ IsFiniteSet(Voters) /\ IsFiniteSet(VotedPools) /\ BPS \in Nat
  BY TallyTypes, GovernanceAssumption
<1>2. \A o \in Voters, p \in VotedPools : Weight(o, p) \in Nat
  BY TallyTypes
<1>3. \A o \in Voters, p \in VotedPools : Weight(o, p) * Power(o) \in Nat
  BY <1>1, <1>2, MulDistributes
<1>4. ASSUME NEW p \in VotedPools
      PROVE  VotesFor(p) = SumFunctionOnSet(Got(p), Voters) /\ VotesFor(p) \in Nat
  <2>1. \A o \in Voters : Got(p)[o] \in Nat
    BY <1>3
  <2>2. VotesFor(p) = SumFunctionOnSet(Got(p), Voters)
    BY DEF VotesFor
  <2> HIDE DEF Got
  <2>3. QED BY <1>1, <2>1, <2>2, SumNat
<1>5. ASSUME NEW o \in Voters
      PROVE  row[o] = SumFunctionOnSet(Cast(o), VotedPools)
  <2> DEFINE w == [p \in VotedPools |-> Weight(o, p)]
             own == DOMAIN gauge_vote[o]
  <2>1. own \in SUBSET VotedPools
    BY VoteType
  <2>2. \A p \in VotedPools : w[p] \in Int
    BY <1>2
  <2>3. \A p \in VotedPools : Cast(o)[p] = w[p] * Power(o)
    OBVIOUS
  <2>4. /\ \A p \in VotedPools \ own : w[p] = 0
        /\ \A p \in own : w[p] = gauge_vote[o][p]
    BY <2>1 DEF Weight
  <2>5. SumFunctionOnSet(gauge_vote[o], own) = BPS
    BY VoteType
  <2>6. row[o] = BPS * Power(o)
    BY <1>1
  <2>7. Power(o) \in Int
    BY <1>1
  <2> HIDE DEF w, own, Cast, row
  <2>8. SumFunctionOnSet(w, VotedPools) = SumFunctionOnSet(w, own)
    BY <1>1, <2>1, <2>2, <2>4, SumSupport
  <2>9. SumFunctionOnSet(w, own) = SumFunctionOnSet(gauge_vote[o], own)
    BY <1>1, <2>1, <2>4, FS_Subset, SumSame
  <2>10. SumFunctionOnSet(Cast(o), VotedPools) = SumFunctionOnSet(w, VotedPools) * Power(o)
    BY <1>1, <2>2, <2>3, <2>7, SumScale
  <2>11. QED BY <2>5, <2>6, <2>8, <2>9, <2>10
<1>6. \A o \in Voters : power[o] \in Int /\ row[o] = power[o] * BPS
  BY <1>1
<1>7. TotalPower = SumFunctionOnSet(power, Voters)
  BY DEF TotalPower
<1>8. Table(Voters, VotedPools, cast, got)
  BY <1>3 DEF Table
<1>9. /\ \A o \in Voters : row[o] = SumFunctionOnSet(cast[o], VotedPools)
      /\ \A p \in VotedPools : votes[p] = SumFunctionOnSet(got[p], Voters)
  <2>1. /\ \A o \in Voters : cast[o] = Cast(o)
        /\ \A p \in VotedPools : got[p] = Got(p)
    OBVIOUS
  <2> HIDE DEF cast, got, Cast, Got, row
  <2>2. QED BY <1>4, <1>5, <2>1
<1> HIDE DEF Cast, Got, cast, got, row, power
<1>10. SumFunctionOnSet(row, Voters) = SumFunctionOnSet(votes, VotedPools)
  <2>1. IsFiniteSet(Voters) /\ IsFiniteSet(VotedPools)
    BY <1>1
  <2>2. QED BY <2>1, <1>8, <1>9, SumExchange
<1>11. SumFunctionOnSet(row, Voters) = SumFunctionOnSet(power, Voters) * BPS
  BY <1>1, <1>6, SumScale
<1>12. QED BY <1>4, <1>7, <1>10, <1>11

\* Rounded down, the shares come to the full weight but for less than one basis
\* point per pool.
LEMMA SharesAddUp ==
  ASSUME IInv, VotesFull, VotedPools # {}
  PROVE  /\ DOMAIN Shares = VotedPools
         /\ \A p \in VotedPools : Shares[p] \in Nat
         /\ Cardinality(VotedPools) \in Nat
         /\ BPS - SumFunctionOnSet(Shares, VotedPools) \in 0..(Cardinality(VotedPools) - 1)
<1> DEFINE n == Cardinality(VotedPools)
           votes == [p \in VotedPools |-> VotesFor(p)]
           low == [p \in VotedPools |-> Shares[p] * TotalPower]
           one == [p \in VotedPools |-> 1]
           more == [p \in VotedPools |-> Shares[p] + 1]
           high == [p \in VotedPools |-> (Shares[p] + 1) * TotalPower]
           S == SumFunctionOnSet(Shares, VotedPools)
<1>1. /\ IsFiniteSet(VotedPools) /\ TotalPower \in Nat /\ TotalPower > 0
      /\ BPS \in Nat /\ BPS > 0
  BY TallyTypes, GovernanceAssumption
<1>2. n \in Nat /\ n > 0
  BY <1>1, FS_CardinalityType, FS_EmptySet
<1>3. DOMAIN Shares = VotedPools
  BY DEF Shares
<1>4. \A p \in VotedPools : votes[p] = VotesFor(p)
  OBVIOUS
<1> HIDE DEF votes
<1>5. /\ \A p \in VotedPools : VotesFor(p) \in Nat
      /\ SumFunctionOnSet(votes, VotedPools) = TotalPower * BPS
  BY <1>4, VotesAddUp
<1>6. ASSUME NEW p \in VotedPools
      PROVE  /\ Shares[p] \in Nat
             /\ Shares[p] * TotalPower <= VotesFor(p)
             /\ VotesFor(p) < (Shares[p] + 1) * TotalPower
  <2>1. Shares[p] = ((VotesFor(p) * BPS) \div TotalPower) \div BPS
    BY DEF Shares
  <2>2. VotesFor(p) \in Nat
    BY <1>5
  <2>3. QED BY <1>1, <2>1, <2>2, TwiceRounded
<1>7. S \in Nat
  BY <1>1, <1>6, SumNat
<1>8. S <= BPS
  <2>1. \A p \in VotedPools : low[p] = Shares[p] * TotalPower
    OBVIOUS
  <2>2. \A p \in VotedPools : low[p] \in Int /\ votes[p] \in Int /\ low[p] <= votes[p]
    BY <1>1, <1>4, <1>5, <1>6, MulDistributes
  <2> HIDE DEF low
  <2>3. SumFunctionOnSet(low, VotedPools) = S * TotalPower
    BY <1>1, <1>6, <2>1, SumScale
  <2>4. SumFunctionOnSet(low, VotedPools) <= SumFunctionOnSet(votes, VotedPools)
    BY <1>1, <2>2, SumMono
  <2>5. S * TotalPower <= BPS * TotalPower
    BY <1>1, <1>5, <2>3, <2>4
  <2> HIDE DEF S
  <2>6. QED BY <1>1, <1>7, <2>5, MulCancel
<1>9. BPS < S + n
  <2>1. \A p \in VotedPools :
          /\ one[p] = 1 /\ more[p] = Shares[p] + one[p]
          /\ high[p] = more[p] * TotalPower
          /\ Shares[p] \in Int /\ one[p] \in Int /\ more[p] \in Int
    BY <1>6
  <2>2. \A p \in VotedPools : high[p] \in Int /\ votes[p] \in Int /\ votes[p] + 1 <= high[p]
    BY <1>1, <1>4, <1>5, <1>6, MulDistributes
  <2> DEFINE next == [p \in VotedPools |-> votes[p] + one[p]]
  <2>3. \A p \in VotedPools :
          next[p] = votes[p] + one[p] /\ next[p] \in Int /\ next[p] <= high[p]
    BY <2>1, <2>2
  <2> HIDE DEF one, more, high, next
  <2>4. SumFunctionOnSet(one, VotedPools) = n
    BY <1>1, <1>2, <2>1, SumConstant
  <2>5. SumFunctionOnSet(more, VotedPools) = S + n
    BY <1>1, <2>1, <2>4, SumPlus
  <2>6. SumFunctionOnSet(high, VotedPools) = (S + n) * TotalPower
    BY <1>1, <2>1, <2>5, SumScale
  <2>7. SumFunctionOnSet(next, VotedPools) = SumFunctionOnSet(votes, VotedPools) + n
    BY <1>1, <2>1, <2>2, <2>3, <2>4, SumPlus
  <2>8. SumFunctionOnSet(next, VotedPools) <= SumFunctionOnSet(high, VotedPools)
    BY <1>1, <2>2, <2>3, SumMono
  <2> HIDE DEF S, n
  <2>9. TotalPower * BPS + n <= (S + n) * TotalPower
    BY <1>5, <2>6, <2>7, <2>8
  <2>10. SUFFICES ASSUME S + n <= BPS PROVE FALSE
    BY <1>1, <1>2, <1>7
  <2>11. (S + n) * TotalPower <= BPS * TotalPower
    BY <1>1, <1>2, <1>7, <2>10, MulMono
  <2>12. BPS * TotalPower = TotalPower * BPS /\ BPS * TotalPower \in Nat
    BY <1>1
  <2>13. (S + n) * TotalPower \in Nat
    BY <1>1, <1>2, <1>7, MulDistributes
  <2>14. QED BY <1>2, <2>9, <2>11, <2>12, <2>13
<1>10. QED BY <1>1, <1>2, <1>3, <1>6, <1>7, <1>8, <1>9

\* Whichever voted pool comes up last, the normalized shares lie between 0 and
\* the full weight and add up to it.
LEMMA NormalizedAddsUp ==
  ASSUME IInv, VotesFull, NEW last \in VotedPools,
         NEW w, w = Normalized(Shares, last)
  PROVE  /\ DOMAIN w = VotedPools
         /\ \A p \in VotedPools : w[p] \in 0..BPS
         /\ SumFunctionOnSet(w, VotedPools) = BPS
         /\ w[last] - Shares[last] \in 0..(Cardinality(VotedPools) - 1)
<1> DEFINE others == SumFunctionOnSet(Shares, VotedPools \ {last})
           S == SumFunctionOnSet(Shares, VotedPools)
           n == Cardinality(VotedPools)
<1>1. /\ DOMAIN Shares = VotedPools
      /\ \A p \in VotedPools : Shares[p] \in Nat /\ Shares[p] \in Int
      /\ n \in Nat /\ BPS - S \in 0..(n - 1)
  BY SharesAddUp
<1>2. IsFiniteSet(VotedPools) /\ IsFiniteSet(VotedPools \ {last}) /\ BPS \in Nat
  BY TallyTypes, FS_Subset, GovernanceAssumption
<1>3. S = Shares[last] + others
  BY <1>1, <1>2, SumRemove
<1>4. others \in Nat
  BY <1>1, <1>2, SumNat
<1>5. w = [Shares EXCEPT ![last] = BPS - others]
  BY <1>1 DEF Normalized
<1>6. /\ DOMAIN w = VotedPools /\ w[last] = BPS - others
      /\ \A p \in VotedPools \ {last} : w[p] = Shares[p]
  <2> HIDE DEF others
  <2>1. Shares = [p \in VotedPools |-> Shares[p]]
    BY DEF Shares
  <2>2. QED BY <1>1, <1>5, <2>1
<1> HIDE DEF others, S, n
<1>7. w[last] - Shares[last] = BPS - S /\ w[last] \in Nat
  BY <1>1, <1>2, <1>3, <1>4, <1>6
<1>8. \A p \in VotedPools : w[p] \in Nat /\ w[p] \in Int
  BY <1>1, <1>6, <1>7
<1>9. SumFunctionOnSet(w, VotedPools) = BPS
  <2>1. SumFunctionOnSet(w, VotedPools) = S - Shares[last] + w[last]
    BY <1>1, <1>2, <1>6, <1>8, SumUpdate DEF S
  <2>2. QED BY <1>1, <1>2, <1>3, <1>4, <1>6, <2>1
<1>10. ASSUME NEW p \in VotedPools PROVE w[p] \in 0..BPS
  <2>1. w[p] <= SumFunctionOnSet(w, VotedPools)
    BY <1>2, <1>8, SumMember
  <2>2. QED BY <1>2, <1>8, <1>9, <2>1
<1>11. QED BY <1>1, <1>6, <1>7, <1>9, <1>10 DEF n

\* The weights set for the known pools are part of what was shared out, or the
\* defaults.
LEMMA FinalWithinBudget ==
  ASSUME NEW S, IsFiniteSet(S),
         NEW w, DOMAIN w = S, \A p \in S : w[p] \in 0..BPS,
         SumFunctionOnSet(w, S) = BPS,
         NEW final, final = FinalWeights(w)
  PROVE  /\ \A p \in KnownPools : final[p] \in 0..BPS
         /\ SumFunctionOnSet(final, KnownPools) <= BPS
<1> DEFINE known == S \cap KnownPools
<1>1. /\ IsFiniteSet(KnownPools) /\ IsFiniteSet(known)
      /\ known \in SUBSET KnownPools /\ known \in SUBSET S /\ BPS \in Nat
  BY FS_Subset, TallyAssumption, GovernanceAssumption
<1>2. CASE \A p \in known : w[p] <= 0
  <2>1. final = DEFAULT_WEIGHTS
    BY <1>2 DEF FinalWeights
  <2>2. /\ \A p \in KnownPools : final[p] \in Nat
        /\ SumFunctionOnSet(final, KnownPools) = BPS
    BY <2>1, TallyAssumption
  <2>3. \A p \in KnownPools : final[p] <= BPS
    BY <1>1, <2>2, SumMember
  <2>4. QED BY <1>1, <2>2, <2>3
<1>3. CASE ~(\A p \in known : w[p] <= 0)
  <2>1. final = [p \in KnownPools |-> IF p \in known THEN w[p] ELSE 0]
    BY <1>3 DEF FinalWeights
  <2>2. /\ \A p \in KnownPools : final[p] \in 0..BPS /\ final[p] \in Int
        /\ \A p \in known : final[p] = w[p]
        /\ \A p \in KnownPools \ known : final[p] = 0
    BY <1>1, <2>1
  <2>3. \A p \in S : w[p] \in Nat
    BY <1>1
  <2> HIDE DEF known
  <2>4. SumFunctionOnSet(final, KnownPools) = SumFunctionOnSet(final, known)
    BY <1>1, <2>2, SumSupport
  <2>5. SumFunctionOnSet(final, known) = SumFunctionOnSet(w, known)
    BY <1>1, <2>2, SumSame
  <2>6. SumFunctionOnSet(w, known) <= SumFunctionOnSet(w, S)
    BY <1>1, <2>3, SumPart
  <2>7. QED BY <2>2, <2>4, <2>5, <2>6
<1>4. QED BY <1>2, <1>3

LEMMA TallyFollows == IInv /\ VotesFull => TallyWithinBudget
<1> SUFFICES ASSUME IInv, VotesFull PROVE TallyWithinBudget
  OBVIOUS
<1>1. ASSUME NEW last \in DOMAIN Shares,
             NEW w, w = Normalized(Shares, last), NEW final, final = FinalWeights(w)
      PROVE  /\ \A p \in KnownPools : final[p] \in 0..BPS
             /\ SumFunctionOnSet(final, KnownPools) <= BPS
             /\ w[last] - Shares[last] \in 0..(Cardinality(DOMAIN Shares) - 1)
  <2>1. DOMAIN Shares = VotedPools /\ last \in VotedPools
    BY <1>1 DEF Shares
  <2>2. /\ DOMAIN w = VotedPools
        /\ \A p \in VotedPools : w[p] \in 0..BPS
        /\ SumFunctionOnSet(w, VotedPools) = BPS
        /\ w[last] - Shares[last] \in 0..(Cardinality(VotedPools) - 1)
    BY <1>1, <2>1, NormalizedAddsUp
  <2>3. IsFiniteSet(VotedPools)
    BY TallyTypes
  <2>4. /\ \A p \in KnownPools : final[p] \in 0..BPS
        /\ SumFunctionOnSet(final, KnownPools) <= BPS
    BY <1>1, <2>2, <2>3, FinalWithinBudget
  <2>5. QED BY <2>1, <2>2, <2>4
<1>2. QED BY <1>1 DEF TallyWithinBudget

\* In every reachable state the tally sets weights that set_gauge_weight accepts
\* and that share out at most one epoch's emissions, whatever has become of the
\* locks whose owners voted; and the pool that absorbs the rounding gets less
\* than one basis point per voted pool on top of its votes.
THEOREM TallyAlwaysWithinBudget == Spec => []TallyWithinBudget
<1>1. Init => VotesFull
  BY DEF Init, VotesFull, WithGaugeVote
<1>2. QED BY <1>1, Inductive, VotesStayFull, TallyFollows, PTL DEF Spec

-----------------------------------------------------------------------------
(* What the revenue index allots, when no extension raises a lock's veRISE    *)
(* after a booking.                                                          *)

\* What the index allots to a lock, in units of 1 / INDEX_SCALE lamports.
AllottedAt(k, index) == Monus(index, k.last_revenue_index) * k.verise_amount
Allotted(locks, index) == SumOverLocks([l \in Locks |-> AllottedAt(locks[l], index)])

\* In these units all locks together are allotted no more than was booked.
RevenueSolvent == Allotted(lock, revenue_index) <= verise_vault * INDEX_SCALE

LEMMA AllottedType ==
  ASSUME NEW k \in LockType, NEW index \in Nat
  PROVE  /\ AllottedAt(k, index) \in Nat
         /\ k.last_revenue_index = index => AllottedAt(k, index) = 0
<1>1. Monus(index, k.last_revenue_index) \in Nat /\ k.verise_amount \in Nat
  BY DEF Monus, LockType
<1>2. Monus(index, k.last_revenue_index) * k.verise_amount \in Nat
  BY <1>1, MulDistributes
<1>3. k.last_revenue_index = index => Monus(index, k.last_revenue_index) = 0
  BY DEF Monus
<1>4. k.last_revenue_index = index => Monus(index, k.last_revenue_index) * k.verise_amount = 0
  BY <1>1, <1>3
<1>5. QED BY <1>2, <1>4 DEF AllottedAt

\* Two states of the locks that differ at one lock only.
DifferAt(l, old, new) ==
  /\ old \in [Locks -> LockType] /\ new \in [Locks -> LockType]
  /\ \A m \in Locks \ {l} : new[m] = old[m]

LEMMA AllottedWritten ==
  ASSUME NEW l \in Locks, NEW old, NEW new, DifferAt(l, old, new), NEW index \in Nat
  PROVE  /\ Allotted(old, index) \in Nat /\ Allotted(new, index) \in Nat
         /\ AllottedAt(old[l], index) <= Allotted(old, index)
         /\ Allotted(new, index)
              = Allotted(old, index) - AllottedAt(old[l], index)
                  + AllottedAt(new[l], index)
<1> DEFINE U(locks) == [m \in Locks |-> AllottedAt(locks[m], index)]
<1>1. U(old) \in [Locks -> Nat] /\ U(new) \in [Locks -> Nat]
  BY AllottedType DEF DifferAt
<1>2. \A m \in Locks \ {l} : U(new)[m] = U(old)[m]
  BY DEF DifferAt
<1>3. U(old)[l] = AllottedAt(old[l], index) /\ U(new)[l] = AllottedAt(new[l], index)
  OBVIOUS
<1> HIDE DEF U
<1>4. /\ SumFunctionOnSet(U(old), Locks) \in Nat
      /\ U(old)[l] <= SumFunctionOnSet(U(old), Locks)
      /\ SumFunctionOnSet(U(new), Locks)
           = SumFunctionOnSet(U(old), Locks) - U(old)[l] + U(new)[l]
  BY <1>1, <1>2, TypeOfConstants, SumChange
<1>5. SumFunctionOnSet(U(new), Locks) \in Nat
  BY <1>1, TypeOfConstants, SumNat
<1>6. QED BY <1>3, <1>4, <1>5 DEF Allotted, SumOverLocks, U

\* Opening a lock, closing one or extending one without a raise after a booking
\* allots nobody more.
LEMMA AllottedKept ==
  ASSUME LockInv, RevenueSolvent, NEW l \in Locks, DifferAt(l, lock, lock'),
         UNCHANGED revenueVars,
         AllottedAt(lock'[l], revenue_index) <= AllottedAt(lock[l], revenue_index)
  PROVE  RevenueSolvent'
<1>1. /\ lock[l] \in LockType /\ lock'[l] \in LockType /\ revenue_index \in Nat
      /\ verise_vault \in Nat
  BY DEF LockInv, TypeOK, DifferAt
<1>2. /\ AllottedAt(lock[l], revenue_index) \in Nat
      /\ AllottedAt(lock'[l], revenue_index) \in Nat
  BY <1>1, AllottedType
<1>3. /\ Allotted(lock, revenue_index) \in Nat /\ Allotted(lock', revenue_index) \in Nat
      /\ Allotted(lock', revenue_index)
           = Allotted(lock, revenue_index) - AllottedAt(lock[l], revenue_index)
               + AllottedAt(lock'[l], revenue_index)
  BY <1>1, AllottedWritten
<1>4. Allotted(lock', revenue_index) <= Allotted(lock, revenue_index)
  BY <1>2, <1>3
<1>5. verise_vault * INDEX_SCALE \in Nat
  BY <1>1, TypeOfConstants, MulDistributes
<1>6. QED BY <1>3, <1>4, <1>5 DEF RevenueSolvent, revenueVars

LEMMA LockRiseSolvent ==
  ASSUME LockInv, LockInv', RevenueSolvent, NEW l \in Locks, NEW amount \in LockAmounts,
         NEW lock_slots \in LockDurations, LockRise(l, amount, lock_slots)
  PROVE  RevenueSolvent'
<1>1. /\ lock \in [Locks -> LockType] /\ lock' \in [Locks -> LockType]
      /\ lock[l] \in LockType /\ lock'[l] \in LockType /\ revenue_index \in Nat
  BY DEF LockInv, TypeOK
<1>2. /\ DifferAt(l, lock, lock') /\ lock'[l].last_revenue_index = revenue_index
      /\ UNCHANGED revenueVars
  BY <1>1 DEF LockRise, DifferAt
<1>3. /\ AllottedAt(lock'[l], revenue_index) = 0
      /\ AllottedAt(lock[l], revenue_index) \in Nat
  BY <1>1, <1>2, AllottedType
<1>4. AllottedAt(lock'[l], revenue_index) <= AllottedAt(lock[l], revenue_index)
  BY <1>3
<1>5. QED BY <1>2, <1>4, AllottedKept

LEMMA UnlockRiseSolvent ==
  ASSUME LockInv, LockInv', RevenueSolvent, NEW l \in Locks, UnlockRise(l)
  PROVE  RevenueSolvent'
<1>1. /\ lock \in [Locks -> LockType] /\ lock' \in [Locks -> LockType]
      /\ lock[l] \in LockType /\ revenue_index \in Nat
  BY DEF LockInv, TypeOK
<1>2. /\ DifferAt(l, lock, lock') /\ lock'[l] = NoLock /\ UNCHANGED revenueVars
  BY <1>1 DEF UnlockRise, CloseLock, DifferAt
<1>3. AllottedAt(lock'[l], revenue_index) = 0
  BY <1>1, <1>2 DEF AllottedAt, Monus, NoLock
<1>4. AllottedAt(lock[l], revenue_index) \in Nat
  BY <1>1, AllottedType
<1>5. AllottedAt(lock'[l], revenue_index) <= AllottedAt(lock[l], revenue_index)
  BY <1>3, <1>4
<1>6. QED BY <1>2, <1>5, AllottedKept

LEMMA ExtendLockSolvent ==
  ASSUME LockInv, LockInv', RevenueSolvent, RaisesSettled, NEW l \in Locks,
         NEW additional_slots \in Extensions, ExtendLock(l, additional_slots)
  PROVE  RevenueSolvent'
<1> DEFINE k == lock'[l]
           due == Monus(revenue_index, lock[l].last_revenue_index)
<1>1. /\ lock \in [Locks -> LockType] /\ lock[l] \in LockType /\ k \in LockType
      /\ lock' \in [Locks -> LockType] /\ revenue_index \in Nat
  BY DEF LockInv, TypeOK
<1>2. /\ lock[l].exists
      /\ DifferAt(l, lock, lock')
      /\ k.last_revenue_index = lock[l].last_revenue_index
      /\ UNCHANGED revenueVars
  BY <1>1 DEF ExtendLock, LockType, DifferAt
<1>3. /\ due \in Nat /\ lock[l].verise_amount \in Nat /\ k.verise_amount \in Nat
      /\ AllottedAt(k, revenue_index) = due * k.verise_amount
      /\ AllottedAt(lock[l], revenue_index) = due * lock[l].verise_amount
  BY <1>1, <1>2 DEF Monus, LockType, AllottedAt
<1>4. k.verise_amount > lock[l].verise_amount => lock[l].last_revenue_index = revenue_index
  BY <1>2 DEF RaisesSettled
<1> HIDE DEF k, due
<1>5. AllottedAt(k, revenue_index) <= AllottedAt(lock[l], revenue_index)
  <2>1. CASE k.verise_amount > lock[l].verise_amount
    <3>1. AllottedAt(k, revenue_index) = 0 /\ AllottedAt(lock[l], revenue_index) = 0
      BY <1>1, <1>2, <1>4, <2>1, AllottedType
    <3>2. QED BY <3>1
  <2>2. CASE k.verise_amount <= lock[l].verise_amount
    <3>1. k.verise_amount * due <= lock[l].verise_amount * due
      BY <1>3, <2>2, MulMono
    <3>2. QED BY <1>3, <3>1
  <2>3. QED BY <1>3, <2>1, <2>2
<1>6. QED BY <1>2, <1>5, AllottedKept DEF k

\* The index gives out no more than the amount booked, because it divides by the
\* veRISE of the locks themselves.
LEMMA RevenueBookedSolvent ==
  ASSUME LockInv, RevenueSolvent, NEW amount \in Revenues, RevenueBooked(amount)
  PROVE  RevenueSolvent'
<1> DEFINE S == INDEX_SCALE
           rise_by == revenue_index' - revenue_index
           old == [l \in Locks |-> AllottedAt(lock[l], revenue_index)]
           new == [l \in Locks |-> AllottedAt(lock[l], revenue_index')]
           verise == [l \in Locks |-> lock[l].verise_amount]
           earned == [l \in Locks |-> verise[l] * rise_by]
           top == [l \in Locks |-> old[l] + earned[l]]
           total == SumFunctionOnSet(verise, Locks)
<1>1. /\ lock \in [Locks -> LockType] /\ revenue_index \in Nat /\ verise_vault \in Nat
      /\ amount \in Nat /\ S \in Nat /\ S > 0 /\ IsFiniteSet(Locks)
      /\ total_verise \in Nat
  BY TypeOfConstants DEF LockInv, TypeOK
<1>2. /\ verise_vault' = verise_vault + amount /\ lock' = lock
      /\ revenue_index' = IF total_verise > 0
                          THEN revenue_index + (amount * S) \div total_verise
                          ELSE revenue_index
  BY DEF RevenueBooked, lockVars
<1>3. total_verise = total
  BY DEF LockInv, TotalIsLocks, SumOverLocks
<1>4. rise_by \in Nat /\ rise_by * total_verise <= amount * S /\ amount * S \in Nat
      /\ revenue_index' = revenue_index + rise_by
  <2>1. amount * S \in Nat
    BY <1>1, MulDistributes
  <2>2. CASE total_verise > 0
    <3> DEFINE q == (amount * S) \div total_verise
    <3>1. q \in Nat /\ q * total_verise <= amount * S
      BY <1>1, <2>1, <2>2, DivBounds
    <3>2. revenue_index' = revenue_index + q
      BY <1>2, <2>2
    <3> HIDE DEF q
    <3>3. rise_by = q
      BY <1>1, <3>1, <3>2
    <3>4. QED BY <2>1, <3>1, <3>2, <3>3
  <2>3. CASE ~(total_verise > 0)
    <3>1. rise_by = 0 /\ revenue_index' = revenue_index
      BY <1>1, <1>2, <2>3
    <3> HIDE DEF rise_by
    <3>2. QED BY <1>1, <2>1, <3>1
  <2>4. QED BY <2>2, <2>3
<1> HIDE DEF rise_by
<1>5. revenue_index' \in Nat
  BY <1>1, <1>4
<1>6. ASSUME NEW l \in Locks
      PROVE  /\ old[l] \in Nat /\ new[l] \in Nat /\ verise[l] \in Nat
             /\ verise[l] * rise_by \in Nat
             /\ new[l] <= old[l] + verise[l] * rise_by
  <2> DEFINE d == Monus(revenue_index, lock[l].last_revenue_index)
             e == Monus(revenue_index', lock[l].last_revenue_index)
             v == lock[l].verise_amount
  <2>1. /\ lock[l].last_revenue_index \in Nat /\ v \in Nat /\ d \in Nat /\ e \in Nat
        /\ e <= d + rise_by
    BY <1>1, <1>4, <1>5 DEF Monus, LockType
  <2>2. old[l] = d * v /\ new[l] = e * v /\ verise[l] = v
    BY DEF AllottedAt
  <2> HIDE DEF d, e, v
  <2>3. e * v <= (d + rise_by) * v /\ (d + rise_by) * v = d * v + rise_by * v
    BY <1>4, <2>1, MulMono, MulDistributes
  <2>4. d * v \in Nat /\ e * v \in Nat /\ v * rise_by \in Nat /\ rise_by * v = v * rise_by
    BY <1>4, <2>1, MulDistributes
  <2> HIDE DEF old, new, verise
  <2>5. QED BY <2>1, <2>2, <2>3, <2>4
<1>7. \A l \in Locks : /\ old[l] \in Int /\ new[l] \in Int /\ verise[l] \in Int
                       /\ earned[l] \in Int /\ earned[l] = verise[l] * rise_by
                       /\ top[l] \in Int /\ top[l] = old[l] + earned[l]
                       /\ new[l] <= top[l]
  <2> HIDE DEF old, new, verise
  <2> QED BY <1>6
<1> HIDE DEF old, new, verise, earned, top
<1>8. SumFunctionOnSet(earned, Locks) = total * rise_by
  BY <1>1, <1>4, <1>7, SumScale
<1>9. SumFunctionOnSet(top, Locks)
        = SumFunctionOnSet(old, Locks) + SumFunctionOnSet(earned, Locks)
  BY <1>1, <1>7, SumPlus
<1>10. SumFunctionOnSet(new, Locks) <= SumFunctionOnSet(top, Locks)
  BY <1>1, <1>7, SumMono
<1>11. SumFunctionOnSet(old, Locks) <= verise_vault * S
  BY DEF RevenueSolvent, Allotted, SumOverLocks, old
<1>12. SumFunctionOnSet(old, Locks) \in Int /\ SumFunctionOnSet(new, Locks) \in Int
  BY <1>1, <1>7, SumInt
<1>13. (verise_vault + amount) * S = verise_vault * S + amount * S
       /\ verise_vault * S \in Nat
  BY <1>1, MulDistributes
<1>14. total * rise_by = rise_by * total_verise /\ rise_by * total_verise \in Nat
  BY <1>1, <1>3, <1>4, MulDistributes
<1> HIDE DEF total
<1>15. SumFunctionOnSet(new, Locks) <= (verise_vault + amount) * S
  BY <1>4, <1>8, <1>9, <1>10, <1>11, <1>12, <1>13, <1>14
<1>16. SumFunctionOnSet(new, Locks) = Allotted(lock', revenue_index')
  BY <1>2 DEF Allotted, SumOverLocks, new
<1>17. QED BY <1>2, <1>15, <1>16 DEF RevenueSolvent

LEMMA SettledKeepsSolvent ==
  IInv /\ IInv' /\ RevenueSolvent /\ [Next /\ RaisesSettled]_vars => RevenueSolvent'
<1> SUFFICES ASSUME IInv, IInv', RevenueSolvent, [Next /\ RaisesSettled]_vars
             PROVE  RevenueSolvent'
  OBVIOUS
<1>1. LockInv /\ LockInv'
  BY DEF IInv
<1>2. CASE UNCHANGED <<lock, revenueVars>>
  BY <1>2 DEF RevenueSolvent, Allotted, SumOverLocks, revenueVars
<1>3. ASSUME Next, RaisesSettled, NEW l \in Locks, Locker(l) PROVE RevenueSolvent'
  <2>1. ASSUME NEW amount \in LockAmounts, NEW lock_slots \in LockDurations,
               LockRise(l, amount, lock_slots)
        PROVE  RevenueSolvent'
    BY <1>1, <2>1, LockRiseSolvent
  <2>2. ASSUME NEW additional_slots \in Extensions, ExtendLock(l, additional_slots)
        PROVE  RevenueSolvent'
    BY <1>1, <1>3, <2>2, ExtendLockSolvent
  <2>3. CASE UnlockRise(l)
    BY <1>1, <2>3, UnlockRiseSolvent
  <2>4. ASSUME NEW i \in Indices, NEW vote_for \in BOOLEAN, CastVote(l, i, vote_for)
        PROVE  RevenueSolvent'
    BY <1>2, <2>4 DEF CastVote, lockVars
  <2>5. ASSUME NEW allocation \in Allocations, VoteGauge(l, allocation)
        PROVE  RevenueSolvent'
    BY <1>2, <2>5 DEF VoteGauge, lockVars
  <2>6. QED BY <1>3, <2>1, <2>2, <2>3, <2>4, <2>5 DEF Locker
<1>4. ASSUME NEW amount \in Revenues, RevenueBooked(amount) PROVE RevenueSolvent'
  BY <1>1, <1>4, RevenueBookedSolvent
<1>5. ASSUME NEW owner \in Owners, CreateProposal(owner) PROVE RevenueSolvent'
  BY <1>2, <1>5 DEF CreateProposal, lockVars
<1>6. ASSUME NEW i \in Indices, ExecuteProposal(i) \/ CloseProposal(i)
      PROVE  RevenueSolvent'
  BY <1>2, <1>6 DEF ExecuteProposal, CloseProposal, lockVars
<1>7. ASSUME NEW new \in Settings, UpdateGovernanceConfig(new) PROVE RevenueSolvent'
  BY <1>2, <1>7 DEF UpdateGovernanceConfig, lockVars
<1>8. CASE NextSlot
  BY <1>2, <1>8 DEF NextSlot, lockVars
<1>9. CASE UNCHANGED vars
  BY <1>2, <1>9 DEF vars, lockVars
<1>10. QED BY <1>3, <1>4, <1>5, <1>6, <1>7, <1>8, <1>9 DEF Next

LEMMA SolventCovers == IInv /\ RevenueSolvent => RevenueCovered
<1> SUFFICES ASSUME IInv, RevenueSolvent PROVE RevenueCovered
  OBVIOUS
<1> DEFINE S == INDEX_SCALE
           due == [l \in Locks |-> IF CurrentVerise(l) > 0 THEN Claimable(l) ELSE 0]
           scaled == [l \in Locks |-> due[l] * S]
           u == [l \in Locks |-> AllottedAt(lock[l], revenue_index)]
<1>1. /\ lock \in [Locks -> LockType] /\ revenue_index \in Nat /\ verise_vault \in Nat
      /\ S \in Nat /\ S > 0 /\ IsFiniteSet(Locks) /\ LockInv
  BY TypeOfConstants DEF IInv, LockInv, TypeOK
<1>2. ASSUME NEW l \in Locks
      PROVE  due[l] \in Nat /\ u[l] \in Nat /\ due[l] * S \in Nat /\ due[l] * S <= u[l]
  <2>1. Claimable(l) = u[l] \div S
    BY DEF Claimable, AllottedAt
  <2>2. lock[l] \in LockType
    BY <1>1
  <2>3. u[l] \in Nat
    BY <1>1, <2>2, AllottedType
  <2>4. Claimable(l) \in Nat /\ Claimable(l) * S <= u[l]
    <3> HIDE DEF u
    <3> QED BY <1>1, <2>1, <2>3, DivBounds
  <2>5. due[l] = Claimable(l) \/ due[l] = 0
    OBVIOUS
  <2> HIDE DEF due, u, S
  <2>6. CASE due[l] = Claimable(l)
    <3>1. Claimable(l) * S \in Nat
      BY <1>1, <2>4, MulDistributes
    <3>2. QED BY <2>3, <2>4, <2>6, <3>1
  <2>7. CASE due[l] = 0
    <3>1. 0 * S = 0
      BY <1>1
    <3>2. QED BY <2>3, <2>7, <3>1
  <2>8. QED BY <2>5, <2>6, <2>7
<1>3. \A l \in Locks : /\ due[l] \in Int /\ u[l] \in Int
                       /\ scaled[l] = due[l] * S /\ scaled[l] \in Int /\ scaled[l] <= u[l]
  <2> HIDE DEF due, u
  <2> QED BY <1>2
<1> HIDE DEF due, scaled, u
<1>4. SumFunctionOnSet(scaled, Locks) = SumFunctionOnSet(due, Locks) * S
  <2>1. S \in Int
    BY <1>1
  <2> HIDE DEF S
  <2>2. QED BY <1>1, <1>3, <2>1, SumScale
<1>5. SumFunctionOnSet(scaled, Locks) <= SumFunctionOnSet(u, Locks)
  BY <1>1, <1>3, SumMono
<1>6. SumFunctionOnSet(u, Locks) <= verise_vault * S
  BY DEF RevenueSolvent, Allotted, SumOverLocks, u
<1>7. /\ SumFunctionOnSet(due, Locks) \in Nat /\ SumFunctionOnSet(u, Locks) \in Nat
      /\ verise_vault * S \in Nat /\ SumFunctionOnSet(due, Locks) * S \in Nat
  <2>1. SumFunctionOnSet(due, Locks) \in Nat /\ SumFunctionOnSet(u, Locks) \in Nat
    BY <1>1, <1>2, SumNat
  <2>2. QED BY <1>1, <2>1, MulDistributes
<1>8. SumFunctionOnSet(due, Locks) * S <= verise_vault * S
  BY <1>4, <1>5, <1>6, <1>7
<1>9. SumFunctionOnSet(due, Locks) <= verise_vault
  BY <1>1, <1>7, <1>8, MulCancel
<1>10. QED BY <1>9 DEF RevenueCovered, SumOverLocks, due

LEMMA InitSolvent == Init => IInv /\ RevenueSolvent
<1>1. ASSUME Init PROVE IInv
  BY <1>1, InitLocks, InitProposals DEF IInv
<1>2. ASSUME Init PROVE RevenueSolvent
  <2> DEFINE u == [l \in Locks |-> AllottedAt(lock[l], revenue_index)]
  <2>1. \A l \in Locks : u[l] = 0
    BY <1>2, TypeOfConstants DEF Init, AllottedAt, Monus, NoLock
  <2> HIDE DEF u
  <2>2. SumFunctionOnSet(u, Locks) = 0
    BY <2>1, TypeOfConstants, SumZero
  <2>3. 0 <= 0 * INDEX_SCALE
    BY TypeOfConstants
  <2>4. QED BY <1>2, <2>2, <2>3 DEF Init, RevenueSolvent, Allotted, SumOverLocks, u
<1>3. QED BY <1>1, <1>2

\* As long as no extension has raised the veRISE of a lock after revenue was booked
\* for it, what claim_revenue_share computes for the unexpired locks never exceeds,
\* together, the lamports booked into verise_vault: raising a lock after a booking is
\* the only way to make the index allot the same lamport twice.
THEOREM AllottedUntilRaise == HistorySpec => []AllottedWithinBookings
<1> DEFINE Solvent == IInv /\ (settled => RevenueSolvent)
<1>1. HistoryInit => Solvent
  BY InitSolvent DEF HistoryInit
<1>2. Solvent /\ [HistoryNext]_<<vars, settled>> => Solvent'
  <2> SUFFICES ASSUME Solvent, [HistoryNext]_<<vars, settled>> PROVE Solvent'
    OBVIOUS
  <2>1. [Next]_vars
    BY DEF HistoryNext
  <2>2. IInv'
    BY <2>1, NextKeepsIInv
  <2>3. ASSUME settled' PROVE settled /\ [Next /\ RaisesSettled]_vars
    BY <2>3 DEF HistoryNext
  <2>4. settled' => RevenueSolvent'
    BY <2>2, <2>3, SettledKeepsSolvent
  <2>5. QED BY <2>2, <2>4
<1>3. Solvent => AllottedWithinBookings
  BY SolventCovers DEF AllottedWithinBookings
<1>4. QED BY <1>1, <1>2, <1>3, PTL DEF HistorySpec
=============================================================================
