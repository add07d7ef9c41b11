----------------------------- MODULE Governance -----------------------------
(***************************************************************************)
(* Program rise-governance: RISE is locked for veRISE, every lock is        *)
(* allotted a share of the SOL that rise-staking books for veRISE holders,  *)
(* and locks vote on proposals that are executed after a timelock.          *)
(*                                                                         *)
(* Of rise-staking only what the two programs share is kept: verise_vault   *)
(* and revenue_index, moved together by RevenueBooked (module StakingPool    *)
(* has the whole of collect_fees and register_external_revenue).            *)
(*                                                                         *)
(* claim_revenue_share is no action.  verise_vault is a PDA of rise-staking  *)
(* and the transfer out of it is signed with the seeds under rise-governance *)
(* itself, a different program, so its signature is missing and every call   *)
(* fails and changes nothing.  What a call computes before the transfer is   *)
(* kept as Claimable; verise_vault only grows.                              *)
(*                                                                         *)
(* The lock NFT is minted by lock_rise and burned by unlock_rise, and read   *)
(* nowhere else.  It may be sold and bought back at any time, so who holds   *)
(* it is not kept: an owner without it is one that does not unlock.  Left    *)
(* out too are the devnet instructions that close or migrate                 *)
(* governance_config and rise_vault.                                        *)
(***************************************************************************)
EXTENDS Integers, FiniteSets, FiniteSetsExt

CONSTANTS
  Owners,                \* wallets that lock RISE
  Nonces,                \* VeLock.nonce: locks per wallet
  MIN_LOCK_SLOTS,        \* GovernanceConfig.min_lock_slots (a week)
  MAX_LOCK_SLOTS,        \* GovernanceConfig.max_lock_slots (four years)
  INDEX_SCALE,           \* fixed-point one of revenue_index
  BPS,                   \* fixed-point one of quorum_bps
  RENT_MIN,              \* rent-exempt minimum of verise_vault
  MAX_ACTIVE_PROPOSALS,  \* 10 on chain
  Settings,              \* what the authority may give the voting parameters
  Pools,                 \* pools a gauge vote can name
  MAX_GAUGE_ENTRIES,     \* pools in one gauge vote (8 on chain)
  Allocations,           \* inputs of vote_gauge: pools with a weight in bps
  InitialRise,           \* RISE each owner starts with
  LockAmounts,           \* RISE amounts to lock
  LockDurations,         \* lock_slots of lock_rise
  Extensions,            \* additional_slots of extend_lock
  Revenues,              \* lamports booked for veRISE holders
  MaxIndex,              \* bound: revenue_index from which nothing is booked
  MaxProposals,          \* bound: proposals ever created
  MaxActivity,           \* bound: proposals, gauge votes and lamports booked, together
  MaxListed,             \* bound: times one lock is listed in create_proposal
  MaxSlot                \* bound: last slot of the clock

SettingsType == [proposal_threshold : Nat \ {0}, quorum_bps : 0..BPS,
                 voting_period_slots : Nat \ {0}, timelock_slots : Nat \ {0}]

\* update_governance_config asks for a positive threshold and bounded periods.
ASSUME GovernanceAssumption ==
  /\ IsFiniteSet(Owners) /\ IsFiniteSet(Nonces) /\ IsFiniteSet(Pools)
  /\ {MIN_LOCK_SLOTS, MAX_LOCK_SLOTS, INDEX_SCALE, BPS} \subseteq Nat \ {0}
  /\ {RENT_MIN, MAX_ACTIVE_PROPOSALS, MAX_GAUGE_ENTRIES, InitialRise} \subseteq Nat
  /\ {MaxIndex, MaxProposals, MaxActivity, MaxListed} \subseteq Nat
  /\ Settings \subseteq SettingsType
  /\ \A allocation \in Allocations :
       /\ DOMAIN allocation \subseteq Pools
       /\ \A p \in DOMAIN allocation : allocation[p] \in Nat \ {0}
  /\ LockAmounts \cup LockDurations \cup Extensions \cup Revenues \subseteq Nat

VARIABLES
  lock,                  \* VeLock, per PDA
  \* GovernanceConfig
  total_verise,
  settings,
  proposal_count,
  active_proposal_count,
  proposal,              \* Proposal, per index
  vote_records,          \* <<lock PDA, proposal index>> of every VoteRecord
  gauge_vote,            \* GaugeVote, per owner: the weights of its pools
  \* what rise-staking keeps for veRISE holders
  revenue_index,
  verise_vault,
  \* RISE and clock
  rise,
  rise_vault,
  slot

lockVars == <<lock, total_verise, rise, rise_vault>>
proposalVars == <<proposal_count, active_proposal_count, proposal, vote_records>>
revenueVars == <<revenue_index, verise_vault>>
vars == <<lockVars, settings, proposalVars, gauge_vote, revenueVars, slot>>

Locks == Owners \X Nonces          \* PDA seeds: owner and nonce
OwnerOf(l) == l[1]
Indices == 0..(MaxProposals - 1)

NoLock == [exists |-> FALSE, rise_locked |-> 0, verise_amount |-> 0,
           lock_start_slot |-> 0, lock_end_slot |-> 0, last_revenue_index |-> 0]
NoProposal == [exists |-> FALSE, voting_end_slot |-> 0, execution_slot |-> 0,
               votes_for |-> 0, votes_against |-> 0, executed |-> FALSE]

-----------------------------------------------------------------------------
(* Helpers *)

Verise(amount, lock_slots) == (amount * lock_slots) \div MAX_LOCK_SLOTS

Monus(a, b) == IF a >= b THEN a - b ELSE 0      \* saturating_sub

AtLeastOne(weight) == IF weight = 0 THEN 1 ELSE weight

\* veRISE decays to zero over the lock, but weighs at least 1 until it ends.
CurrentVerise(l) ==
  LET k == lock[l] IN
  IF ~k.exists \/ slot >= k.lock_end_slot THEN 0
  ELSE AtLeastOne((k.verise_amount * (k.lock_end_slot - slot))
                    \div (k.lock_end_slot - k.lock_start_slot))

\* What claim_revenue_share computes for a lock: its share, by the undecayed
\* veRISE, of the revenue booked since the lock was made.
Claimable(l) ==
  (Monus(revenue_index, lock[l].last_revenue_index) * lock[l].verise_amount)
     \div INDEX_SCALE

Passed(p) ==
  /\ p.votes_for + p.votes_against >= (total_verise * settings.quorum_bps) \div BPS
  /\ p.votes_for > p.votes_against

FreeSlot_Mutant_AlsoExecuted(p) == active_proposal_count' = Monus(active_proposal_count, 1)

FreeSlot_Mutant_Unsaturated(p) == active_proposal_count' = active_proposal_count - 1

\* A closed proposal frees its slot unless its execution already did.
FreeSlot(p) ==
  active_proposal_count' =
    IF p.executed THEN active_proposal_count ELSE Monus(active_proposal_count, 1)

NoVote == [p \in {} |-> 0]

WithGaugeVote == {o \in Owners : gauge_vote[o] # NoVote}
Activity == proposal_count + Cardinality(WithGaugeVote) + verise_vault

RentExempt(lamports) == lamports = 0 \/ lamports >= RENT_MIN

-----------------------------------------------------------------------------
Init ==
  /\ lock = [l \in Locks |-> NoLock]
  /\ total_verise = 0
  /\ settings \in Settings
  /\ proposal_count = 0
  /\ active_proposal_count = 0
  /\ proposal = [i \in Indices |-> NoProposal]
  /\ vote_records = {}
  /\ gauge_vote = [o \in Owners |-> NoVote]
  /\ revenue_index = 0
  /\ verise_vault = 0
  /\ rise = [o \in Owners |-> InitialRise]
  /\ rise_vault = 0
  /\ slot = 0

(* Instructions of lockers *)

LockRise(l, amount, lock_slots) ==
  LET verise == Verise(amount, lock_slots) IN
  /\ ~lock[l].exists
  /\ amount > 0
  /\ MIN_LOCK_SLOTS <= lock_slots
  /\ lock_slots <= MAX_LOCK_SLOTS
  /\ verise > 0
  /\ rise[OwnerOf(l)] >= amount
  /\ lock' = [lock EXCEPT ![l] =
       [exists |-> TRUE, rise_locked |-> amount, verise_amount |-> verise,
        lock_start_slot |-> slot, lock_end_slot |-> slot + lock_slots,
        last_revenue_index |-> revenue_index]]
  /\ total_verise' = total_verise + verise
  /\ rise' = [rise EXCEPT ![OwnerOf(l)] = @ - amount]
  /\ rise_vault' = rise_vault + amount
  /\ UNCHANGED <<settings, proposalVars, gauge_vote, revenueVars, slot>>

CloseLock_Mutant_LeftOpen(l) == lock' = lock

CloseLock(l) == lock' = [lock EXCEPT ![l] = NoLock]

\* The owner has the NFT.  The lock's share of the revenue goes with it.
UnlockRise(l) ==
  /\ lock[l].exists
  /\ slot >= lock[l].lock_end_slot
  /\ rise_vault >= lock[l].rise_locked
  /\ CloseLock(l)
  /\ total_verise' = Monus(total_verise, lock[l].verise_amount)
  /\ rise' = [rise EXCEPT ![OwnerOf(l)] = @ + lock[l].rise_locked]
  /\ rise_vault' = rise_vault - lock[l].rise_locked
  /\ UNCHANGED <<settings, proposalVars, gauge_vote, revenueVars, slot>>

ExtendedTotal_Mutant_OldKept(old, new) == total_verise + new

ExtendedTotal_Mutant_Forgotten(old, new) == total_verise

ExtendedTotal(old, new) == Monus(total_verise, old) + new

\* veRISE is computed anew from the remaining duration and may rise or fall;
\* last_revenue_index stays, so revenue already booked is not settled.
ExtendLock(l, additional_slots) ==
  LET end == lock[l].lock_end_slot + additional_slots
      verise == Verise(lock[l].rise_locked, end - slot)
  IN
  /\ lock[l].exists
  /\ additional_slots > 0
  /\ slot < lock[l].lock_end_slot
  /\ end - slot <= MAX_LOCK_SLOTS
  /\ total_verise' = ExtendedTotal(lock[l].verise_amount, verise)
  /\ lock' = [lock EXCEPT ![l].lock_end_slot = end, ![l].lock_start_slot = slot,
                          ![l].verise_amount = verise]
  /\ UNCHANGED <<rise, rise_vault, settings, proposalVars, gauge_vote, revenueVars, slot>>

-----------------------------------------------------------------------------
(* Proposals *)

\* The proposer lists locks of its own; nothing asks that they be distinct.
Listings(owner) == [{l \in Locks : OwnerOf(l) = owner /\ lock[l].exists} -> 0..MaxListed]

ListedVerise(listing) ==
  MapThenSumSet(LAMBDA l : listing[l] * CurrentVerise(l), DOMAIN listing)

CreateProposal(owner) ==
  /\ proposal_count < MaxProposals /\ Activity < MaxActivity
  /\ \E listing \in Listings(owner) :
       ListedVerise(listing) >= settings.proposal_threshold
  /\ active_proposal_count < MAX_ACTIVE_PROPOSALS
  /\ proposal' = [proposal EXCEPT ![proposal_count] =
       [NoProposal EXCEPT
          !.exists = TRUE,
          !.voting_end_slot = slot + settings.voting_period_slots,
          !.execution_slot = slot + settings.voting_period_slots
                               + settings.timelock_slots]]
  /\ proposal_count' = proposal_count + 1
  /\ active_proposal_count' = active_proposal_count + 1
  /\ UNCHANGED <<lockVars, settings, vote_records, gauge_vote, revenueVars, slot>>

\* The vote record outlives the lock: a later lock under the same nonce has the
\* same address and finds it taken.
CastVote(l, i, vote_for) ==
  LET weight == CurrentVerise(l) IN
  /\ proposal[i].exists
  /\ slot <= proposal[i].voting_end_slot
  /\ weight > 0
  /\ <<l, i>> \notin vote_records
  /\ vote_records' = vote_records \cup {<<l, i>>}
  /\ proposal' = IF vote_for
                 THEN [proposal EXCEPT ![i].votes_for = @ + weight]
                 ELSE [proposal EXCEPT ![i].votes_against = @ + weight]
  /\ UNCHANGED <<lockVars, settings, proposal_count, active_proposal_count, gauge_vote,
                 revenueVars, slot>>

ExecuteProposal(i) ==
  LET p == proposal[i] IN
  /\ p.exists
  /\ slot > p.voting_end_slot
  /\ slot >= p.execution_slot
  /\ ~p.executed
  /\ Passed(p)
  /\ proposal' = [proposal EXCEPT ![i].executed = TRUE]
  /\ active_proposal_count' = Monus(active_proposal_count, 1)
  /\ UNCHANGED <<lockVars, settings, proposal_count, vote_records, gauge_vote,
                 revenueVars, slot>>

CloseProposal(i) ==
  /\ proposal[i].exists
  /\ proposal[i].executed \/ slot > proposal[i].voting_end_slot
  /\ FreeSlot(proposal[i])
  /\ proposal' = [proposal EXCEPT ![i] = NoProposal]
  /\ UNCHANGED <<lockVars, settings, proposal_count, vote_records, gauge_vote,
                 revenueVars, slot>>

UpdateGovernanceConfig(new) ==
  /\ settings' = new
  /\ UNCHANGED <<lockVars, proposalVars, gauge_vote, revenueVars, slot>>

-----------------------------------------------------------------------------
(* Gauge votes *)

FullWeight_Mutant_AtMost(allocation) ==
  SumFunctionOnSet(allocation, DOMAIN allocation) <= BPS

FullWeight(allocation) ==
  SumFunctionOnSet(allocation, DOMAIN allocation) = BPS

\* A vote replaces the owner's earlier one and is kept for good, under no
\* check of how much the lock weighs or of what happens to it afterwards.
\* Entries that name the same pool count together.
VoteGauge(l, allocation) ==
  /\ lock[l].exists
  /\ slot < lock[l].lock_end_slot
  /\ FullWeight(allocation)
  /\ Cardinality(DOMAIN allocation) <= MAX_GAUGE_ENTRIES
  /\ gauge_vote[OwnerOf(l)] # NoVote \/ Activity < MaxActivity
  /\ gauge_vote' = [gauge_vote EXCEPT ![OwnerOf(l)] = allocation]
  /\ UNCHANGED <<lockVars, settings, proposalVars, revenueVars, slot>>

-----------------------------------------------------------------------------
(* rise-staking and the clock *)

\* Revenue booked while nobody holds veRISE reaches the vault but not the index.
RevenueBooked(amount) ==
  /\ amount > 0
  /\ RentExempt(verise_vault + amount)
  /\ Activity + amount <= MaxActivity
  /\ revenue_index < MaxIndex
  /\ verise_vault' = verise_vault + amount
  /\ revenue_index' = IF total_verise > 0
                      THEN revenue_index + (amount * INDEX_SCALE) \div total_verise
                      ELSE revenue_index
  /\ UNCHANGED <<lockVars, settings, proposalVars, gauge_vote, slot>>

NextSlot ==
  /\ slot < MaxSlot
  /\ slot' = slot + 1
  /\ UNCHANGED <<lockVars, settings, proposalVars, gauge_vote, revenueVars>>

-----------------------------------------------------------------------------
Locker(l) ==
  \/ \E amount \in LockAmounts, lock_slots \in LockDurations :
       LockRise(l, amount, lock_slots)
  \/ \E additional_slots \in Extensions : ExtendLock(l, additional_slots)
  \/ UnlockRise(l)
  \/ \E i \in Indices, vote_for \in BOOLEAN : CastVote(l, i, vote_for)
  \/ \E allocation \in Allocations : VoteGauge(l, allocation)

Next ==
  \/ \E l \in Locks : Locker(l)
  \/ \E owner \in Owners : CreateProposal(owner)
  \/ \E i \in Indices : ExecuteProposal(i) \/ CloseProposal(i)
  \/ \E new \in Settings : UpdateGovernanceConfig(new)
  \/ \E amount \in Revenues : RevenueBooked(amount)
  \/ NextSlot

Spec == Init /\ [][Next]_vars

-----------------------------------------------------------------------------
(* Properties *)

LockType == [exists : BOOLEAN, rise_locked : Nat, verise_amount : Nat,
             lock_start_slot : Nat, lock_end_slot : Nat, last_revenue_index : Nat]
ProposalType == [exists : BOOLEAN, voting_end_slot : Nat, execution_slot : Nat,
                 votes_for : Nat, votes_against : Nat, executed : BOOLEAN]

\* Every field is in its range; no counter of the program goes negative.
TypeOK ==
  /\ lock \in [Locks -> LockType]
  /\ total_verise \in Nat
  /\ settings \in Settings
  /\ proposal_count \in 0..MaxProposals
  /\ active_proposal_count \in Nat
  /\ proposal \in [Indices -> ProposalType]
  /\ vote_records \subseteq Locks \X Indices
  /\ gauge_vote \in [Owners -> Allocations \cup {NoVote}]
  /\ revenue_index \in Nat
  /\ verise_vault \in Nat
  /\ rise \in [Owners -> Nat]
  /\ rise_vault \in Nat
  /\ slot \in Nat

SumOverLocks(f) == SumFunctionOnSet(f, Locks)

\* total_verise, the denominator of the revenue index and of the quorum, is
\* exactly the veRISE of the existing locks, through extensions that raise or
\* lower it and saturating unlocks.
TotalIsLocks == total_verise = SumOverLocks([l \in Locks |-> lock[l].verise_amount])

\* rise_vault holds exactly the RISE of the existing locks, so every unlock is
\* paid in full.
VaultHoldsLocks == rise_vault = SumOverLocks([l \in Locks |-> lock[l].rise_locked])

\* The revenue index allots no lamport twice: what claim_revenue_share computes for
\* the locks that have not expired never exceeds, together, the lamports booked
\* into verise_vault.
RevenueCovered ==
  SumOverLocks([l \in Locks |-> IF CurrentVerise(l) > 0 THEN Claimable(l) ELSE 0])
    <= verise_vault

\* active_proposal_count, which gates new proposals, is exactly the number of
\* proposals neither executed nor closed: "Number of proposals that are still
\* open (not yet executed or closed)."
ActiveIsOpen ==
  active_proposal_count =
    Cardinality({i \in Indices : proposal[i].exists /\ ~proposal[i].executed})
=============================================================================
