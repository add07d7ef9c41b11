----------------------------- MODULE GaugeTally -----------------------------
(***************************************************************************)
(* tally_and_set_weights.mjs: once per epoch the authority turns the gauge  *)
(* votes of rise-governance into the weights it sets on the gauges of       *)
(* rise-rewards.  The tally reads every GaugeVote and every VeLock, whoever *)
(* voted and whenever, and is a function of the state but for the order in  *)
(* which the pools come up: the last one absorbs the rounding.              *)
(***************************************************************************)
EXTENDS Governance

CONSTANT DEFAULT_WEIGHTS    \* weight of every known pool when nobody voted

KnownPools == DOMAIN DEFAULT_WEIGHTS

ASSUME TallyAssumption ==
  /\ KnownPools \subseteq Pools
  /\ DEFAULT_WEIGHTS \in [KnownPools -> Nat]
  /\ SumFunctionOnSet(DEFAULT_WEIGHTS, KnownPools) = BPS

-----------------------------------------------------------------------------
\* The script decays veRISE like current_verise, without its minimum of 1.
LockPower(l) ==
  LET k == lock[l] IN
  IF ~k.exists \/ slot >= k.lock_end_slot \/ k.lock_end_slot <= k.lock_start_slot
  THEN 0
  ELSE (k.verise_amount * (k.lock_end_slot - slot))
         \div (k.lock_end_slot - k.lock_start_slot)

\* All the owner's locks count, not the one it voted with.
Power(o) ==
  SumFunctionOnSet([l \in Locks |-> LockPower(l)], {l \in Locks : OwnerOf(l) = o})

Weight(o, p) == IF p \in DOMAIN gauge_vote[o] THEN gauge_vote[o][p] ELSE 0

\* Voters whose locks have run out are passed over.
Voters == {o \in WithGaugeVote : Power(o) > 0}

TotalPower == SumFunctionOnSet([o \in Voters |-> Power(o)], Voters)

VotedPools == UNION {DOMAIN gauge_vote[o] : o \in Voters}

VotesFor(p) == SumFunctionOnSet([o \in Voters |-> Weight(o, p) * Power(o)], Voters)

\* The share of every pool that got votes, in bps, of the veRISE that voted.
Shares == [p \in VotedPools |-> ((VotesFor(p) * BPS) \div TotalPower) \div BPS]

\* The weights when pool "last" comes up last.
Normalized(shares, last) ==
  LET others == SumFunctionOnSet(shares, DOMAIN shares \ {last}) IN
  [shares EXCEPT ![last] = BPS - others]

\* What the script sends to set_gauge_weight.
FinalWeights(w) ==
  LET known == DOMAIN w \cap KnownPools IN
  IF \A p \in known : w[p] <= 0
  THEN DEFAULT_WEIGHTS
  ELSE [p \in KnownPools |-> IF p \in known THEN w[p] ELSE 0]

-----------------------------------------------------------------------------
\* Whatever votes lie around, from owners whose locks have since decayed, been
\* extended, unlocked or replaced, and in whatever order the pools come up, the
\* script sets weights that set_gauge_weight accepts and that share out at most
\* one epoch's emissions; and rounding gives no pool more than one basis point
\* for every other voted pool on top of its votes.
TallyWithinBudget ==
  LET shares == Shares IN
  \A last \in DOMAIN shares :
    LET normalized == Normalized(shares, last)
        final == FinalWeights(normalized)
    IN
    /\ \A p \in KnownPools : final[p] \in 0..BPS
    /\ SumFunctionOnSet(final, KnownPools) <= BPS
    /\ normalized[last] - shares[last] \in 0..(Cardinality(DOMAIN shares) - 1)
=============================================================================
