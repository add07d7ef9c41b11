--------------------------- MODULE MC_Governance ---------------------------
(* Constant values for model checking Governance and GaugeTally. *)
EXTENDS GaugeTally, RevenueHistory, TLC

CONSTANTS o1, o2, n1, n2, p1, p2, p3

MCOwners == {o1, o2}
MCOneOwner == {o1}
MCOneNonce == {n1}
MCNonces == {n1, n2}
Symmetry == Permutations(MCOwners) \cup Permutations(MCNonces)
MCPools == {p1, p2, p3}
MCDefaults == [p \in {p1, p2} |-> 5]
\* Two that are accepted, one that is incomplete and one with too many pools.
MCAllocations == {[p \in {p1, p2} |-> IF p = p1 THEN 3 ELSE 7], [p \in {p2, p3} |-> 5],
                  [p \in {p1} |-> 4], [p \in MCPools |-> IF p = p3 THEN 4 ELSE 3]}
MCNoAllocation == {}
MCOne == {1}
MCTwo == {2}
\* Too short, just right and too long.
MCDurations == {1, 2, 5}
MCTwoFour == {2, 4}

\* Two lots of voting parameters: a majority quorum, and none with a lower
\* threshold.
Strict == [proposal_threshold |-> 2, quorum_bps |-> 6,
           voting_period_slots |-> 1, timelock_slots |-> 1]
Lenient == [proposal_threshold |-> 1, quorum_bps |-> 0,
            voting_period_slots |-> 1, timelock_slots |-> 1]
MCStrict == {Strict}
MCSettings == {Strict, Lenient}
=============================================================================
