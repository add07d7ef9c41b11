------------------------- MODULE CdpPositionsProofs -------------------------
(***************************************************************************)
(* Theorems about CdpPositions, BorrowLedger and CollateralHistory, for    *)
(* every value of the constants.                                           *)
(*                                                                         *)
(* The invariant of the pool (IInv of StakingPoolProofs) is kept by every  *)
(* instruction of rise-cdp as well, which moves the pool's accounts through*)
(* mint_for_cdp, credit_staking_revenue and plain transfers: the pool's own*)
(* theorems hold with loans on top of it.  Above the pool come the types of*)
(* the CDP accounts (CdpInv).  Two of them need more than themselves:      *)
(* interest is a natural number only because no position was accrued after *)
(* the current slot, and the debt counters follow the principals only      *)
(* because a position that is not open has none.                           *)
(* The theorems are about ResetSpec, in which the authority may replace the*)
(* borrow-reward configuration and close positions as stale (as            *)
(* CollateralAlwaysAccounted is, with a history), but for                  *)
(* DebtAlwaysPrincipal and SettlesAlways, which these two would break, and *)
(* BorrowersAlwaysWithinEmissions, which rests on both: the index shares   *)
(* out no more than was emitted because its divisor is the sum of the      *)
(* principals that earn.                                                   *)
(***************************************************************************)
EXTENDS BorrowLedger, CollateralHistory, StakingPoolProofs

LEMMA TypeOfCdpConstants ==
  /\ IsFiniteSet(Users) /\ IsFiniteSet(Nonces) /\ IsFiniteSet(Positions)
  /\ REWARD_SCALE \in Nat /\ REWARD_SCALE > 0
  /\ SLOTS_PER_YEAR \in Nat /\ SLOTS_PER_YEAR > 0
  /\ SLOTS_PER_EPOCH \in Nat /\ SLOTS_PER_EPOCH > 0
  /\ SOL_PRICE \in Nat /\ SOL_PRICE > 0
  /\ DECIMAL_SCALE \in Nat /\ DECIMAL_SCALE > 0
  /\ LAMPORTS_PER_SOL \in Nat /\ LAMPORTS_PER_SOL > 0
  /\ EPOCH_EMISSIONS \in Nat /\ MAX_SINGLE_LOAN_BPS \in Nat
  /\ \A x \in Deposits \cup Loans \cup Payments \cup SwapOutputs : x \in Nat
  /\ \A x \in Prices : x \in Nat
  /\ \A x \in Multipliers : x \in Nat
<1>1. IsFiniteSet(Positions)
  BY CdpAssumption, FS_Product DEF Positions
<1>2. QED BY <1>1, CdpAssumption

LEMMA ConfigFields ==
  ASSUME NEW c \in CollateralConfigs
  PROVE  /\ c.max_ltv_bps \in Nat
         /\ c.liquidation_threshold_bps \in Nat
         /\ c.liquidation_penalty_bps \in Nat /\ c.liquidation_penalty_bps <= BPS
         /\ c.base_rate_bps \in Nat /\ c.rate_slope1_bps \in Nat
         /\ c.rate_slope2_bps \in Nat
         /\ c.optimal_utilization_bps \in Nat /\ c.optimal_utilization_bps <= BPS
<1>1. c \in ConfigType
  BY CdpAssumption
<1>2. QED BY <1>1, TypeOfConstants DEF ConfigType

-----------------------------------------------------------------------------
(* The accounts of the CDP program *)

\* The types of everything but the positions.
CdpScalars ==
  /\ cdp_rise_sol_minted \in Nat
  /\ debt_ceiling_multiplier_bps \in Multipliers
  /\ collateral_config \in CollateralConfigs
  /\ total_collateral_entitlements \in Nat
  /\ payment_config_active \in BOOLEAN
  /\ borrow_rewards_open \in BOOLEAN
  /\ cdp_wsol_vault_open \in BOOLEAN
  /\ reward_per_token \in Nat
  /\ total_cdp_debt \in Nat
  /\ last_checkpoint_slot \in Nat
  /\ collateral_vault \in Nat
  /\ cdp_fee_vault \in Nat
  /\ cdp_wsol_buyback_vault \in Nat
  /\ price \in Prices
  /\ slot \in Nat

\* No position was accrued in the future.
OnTime(pos) == pos \in PositionType /\ pos.last_accrual_slot <= slot

\* An account that is not open has no principal; NoPosition is one of them.
Fit(pos) ==
  /\ OnTime(pos)
  /\ pos.is_open => pos.exists
  /\ ~pos.is_open => pos.principal = 0

PositionsFit ==
  /\ position \in [Positions -> PositionType]
  /\ \A p \in Positions : Fit(position[p])

CdpInv == IInv /\ CdpScalars /\ PositionsFit

LEMMA PositionFields ==
  ASSUME NEW pos \in PositionType
  PROVE  /\ pos.exists \in BOOLEAN /\ pos.is_open \in BOOLEAN
         /\ pos.collateral \in Nat /\ pos.principal \in Nat /\ pos.interest \in Nat
         /\ pos.last_accrual_slot \in Nat /\ pos.pending_buyback \in Nat
         /\ pos.tracked \in BOOLEAN
         /\ pos.reward_debt \in Nat /\ pos.pending_rewards \in Nat
  BY DEF PositionType

LEMMA NoPositionFits ==
  ASSUME slot \in Nat
  PROVE  /\ Fit(NoPosition) /\ NoPosition \in PositionType
         /\ NoPosition.principal = 0 /\ NoPosition.reward_debt = 0
         /\ NoPosition.pending_buyback = 0 /\ NoPosition.interest = 0
  BY DEF NoPosition, PositionType, Fit, OnTime

\* Two forms of one account with the same flags, collateral and buyback.
SameAccount(q, pos) ==
  /\ q.exists = pos.exists
  /\ q.is_open = pos.is_open
  /\ q.collateral = pos.collateral
  /\ q.pending_buyback = pos.pending_buyback

LEMMA LeastType ==
  ASSUME NEW a \in Nat, NEW b \in Nat
  PROVE  /\ Least(a, b) \in Nat /\ Least(a, b) <= a /\ Least(a, b) <= b
         /\ Monus(a, b) \in Nat /\ Monus(a, b) <= a
  BY DEF Least, Monus

\* Interest is natural: the utilization is a fraction of BPS, and nothing was
\* accrued in the future.
LEMMA RateType ==
  ASSUME CdpInv
  PROVE  Ceiling \in Nat /\ Utilization \in Nat /\ EffectiveRate \in Nat
<1>1. /\ staking_rise_sol_supply \in Nat /\ debt_ceiling_multiplier_bps \in Nat
      /\ cdp_rise_sol_minted \in Nat /\ collateral_config \in CollateralConfigs
      /\ BPS \in Nat /\ BPS > 0
  BY TypeOfConstants, TypeOfCdpConstants DEF CdpInv, CdpScalars, IInv, TypeOK
<1>2. Ceiling \in Nat
  BY <1>1, ScaledType DEF Ceiling
<1>3. Utilization \in Nat
  <2>1. CASE Ceiling = 0
    BY <1>1, <2>1 DEF Utilization
  <2>2. CASE Ceiling # 0
    <3>1. (cdp_rise_sol_minted * BPS) \div Ceiling \in Nat
      BY <1>1, <1>2, <2>2, ScaledType
    <3>2. QED BY <1>1, <2>2, <3>1, LeastType DEF Utilization
  <2>3. QED BY <2>1, <2>2
<1> DEFINE c == collateral_config
           u == Utilization
           optimal == c.optimal_utilization_bps
<1>4. /\ c.base_rate_bps \in Nat /\ c.rate_slope1_bps \in Nat /\ c.rate_slope2_bps \in Nat
      /\ optimal \in Nat /\ optimal <= BPS
  BY <1>1, ConfigFields
<1>5. CASE u <= optimal
  <2>1. optimal # 0 => (c.rate_slope1_bps * u) \div optimal \in Nat
    BY <1>3, <1>4, ScaledType
  <2> DEFINE x == (c.rate_slope1_bps * u) \div optimal
  <2>2. EffectiveRate = c.base_rate_bps + (IF optimal = 0 THEN 0 ELSE x)
    BY <1>5 DEF EffectiveRate
  <2> HIDE DEF x
  <2>3. QED BY <1>2, <1>3, <1>4, <2>1, <2>2 DEF x
<1>6. CASE ~(u <= optimal)
  <2>1. optimal # BPS => (c.rate_slope2_bps * (u - optimal)) \div (BPS - optimal) \in Nat
    <3>1. u - optimal \in Nat
      BY <1>3, <1>4, <1>6
    <3>2. optimal # BPS => BPS - optimal \in Nat /\ BPS - optimal > 0
      BY <1>1, <1>4
    <3>3. QED BY <1>4, <3>1, <3>2, ScaledType
  <2> DEFINE x == (c.rate_slope2_bps * (u - optimal)) \div (BPS - optimal)
  <2>2. EffectiveRate = c.base_rate_bps + c.rate_slope1_bps
                          + (IF optimal = BPS THEN c.rate_slope2_bps ELSE x)
    BY <1>6 DEF EffectiveRate
  <2> HIDE DEF x
  <2>3. QED BY <1>2, <1>3, <1>4, <2>1, <2>2 DEF x
<1>7. QED BY <1>5, <1>6

LEMMA InterestType ==
  ASSUME CdpInv, NEW pos, OnTime(pos)
  PROVE  Interest(pos) \in Nat
<1>1. /\ pos.principal \in Nat /\ slot - pos.last_accrual_slot \in Nat
      /\ EffectiveRate \in Nat
  BY RateType, PositionFields DEF CdpInv, CdpScalars, OnTime
<1> DEFINE n == pos.principal * EffectiveRate
           t == slot - pos.last_accrual_slot
<1>2. n \in Nat
  BY <1>1, MulDistributes
<1>3. t \in Nat
  BY <1>1
<1> HIDE DEF n, t
<1>4. (n * t) \div BPS \in Nat
  BY <1>2, <1>3, ScaledType, TypeOfConstants
<1>5. ((n * t) \div BPS) \div SLOTS_PER_YEAR \in Nat
  BY <1>4, DivBounds, TypeOfCdpConstants
<1>6. QED BY <1>5 DEF Interest, n, t

\* The value of tokens and of riseSOL in USD units is a natural number, ...
LEMMA UsdType ==
  ASSUME CdpScalars, NEW n \in Nat
  PROVE  CollateralUsd(n) \in Nat /\ SolUsd(n) \in Nat /\ UsdToSol(n) \in Nat
<1>1. price \in Nat
  BY TypeOfCdpConstants DEF CdpScalars
<1>2. QED BY <1>1, ScaledType, TypeOfCdpConstants DEF CollateralUsd, SolUsd, UsdToSol

\* ... and so are the tokens that a value buys at a price.
LEMMA UsdToCollateralType ==
  ASSUME CdpScalars, PythPrice, NEW usd \in Nat
  PROVE  UsdToCollateral(usd) \in Nat
<1>1. price \in Nat /\ price > 0
  BY TypeOfCdpConstants DEF CdpScalars, PythPrice
<1>2. QED BY <1>1, ScaledType, TypeOfCdpConstants DEF UsdToCollateral

-----------------------------------------------------------------------------
(* What the helpers make of a position *)

LEMMA WithInterest ==
  ASSUME NEW pos \in PositionType, NEW i \in Nat
  PROVE  LET q == [pos EXCEPT !.interest = i] IN
         /\ q \in PositionType /\ SameAccount(q, pos) /\ q.interest = i
         /\ q.principal = pos.principal /\ q.reward_debt = pos.reward_debt
         /\ q.last_accrual_slot = pos.last_accrual_slot
  BY DEF PositionType, SameAccount

LEMMA WithCollateral ==
  ASSUME NEW pos \in PositionType, NEW c \in Nat
  PROVE  LET q == [pos EXCEPT !.collateral = c] IN
         /\ q \in PositionType
         /\ q.exists = pos.exists /\ q.is_open = pos.is_open
         /\ q.pending_buyback = pos.pending_buyback
         /\ q.principal = pos.principal /\ q.reward_debt = pos.reward_debt
         /\ q.last_accrual_slot = pos.last_accrual_slot
  BY DEF PositionType

LEMMA WithRewards ==
  ASSUME NEW pos \in PositionType, NEW r \in Nat
  PROVE  LET q == [pos EXCEPT !.pending_rewards = r] IN
         /\ q \in PositionType /\ SameAccount(q, pos) /\ q.interest = pos.interest
         /\ q.principal = pos.principal /\ q.reward_debt = pos.reward_debt
         /\ q.last_accrual_slot = pos.last_accrual_slot
  BY DEF PositionType, SameAccount

\* accrue_interest leaves the loan alone but for its interest.
LEMMA AccrueKeeps ==
  ASSUME CdpInv, NEW pos, OnTime(pos)
  PROVE  /\ OnTime(Accrue(pos)) /\ SameAccount(Accrue(pos), pos)
         /\ Accrue(pos).principal = pos.principal
         /\ Accrue(pos).reward_debt = pos.reward_debt
<1>1. /\ pos \in PositionType /\ pos.interest \in Nat /\ slot \in Nat
      /\ Interest(pos) \in Nat
  BY InterestType, PositionFields DEF OnTime, CdpInv, CdpScalars
<1>2. CASE Interest(pos) > 0
  <2> DEFINE i == pos.interest + Interest(pos)
  <2>1. i \in Nat
    BY <1>1
  <2>2. Accrue(pos) = [pos EXCEPT !.interest = i, !.last_accrual_slot = slot]
    BY <1>2 DEF Accrue
  <2> HIDE DEF i
  <2> DEFINE q == Accrue(pos)
  <2>3. q = [pos EXCEPT !.interest = i, !.last_accrual_slot = slot]
    BY <2>2
  <2> HIDE DEF q
  <2>4. /\ q \in PositionType /\ SameAccount(q, pos)
        /\ q.principal = pos.principal /\ q.reward_debt = pos.reward_debt
        /\ q.last_accrual_slot = slot
    BY <1>1, <2>1, <2>3 DEF PositionType, SameAccount
  <2>5. QED BY <1>1, <2>4 DEF OnTime, q
<1>3. CASE ~(Interest(pos) > 0)
  BY <1>3 DEF Accrue, SameAccount
<1>4. QED BY <1>2, <1>3

LEMMA EarnedType ==
  ASSUME CdpInv, NEW n \in Nat
  PROVE  (n * reward_per_token) \div REWARD_SCALE \in Nat
  BY ScaledType, TypeOfCdpConstants DEF CdpInv, CdpScalars

\* BorrowRewards::settle, when it does not fail.
LEMMA SettleKeeps ==
  ASSUME CdpInv, NEW pos, OnTime(pos), CanSettle(pos)
  PROVE  /\ OnTime(Settle(pos)) /\ SameAccount(Settle(pos), pos)
         /\ Settle(pos).interest = pos.interest
         /\ Settle(pos).principal = pos.principal
<1>1. /\ pos \in PositionType /\ pos.pending_rewards \in Nat /\ pos.reward_debt \in Nat
      /\ pos.principal \in Nat
  BY PositionFields DEF OnTime
<1>2. Earned(pos) \in Nat /\ Earned(pos) >= pos.reward_debt
  BY <1>1, EarnedType DEF Earned, CanSettle
<1> DEFINE r == pos.pending_rewards + Earned(pos) - pos.reward_debt
<1>3. r \in Nat
  BY <1>1, <1>2
<1>4. Settle(pos) = [pos EXCEPT !.pending_rewards = r]
  BY DEF Settle
<1> HIDE DEF r
<1>5. QED BY <1>1, <1>3, <1>4, WithRewards DEF OnTime

\* BorrowRewards::sync_debt after every change of the principal.
LEMMA WithPrincipalKeeps ==
  ASSUME CdpInv, NEW pos, OnTime(pos), NEW n \in Nat
  PROVE  LET q == WithPrincipal(pos, n) IN
         /\ OnTime(q) /\ SameAccount(q, pos) /\ q.interest = pos.interest
         /\ q.principal = n
         /\ CanSettle(q)
<1> DEFINE d == (n * reward_per_token) \div REWARD_SCALE
           q == WithPrincipal(pos, n)
<1>1. d \in Nat /\ pos \in PositionType
  BY EarnedType DEF OnTime
<1>2. q = [pos EXCEPT !.principal = n, !.reward_debt = d]
  BY DEF WithPrincipal
<1> HIDE DEF d, q
<1>3. /\ q \in PositionType /\ SameAccount(q, pos) /\ q.interest = pos.interest
      /\ q.principal = n /\ q.reward_debt = d
      /\ q.last_accrual_slot = pos.last_accrual_slot
  BY <1>1, <1>2 DEF PositionType, SameAccount
<1>4. OnTime(q)
  BY <1>3 DEF OnTime
<1>5. CanSettle(q)
  BY <1>1, <1>3 DEF CanSettle, Earned, d
<1>6. QED BY <1>3, <1>4, <1>5 DEF q

\* A payment clears interest first, and no more than is owed.
LEMMA RepaidType ==
  ASSUME CdpInv, NEW p \in Positions, NEW payment \in Nat, CanSettle(position[p])
  PROVE  LET r == Repaid(p, payment) IN
         /\ r.interest \in Nat /\ r.principal \in Nat
         /\ r.interest + r.principal <= payment
         /\ OnTime(r.after) /\ SameAccount(r.after, position[p])
         /\ r.after.principal + r.principal = position[p].principal
         /\ r.after.principal \in Nat /\ r.after.interest \in Nat
         /\ CanSettle(r.after)
<1> DEFINE pos == Accrue(position[p])
           cleared == Least(payment, Owed(pos))
           i == Least(cleared, pos.interest)
           rest == [Settle(pos) EXCEPT !.interest = @ - i]
           n == pos.principal - (cleared - i)
<1>1. OnTime(position[p])
  BY DEF CdpInv, PositionsFit, Fit
<1>2. /\ OnTime(pos) /\ SameAccount(pos, position[p])
      /\ pos.principal = position[p].principal
      /\ pos.reward_debt = position[p].reward_debt
  BY <1>1, AccrueKeeps
<1> HIDE DEF pos
<1>3. CanSettle(pos)
  BY <1>2 DEF CanSettle, Earned
<1>4. /\ pos.principal \in Nat /\ pos.interest \in Nat
  BY <1>2, PositionFields DEF OnTime
<1>5. /\ cleared \in Nat /\ cleared <= payment /\ cleared <= pos.principal + pos.interest
  <2>1. Owed(pos) \in Nat /\ Owed(pos) = pos.principal + pos.interest
    BY <1>4 DEF Owed
  <2>2. QED BY <2>1, LeastType
<1>6. /\ i \in Nat /\ i <= pos.interest /\ i <= cleared
      /\ cleared - i <= pos.principal
  <2> HIDE DEF cleared
  <2>1. i \in Nat /\ i <= pos.interest /\ i <= cleared
    BY <1>4, <1>5, LeastType
  <2>2. i = cleared \/ i = pos.interest
    BY DEF Least
  <2>3. QED BY <1>4, <1>5, <2>1, <2>2
<1> HIDE DEF i, cleared
<1>7. cleared - i \in Nat /\ n \in Nat /\ n + (cleared - i) = pos.principal
  BY <1>4, <1>5, <1>6
<1>8. /\ OnTime(Settle(pos)) /\ SameAccount(Settle(pos), pos)
      /\ Settle(pos).interest = pos.interest
  BY <1>2, <1>3, SettleKeeps
<1>9. OnTime(rest) /\ SameAccount(rest, pos) /\ rest.interest \in Nat
  <2> DEFINE s == Settle(pos)
             k == s.interest - i
  <2>1. k \in Nat /\ s \in PositionType
    BY <1>4, <1>6, <1>8 DEF OnTime
  <2>2. rest = [s EXCEPT !.interest = k]
    OBVIOUS
  <2> HIDE DEF s, k, rest
  <2>3. /\ rest \in PositionType /\ SameAccount(rest, s) /\ rest.interest = k
        /\ rest.last_accrual_slot = s.last_accrual_slot
    BY <2>1, <2>2, WithInterest
  <2>4. QED BY <1>8, <2>1, <2>3 DEF s, OnTime, SameAccount
<1> HIDE DEF rest, n
<1>10. LET q == WithPrincipal(rest, n) IN
       /\ OnTime(q) /\ SameAccount(q, rest) /\ q.interest = rest.interest
       /\ q.principal = n /\ CanSettle(q)
  BY <1>7, <1>9, WithPrincipalKeeps
<1>11. SameAccount(WithPrincipal(rest, n), position[p])
  BY <1>2, <1>9, <1>10 DEF SameAccount
<1>12. /\ Repaid(p, payment).interest = i
       /\ Repaid(p, payment).principal = cleared - i
       /\ Repaid(p, payment).after = WithPrincipal(rest, n)
  BY DEF Repaid, pos, cleared, i, rest, n
<1>13. i + (cleared - i) <= payment
  BY <1>5, <1>6
<1>14. QED BY <1>2, <1>6, <1>7, <1>9, <1>10, <1>11, <1>12, <1>13

-----------------------------------------------------------------------------
(* What the instructions of rise-cdp do to the pool *)

LEMMA ConversionTypes ==
  ASSUME IInv, NEW n \in Nat
  PROVE  SolToRiseSol(n) \in Nat /\ RiseSolToSol(n) \in Nat
<1>1. exchange_rate \in Nat /\ exchange_rate > 0
  BY TypeOfConstants DEF IInv, TypeOK, RateAtPar
<1>2. QED BY <1>1, ScaledType, TypeOfConstants DEF SolToRiseSol, RiseSolToSol

\* What they all keep: the pool's invariant, an exchange rate that does not fall,
\* and the abstract custody vault.
PoolKept ==
  /\ IInv'
  /\ exchange_rate' >= exchange_rate
  /\ [Custody!Next]_Custody!vars

\* The pool is not touched.
LEMMA PoolUnchanged ==
  ASSUME IInv, UNCHANGED vars
  PROVE  PoolKept
  BY NextKeepsIInv, NextKeepsRate, NextMaps DEF PoolKept

\* Lamports that nobody is owed arrive, or none.
LEMMA ArrivalMaps ==
  ASSUME IInv, pool_vault' \in Nat, pool_vault' >= pool_vault,
         UNCHANGED <<liquid_buffer_lamports, pending_withdrawals_lamports>>
  PROVE  [Custody!Next]_Custody!vars
<1>1. CASE pool_vault' = pool_vault
  BY <1>1, QuietStep
<1>2. CASE pool_vault' > pool_vault
  BY <1>2 DEF IInv, TypeOK, VaultCovers, Accounted, Custody!Next, Custody!Arrive
<1>3. QED BY <1>1, <1>2 DEF IInv, TypeOK

\* Lamports arrive and are owed to the stakers at once, or none.
LEMMA DepositMaps ==
  ASSUME IInv, NEW n \in Nat, pool_vault' = pool_vault + n,
         liquid_buffer_lamports' = liquid_buffer_lamports + n,
         UNCHANGED pending_withdrawals_lamports
  PROVE  [Custody!Next]_Custody!vars
<1>1. CASE n = 0
  BY <1>1, QuietStep DEF IInv, TypeOK
<1>2. CASE n > 0
  BY <1>2 DEF IInv, TypeOK, VaultCovers, Accounted, Custody!Next, Custody!Deposit
<1>3. QED BY <1>1, <1>2

\* Lamports arrive in pool_vault by transfer, from a borrower or from a swap.
LEMMA VaultRises ==
  ASSUME IInv, pool_vault' \in Nat, pool_vault' >= pool_vault,
         wallet' \in [Users -> Nat], outside' \in Nat,
         UNCHANGED <<poolVars, ticketVars, treasuryVars, rise_sol, epoch>>
  PROVE  PoolKept
<1>1. TypeOK'
  BY DEF IInv, TypeOK, poolVars, stakeVars, ticketVars,
     treasuryVars, configVars, reserveVars, revenueVars
<1>2. VaultCovers' /\ BufferCoversStake' /\ RateAtPar' /\ ReserveBacked'
  BY DEF IInv, TypeOK, VaultCovers, Accounted,
     BufferCoversStake, RateAtPar, ReserveBacked, poolVars, stakeVars,
     treasuryVars, reserveVars
<1>3. Backed'
  BY DEF IInv, Backed, poolVars, stakeVars
<1>4. exchange_rate' >= exchange_rate
  BY DEF IInv, TypeOK, poolVars, stakeVars
<1>5. [Custody!Next]_Custody!vars
  BY ArrivalMaps DEF poolVars
<1>6. QED BY <1>1, <1>2, <1>3, <1>4, <1>5 DEF IInv, PoolKept

\* A loan is riseSOL in a wallet and nothing else.
LEMMA MintKeepsPool ==
  ASSUME IInv, NEW user \in Users, NEW n \in Nat, MintForCdp(user, n)
  PROVE  PoolKept
<1>1. IInv'
  BY MintForCdpStep
<1>2. exchange_rate' >= exchange_rate
  BY DEF MintForCdp, IInv, TypeOK, poolVars, stakeVars
<1>3. [Custody!Next]_Custody!vars
  BY QuietStep DEF MintForCdp, poolVars
<1>4. QED BY <1>1, <1>2, <1>3 DEF PoolKept

\* Burning riseSOL shrinks the supply side of Backed only.
LEMMA BurnKeepsPool ==
  ASSUME IInv, NEW user \in Users, NEW i \in Nat, NEW n \in Nat,
         BurnRiseSol(user, i, n)
  PROVE  PoolKept
<1>1. rise_sol[user] - i - n \in Nat
  BY DEF BurnRiseSol, IInv, TypeOK
<1>2. TypeOK'
  BY <1>1 DEF BurnRiseSol, IInv, TypeOK, ticketVars,
     treasuryVars, configVars, reserveVars, revenueVars
<1>3. VaultCovers' /\ BufferCoversStake' /\ RateAtPar' /\ ReserveBacked'
  BY DEF BurnRiseSol, IInv, VaultCovers, Accounted,
     BufferCoversStake, RateAtPar, ReserveBacked, treasuryVars, reserveVars
<1>4. Backed'
  <2>1. staking_rise_sol_supply' * exchange_rate
          <= staking_rise_sol_supply * exchange_rate
    BY MulMono DEF BurnRiseSol, IInv, TypeOK
  <2>2. /\ staking_rise_sol_supply' * exchange_rate \in Nat
        /\ staking_rise_sol_supply * exchange_rate \in Nat
        /\ total_sol_staked * RATE_SCALE \in Nat
    BY <1>2, MulDistributes, TypeOfConstants DEF IInv, TypeOK
  <2>3. QED BY <2>1, <2>2 DEF BurnRiseSol, IInv, Backed
<1>5. exchange_rate' >= exchange_rate
  BY DEF BurnRiseSol, IInv, TypeOK
<1>6. [Custody!Next]_Custody!vars
  BY QuietStep DEF BurnRiseSol
<1>7. QED BY <1>2, <1>3, <1>4, <1>5, <1>6 DEF IInv, PoolKept

\* Shares of the fees reach the vaults; the stakers' share becomes capital.
LEMMA FeesKeepPool ==
  ASSUME IInv, NEW staking \in Nat, NEW reserve \in Nat, NEW verise \in Nat,
         NEW total_verise \in Nat,
         CreditStakers(staking),
         pool_vault' = pool_vault + staking,
         reserve_vault' = reserve_vault + reserve,
         reserve_lamports' = reserve_lamports + reserve,
         verise_vault' = verise_vault + verise,
         BookVerise(verise, total_verise),
         UNCHANGED <<last_rate_update_epoch, pending_withdrawals_lamports, ticketVars,
                     configVars, last_collection_epoch, userVars, outside, epoch>>
  PROVE  PoolKept
<1>1. revenue_index' \in Nat /\ total_distributed' \in Nat
  BY BookVeriseType
<1>2. /\ total_sol_staked' \in Nat
      /\ liquid_buffer_lamports' = liquid_buffer_lamports + staking
      /\ exchange_rate' \in Nat
      /\ exchange_rate' >= exchange_rate
      /\ staking_rise_sol_supply' = staking_rise_sol_supply
      /\ BufferCoversStake'
      /\ Backed'
  <2>1. CASE staking = 0 /\ UNCHANGED <<stakeVars, liquid_buffer_lamports>>
    BY <2>1 DEF stakeVars, IInv, TypeOK, BufferCoversStake, Backed
  <2>2. QED BY <2>1, CreditEffect DEF CreditStakers
<1>3. TypeOK'
  BY <1>1, <1>2 DEF IInv, TypeOK, ticketVars, configVars, userVars
<1>4. VaultCovers' /\ RateAtPar' /\ ReserveBacked'
  BY <1>2, TypeOfConstants DEF IInv, TypeOK, VaultCovers, Accounted, RateAtPar,
     ReserveBacked
<1>5. [Custody!Next]_Custody!vars
  BY <1>2, DepositMaps
<1>6. QED BY <1>2, <1>3, <1>4, <1>5 DEF IInv, PoolKept

\* Redeemed collateral becomes vault and liquid buffer together.
LEMMA LiquidityKeepsPool ==
  ASSUME IInv, NEW proceeds \in Nat, outside' \in Nat,
         pool_vault' = pool_vault + proceeds,
         liquid_buffer_lamports' = liquid_buffer_lamports + proceeds,
         UNCHANGED <<stakeVars, last_rate_update_epoch, pending_withdrawals_lamports,
                     ticketVars, treasuryVars, userVars, epoch>>
  PROVE  PoolKept
<1>1. TypeOK'
  BY DEF IInv, TypeOK, stakeVars, ticketVars, treasuryVars, configVars, reserveVars,
     revenueVars, userVars
<1>2. VaultCovers' /\ BufferCoversStake' /\ RateAtPar' /\ ReserveBacked'
  BY DEF IInv, TypeOK, VaultCovers, Accounted,
     BufferCoversStake, RateAtPar, ReserveBacked, stakeVars, treasuryVars, reserveVars
<1>3. Backed'
  BY DEF IInv, Backed, stakeVars
<1>4. exchange_rate' >= exchange_rate
  BY DEF IInv, TypeOK, stakeVars
<1>5. [Custody!Next]_Custody!vars
  BY DepositMaps
<1>6. QED BY <1>1, <1>2, <1>3, <1>4, <1>5 DEF IInv, PoolKept

\* The treasury pays for a shortfall out of reserve_vault.
LEMMA DebitKeepsPool ==
  ASSUME IInv, NEW amount \in Nat, reserve_vault >= amount, DebitReserve(amount),
         outside' \in Nat,
         UNCHANGED <<poolVars, ticketVars, configVars, revenueVars,
                     last_collection_epoch, pool_vault, userVars, epoch>>
  PROVE  PoolKept
<1>1. TypeOK'
  BY DEF DebitReserve, IInv, TypeOK, poolVars, stakeVars, ticketVars,
     configVars, revenueVars, userVars
<1>2. VaultCovers' /\ BufferCoversStake' /\ RateAtPar' /\ ReserveBacked'
  BY DEF DebitReserve, IInv, TypeOK, VaultCovers, Accounted,
     BufferCoversStake, RateAtPar, ReserveBacked, poolVars, stakeVars
<1>3. Backed'
  BY DEF IInv, Backed, poolVars, stakeVars
<1>4. exchange_rate' >= exchange_rate
  BY DEF IInv, TypeOK, poolVars, stakeVars
<1>5. [Custody!Next]_Custody!vars
  BY QuietStep DEF poolVars
<1>6. QED BY <1>1, <1>2, <1>3, <1>4, <1>5 DEF IInv, PoolKept

-----------------------------------------------------------------------------
(* What an instruction does to one position: its new value fits, what is set *)
(* aside for it is in the buyback vault, and it can be settled if it could   *)
(* before.                                                                   *)

Replaces(p, new) ==
  /\ position' = [position EXCEPT ![p] = new]
  /\ Fit(new)
  /\ slot' = slot
  /\ new.pending_buyback + cdp_wsol_buyback_vault
       <= position[p].pending_buyback + cdp_wsol_buyback_vault'
  /\ reward_per_token' = reward_per_token
  /\ CanSettle(position[p]) => CanSettle(new)

\* Both debt counters follow the principal, unless they have lost it before.
Follows(p, new) ==
  /\ cdp_rise_sol_minted >= position[p].principal =>
       cdp_rise_sol_minted' = cdp_rise_sol_minted - position[p].principal + new.principal
  /\ total_cdp_debt >= position[p].principal =>
       total_cdp_debt' = total_cdp_debt - position[p].principal + new.principal

Moves(p) == \E new : Replaces(p, new) /\ Follows(p, new)

\* ... or it leaves all positions and all they are owed alone.
Rests ==
  /\ UNCHANGED <<position, debtVars, cdp_wsol_buyback_vault>>
  /\ slot' >= slot
  /\ reward_per_token' >= reward_per_token

LEMMA ReplaceFits ==
  ASSUME CdpInv, NEW p \in Positions, NEW new, Replaces(p, new)
  PROVE  PositionsFit'
<1>1. /\ position' = [position EXCEPT ![p] = new] /\ slot' = slot
      /\ Fit(new) /\ new \in PositionType
      /\ \A q \in Positions : Fit(position[q])
      /\ position \in [Positions -> PositionType]
  BY DEF Replaces, CdpInv, PositionsFit, Fit, OnTime
<1>2. position' \in [Positions -> PositionType]
  BY <1>1
<1>3. \A q \in Positions : Fit(position'[q])
  BY <1>1
<1>4. QED BY <1>1, <1>2, <1>3 DEF PositionsFit, Fit, OnTime

LEMMA RestFits ==
  ASSUME CdpInv, CdpScalars', Rests
  PROVE  PositionsFit'
<1>1. slot \in Nat /\ slot' \in Nat /\ slot <= slot' /\ position' = position
  BY DEF Rests, CdpInv, CdpScalars
<1>2. ASSUME NEW q \in Positions PROVE Fit(position[q])'
  <2>1. position[q].last_accrual_slot \in Nat /\ Fit(position[q])
    BY PositionFields DEF CdpInv, PositionsFit
  <2>2. QED BY <1>1, <2>1 DEF Fit, OnTime
<1>3. QED BY <1>1, <1>2 DEF PositionsFit, CdpInv

\* Principal comes into both counters together ...
LEMMA MintFollows ==
  ASSUME CdpInv, NEW p \in Positions, NEW n \in Nat, MintDebt(n),
         NEW new, new.principal = position[p].principal + n
  PROVE  /\ Follows(p, new)
         /\ cdp_rise_sol_minted' \in Nat /\ total_cdp_debt' \in Nat
<1>1. /\ cdp_rise_sol_minted \in Nat /\ total_cdp_debt \in Nat
      /\ position[p].principal \in Nat
  BY PositionFields DEF CdpInv, CdpScalars, PositionsFit
<1>2. QED BY <1>1 DEF MintDebt, Follows

\* ... and leaves both together.
LEMMA RetireFollows ==
  ASSUME CdpInv, NEW p \in Positions, NEW n \in Nat, RetireDebt(n),
         NEW new, new.principal \in Nat, new.principal + n = position[p].principal
  PROVE  /\ Follows(p, new)
         /\ cdp_rise_sol_minted' \in Nat /\ total_cdp_debt' \in Nat
<1>1. /\ cdp_rise_sol_minted \in Nat /\ total_cdp_debt \in Nat
      /\ position[p].principal \in Nat
  BY PositionFields DEF CdpInv, CdpScalars, PositionsFit
<1>2. QED BY <1>1 DEF RetireDebt, Monus, Follows

LEMMA SameDebtFollows ==
  ASSUME CdpInv, NEW p \in Positions, UNCHANGED debtVars,
         NEW new, new.principal = position[p].principal
  PROVE  /\ Follows(p, new)
         /\ cdp_rise_sol_minted' \in Nat /\ total_cdp_debt' \in Nat
<1>1. /\ cdp_rise_sol_minted \in Nat /\ total_cdp_debt \in Nat
      /\ position[p].principal \in Nat
  BY PositionFields DEF CdpInv, CdpScalars, PositionsFit
<1>2. QED BY <1>1 DEF debtVars, Follows

\* An open position.
LEMMA OpenFits ==
  ASSUME CdpInv, NEW p \in Positions
  PROVE  /\ OnTime(position[p]) /\ position[p] \in PositionType
         /\ position[p].collateral \in Nat /\ position[p].principal \in Nat
         /\ position[p].interest \in Nat /\ position[p].pending_buyback \in Nat
         /\ position[p].is_open => position[p].exists
         /\ ~position[p].is_open => position[p].principal = 0
         /\ OwnerOf(p) \in Users
  BY PositionFields DEF CdpInv, PositionsFit, Fit, OnTime, Positions, OwnerOf

-----------------------------------------------------------------------------
(* Borrowing.  Each instruction keeps the pool and the types of the accounts *)
(* and moves one position.                                                  *)

LEMMA OpenPositionStep ==
  ASSUME CdpInv, NEW p \in Positions, NEW deposit \in Deposits, NEW loan \in Loans,
         OpenPosition(p, deposit, loan)
  PROVE  PoolKept /\ CdpScalars' /\ Moves(p)
<1> DEFINE d == (loan * reward_per_token) \div REWARD_SCALE
           new == [NoPosition EXCEPT !.exists = TRUE, !.is_open = TRUE,
                                     !.collateral = deposit, !.tracked = TRUE,
                                     !.last_accrual_slot = slot,
                                     !.principal = loan, !.reward_debt = d]
<1>1. deposit \in Nat /\ loan \in Nat /\ slot \in Nat
  BY TypeOfCdpConstants DEF CdpInv, CdpScalars
<1>2. d \in Nat
  BY <1>1, EarnedType
<1>3. position' = [position EXCEPT ![p] = new]
  BY DEF OpenPosition, WithPrincipal
<1>4. CanSettle(new)
  <2>1. new.principal = loan /\ new.reward_debt = d
    BY DEF NoPosition
  <2> HIDE DEF new
  <2>2. QED BY <1>2, <2>1 DEF CanSettle, Earned
<1> HIDE DEF d
<1>5. /\ new \in PositionType /\ new.exists /\ new.is_open /\ new.principal = loan
      /\ new.last_accrual_slot = slot /\ new.pending_buyback = 0
  BY <1>1, <1>2 DEF NoPosition, PositionType
<1> HIDE DEF new
<1>6. Fit(new)
  BY <1>1, <1>5 DEF Fit, OnTime
<1>7. PoolKept
  BY <1>1, OpenFits, MintKeepsPool DEF CdpInv, OpenPosition
<1>8. position[p].principal = 0 /\ position[p].pending_buyback \in Nat
  BY OpenFits DEF OpenPosition, OpenPositionAccounts
<1>9. /\ Follows(p, new)
      /\ cdp_rise_sol_minted' \in Nat /\ total_cdp_debt' \in Nat
  <2>1. MintDebt(loan)
    BY DEF OpenPosition
  <2>2. QED BY <1>1, <1>5, <1>8, <2>1, MintFollows
<1>10. CdpScalars'
  BY <1>1, <1>9 DEF CdpInv, CdpScalars, OpenPosition, cdpConfigVars, rewardVars,
     cdpVaultVars, worldVars
<1>11. /\ slot' = slot /\ reward_per_token' = reward_per_token
       /\ cdp_wsol_buyback_vault' = cdp_wsol_buyback_vault
       /\ cdp_wsol_buyback_vault \in Nat
  BY DEF OpenPosition, rewardVars, cdpVaultVars, worldVars, CdpInv, CdpScalars
<1>12. Replaces(p, new)
  BY <1>3, <1>4, <1>5, <1>6, <1>8, <1>11 DEF Replaces
<1>13. QED BY <1>7, <1>9, <1>10, <1>12 DEF Moves

LEMMA AddCollateralStep ==
  ASSUME CdpInv, NEW p \in Positions, NEW amount \in Deposits, AddCollateral(p, amount)
  PROVE  PoolKept /\ CdpScalars' /\ Moves(p)
<1> DEFINE c == position[p].collateral + amount
           new == [position[p] EXCEPT !.collateral = c]
<1>1. amount \in Nat /\ c \in Nat
  BY TypeOfCdpConstants, OpenFits
<1>2. position' = [position EXCEPT ![p] = new]
  BY DEF AddCollateral
<1> HIDE DEF c
<1>3. /\ new \in PositionType
      /\ new.exists = position[p].exists /\ new.is_open = position[p].is_open
      /\ new.pending_buyback = position[p].pending_buyback
      /\ new.principal = position[p].principal
      /\ new.reward_debt = position[p].reward_debt
      /\ new.last_accrual_slot = position[p].last_accrual_slot
  BY <1>1, OpenFits, WithCollateral
<1> HIDE DEF new
<1>4. Fit(new) /\ (CanSettle(position[p]) => CanSettle(new))
  BY <1>3, OpenFits DEF Fit, OnTime, CanSettle, Earned
<1>5. PoolKept
  BY PoolUnchanged DEF CdpInv, AddCollateral
<1>6. UNCHANGED debtVars
  BY DEF AddCollateral
<1>7. /\ Follows(p, new)
      /\ cdp_rise_sol_minted' \in Nat /\ total_cdp_debt' \in Nat
  BY <1>3, <1>6, SameDebtFollows
<1>8. CdpScalars'
  BY <1>1, <1>7 DEF CdpInv, CdpScalars, AddCollateral, cdpConfigVars, rewardVars,
     cdpVaultVars, worldVars
<1>9. /\ slot' = slot /\ reward_per_token' = reward_per_token
      /\ cdp_wsol_buyback_vault' = cdp_wsol_buyback_vault
      /\ cdp_wsol_buyback_vault \in Nat
  BY DEF AddCollateral, rewardVars, cdpVaultVars, worldVars, CdpInv, CdpScalars
<1>10. Replaces(p, new)
  BY <1>2, <1>3, <1>4, <1>9, OpenFits DEF Replaces
<1>11. QED BY <1>5, <1>7, <1>8, <1>10 DEF Moves

LEMMA BorrowMoreStep ==
  ASSUME CdpInv, NEW p \in Positions, NEW extra \in Loans, BorrowMore(p, extra)
  PROVE  PoolKept /\ CdpScalars' /\ Moves(p)
<1> DEFINE pos == Accrue(position[p])
           n == pos.principal + extra
           new == WithPrincipal(Settle(pos), n)
<1>1. /\ extra \in Nat /\ position[p].is_open
      /\ CanSettle(pos)
      /\ position' = [position EXCEPT ![p] = new]
      /\ MintDebt(extra) /\ MintForCdp(OwnerOf(p), extra)
  BY TypeOfCdpConstants DEF BorrowMore, IssueMore, BorrowMoreAccounts
<1>2. OnTime(pos) /\ SameAccount(pos, position[p]) /\ pos.principal = position[p].principal
  BY OpenFits, AccrueKeeps
<1> HIDE DEF pos
<1>3. n \in Nat /\ n = position[p].principal + extra
  BY <1>1, <1>2, OpenFits
<1>4. OnTime(Settle(pos)) /\ SameAccount(Settle(pos), pos)
  BY <1>1, <1>2, SettleKeeps
<1> HIDE DEF n
<1>5. /\ OnTime(new) /\ SameAccount(new, Settle(pos)) /\ new.principal = n
      /\ CanSettle(new)
  BY <1>3, <1>4, WithPrincipalKeeps
<1> HIDE DEF new
<1>6. Fit(new) /\ new.pending_buyback = position[p].pending_buyback
  BY <1>1, <1>2, <1>4, <1>5, OpenFits DEF Fit, SameAccount
<1>7. PoolKept
  BY <1>1, OpenFits, MintKeepsPool DEF CdpInv
<1>8. /\ Follows(p, new)
      /\ cdp_rise_sol_minted' \in Nat /\ total_cdp_debt' \in Nat
  BY <1>1, <1>3, <1>5, MintFollows
<1>9. CdpScalars'
  BY <1>8 DEF CdpInv, CdpScalars, BorrowMore, cdpConfigVars, collateralVars, rewardVars,
     cdpVaultVars, worldVars
<1>10. /\ slot' = slot /\ reward_per_token' = reward_per_token
       /\ cdp_wsol_buyback_vault' = cdp_wsol_buyback_vault
       /\ cdp_wsol_buyback_vault \in Nat
  BY DEF BorrowMore, rewardVars, cdpVaultVars, worldVars, CdpInv, CdpScalars
<1>11. Replaces(p, new)
  BY <1>1, <1>5, <1>6, <1>10, OpenFits DEF Replaces
<1>12. QED BY <1>7, <1>8, <1>9, <1>11 DEF Moves

LEMMA WithdrawExcessStep ==
  ASSUME CdpInv, NEW p \in Positions, NEW amount \in Deposits, WithdrawExcess(p, amount)
  PROVE  PoolKept /\ CdpScalars' /\ Moves(p)
<1> DEFINE pos == Accrue(position[p])
           c == pos.collateral - amount
           new == [pos EXCEPT !.collateral = c]
<1>1. /\ amount \in Nat /\ pos.collateral >= amount /\ ReturnCollateral(amount)
      /\ position' = [position EXCEPT ![p] = new]
  BY TypeOfCdpConstants DEF WithdrawExcess
<1>2. /\ OnTime(pos) /\ SameAccount(pos, position[p]) /\ pos.principal = position[p].principal
      /\ pos.reward_debt = position[p].reward_debt
  BY OpenFits, AccrueKeeps
<1> HIDE DEF pos
<1>3. c \in Nat
  <2>1. pos.collateral \in Nat
    BY <1>2, PositionFields DEF OnTime
  <2>2. QED BY <1>1, <2>1
<1> HIDE DEF c
<1>4. /\ new \in PositionType
      /\ new.exists = pos.exists /\ new.is_open = pos.is_open
      /\ new.pending_buyback = pos.pending_buyback
      /\ new.principal = pos.principal
      /\ new.reward_debt = pos.reward_debt
      /\ new.last_accrual_slot = pos.last_accrual_slot
  BY <1>2, <1>3, WithCollateral DEF OnTime
<1> HIDE DEF new
<1>5. /\ Fit(new) /\ (CanSettle(position[p]) => CanSettle(new))
      /\ new.pending_buyback = position[p].pending_buyback
      /\ new.principal = position[p].principal
  BY <1>2, <1>4, OpenFits DEF Fit, OnTime, CanSettle, Earned, SameAccount
<1>6. PoolKept
  BY PoolUnchanged DEF CdpInv, WithdrawExcess
<1>7. UNCHANGED debtVars
  BY DEF WithdrawExcess
<1>8. /\ Follows(p, new)
      /\ cdp_rise_sol_minted' \in Nat /\ total_cdp_debt' \in Nat
  BY <1>5, <1>7, SameDebtFollows
<1>9. CdpScalars'
  BY <1>1, <1>8 DEF CdpInv, CdpScalars, WithdrawExcess, ReturnCollateral,
     ReleaseEntitlement, Monus, cdpConfigVars, rewardVars, cdpVaultVars, worldVars
<1>10. /\ slot' = slot /\ reward_per_token' = reward_per_token
       /\ cdp_wsol_buyback_vault' = cdp_wsol_buyback_vault
       /\ cdp_wsol_buyback_vault \in Nat
  BY DEF WithdrawExcess, rewardVars, cdpVaultVars, worldVars, CdpInv, CdpScalars
<1>11. Replaces(p, new)
  BY <1>1, <1>5, <1>10, OpenFits DEF Replaces
<1>12. QED BY <1>6, <1>8, <1>9, <1>11 DEF Moves

-----------------------------------------------------------------------------
(* Repayment *)

\* What a payment was converted to is worth no more than the payment.
LEMMA RoundTrip ==
  ASSUME IInv, NEW lamports \in Nat, NEW n \in Nat, n <= SolToRiseSol(lamports)
  PROVE  RiseSolToSol(n) <= lamports
<1> DEFINE r == exchange_rate
           l == (lamports * RATE_SCALE) \div r
           q == (n * r) \div RATE_SCALE
<1>1. /\ r \in Nat /\ r > 0 /\ RATE_SCALE \in Nat /\ RATE_SCALE > 0
      /\ lamports * RATE_SCALE \in Nat /\ n * r \in Nat
  BY TypeOfConstants, MulDistributes DEF IInv, TypeOK, RateAtPar
<1>2. /\ l \in Nat /\ l * r <= lamports * RATE_SCALE /\ n <= l
      /\ q \in Nat /\ q * RATE_SCALE <= n * r
  BY <1>1, DivBounds DEF SolToRiseSol
<1>3. RiseSolToSol(n) = q
  BY DEF RiseSolToSol
<1> HIDE DEF r, l, q
<1>4. n * r <= l * r /\ l * r \in Nat /\ q * RATE_SCALE \in Nat
  BY <1>1, <1>2, MulMono, MulDistributes
<1> DEFINE x == n * r
           y == l * r
           z == lamports * RATE_SCALE
           w == q * RATE_SCALE
<1>5. /\ x \in Nat /\ y \in Nat /\ z \in Nat /\ w \in Nat
      /\ w <= x /\ x <= y /\ y <= z
  BY <1>1, <1>2, <1>4
<1> HIDE DEF x, y, z, w
<1>6. w <= z
  BY <1>5
<1>7. q * RATE_SCALE <= lamports * RATE_SCALE
  BY <1>6 DEF w, z
<1>8. QED BY <1>1, <1>2, <1>3, <1>7, MulCancel

\* The SOL a repayment is worth: never more than the payment it came from.
LEMMA RepaidInSol ==
  ASSUME CdpInv, NEW r, r.interest \in Nat, r.principal \in Nat
  PROVE  /\ InterestSol(r) \in Nat /\ PrincipalSol(r) \in Nat
         /\ \A lamports \in Nat :
              r.interest + r.principal <= SolToRiseSol(lamports)
                => PrincipalSol(r) <= lamports
<1>1. /\ InterestSol(r) \in Nat
      /\ RiseSolToSol(r.interest + r.principal) \in Nat
  BY ConversionTypes DEF CdpInv, InterestSol
<1>2. /\ PrincipalSol(r) \in Nat
      /\ PrincipalSol(r) <= RiseSolToSol(r.interest + r.principal)
  BY <1>1, LeastType DEF PrincipalSol
<1>3. ASSUME NEW lamports \in Nat, r.interest + r.principal <= SolToRiseSol(lamports)
      PROVE  PrincipalSol(r) <= lamports
  <2>1. RiseSolToSol(r.interest + r.principal) <= lamports
    BY <1>3, RoundTrip DEF CdpInv
  <2>2. QED BY <1>1, <1>2, <2>1
<1>4. QED BY <1>1, <1>2, <1>3

LEMMA DivertedType ==
  ASSUME CdpInv, NEW pos \in PositionType, NEW n \in Nat
  PROVE  /\ ShortfallSol(pos) \in Nat
         /\ Diverted(pos, n) \in Nat /\ Diverted(pos, n) <= n
<1>1. pos.collateral \in Nat /\ collateral_vault \in Nat
  BY PositionFields DEF CdpInv, CdpScalars
<1>2. Shortfall(pos) \in Nat
  BY <1>1, LeastType DEF Shortfall
<1>3. ShortfallSol(pos) \in Nat
  BY <1>2, UsdType DEF ShortfallSol, CdpInv
<1>4. /\ Least(ShortfallSol(pos), n) \in Nat
      /\ Least(ShortfallSol(pos), n) <= n
  BY <1>3, LeastType
<1>5. Diverted(pos, n) = Least(ShortfallSol(pos), n) \/ Diverted(pos, n) = 0
  BY DEF Diverted
<1>6. QED BY <1>3, <1>4, <1>5

\* The new account, closed when nothing is owed any more.
LEMMA RecordKeeps ==
  ASSUME CdpInv, NEW p \in Positions, position[p].is_open, NEW pos,
         OnTime(pos), SameAccount(pos, position[p]), CanSettle(pos),
         NEW divert \in Nat, Record(p, pos, divert)
  PROVE  \E new :
           /\ position' = [position EXCEPT ![p] = new]
           /\ Fit(new) /\ CanSettle(new) /\ new.principal = pos.principal
           /\ new.pending_buyback
                = IF Owed(pos) = 0 THEN divert ELSE position[p].pending_buyback
<1>1. pos \in PositionType /\ pos.exists /\ pos.is_open
      /\ pos.principal \in Nat /\ pos.interest \in Nat
  BY OpenFits, PositionFields DEF OnTime, SameAccount
<1>2. CASE Owed(pos) = 0
  <2> DEFINE new == Closed(pos, divert)
  <2>1. new = [pos EXCEPT !.is_open = FALSE, !.pending_buyback = divert]
    BY DEF Closed
  <2> HIDE DEF new
  <2>2. /\ new \in PositionType /\ new.exists = pos.exists /\ ~new.is_open
        /\ new.principal = pos.principal /\ new.reward_debt = pos.reward_debt
        /\ new.last_accrual_slot = pos.last_accrual_slot
        /\ new.pending_buyback = divert
    BY <1>1, <2>1 DEF PositionType
  <2>3. pos.principal = 0
    BY <1>1, <1>2 DEF Owed
  <2>4. Fit(new) /\ CanSettle(new)
    BY <1>1, <2>2, <2>3 DEF Fit, OnTime, CanSettle, Earned
  <2>5. position' = [position EXCEPT ![p] = new]
    BY <1>2 DEF Record, new
  <2>6. QED BY <1>2, <2>2, <2>4, <2>5
<1>3. CASE Owed(pos) # 0
  <2>1. position' = [position EXCEPT ![p] = pos]
    BY <1>3 DEF Record
  <2>2. Fit(pos)
    BY <1>1 DEF Fit
  <2>3. QED BY <1>3, <2>1, <2>2 DEF SameAccount
<1>4. QED BY <1>2, <1>3

\* The common half of repay_debt and repay_debt_spl.
LEMMA SettleInSolStep ==
  ASSUME CdpInv, NEW p \in Positions, position[p].is_open, CanSettle(position[p]),
         NEW payment \in Nat, SettleInSol(p, Repaid(p, payment)),
         wallet' \in [Users -> Nat], outside' \in Nat, cdp_fee_vault' \in Nat,
         cdp_wsol_vault_open' \in BOOLEAN
  PROVE  PoolKept /\ CdpScalars' /\ Moves(p)
<1> DEFINE r == Repaid(p, payment)
<1>1. /\ r.interest \in Nat /\ r.principal \in Nat
      /\ OnTime(r.after) /\ SameAccount(r.after, position[p])
      /\ r.after.principal + r.principal = position[p].principal
      /\ r.after.principal \in Nat
      /\ CanSettle(r.after)
  BY RepaidType
<1> HIDE DEF r
<1>2. PrincipalSol(r) \in Nat
  BY <1>1, RepaidInSol
<1> DEFINE divert == Diverted(r.after, PrincipalSol(r))
           to_pool == Monus(PrincipalSol(r), divert)
<1>3. divert \in Nat
  <2>1. r.after \in PositionType
    BY <1>1 DEF OnTime
  <2>2. QED BY <1>2, <2>1, DivertedType
<1>4. Owed(r.after) # 0 => divert = 0
  BY DEF Diverted
<1>5. /\ Record(p, r.after, divert) /\ RetireDebt(r.principal)
      /\ pool_vault' = pool_vault + to_pool
      /\ cdp_wsol_buyback_vault' = cdp_wsol_buyback_vault + divert
      /\ UNCHANGED <<poolVars, ticketVars, treasuryVars, rise_sol, epoch, cdpConfigVars,
                     collateralVars, rewardVars, worldVars>>
  BY DEF SettleInSol, r
<1> HIDE DEF divert
<1>6. to_pool \in Nat
  BY <1>2, <1>3, LeastType
<1> HIDE DEF to_pool
<1>7. PoolKept
  <2>1. pool_vault' \in Nat /\ pool_vault' >= pool_vault
    BY <1>5, <1>6 DEF CdpInv, IInv, TypeOK
  <2>2. QED BY <1>5, <2>1, VaultRises DEF CdpInv
<1>8. PICK new : /\ position' = [position EXCEPT ![p] = new]
                 /\ Fit(new) /\ CanSettle(new) /\ new.principal = r.after.principal
                 /\ new.pending_buyback
                      = IF Owed(r.after) = 0 THEN divert ELSE position[p].pending_buyback
  BY <1>1, <1>3, <1>5, RecordKeeps
<1>9. /\ Follows(p, new)
      /\ cdp_rise_sol_minted' \in Nat /\ total_cdp_debt' \in Nat
  BY <1>1, <1>5, <1>8, RetireFollows
<1>10. CdpScalars'
  BY <1>3, <1>5, <1>9 DEF CdpInv, CdpScalars, cdpConfigVars, collateralVars, rewardVars,
     worldVars
<1>11. Replaces(p, new)
  <2>1. /\ cdp_wsol_buyback_vault \in Nat /\ position[p].pending_buyback \in Nat
        /\ slot' = slot /\ reward_per_token' = reward_per_token
    BY <1>5, OpenFits DEF CdpInv, CdpScalars, rewardVars, worldVars
  <2>2. new.pending_buyback + cdp_wsol_buyback_vault
          <= position[p].pending_buyback + cdp_wsol_buyback_vault'
    <3>1. CASE Owed(r.after) = 0
      BY <1>3, <1>5, <1>8, <2>1, <3>1
    <3>2. CASE Owed(r.after) # 0
      BY <1>3, <1>4, <1>5, <1>8, <2>1, <3>2
    <3>3. QED BY <3>1, <3>2
  <2>3. QED BY <1>8, <2>1, <2>2 DEF Replaces
<1>12. QED BY <1>7, <1>9, <1>10, <1>11 DEF Moves

LEMMA RepayDebtStep ==
  ASSUME CdpInv, NEW p \in Positions, NEW payment \in Payments, RepayDebt(p, payment)
  PROVE  PoolKept /\ CdpScalars' /\ Moves(p)
<1> DEFINE n == SolToRiseSol(payment)
           r == Repaid(p, n)
           i == InterestSol(r)
           due == i + PrincipalSol(r)
<1>1. n \in Nat
  BY ConversionTypes, TypeOfCdpConstants DEF CdpInv
<1>2. /\ position[p].is_open /\ CanSettle(position[p]) /\ SettleInSol(p, r)
      /\ wallet[OwnerOf(p)] >= due
      /\ wallet' = [wallet EXCEPT ![OwnerOf(p)] = @ - due]
      /\ cdp_fee_vault' = cdp_fee_vault + i
      /\ UNCHANGED <<outside, cdp_wsol_vault_open>>
  BY DEF RepayDebt, RepayDebtAccounts
<1>3. r.interest \in Nat /\ r.principal \in Nat
  BY <1>1, <1>2, RepaidType
<1> HIDE DEF n
<1>4. i \in Nat /\ due \in Nat
  BY <1>3, RepaidInSol
<1> HIDE DEF r, i, due
<1>5. /\ wallet' \in [Users -> Nat] /\ outside' \in Nat /\ cdp_fee_vault' \in Nat
      /\ cdp_wsol_vault_open' \in BOOLEAN
  BY <1>2, <1>4, OpenFits DEF CdpInv, CdpScalars, IInv, TypeOK
<1>6. QED BY <1>1, <1>2, <1>5, SettleInSolStep DEF r

LEMMA RepayDebtSplStep ==
  ASSUME CdpInv, NEW p \in Positions, NEW received \in Payments, RepayDebtSpl(p, received)
  PROVE  PoolKept /\ CdpScalars' /\ Moves(p)
<1> DEFINE n == SolToRiseSol(received)
           r == Repaid(p, n)
           kept == PrincipalSol(r)
<1>1. n \in Nat /\ received \in Nat
  BY ConversionTypes, TypeOfCdpConstants DEF CdpInv
<1>2. /\ position[p].is_open /\ CanSettle(position[p]) /\ SettleInSol(p, r)
      /\ UnwrapAndRoute(received, kept)
      /\ UNCHANGED wallet
  BY DEF RepayDebtSpl, RepayDebtSplAccounts
<1>3. /\ r.interest \in Nat /\ r.principal \in Nat
      /\ r.interest + r.principal <= n
  BY <1>1, <1>2, RepaidType
<1>4. kept \in Nat /\ kept <= received
  BY <1>1, <1>3, RepaidInSol
<1> HIDE DEF n, r, kept
<1>5. /\ wallet' \in [Users -> Nat] /\ outside' \in Nat /\ cdp_fee_vault' \in Nat
      /\ cdp_wsol_vault_open' \in BOOLEAN
  <2>1. /\ wallet \in [Users -> Nat] /\ outside \in Nat /\ cdp_fee_vault \in Nat
    BY DEF CdpInv, CdpScalars, IInv, TypeOK
  <2>2. /\ outside >= received /\ outside' = outside - received
        /\ cdp_wsol_vault_open' = FALSE
        /\ cdp_fee_vault' = cdp_fee_vault + received - kept
    BY <1>2 DEF UnwrapAndRoute
  <2>3. cdp_fee_vault + received - kept \in Nat /\ outside' \in Nat
    BY <1>1, <1>4, <2>1, <2>2
  <2>4. cdp_wsol_vault_open' \in BOOLEAN /\ wallet' \in [Users -> Nat]
    BY <1>2, <2>1, <2>2
  <2>5. QED BY <2>2, <2>3, <2>4
<1>6. QED BY <1>1, <1>2, <1>5, SettleInSolStep DEF r

LEMMA RepayDebtRiseSolStep ==
  ASSUME CdpInv, NEW p \in Positions, NEW payment \in Payments,
         RepayDebtRiseSol(p, payment)
  PROVE  PoolKept /\ CdpScalars' /\ Moves(p)
<1> DEFINE r == Repaid(p, payment)
<1>1. /\ payment \in Nat
      /\ position[p].is_open /\ CanSettle(position[p])
      /\ Record(p, r.after, 0) /\ RetireDebt(r.principal)
      /\ BurnRiseSol(OwnerOf(p), r.interest, r.principal)
      /\ UNCHANGED <<cdpConfigVars, collateralVars, rewardVars, cdpVaultVars, worldVars>>
  BY TypeOfCdpConstants DEF RepayDebtRiseSol, RepayDebtRiseSolAccounts
<1>2. /\ r.interest \in Nat /\ r.principal \in Nat
      /\ OnTime(r.after) /\ SameAccount(r.after, position[p])
      /\ r.after.principal + r.principal = position[p].principal
      /\ r.after.principal \in Nat
      /\ CanSettle(r.after)
  BY <1>1, RepaidType
<1> HIDE DEF r
<1>3. PoolKept
  BY <1>1, <1>2, OpenFits, BurnKeepsPool DEF CdpInv
<1>4. PICK new : /\ position' = [position EXCEPT ![p] = new]
                 /\ Fit(new) /\ CanSettle(new) /\ new.principal = r.after.principal
                 /\ new.pending_buyback
                      = IF Owed(r.after) = 0 THEN 0 ELSE position[p].pending_buyback
  BY <1>1, <1>2, RecordKeeps
<1>5. /\ Follows(p, new)
      /\ cdp_rise_sol_minted' \in Nat /\ total_cdp_debt' \in Nat
  BY <1>1, <1>2, <1>4, RetireFollows
<1>6. CdpScalars'
  BY <1>1, <1>5 DEF CdpInv, CdpScalars, cdpConfigVars, collateralVars, rewardVars,
     cdpVaultVars, worldVars
<1>7. Replaces(p, new)
  <2>1. /\ cdp_wsol_buyback_vault \in Nat /\ position[p].pending_buyback \in Nat
        /\ slot' = slot /\ reward_per_token' = reward_per_token
        /\ cdp_wsol_buyback_vault' = cdp_wsol_buyback_vault
    BY <1>1, OpenFits DEF CdpInv, CdpScalars, rewardVars, cdpVaultVars, worldVars
  <2>2. new.pending_buyback \in Nat /\ new.pending_buyback <= position[p].pending_buyback
    BY <1>4, <2>1
  <2>3. QED BY <1>4, <2>1, <2>2 DEF Replaces
<1>8. QED BY <1>3, <1>5, <1>6, <1>7 DEF Moves

\* close_position and a liquidation leave a closed account that owes nothing.
LEMMA CancelledKeeps ==
  ASSUME CdpInv, NEW p \in Positions, CanSettle(position[p])
  PROVE  LET q == WithPrincipal([Settle(position[p]) EXCEPT !.is_open = FALSE,
                                                            !.interest = 0], 0) IN
         /\ Fit(q) /\ CanSettle(q) /\ q.principal = 0
         /\ q.pending_buyback = position[p].pending_buyback
<1> DEFINE s == Settle(position[p])
           rest == [s EXCEPT !.is_open = FALSE, !.interest = 0]
           q == WithPrincipal(rest, 0)
<1>1. OnTime(s) /\ SameAccount(s, position[p])
  BY OpenFits, SettleKeeps
<1> HIDE DEF s
<1>2. /\ rest \in PositionType /\ ~rest.is_open
      /\ rest.pending_buyback = s.pending_buyback
      /\ rest.last_accrual_slot = s.last_accrual_slot
  BY <1>1 DEF OnTime, PositionType
<1>3. OnTime(rest)
  BY <1>1, <1>2 DEF OnTime
<1> HIDE DEF rest
<1>4. /\ OnTime(q) /\ SameAccount(q, rest) /\ q.principal = 0 /\ CanSettle(q)
  BY <1>3, WithPrincipalKeeps
<1> HIDE DEF q
<1>5. Fit(q) /\ q.pending_buyback = position[p].pending_buyback
  BY <1>1, <1>2, <1>4 DEF Fit, SameAccount
<1>6. QED BY <1>4, <1>5 DEF q, rest, s

LEMMA ClosePositionStep ==
  ASSUME CdpInv, NEW p \in Positions, ClosePosition(p)
  PROVE  PoolKept /\ CdpScalars' /\ Moves(p)
<1> DEFINE pos == position[p]
           new == WithPrincipal([Settle(pos) EXCEPT !.is_open = FALSE, !.interest = 0], 0)
<1>1. /\ CanSettle(pos)
      /\ BurnRiseSol(OwnerOf(p), pos.interest, pos.principal)
      /\ RetireDebt(pos.principal)
      /\ ReturnCollateral(pos.collateral)
      /\ position' = [position EXCEPT ![p] = new]
      /\ UNCHANGED <<cdpConfigVars, rewardVars, cdpVaultVars, worldVars>>
  BY DEF ClosePosition
<1>2. /\ Fit(new) /\ CanSettle(new) /\ new.principal = 0
      /\ new.pending_buyback = pos.pending_buyback
  BY <1>1, CancelledKeeps
<1> HIDE DEF new
<1>3. PoolKept
  BY <1>1, OpenFits, BurnKeepsPool DEF CdpInv
<1>4. /\ Follows(p, new)
      /\ cdp_rise_sol_minted' \in Nat /\ total_cdp_debt' \in Nat
  <2>1. new.principal + pos.principal = pos.principal /\ pos.principal \in Nat
    BY <1>2, OpenFits
  <2>2. QED BY <1>1, <1>2, <2>1, RetireFollows
<1>5. CdpScalars'
  BY <1>1, <1>4, OpenFits DEF CdpInv, CdpScalars, ReturnCollateral,
     ReleaseEntitlement, Monus, cdpConfigVars, rewardVars, cdpVaultVars, worldVars
<1>6. Replaces(p, new)
  BY <1>1, <1>2, OpenFits
     DEF Replaces, rewardVars, cdpVaultVars, worldVars, CdpInv, CdpScalars
<1>7. QED BY <1>3, <1>4, <1>5, <1>6 DEF Moves

\* The missing collateral is paid for by what was set aside, or by the treasury.
LEMMA BuybackKeeps ==
  ASSUME CdpInv, NEW p \in Positions, Buyback(position[p]),
         UNCHANGED <<poolVars, ticketVars, configVars, revenueVars, last_collection_epoch,
                     pool_vault, userVars, epoch>>
  PROVE  /\ PoolKept /\ cdp_wsol_buyback_vault' \in Nat
         /\ cdp_wsol_buyback_vault
              <= position[p].pending_buyback + cdp_wsol_buyback_vault'
<1> DEFINE pos == position[p]
<1>1. /\ pos.pending_buyback \in Nat /\ cdp_wsol_buyback_vault \in Nat
      /\ outside \in Nat /\ reserve_vault \in Nat /\ pool_vault \in Nat
      /\ wallet \in [Users -> Nat]
      /\ ShortfallSol(pos) \in Nat
  BY OpenFits, DivertedType DEF CdpInv, CdpScalars, IInv, TypeOK
<1>2. CASE UNCHANGED <<cdp_wsol_buyback_vault, reserveVars, outside>>
  <2>1. UNCHANGED vars
    BY <1>2 DEF vars, treasuryVars
  <2>2. PoolKept
    BY <2>1, PoolUnchanged DEF CdpInv
  <2>3. QED BY <1>1, <1>2, <2>2
<1>3. ASSUME cdp_wsol_buyback_vault >= pos.pending_buyback,
             cdp_wsol_buyback_vault' = cdp_wsol_buyback_vault - pos.pending_buyback,
             outside' = outside + pos.pending_buyback,
             UNCHANGED reserveVars
      PROVE  /\ PoolKept /\ cdp_wsol_buyback_vault' \in Nat
             /\ cdp_wsol_buyback_vault <= pos.pending_buyback + cdp_wsol_buyback_vault'
  <2>1. outside' \in Nat
    BY <1>1, <1>3
  <2>2. /\ pool_vault' \in Nat /\ pool_vault' >= pool_vault
        /\ wallet' \in [Users -> Nat]
        /\ UNCHANGED <<poolVars, ticketVars, treasuryVars, rise_sol, epoch>>
    BY <1>1, <1>3 DEF userVars, treasuryVars
  <2>3. PoolKept
    BY <2>1, <2>2, VaultRises DEF CdpInv
  <2>4. QED BY <1>1, <1>3, <2>3
<1>4. ASSUME ShortfallSol(pos) = 0 \/ reserve_vault >= RENT_MIN + ShortfallSol(pos),
             DebitReserve(ShortfallSol(pos)),
             outside' = outside + ShortfallSol(pos),
             UNCHANGED cdp_wsol_buyback_vault
      PROVE  /\ PoolKept /\ cdp_wsol_buyback_vault' \in Nat
             /\ cdp_wsol_buyback_vault <= pos.pending_buyback + cdp_wsol_buyback_vault'
  <2>1. outside' \in Nat /\ reserve_vault >= ShortfallSol(pos)
    BY <1>1, <1>4, TypeOfConstants
  <2>2. PoolKept
    BY <1>1, <1>4, <2>1, DebitKeepsPool DEF CdpInv
  <2>3. QED BY <1>1, <1>4, <2>2
<1>5. QED BY <1>2, <1>3, <1>4 DEF Buyback

LEMMA NoPositionSettles ==
  ASSUME CdpInv PROVE CanSettle(NoPosition)
<1>1. reward_per_token \in Nat
  BY DEF CdpInv, CdpScalars
<1>2. NoPosition.principal = 0 /\ NoPosition.reward_debt = 0
  BY DEF NoPosition
<1>3. (0 * reward_per_token) \div REWARD_SCALE = 0
  BY <1>1, ScaledZero, TypeOfCdpConstants
<1>4. QED BY <1>2, <1>3 DEF CanSettle, Earned

LEMMA ClaimCollateralStep ==
  ASSUME CdpInv, NEW p \in Positions, ClaimCollateral(p)
  PROVE  PoolKept /\ CdpScalars' /\ Moves(p)
<1>1. /\ ~position[p].is_open
      /\ Buyback(position[p])
      /\ position' = [position EXCEPT ![p] = NoPosition]
      /\ collateral_vault' = Monus(collateral_vault, position[p].collateral)
      /\ ReleaseEntitlement(position[p].collateral)
      /\ UNCHANGED <<poolVars, ticketVars, configVars, revenueVars, last_collection_epoch,
                     pool_vault, userVars, epoch, debtVars, cdpConfigVars, rewardVars,
                     cdp_fee_vault, cdp_wsol_vault_open, worldVars>>
  BY DEF ClaimCollateral, ClaimCollateralAccounts
<1>2. /\ PoolKept /\ cdp_wsol_buyback_vault' \in Nat
      /\ cdp_wsol_buyback_vault
           <= position[p].pending_buyback + cdp_wsol_buyback_vault'
  BY <1>1, BuybackKeeps
<1>3. position[p].principal = 0
  BY <1>1, OpenFits
<1>4. /\ Fit(NoPosition) /\ NoPosition.principal = position[p].principal
      /\ NoPosition.pending_buyback = 0 /\ CanSettle(NoPosition)
  BY <1>3, NoPositionFits, NoPositionSettles DEF CdpInv, CdpScalars
<1>5. /\ Follows(p, NoPosition)
      /\ cdp_rise_sol_minted' \in Nat /\ total_cdp_debt' \in Nat
  BY <1>1, <1>4, SameDebtFollows
<1>6. /\ Monus(collateral_vault, position[p].collateral) \in Nat
      /\ Monus(total_collateral_entitlements, position[p].collateral) \in Nat
  BY OpenFits, LeastType DEF CdpInv, CdpScalars
<1>7. CdpScalars'
  BY <1>1, <1>2, <1>5, <1>6 DEF CdpInv, CdpScalars, ReleaseEntitlement, cdpConfigVars,
     rewardVars, worldVars
<1>8. Replaces(p, NoPosition)
  <2>1. cdp_wsol_buyback_vault \in Nat /\ slot' = slot /\ reward_per_token' = reward_per_token
    BY <1>1 DEF CdpInv, CdpScalars, rewardVars, worldVars
  <2>2. QED BY <1>1, <1>2, <1>4, <2>1 DEF Replaces
<1>9. QED BY <1>2, <1>5, <1>7, <1>8 DEF Moves

LEMMA ClaimBorrowRewardsStep ==
  ASSUME CdpInv, NEW p \in Positions, ClaimBorrowRewards(p)
  PROVE  PoolKept /\ CdpScalars' /\ Moves(p)
<1> DEFINE pos == position[p]
           q == WithPrincipal(pos, pos.principal)
           new == [q EXCEPT !.pending_rewards = 0]
<1>1. /\ position' = [position EXCEPT ![p] = new]
      /\ UNCHANGED <<vars, debtVars, cdpConfigVars, collateralVars, rewardVars,
                     cdpVaultVars, worldVars>>
  BY DEF ClaimBorrowRewards
<1>2. /\ OnTime(q) /\ SameAccount(q, pos) /\ q.principal = pos.principal /\ CanSettle(q)
  BY OpenFits, WithPrincipalKeeps
<1> HIDE DEF q
<1>3. /\ new \in PositionType /\ SameAccount(new, q)
      /\ new.principal = q.principal /\ new.reward_debt = q.reward_debt
      /\ new.last_accrual_slot = q.last_accrual_slot
  BY <1>2, WithRewards DEF OnTime
<1> HIDE DEF new
<1>4. /\ Fit(new) /\ CanSettle(new) /\ new.principal = pos.principal
      /\ new.pending_buyback = pos.pending_buyback
  BY <1>2, <1>3, OpenFits DEF Fit, OnTime, SameAccount, CanSettle, Earned
<1>5. PoolKept
  BY <1>1, PoolUnchanged DEF CdpInv
<1>6. /\ Follows(p, new)
      /\ cdp_rise_sol_minted' \in Nat /\ total_cdp_debt' \in Nat
  BY <1>1, <1>4, SameDebtFollows
<1>7. CdpScalars'
  BY <1>1, <1>6 DEF CdpInv, CdpScalars, cdpConfigVars, collateralVars, rewardVars,
     cdpVaultVars, worldVars
<1>8. Replaces(p, new)
  BY <1>1, <1>4, OpenFits
     DEF Replaces, rewardVars, cdpVaultVars, worldVars, CdpInv, CdpScalars
<1>9. QED BY <1>5, <1>6, <1>7, <1>8 DEF Moves

-----------------------------------------------------------------------------
(* Permissionless instructions *)

LEMMA AccrueInterestStep ==
  ASSUME CdpInv, NEW p \in Positions, AccrueInterest(p)
  PROVE  PoolKept /\ CdpScalars' /\ Moves(p)
<1> DEFINE pos == position[p]
           i == pos.interest + Interest(pos)
           new == [pos EXCEPT !.interest = i, !.last_accrual_slot = slot]
<1>1. /\ position' = [position EXCEPT ![p] = new]
      /\ UNCHANGED <<vars, debtVars, cdpConfigVars, collateralVars, rewardVars,
                     cdpVaultVars, worldVars>>
  BY DEF AccrueInterest, CdpInv, PositionsFit, PositionType
<1>2. i \in Nat /\ slot \in Nat
  BY OpenFits, InterestType DEF CdpInv, CdpScalars
<1> HIDE DEF i
<1>3. /\ new \in PositionType /\ SameAccount(new, pos)
      /\ new.principal = pos.principal /\ new.reward_debt = pos.reward_debt
      /\ new.last_accrual_slot = slot
  BY <1>2, OpenFits DEF PositionType, SameAccount
<1> HIDE DEF new
<1>4. /\ Fit(new) /\ (CanSettle(pos) => CanSettle(new))
      /\ new.pending_buyback = pos.pending_buyback
  BY <1>2, <1>3, OpenFits DEF Fit, OnTime, SameAccount, CanSettle, Earned
<1>5. PoolKept
  BY <1>1, PoolUnchanged DEF CdpInv
<1>6. /\ Follows(p, new)
      /\ cdp_rise_sol_minted' \in Nat /\ total_cdp_debt' \in Nat
  BY <1>1, <1>3, SameDebtFollows
<1>7. CdpScalars'
  BY <1>1, <1>6 DEF CdpInv, CdpScalars, cdpConfigVars, collateralVars, rewardVars,
     cdpVaultVars, worldVars
<1>8. Replaces(p, new)
  BY <1>1, <1>4, OpenFits
     DEF Replaces, rewardVars, cdpVaultVars, worldVars, CdpInv, CdpScalars
<1>9. QED BY <1>5, <1>6, <1>7, <1>8 DEF Moves

\* The three shares of a liquidation add up to its proceeds.
LEMMA SplitType ==
  ASSUME CdpInv, NEW p \in Positions, NEW proceeds \in Nat
  PROVE  LET split == SplitProceeds(position[p], proceeds) IN
         /\ split.fee \in Nat /\ split.interest \in Nat /\ split.principal \in Nat
         /\ split.fee + split.interest + split.principal = proceeds
<1> DEFINE pos == position[p]
           fee == (proceeds * collateral_config.liquidation_penalty_bps) \div BPS
           b == RiseSolToSol(pos.interest)
           target == RiseSolToSol(pos.principal) + b
           i == IF target = 0 THEN 0 ELSE ((proceeds - fee) * b) \div target
<1>1. fee \in Nat /\ fee <= proceeds
  BY ConfigFields, FractionBound, TypeOfConstants DEF CdpInv, CdpScalars
<1>2. b \in Nat /\ target \in Nat /\ b <= target
  BY OpenFits, ConversionTypes DEF CdpInv
<1>3. /\ SplitProceeds(pos, proceeds).fee = fee
      /\ SplitProceeds(pos, proceeds).interest = i
      /\ SplitProceeds(pos, proceeds).principal = proceeds - fee - i
  BY DEF SplitProceeds
<1> HIDE DEF fee, b, target
<1>4. proceeds - fee \in Nat
  BY <1>1
<1>5. i \in Nat /\ i <= proceeds - fee
  <2>1. CASE target = 0
    BY <1>4, <2>1
  <2>2. CASE target # 0
    <3> DEFINE rest == proceeds - fee
    <3>1. rest \in Nat /\ target > 0
      BY <1>2, <1>4, <2>2
    <3> HIDE DEF rest
    <3>2. /\ (rest * b) \div target \in Nat /\ (rest * b) \div target <= rest
      BY <1>2, <3>1, FractionBound
    <3>3. i = (rest * b) \div target
      BY <2>2 DEF rest
    <3> HIDE DEF i
    <3>4. QED BY <3>2, <3>3 DEF rest
  <2>3. QED BY <2>1, <2>2
<1> HIDE DEF i
<1>6. QED BY <1>1, <1>3, <1>5

LEMMA LiquidateStep ==
  ASSUME CdpInv, NEW p \in Positions, NEW proceeds \in SwapOutputs, Liquidate(p, proceeds)
  PROVE  PoolKept /\ CdpScalars' /\ Moves(p)
<1> DEFINE pos == position[p]
           new == WithPrincipal([Settle(pos) EXCEPT !.is_open = FALSE, !.interest = 0], 0)
           split == SplitProceeds(pos, proceeds)
           back == ExcessCollateral(pos)
           swapped == Monus(pos.collateral, back)
<1>1. /\ PythPrice
      /\ collateral_vault >= back + swapped
      /\ collateral_vault' = collateral_vault - back - swapped
      /\ RouteProceeds(swapped, proceeds, split)
      /\ CanSettle(pos)
      /\ position' = [position EXCEPT ![p] = new]
      /\ RetireDebt(pos.principal)
      /\ ReleaseEntitlement(pos.collateral)
      /\ UNCHANGED <<poolVars, ticketVars, treasuryVars, userVars, epoch, cdpConfigVars,
                     rewardVars, cdp_wsol_buyback_vault, worldVars>>
  BY DEF Liquidate, CancelDebt
<1>2. /\ Fit(new) /\ CanSettle(new) /\ new.principal = 0
      /\ new.pending_buyback = pos.pending_buyback
  BY <1>1, CancelledKeeps
<1> HIDE DEF new
<1>3. /\ proceeds \in Nat
      /\ split.fee \in Nat /\ split.interest \in Nat /\ split.principal \in Nat
  BY SplitType, TypeOfCdpConstants
<1>4. back \in Nat /\ swapped \in Nat
  <2>1. pos.collateral \in Nat /\ pos.principal + pos.interest \in Nat
    BY OpenFits
  <2>2. CollateralUsd(pos.collateral) \in Nat /\ SolUsd(Owed(pos)) \in Nat
    BY <2>1, UsdType DEF CdpInv, Owed
  <2>3. Monus(CollateralUsd(pos.collateral), SolUsd(Owed(pos))) \in Nat
    BY <2>2, LeastType
  <2>4. back \in Nat
    BY <1>1, <2>3, UsdToCollateralType DEF ExcessCollateral, CdpInv
  <2>5. QED BY <2>1, <2>4, LeastType
<1> HIDE DEF split, back, swapped
<1>5. /\ pool_vault' = pool_vault + split.principal
      /\ outside >= proceeds /\ outside' = outside - proceeds + split.fee
      /\ cdp_fee_vault' = cdp_fee_vault + split.interest
      /\ cdp_wsol_vault_open' \in BOOLEAN
  BY <1>1 DEF RouteProceeds
<1>6. PoolKept
  <2>1. /\ pool_vault' \in Nat /\ pool_vault' >= pool_vault /\ outside' \in Nat
    BY <1>3, <1>5 DEF CdpInv, IInv, TypeOK
  <2>2. wallet' \in [Users -> Nat] /\ rise_sol' = rise_sol
    BY <1>1 DEF userVars, CdpInv, IInv, TypeOK
  <2>3. QED BY <1>1, <2>1, <2>2, VaultRises DEF CdpInv
<1>7. /\ Follows(p, new)
      /\ cdp_rise_sol_minted' \in Nat /\ total_cdp_debt' \in Nat
  <2>1. new.principal + pos.principal = pos.principal /\ pos.principal \in Nat
    BY <1>2, OpenFits
  <2>2. QED BY <1>1, <1>2, <2>1, RetireFollows
<1>8. CdpScalars'
  <2>1. /\ cdp_fee_vault' \in Nat /\ collateral_vault' \in Nat
        /\ total_collateral_entitlements' \in Nat
    BY <1>1, <1>3, <1>4, <1>5, OpenFits DEF CdpInv, CdpScalars, ReleaseEntitlement, Monus
  <2>2. QED BY <1>1, <1>5, <1>7, <2>1 DEF CdpInv, CdpScalars, cdpConfigVars, rewardVars,
        worldVars
<1>9. Replaces(p, new)
  BY <1>1, <1>2, OpenFits
     DEF Replaces, rewardVars, worldVars, CdpInv, CdpScalars
<1>10. QED BY <1>6, <1>7, <1>8, <1>9 DEF Moves

\* One account is blank, but perhaps for its rewards, and all others keep what they
\* hold and owe.
Lapses(p) ==
  /\ SameAccount(position'[p], NoPosition)
  /\ position'[p].principal = 0
  /\ \A r \in Positions \ {p} :
       /\ SameAccount(position'[r], position[r])
       /\ position'[r].principal = position[r].principal

LEMMA LapsedFields ==
  ASSUME NEW pos \in PositionType
  PROVE  /\ WithoutAccount(pos) \in PositionType
         /\ SameAccount(WithoutAccount(pos), NoPosition)
         /\ WithoutAccount(pos).principal = 0
         /\ WithoutAccount(pos).last_accrual_slot = 0
         /\ WithoutRewards(pos) \in PositionType
         /\ SameAccount(WithoutRewards(pos), pos)
         /\ WithoutRewards(pos).principal = pos.principal
         /\ WithoutRewards(pos).last_accrual_slot = pos.last_accrual_slot
<1>1. /\ WithoutAccount(pos) \in PositionType
      /\ SameAccount(WithoutAccount(pos), NoPosition)
      /\ WithoutAccount(pos).principal = 0
      /\ WithoutAccount(pos).last_accrual_slot = 0
  BY DEF PositionType, WithoutAccount, NoPosition, SameAccount
<1>2. /\ WithoutRewards(pos) \in PositionType
      /\ SameAccount(WithoutRewards(pos), pos)
      /\ WithoutRewards(pos).principal = pos.principal
      /\ WithoutRewards(pos).last_accrual_slot = pos.last_accrual_slot
  BY DEF PositionType, WithoutRewards, SameAccount
<1>3. QED BY <1>1, <1>2

LEMMA CloseStalePositionStep ==
  ASSUME CdpInv, NEW p \in Positions, NEW q \in Positions, CloseStalePosition(p, q)
  PROVE  /\ PoolKept /\ CdpScalars' /\ PositionsFit' /\ Lapses(p)
         /\ UNCHANGED <<cdp_wsol_buyback_vault, collateral_vault>>
<1> DEFINE rest(r) == IF r = p THEN WithoutAccount(position[r]) ELSE position[r]
           new(r) == IF r = q THEN WithoutRewards(rest(r)) ELSE rest(r)
<1>1. /\ position' = [r \in Positions |-> new(r)]
      /\ UNCHANGED <<vars, debtVars, cdpConfigVars, collateralVars, rewardVars,
                     cdpVaultVars, worldVars>>
  BY DEF CloseStalePosition
<1>2. PoolKept
  BY <1>1, PoolUnchanged DEF CdpInv
<1>3. CdpScalars'
  BY <1>1 DEF CdpInv, CdpScalars, debtVars, cdpConfigVars, collateralVars, rewardVars,
     cdpVaultVars, worldVars
<1>4. slot' = slot /\ slot \in Nat
  BY <1>1 DEF worldVars, CdpInv, CdpScalars
<1>5. ASSUME NEW r \in Positions
      PROVE  /\ rest(r) \in PositionType
             /\ SameAccount(rest(r), IF r = p THEN NoPosition ELSE position[r])
             /\ rest(r).principal = (IF r = p THEN 0 ELSE position[r].principal)
             /\ rest(r).last_accrual_slot
                  = (IF r = p THEN 0 ELSE position[r].last_accrual_slot)
  <2>1. CASE r = p
    BY <2>1, OpenFits, LapsedFields
  <2>2. CASE r # p
    BY <2>2, OpenFits DEF SameAccount
  <2>3. QED BY <2>1, <2>2
<1>6. ASSUME NEW r \in Positions
      PROVE  /\ position'[r] \in PositionType
             /\ SameAccount(position'[r], IF r = p THEN NoPosition ELSE position[r])
             /\ position'[r].principal = (IF r = p THEN 0 ELSE position[r].principal)
             /\ position'[r].last_accrual_slot
                  = (IF r = p THEN 0 ELSE position[r].last_accrual_slot)
  <2>1. position'[r] = new(r)
    BY <1>1
  <2> HIDE DEF rest
  <2>2. CASE r = q
    BY <1>5, <2>1, <2>2, LapsedFields DEF SameAccount
  <2>3. CASE r # q
    BY <1>5, <2>1, <2>3
  <2>4. QED BY <2>2, <2>3
<1>7. PositionsFit'
  <2>1. ASSUME NEW r \in Positions
        PROVE  Fit(position[r])'
    <3>1. CASE r = p
      <4>1. /\ position'[r] \in PositionType /\ ~position'[r].is_open
            /\ position'[r].principal = 0 /\ position'[r].last_accrual_slot = 0
        BY <1>6, <3>1 DEF SameAccount, NoPosition
      <4>2. QED BY <1>4, <4>1 DEF Fit, OnTime
    <3>2. CASE r # p
      <4>1. /\ position'[r] \in PositionType
            /\ position'[r].is_open = position[r].is_open
            /\ position'[r].exists = position[r].exists
            /\ position'[r].principal = position[r].principal
            /\ position'[r].last_accrual_slot = position[r].last_accrual_slot
        BY <1>6, <3>2 DEF SameAccount
      <4>2. Fit(position[r])
        BY DEF CdpInv, PositionsFit
      <4>3. QED BY <1>4, <4>1, <4>2 DEF Fit, OnTime
    <3>3. QED BY <3>1, <3>2
  <2>2. position' \in [Positions -> PositionType]
    <3> HIDE DEF new
    <3>1. \A r \in Positions : position'[r] \in PositionType
      BY <1>6
    <3>2. QED BY <1>1, <3>1
  <2>3. QED BY <2>1, <2>2 DEF PositionsFit
<1>8. Lapses(p)
  BY <1>6 DEF Lapses
<1>9. QED BY <1>1, <1>2, <1>3, <1>7, <1>8 DEF cdpVaultVars, collateralVars

LEMMA RedeemCollateralStep ==
  ASSUME CdpInv, NEW requested \in Deposits, NEW proceeds \in SwapOutputs,
         RedeemCollateralForLiquidity(requested, proceeds)
  PROVE  PoolKept /\ CdpScalars' /\ Rests
<1> DEFINE amount == Least(requested, RedeemableCollateral)
<1>1. /\ liquid_buffer_lamports < pending_withdrawals_lamports
      /\ PythPrice /\ collateral_vault >= amount /\ outside >= proceeds
      /\ collateral_vault' = collateral_vault - amount
      /\ cdp_wsol_vault_open' = FALSE
      /\ outside' = outside - proceeds
      /\ pool_vault' = pool_vault + proceeds
      /\ liquid_buffer_lamports' = liquid_buffer_lamports + proceeds
      /\ UNCHANGED <<stakeVars, last_rate_update_epoch, pending_withdrawals_lamports,
                     ticketVars, treasuryVars, userVars, epoch, position, debtVars,
                     cdpConfigVars, total_collateral_entitlements, rewardVars,
                     cdp_fee_vault, cdp_wsol_buyback_vault, worldVars>>
  BY DEF RedeemCollateralForLiquidity
<1>2. requested \in Nat /\ proceeds \in Nat
  BY TypeOfCdpConstants
<1>3. amount \in Nat
  <2>1. pending_withdrawals_lamports - liquid_buffer_lamports \in Nat
    BY <1>1 DEF CdpInv, IInv, TypeOK
  <2>2. RedeemableCollateral \in Nat
    BY <1>1, <2>1, UsdType, UsdToCollateralType DEF RedeemableCollateral, CdpInv
  <2>3. QED BY <1>2, <2>2, LeastType
<1> HIDE DEF amount
<1>4. PoolKept
  <2>1. outside' \in Nat
    BY <1>1, <1>2 DEF CdpInv, IInv, TypeOK
  <2>2. QED BY <1>1, <1>2, <2>1, LiquidityKeepsPool DEF CdpInv
<1>5. CdpScalars'
  <2>1. collateral_vault' \in Nat
    BY <1>1, <1>3 DEF CdpInv, CdpScalars
  <2>2. cdp_wsol_vault_open' \in BOOLEAN
    BY <1>1
  <2>3. QED BY <1>1, <2>1, <2>2 DEF CdpInv, CdpScalars, debtVars, cdpConfigVars,
        rewardVars, worldVars
<1>6. Rests
  BY <1>1 DEF Rests, CdpInv, CdpScalars, rewardVars, worldVars
<1>7. QED BY <1>4, <1>5, <1>6

LEMMA CollectCdpFeesStep ==
  ASSUME CdpInv, NEW total_verise \in VeriseSupplies, CollectCdpFees(total_verise)
  PROVE  PoolKept /\ CdpScalars' /\ Rests
<1> DEFINE share == SplitFees(cdp_fee_vault)
<1>1. /\ CreditStakers(share.staking)
      /\ pool_vault' = pool_vault + share.staking
      /\ reserve_vault' = reserve_vault + share.reserve
      /\ reserve_lamports' = reserve_lamports + share.reserve
      /\ verise_vault' = verise_vault + share.verise
      /\ BookVerise(share.verise, total_verise)
      /\ cdp_fee_vault' = 0
      /\ UNCHANGED <<last_rate_update_epoch, pending_withdrawals_lamports, ticketVars,
                     configVars, last_collection_epoch, userVars, outside, epoch,
                     position, debtVars, cdpConfigVars, collateralVars, rewardVars,
                     cdp_wsol_buyback_vault, cdp_wsol_vault_open, worldVars>>
  BY DEF CollectCdpFees
<1>2. share.staking \in Nat /\ share.verise \in Nat /\ share.reserve \in Nat
  <2>1. cdp_fee_vault \in Nat
    BY DEF CdpInv, CdpScalars
  <2> DEFINE s == (cdp_fee_vault * 9) \div 10
             v == (cdp_fee_vault - s) \div 2
  <2>2. s \in Nat /\ s <= cdp_fee_vault /\ v \in Nat /\ v <= cdp_fee_vault - s
    BY <2>1
  <2>3. share.staking = s /\ share.verise = v /\ share.reserve = cdp_fee_vault - s - v
    BY DEF SplitFees
  <2> HIDE DEF s, v, share
  <2>4. QED BY <2>1, <2>2, <2>3
<1> HIDE DEF share
<1>3. PoolKept
  <2>1. total_verise \in Nat
    BY InputAssumption
  <2>2. QED BY <1>1, <1>2, <2>1, FeesKeepPool DEF CdpInv
<1>4. CdpScalars'
  BY <1>1 DEF CdpInv, CdpScalars, debtVars, cdpConfigVars, collateralVars, rewardVars,
     worldVars
<1>5. Rests
  BY <1>1 DEF Rests, CdpInv, CdpScalars, rewardVars, worldVars
<1>6. QED BY <1>3, <1>4, <1>5

\* The index only grows: a checkpoint adds what was emitted since the last one.
LEMMA CheckpointBorrowRewardsStep ==
  ASSUME CdpInv, CheckpointBorrowRewards
  PROVE  PoolKept /\ CdpScalars' /\ Rests
<1> DEFINE gone == slot - last_checkpoint_slot
           emissions == (EPOCH_EMISSIONS * gone) \div SLOTS_PER_EPOCH
           rise == (emissions * REWARD_SCALE) \div total_cdp_debt
<1>1. /\ slot > last_checkpoint_slot
      /\ reward_per_token' = IF total_cdp_debt = 0 THEN reward_per_token
                             ELSE reward_per_token + rise
      /\ last_checkpoint_slot' = slot
      /\ UNCHANGED <<vars, position, debtVars, cdpConfigVars, collateralVars,
                     borrow_rewards_open, cdpVaultVars, worldVars>>
  BY DEF CheckpointBorrowRewards
<1>2. /\ reward_per_token \in Nat /\ total_cdp_debt \in Nat /\ slot \in Nat
      /\ gone \in Nat
  BY <1>1 DEF CdpInv, CdpScalars
<1> HIDE DEF gone
<1>3. emissions \in Nat
  BY <1>2, ScaledType, TypeOfCdpConstants
<1> HIDE DEF emissions
<1>4. total_cdp_debt # 0 => rise \in Nat
  BY <1>2, <1>3, ScaledType, TypeOfCdpConstants
<1> HIDE DEF rise
<1>5. reward_per_token' \in Nat /\ reward_per_token' >= reward_per_token
  BY <1>1, <1>2, <1>4
<1>6. PoolKept
  BY <1>1, PoolUnchanged DEF CdpInv
<1>7. CdpScalars'
  BY <1>1, <1>2, <1>5 DEF CdpInv, CdpScalars, debtVars, cdpConfigVars, collateralVars,
     cdpVaultVars, worldVars
<1>8. Rests
  BY <1>1, <1>2, <1>5 DEF Rests, cdpVaultVars, worldVars
<1>9. QED BY <1>6, <1>7, <1>8

-----------------------------------------------------------------------------
(* The authority, the world outside and the pool's own instructions *)

LEMMA CdpAuthorityStep ==
  ASSUME CdpInv, CdpAuthority \/ World
  PROVE  PoolKept /\ CdpScalars' /\ Rests
<1>1. UNCHANGED vars /\ UNCHANGED <<position, debtVars, cdp_wsol_buyback_vault,
                                    reward_per_token>>
  BY DEF CdpAuthority, World, UpdateDebtCeiling, UpdateCollateralConfig,
     UpdatePaymentConfig, MovePrice, NextSlot, rewardVars, cdpVaultVars
<1>2. PoolKept
  BY <1>1, PoolUnchanged DEF CdpInv
<1>3. CdpScalars' /\ slot' >= slot
  <2>1. slot \in Nat
    BY DEF CdpInv, CdpScalars
  <2>2. ASSUME NEW multiplier \in Multipliers, UpdateDebtCeiling(multiplier)
        PROVE  CdpScalars' /\ slot' >= slot
    BY <2>1, <2>2 DEF UpdateDebtCeiling, CdpInv, CdpScalars, debtVars, collateralVars,
       rewardVars, cdpVaultVars, worldVars
  <2>3. ASSUME NEW config \in CollateralConfigs, UpdateCollateralConfig(config)
        PROVE  CdpScalars' /\ slot' >= slot
    BY <2>1, <2>3 DEF UpdateCollateralConfig, CdpInv, CdpScalars, debtVars,
       collateralVars,
       rewardVars, cdpVaultVars, worldVars
  <2>4. ASSUME NEW active \in PaymentStates, UpdatePaymentConfig(active)
        PROVE  CdpScalars' /\ slot' >= slot
    <3>1. active \in BOOLEAN
      BY CdpAssumption
    <3>2. QED BY <2>1, <2>4, <3>1 DEF UpdatePaymentConfig, CdpInv, CdpScalars, debtVars,
          collateralVars, rewardVars, cdpVaultVars, worldVars
  <2>5. ASSUME NEW new \in Prices, MovePrice(new)
        PROVE  CdpScalars' /\ slot' >= slot
    BY <2>1, <2>5 DEF MovePrice, CdpInv, CdpScalars, debtVars, cdpConfigVars,
       collateralVars, rewardVars, cdpVaultVars
  <2>6. CASE NextSlot
    BY <2>1, <2>6 DEF NextSlot, CdpInv, CdpScalars, debtVars, cdpConfigVars,
       collateralVars, rewardVars, cdpVaultVars
  <2>7. QED BY <2>2, <2>3, <2>4, <2>5, <2>6 DEF CdpAuthority, World
<1>4. Rests
  BY <1>1, <1>3 DEF Rests, CdpInv, CdpScalars
<1>5. QED BY <1>2, <1>3, <1>4

LEMMA PoolStepStep ==
  ASSUME CdpInv, PoolStep
  PROVE  PoolKept /\ CdpScalars' /\ Rests
<1>1. PoolKept
  <2>1. Next
    BY DEF PoolStep, Next, Cdp
  <2>2. QED BY <2>1, NextKeepsIInv, NextKeepsRate, NextMaps DEF CdpInv, PoolKept
<1>2. UNCHANGED cdpVars
  BY DEF PoolStep
<1>3. CdpScalars' /\ Rests
  BY <1>2 DEF cdpVars, Rests, CdpInv, CdpScalars, debtVars, cdpConfigVars,
     collateralVars, rewardVars, cdpVaultVars, worldVars
<1>4. QED BY <1>1, <1>3

\* A step of the two programs, the authority's maintenance left out.
LEMMA CdpNextStep ==
  ASSUME CdpInv, [CdpNext]_allVars
  PROVE  /\ PoolKept /\ CdpScalars'
         /\ Rests \/ \E p \in Positions : Moves(p)
<1>1. ASSUME NEW p \in Positions, Borrows(p)
      PROVE  PoolKept /\ CdpScalars' /\ Moves(p)
  BY <1>1, OpenPositionStep, AddCollateralStep, BorrowMoreStep, WithdrawExcessStep
     DEF Borrows
<1>2. ASSUME NEW p \in Positions, Settles(p)
      PROVE  PoolKept /\ CdpScalars' /\ Moves(p)
  BY <1>2, RepayDebtStep, RepayDebtSplStep, RepayDebtRiseSolStep, ClosePositionStep,
     ClaimCollateralStep, ClaimBorrowRewardsStep DEF Settles
<1>3. CASE Anybody
  <2>1. ASSUME NEW p \in Positions,
               AccrueInterest(p) \/ \E proceeds \in SwapOutputs : Liquidate(p, proceeds)
        PROVE  PoolKept /\ CdpScalars' /\ Moves(p)
    BY <2>1, AccrueInterestStep, LiquidateStep
  <2>2. QED BY <1>3, <2>1, RedeemCollateralStep, CollectCdpFeesStep,
        CheckpointBorrowRewardsStep DEF Anybody
<1>4. CASE UNCHANGED allVars
  <2>1. UNCHANGED vars /\ UNCHANGED cdpVars
    BY <1>4 DEF allVars
  <2>2. PoolKept
    BY <2>1, PoolUnchanged DEF CdpInv
  <2>3. CdpScalars' /\ Rests
    BY <2>1 DEF cdpVars, Rests, CdpInv, CdpScalars, debtVars, cdpConfigVars,
       collateralVars, rewardVars, cdpVaultVars, worldVars
  <2>4. QED BY <2>2, <2>3
<1>5. QED BY <1>1, <1>2, <1>3, <1>4, CdpAuthorityStep, PoolStepStep DEF CdpNext

\* The replacement of the borrow-reward configuration touches no position.
LEMMA MaintenanceStep ==
  ASSUME CdpInv, CloseBorrowRewards \/ InitializeBorrowRewards
  PROVE  /\ PoolKept /\ CdpScalars'
         /\ UNCHANGED <<position, cdp_wsol_buyback_vault, slot>>
<1>1. UNCHANGED vars /\ UNCHANGED <<position, cdp_wsol_buyback_vault, slot>>
  BY DEF CloseBorrowRewards, InitializeBorrowRewards, cdpVaultVars, worldVars
<1>2. PoolKept
  BY <1>1, PoolUnchanged DEF CdpInv
<1>3. CASE CloseBorrowRewards
  <2>1. CdpScalars'
    BY <1>3 DEF CloseBorrowRewards, CdpInv, CdpScalars, debtVars, cdpConfigVars,
       collateralVars, cdpVaultVars, worldVars
  <2>2. QED BY <1>1, <1>2, <2>1
<1>4. CASE InitializeBorrowRewards
  <2>1. CdpScalars'
    BY <1>4 DEF InitializeBorrowRewards, CdpInv, CdpScalars, cdpConfigVars,
       collateralVars, cdpVaultVars, worldVars
  <2>2. QED BY <1>1, <1>2, <2>1
<1>5. QED BY <1>3, <1>4

-----------------------------------------------------------------------------
(* The types *)

LEMMA CdpInitEstablishes == CdpInit => CdpInv
<1> SUFFICES ASSUME CdpInit PROVE CdpInv
  OBVIOUS
<1>1. IInv
  BY InitEstablishes DEF CdpInit
<1>2. CdpScalars
  BY DEF CdpInit, CollateralConfigInit, CdpConfigInit, WsolVaultsInit, BorrowRewardsInit,
     CdpScalars
<1>3. slot \in Nat /\ position = [p \in Positions |-> NoPosition]
  BY DEF CdpInit
<1>4. Fit(NoPosition) /\ NoPosition \in PositionType
  BY <1>3, NoPositionFits
<1>5. PositionsFit
  BY <1>3, <1>4 DEF PositionsFit
<1>6. QED BY <1>1, <1>2, <1>5 DEF CdpInv

LEMMA CdpNextKeeps == CdpInv /\ [CdpNext]_allVars => CdpInv'
<1> SUFFICES ASSUME CdpInv, [CdpNext]_allVars PROVE CdpInv'
  OBVIOUS
<1>1. PoolKept /\ CdpScalars' /\ (Rests \/ \E p \in Positions : Moves(p))
  BY CdpNextStep
<1>2. PositionsFit'
  BY <1>1, RestFits, ReplaceFits DEF Moves
<1>3. QED BY <1>1, <1>2 DEF CdpInv, PoolKept

LEMMA MaintenanceKeeps == CdpInv /\ Maintenance => CdpInv'
<1> SUFFICES ASSUME CdpInv, Maintenance PROVE CdpInv'
  OBVIOUS
<1>1. CASE CloseBorrowRewards \/ InitializeBorrowRewards
  <2>1. PoolKept /\ CdpScalars' /\ position' = position /\ slot' = slot
    BY <1>1, MaintenanceStep
  <2>2. PositionsFit'
    BY <2>1 DEF CdpInv, PositionsFit, Fit, OnTime
  <2>3. QED BY <2>1, <2>2 DEF CdpInv, PoolKept
<1>2. ASSUME NEW p \in Positions, NEW q \in Positions, CloseStalePosition(p, q)
      PROVE  CdpInv'
  BY <1>2, CloseStalePositionStep DEF CdpInv, PoolKept
<1>3. QED BY <1>1, <1>2 DEF Maintenance

\* The invariant also survives the authority's maintenance.
LEMMA CdpInductive == ResetSpec => []CdpInv
<1>1. CdpInv /\ [CdpNext \/ Maintenance]_allVars => CdpInv'
  BY CdpNextKeeps, MaintenanceKeeps
<1>2. QED BY <1>1, CdpInitEstablishes, PTL DEF ResetSpec

LEMMA CdpSpecInductive == CdpSpec => []CdpInv
  BY CdpNextKeeps, CdpInitEstablishes, PTL DEF CdpSpec

\* No account of rise-cdp, and none of the pool under it, ever leaves its range:
\* no field of a position, counter or vault goes negative, whatever is borrowed,
\* repaid, liquidated, redeemed or replaced.
THEOREM CdpTypeCorrect == ResetSpec => []CdpTypeOK
<1>1. CdpInv => CdpTypeOK
  <2> SUFFICES ASSUME CdpInv PROVE CdpTypeOK
    OBVIOUS
  <2>1. TypeOK
    BY DEF CdpInv, IInv
  <2>2. /\ position \in [Positions -> PositionType]
        /\ \A p \in Positions : position[p].is_open => position[p].exists
    BY DEF CdpInv, PositionsFit, Fit
  <2>3. QED BY <2>1, <2>2 DEF CdpInv, CdpScalars, CdpTypeOK
<1>2. QED BY <1>1, CdpInductive, PTL

\* The lending program does not break the pool it mints from: the vault covers
\* the buffer and the tickets, the buffer the stake, the reserve its counter, and
\* the staking supply is backed, with loans, repayments in three currencies,
\* liquidations, redemptions and fee collections between any two steps of the
\* stakers and the cranks.
THEOREM PoolSafeUnderLoans ==
  ResetSpec => [](VaultCovers /\ BufferCoversStake /\ Backed /\ ReserveBacked)
<1>1. CdpInv => VaultCovers /\ BufferCoversStake /\ Backed /\ ReserveBacked
  BY DEF CdpInv, IInv
<1>2. QED BY <1>1, CdpInductive, PTL

LEMMA CdpKeepsPool == CdpInv /\ [CdpNext \/ Maintenance]_allVars => PoolKept
  BY CdpNextStep, MaintenanceStep, CloseStalePositionStep DEF Maintenance

\* No loan, repayment, burn, liquidation or fee collection of rise-cdp lowers the
\* exchange rate either.
THEOREM RateMonotoneUnderLoans == ResetSpec => RateNeverFalls
<1>1. CdpInv /\ [CdpNext \/ Maintenance]_allVars => [exchange_rate' >= exchange_rate]_vars
  BY CdpKeepsPool DEF PoolKept
<1>2. QED BY <1>1, CdpInductive, PTL DEF ResetSpec, RateNeverFalls

\* The pool with the lending program on top still is the abstract custody vault:
\* its debt to stakers and ticket holders leaves only by being paid out, whatever
\* rise-cdp does to pool_vault and to the liquid buffer.
THEOREM LoansImplementCustody == ResetSpec => ImplementsCustody
<1>1. CdpInv /\ [CdpNext \/ Maintenance]_allVars => [Custody!Next]_Custody!vars
  BY CdpKeepsPool DEF PoolKept
<1>2. CdpInit => Custody!Init
  BY InitMaps DEF CdpInit
<1>3. QED BY <1>1, <1>2, CdpInductive, PTL DEF ResetSpec, ImplementsCustody, Custody!Spec

-----------------------------------------------------------------------------
(* The buyback vault *)

\* What the positions wait for: one value each.
LEMMA BuybacksSum ==
  ASSUME CdpInv, CdpScalars', NEW p \in Positions, NEW new, Replaces(p, new),
         BuybackFunded
  PROVE  BuybackFunded'
<1> DEFINE f == [q \in Positions |-> position[q].pending_buyback]
           g == [q \in Positions |-> position'[q].pending_buyback]
<1>1. /\ position' = [position EXCEPT ![p] = new]
      /\ new.pending_buyback + cdp_wsol_buyback_vault
           <= position[p].pending_buyback + cdp_wsol_buyback_vault'
      /\ Fit(new)
  BY DEF Replaces
<1>2. PositionsFit'
  BY ReplaceFits
<1>3. f \in [Positions -> Nat] /\ g \in [Positions -> Nat]
  BY <1>2, PositionFields DEF CdpInv, PositionsFit
<1>4. /\ \A q \in Positions \ {p} : g[q] = f[q]
      /\ f[p] = position[p].pending_buyback /\ g[p] = new.pending_buyback
  BY <1>1 DEF CdpInv, PositionsFit
<1>5. /\ (SumFunctionOnSet([q \in Positions |-> position[q].pending_buyback], Positions))
           = SumFunctionOnSet(f, Positions)
      /\ (SumFunctionOnSet([q \in Positions |-> position[q].pending_buyback], Positions))'
           = SumFunctionOnSet(g, Positions)
  OBVIOUS
<1> HIDE DEF f, g
<1>6. /\ SumFunctionOnSet(f, Positions) \in Nat
      /\ f[p] <= SumFunctionOnSet(f, Positions)
      /\ SumFunctionOnSet(g, Positions) = SumFunctionOnSet(f, Positions) - f[p] + g[p]
  BY <1>3, <1>4, TypeOfCdpConstants, SumChange
<1>7. g[p] \in Nat /\ f[p] \in Nat
  BY <1>3
<1>8. cdp_wsol_buyback_vault \in Nat /\ cdp_wsol_buyback_vault' \in Nat
  BY DEF CdpInv, CdpScalars
<1>9. ASSUME NEW a \in Nat, NEW b \in Nat, NEW v \in Nat, NEW w \in Nat,
             NEW s \in Nat, NEW t, a + v <= b + w, b <= s, t = s - b + a, s <= v
      PROVE  t <= w
  BY <1>9
<1>10. QED BY <1>1, <1>4, <1>5, <1>6, <1>7, <1>8, <1>9 DEF BuybackFunded

\* Closed as stale, a position no longer waits for anything.
LEMMA BuybacksLapse ==
  ASSUME CdpInv, PositionsFit', NEW p \in Positions, Lapses(p),
         UNCHANGED cdp_wsol_buyback_vault, BuybackFunded
  PROVE  BuybackFunded'
<1> DEFINE f == [q \in Positions |-> position[q].pending_buyback]
           g == [q \in Positions |-> position'[q].pending_buyback]
<1>1. ASSUME NEW q \in Positions
      PROVE  f[q] \in Nat /\ g[q] \in Nat /\ g[q] <= f[q]
  <2>1. position[q].pending_buyback \in Nat /\ position'[q].pending_buyback \in Nat
    BY PositionFields DEF CdpInv, PositionsFit
  <2>2. position'[q].pending_buyback \in {0, position[q].pending_buyback}
    BY DEF Lapses, SameAccount, NoPosition
  <2>3. QED BY <2>1, <2>2
<1>2. /\ (SumFunctionOnSet([q \in Positions |-> position[q].pending_buyback], Positions))
           = SumFunctionOnSet(f, Positions)
      /\ (SumFunctionOnSet([q \in Positions |-> position[q].pending_buyback], Positions))'
           = SumFunctionOnSet(g, Positions)
  OBVIOUS
<1> HIDE DEF f, g
<1>3. \A q \in Positions : f[q] \in Int /\ g[q] \in Int /\ g[q] <= f[q]
  BY <1>1
<1>4. SumFunctionOnSet(g, Positions) <= SumFunctionOnSet(f, Positions)
  BY <1>3, TypeOfCdpConstants, SumMono
<1>5. SumFunctionOnSet(g, Positions) \in Int /\ SumFunctionOnSet(f, Positions) \in Int
  BY <1>3, TypeOfCdpConstants, SumInt
<1>6. cdp_wsol_buyback_vault \in Nat
  BY DEF CdpInv, CdpScalars
<1>7. QED BY <1>2, <1>4, <1>5, <1>6 DEF BuybackFunded

LEMMA BuybackNext ==
  CdpInv /\ BuybackFunded /\ [CdpNext \/ Maintenance]_allVars => BuybackFunded'
<1> SUFFICES ASSUME CdpInv, BuybackFunded, [CdpNext \/ Maintenance]_allVars
             PROVE  BuybackFunded'
  OBVIOUS
<1>1. CASE UNCHANGED <<position, cdp_wsol_buyback_vault>>
  BY <1>1 DEF BuybackFunded
<1>2. CASE [CdpNext]_allVars
  <2>1. CdpScalars' /\ (Rests \/ \E p \in Positions : Moves(p))
    BY <1>2, CdpNextStep
  <2>2. QED BY <1>1, <2>1, BuybacksSum DEF Rests, Moves
<1>3. CASE Maintenance
  <2>1. CASE CloseBorrowRewards \/ InitializeBorrowRewards
    BY <1>1, <2>1, MaintenanceStep
  <2>2. ASSUME NEW p \in Positions, NEW q \in Positions, CloseStalePosition(p, q)
        PROVE  BuybackFunded'
    BY <2>2, CloseStalePositionStep, BuybacksLapse
  <2>3. QED BY <1>3, <2>1, <2>2 DEF Maintenance
<1>4. QED BY <1>2, <1>3

\* What was set aside for every repaid position is in the buyback vault until its
\* claim, so one borrower's claim of missing collateral never spends another's,
\* with any number of positions and through every replacement by the authority.
THEOREM BuybackAlwaysFunded == ResetSpec => []BuybackFunded
<1>1. CdpInit => BuybackFunded
  <2> SUFFICES ASSUME CdpInit PROVE BuybackFunded
    OBVIOUS
  <2> DEFINE f == [q \in Positions |-> position[q].pending_buyback]
  <2>1. /\ \A q \in Positions : f[q] = 0
        /\ cdp_wsol_buyback_vault = 0
    BY DEF CdpInit, WsolVaultsInit, NoPosition
  <2>2. SumFunctionOnSet(f, Positions) = 0
    <3> HIDE DEF f
    <3>1. QED BY <2>1, TypeOfCdpConstants, SumZero
  <2>3. QED BY <2>1, <2>2 DEF BuybackFunded
<1>2. QED BY <1>1, BuybackNext, CdpInductive, PTL DEF ResetSpec

-----------------------------------------------------------------------------
(* The two debt counters *)

\* A counter that totals the principals follows the one that moves, and has not
\* saturated: what is retired was part of the total.
LEMMA PrincipalsSum ==
  ASSUME CdpInv, NEW p \in Positions, NEW new, Replaces(p, new), Follows(p, new),
         DebtIsPrincipal
  PROVE  DebtIsPrincipal'
<1> DEFINE f == [q \in Positions |-> position[q].principal]
           g == [q \in Positions |-> position'[q].principal]
<1>1. position' = [position EXCEPT ![p] = new] /\ Fit(new)
  BY DEF Replaces
<1>2. PositionsFit'
  BY ReplaceFits
<1>3. f \in [Positions -> Nat] /\ g \in [Positions -> Nat]
  BY <1>2, PositionFields DEF CdpInv, PositionsFit
<1>4. /\ \A q \in Positions \ {p} : g[q] = f[q]
      /\ f[p] = position[p].principal /\ g[p] = new.principal
  BY <1>1 DEF CdpInv, PositionsFit
<1>5. /\ AllPrincipal = SumFunctionOnSet(f, Positions)
      /\ AllPrincipal' = SumFunctionOnSet(g, Positions)
  BY DEF AllPrincipal
<1> HIDE DEF f, g
<1>6. /\ SumFunctionOnSet(f, Positions) \in Nat
      /\ f[p] <= SumFunctionOnSet(f, Positions)
      /\ SumFunctionOnSet(g, Positions) = SumFunctionOnSet(f, Positions) - f[p] + g[p]
  BY <1>3, <1>4, TypeOfCdpConstants, SumChange
<1>7. /\ cdp_rise_sol_minted >= position[p].principal
      /\ total_cdp_debt >= position[p].principal
  BY <1>4, <1>5, <1>6 DEF DebtIsPrincipal
<1>8. /\ cdp_rise_sol_minted' = AllPrincipal - f[p] + g[p]
      /\ total_cdp_debt' = AllPrincipal - f[p] + g[p]
  BY <1>4, <1>7 DEF Follows, DebtIsPrincipal
<1>9. QED BY <1>5, <1>6, <1>8 DEF DebtIsPrincipal

\* The saturating subtractions of six instructions never saturate: both counters
\* are the sum of the principals.
THEOREM DebtAlwaysPrincipal == CdpSpec => []DebtIsPrincipal
<1>1. CdpInit => DebtIsPrincipal
  <2> SUFFICES ASSUME CdpInit PROVE DebtIsPrincipal
    OBVIOUS
  <2> DEFINE f == [q \in Positions |-> position[q].principal]
  <2>1. /\ \A q \in Positions : f[q] = 0
        /\ cdp_rise_sol_minted = 0 /\ total_cdp_debt = 0
    BY DEF CdpInit, CdpConfigInit, BorrowRewardsInit, NoPosition
  <2>2. SumFunctionOnSet(f, Positions) = 0
    <3> HIDE DEF f
    <3>1. QED BY <2>1, TypeOfCdpConstants, SumZero
  <2>3. QED BY <2>1, <2>2 DEF DebtIsPrincipal, AllPrincipal
<1>2. CdpInv /\ DebtIsPrincipal /\ [CdpNext]_allVars => DebtIsPrincipal'
  <2> SUFFICES ASSUME CdpInv, DebtIsPrincipal, [CdpNext]_allVars
               PROVE  DebtIsPrincipal'
    OBVIOUS
  <2>1. Rests \/ \E p \in Positions : Moves(p)
    BY CdpNextStep
  <2>2. CASE Rests
    BY <2>2 DEF Rests, debtVars, DebtIsPrincipal, AllPrincipal
  <2>3. QED BY <2>1, <2>2, PrincipalsSum DEF Moves
<1>3. QED BY <1>1, <1>2, CdpSpecInductive, PTL DEF CdpSpec

-----------------------------------------------------------------------------
(* Settlement of the borrow rewards *)

LEMMA SettlesNext ==
  CdpInv /\ CdpInv' /\ AlwaysSettles /\ [CdpNext]_allVars => AlwaysSettles'
<1> SUFFICES ASSUME CdpInv, CdpInv', AlwaysSettles, [CdpNext]_allVars,
                    NEW q \in Positions
             PROVE  Earned(position[q])' >= position'[q].reward_debt
  BY DEF AlwaysSettles
<1>1. /\ reward_per_token \in Nat /\ reward_per_token' \in Nat
      /\ position[q].principal \in Nat /\ position[q].reward_debt \in Nat
      /\ Earned(position[q]) >= position[q].reward_debt
  BY PositionFields DEF CdpInv, CdpScalars, PositionsFit, AlwaysSettles
<1>2. CASE Rests
  <2>1. /\ position'[q] = position[q] /\ reward_per_token <= reward_per_token'
    BY <1>1, <1>2 DEF Rests
  <2>2. ASSUME NEW n \in Nat, NEW r \in Nat, NEW s \in Nat, r <= s
        PROVE  /\ (n * r) \div REWARD_SCALE \in Nat
               /\ (n * s) \div REWARD_SCALE \in Nat
               /\ (n * r) \div REWARD_SCALE <= (n * s) \div REWARD_SCALE
    BY <2>2, ScaledType, ScaledMono, TypeOfCdpConstants
  <2> DEFINE n == position[q].principal
             e == (n * reward_per_token) \div REWARD_SCALE
             f == (n * reward_per_token') \div REWARD_SCALE
  <2>3. e \in Nat /\ f \in Nat /\ e <= f
    BY <1>1, <2>1, <2>2
  <2>4. Earned(position[q]) = e /\ Earned(position[q])' = f
    BY <2>1 DEF Earned
  <2> HIDE DEF e, f
  <2>5. QED BY <1>1, <2>1, <2>3, <2>4
<1>3. ASSUME NEW p \in Positions, NEW new, Replaces(p, new)
      PROVE  Earned(position[q])' >= position'[q].reward_debt
  <2>1. /\ position' = [position EXCEPT ![p] = new]
        /\ reward_per_token' = reward_per_token
        /\ CanSettle(position[p]) => CanSettle(new)
        /\ position \in [Positions -> PositionType]
    BY <1>3 DEF Replaces, CdpInv, PositionsFit
  <2>2. CanSettle(position[p]) /\ CanSettle(position[q])
    BY DEF AlwaysSettles, CanSettle
  <2>3. CanSettle(position'[q])
    BY <2>1, <2>2
  <2>4. Earned(position[q])' = Earned(position'[q])
    BY <2>1 DEF Earned
  <2>5. QED BY <2>3, <2>4 DEF CanSettle
<1>4. QED BY <1>2, <1>3, CdpNextStep DEF Moves

\* No borrow, repayment, claim or liquidation can be blocked by the checked
\* subtraction of BorrowRewards::settle: earnings never fall below the debt they
\* are measured from, as long as the index is not restarted.
THEOREM SettlesAlways == CdpSpec => []AlwaysSettles
<1>1. CdpInit => AlwaysSettles
  <2> SUFFICES ASSUME CdpInit PROVE AlwaysSettles
    OBVIOUS
  <2>1. /\ CdpInv /\ position = [p \in Positions |-> NoPosition]
    BY CdpInitEstablishes DEF CdpInit
  <2>2. QED BY <2>1, NoPositionSettles DEF AlwaysSettles, CanSettle
<1>2. QED BY <1>1, SettlesNext, CdpSpecInductive, PTL DEF CdpSpec

-----------------------------------------------------------------------------
(* Loans are healthy when made *)

\* The liquidation threshold lies above the maximum LTV.
LEMMA LtvFields ==
  ASSUME NEW c \in CollateralConfigs
  PROVE  /\ c.max_ltv_bps \in Nat /\ c.max_ltv_bps <= BPS
         /\ c.liquidation_threshold_bps \in Nat /\ c.liquidation_threshold_bps <= BPS
         /\ c.max_ltv_bps < c.liquidation_threshold_bps
<1>1. c \in ConfigType /\ c.liquidation_threshold_bps > c.max_ltv_bps
  BY CdpAssumption
<1>2. c.max_ltv_bps \in 0..BPS /\ c.liquidation_threshold_bps \in 0..BPS
  BY <1>1 DEF ConfigType
<1>3. QED BY <1>1, <1>2, TypeOfConstants

\* What is left is worth the whole less what goes, but for one unit.
LEMMA LeftOver ==
  ASSUME NEW n \in Nat, NEW m \in Nat, NEW k \in Nat, k > 0, m <= n
  PROVE  /\ (n - m) \div k \in Nat
         /\ n \div k <= (n - m) \div k + m \div k + 1
<1> DEFINE v == n \div k
           x == m \div k
           w == (n - m) \div k
<1>1. n - m \in Nat
  OBVIOUS
<1>2. /\ v \in Nat /\ v * k <= n
      /\ x \in Nat /\ m < (x + 1) * k
      /\ w \in Nat /\ n - m < (w + 1) * k
  BY <1>1, DivBounds
<1> HIDE DEF v, x, w
<1>3. /\ (w + 1) * k + (x + 1) * k = (w + x + 2) * k
      /\ (w + 1) * k \in Nat /\ (x + 1) * k \in Nat /\ v * k \in Nat
  BY <1>2, MulDistributes
<1>4. v * k < (w + x + 2) * k
  BY <1>2, <1>3
<1>5. v < w + x + 2
  <2>1. CASE w + x + 2 <= v
    <3>1. (w + x + 2) * k <= v * k
      BY <1>2, <2>1, MulMono
    <3>2. (w + x + 2) * k \in Nat
      BY <1>2, MulDistributes
    <3>3. QED BY <1>3, <1>4, <3>1, <3>2
  <2>2. QED BY <1>2, <2>1
<1>6. v <= w + x + 1
  BY <1>2, <1>5
<1>7. QED BY <1>2, <1>6 DEF v, x, w

\* Collateral for a debt at 80% of the maximum LTV covers the debt at the threshold,
\* which lies above the maximum LTV, when the debt outweighs the rounding: 80% of
\* the LTV leave a fifth of slack, and the quotients lose less than two units.
LEMMA ExcessCovers ==
  ASSUME NEW b \in Nat, b > 0, NEW ltv \in Nat, NEW thr \in Nat, ltv < thr, thr <= b,
         NEW s \in Nat, s > 0, s = (ltv * 80) \div 100,
         NEW d \in Nat, d > 7, NEW w \in Nat, (d * b) \div s <= w + 1
  PROVE  d <= (w * thr) \div b
<1> DEFINE c == w + 2
<1>1. 5 * s <= 4 * ltv /\ c \in Nat
  OBVIOUS
<1>2. /\ d * b \in Nat /\ c * s \in Nat /\ c * thr \in Nat /\ w * thr \in Nat
      /\ 8 * b <= d * b
  BY <1>1, MulDistributes, MulMono
<1>3. d * b < c * s
  <2> DEFINE q == (d * b) \div s
  <2>1. q \in Nat /\ d * b < (q + 1) * s /\ q + 1 <= c
    BY <1>2, DivBounds
  <2> HIDE DEF q, c
  <2>2. (q + 1) * s <= c * s /\ (q + 1) * s \in Nat
    BY <1>1, <2>1, MulMono, MulDistributes
  <2> DEFINE x == d * b
             y == (q + 1) * s
             z == c * s
  <2>3. x < y /\ y <= z /\ x \in Nat /\ y \in Nat /\ z \in Nat
    BY <1>2, <2>1, <2>2
  <2> HIDE DEF x, y, z
  <2>4. x < z
    BY <2>3
  <2>5. QED BY <2>4 DEF x, z
<1>4. c * thr = w * thr + 2 * thr
  BY MulDistributes
<1> HIDE DEF c
<1>5. 5 * (c * s) <= 4 * (c * thr)
  <2>1. 5 * s <= 4 * thr
    BY <1>1
  <2>2. 5 * s \in Nat /\ 4 * thr \in Nat
    OBVIOUS
  <2>3. (5 * s) * c <= (4 * thr) * c
    BY <1>1, <2>1, <2>2, MulMono
  <2>4. (5 * s) * c = 5 * (c * s) /\ (4 * thr) * c = 4 * (c * thr)
    BY <1>1
  <2>5. QED BY <2>3, <2>4
<1>6. d * b <= w * thr
  <2> DEFINE x == d * b
             y == c * s
             z == c * thr
             l == w * thr
  <2>1. /\ x \in Nat /\ y \in Nat /\ z \in Nat /\ l \in Nat
        /\ 8 * b <= x /\ x < y /\ 5 * y <= 4 * z /\ z = l + 2 * thr
    BY <1>2, <1>3, <1>4, <1>5
  <2> HIDE DEF x, y, z, l
  <2>2. x <= l
    BY <2>1
  <2>3. QED BY <2>2 DEF x, l
<1>7. QED BY <1>2, <1>6, DivGreatest

\* What fits the maximum LTV fits the threshold.
LEMMA LtvHealthy ==
  ASSUME CdpInv, price > 0, NEW tokens \in Nat, NEW owed \in Nat,
         SolUsd(owed) <= (CollateralUsd(tokens) * collateral_config.max_ltv_bps) \div BPS
  PROVE  Healthy(tokens, owed)
<1> DEFINE v == CollateralUsd(tokens)
           x == (v * collateral_config.max_ltv_bps) \div BPS
           y == (v * collateral_config.liquidation_threshold_bps) \div BPS
<1>1. /\ collateral_config.max_ltv_bps \in Nat
      /\ collateral_config.liquidation_threshold_bps \in Nat
      /\ collateral_config.max_ltv_bps <= collateral_config.liquidation_threshold_bps
  BY LtvFields DEF CdpInv, CdpScalars
<1>2. v \in Nat /\ SolUsd(owed) \in Nat
  BY UsdType DEF CdpInv
<1> HIDE DEF v
<1>4. x <= y /\ x \in Nat /\ y \in Nat
  BY <1>1, <1>2, ScaledType, ScaledMono, TypeOfConstants
<1>5. SolUsd(owed) <= x
  BY DEF v
<1> HIDE DEF x
<1>6. SolUsd(owed) <= y
  BY <1>2, <1>4, <1>5
<1>7. QED BY <1>2, <1>4, <1>6 DEF Healthy, v

LEMMA HealthyAfterOpen ==
  ASSUME CdpInv, NEW p \in Positions, NEW deposit \in Deposits, NEW loan \in Loans,
         OpenPosition(p, deposit, loan)
  PROVE  Healthy(deposit, loan)
<1> DEFINE x == (CollateralUsd(deposit) * collateral_config.max_ltv_bps) \div BPS
           q == UsdToSol(x)
<1>1. deposit \in Nat /\ loan \in Nat /\ price > 0 /\ loan <= q
  BY TypeOfCdpConstants DEF OpenPosition, PythPrice, MaxLoan
<1>2. x \in Nat
  <2>1. CollateralUsd(deposit) \in Nat /\ collateral_config.max_ltv_bps \in Nat
    BY <1>1, UsdType, LtvFields DEF CdpInv, CdpScalars
  <2>2. QED BY <2>1, ScaledType, TypeOfConstants
<1> HIDE DEF x
<1>3. /\ x * LAMPORTS_PER_SOL \in Nat
      /\ q \in Nat /\ q * SOL_PRICE <= x * LAMPORTS_PER_SOL
  <2>1. x * LAMPORTS_PER_SOL \in Nat
    BY <1>2, MulDistributes, TypeOfCdpConstants
  <2>2. QED BY <2>1, DivBounds, TypeOfCdpConstants DEF UsdToSol
<1> HIDE DEF q
<1>4. loan * SOL_PRICE <= q * SOL_PRICE
  BY <1>1, <1>3, MulMono, TypeOfCdpConstants
<1>5. loan * SOL_PRICE \in Nat /\ q * SOL_PRICE \in Nat
  BY <1>1, <1>3, MulDistributes, TypeOfCdpConstants
<1>6. SolUsd(loan) <= x
  <2>1. loan * SOL_PRICE <= x * LAMPORTS_PER_SOL
    BY <1>3, <1>4, <1>5
  <2>2. SolUsd(loan) <= (x * LAMPORTS_PER_SOL) \div LAMPORTS_PER_SOL
    BY <1>3, <1>5, <2>1, DivMono, TypeOfCdpConstants DEF SolUsd
  <2>3. (x * LAMPORTS_PER_SOL) \div LAMPORTS_PER_SOL = x
    BY <1>2, MultipleDiv, TypeOfCdpConstants
  <2>4. QED BY <2>2, <2>3
<1>7. QED BY <1>1, <1>6, LtvHealthy DEF x

\* At a rate of one or more, riseSOL is worth at least as many SOL.
LEMMA ParConversion ==
  ASSUME IInv, NEW n \in Nat
  PROVE  n <= RiseSolToSol(n) /\ RiseSolToSol(n) \in Nat
<1>1. /\ exchange_rate \in Nat /\ RATE_SCALE \in Nat /\ RATE_SCALE > 0
      /\ RATE_SCALE <= exchange_rate
  BY TypeOfConstants DEF IInv, TypeOK, RateAtPar
<1>2. RATE_SCALE * n <= exchange_rate * n
  BY <1>1, MulMono
<1>3. n * RATE_SCALE <= n * exchange_rate /\ n * exchange_rate \in Nat
  BY <1>1, <1>2, MulDistributes
<1>4. n <= (n * exchange_rate) \div RATE_SCALE
  BY <1>1, <1>3, DivGreatest
<1>5. QED BY <1>4, ConversionTypes DEF RiseSolToSol

\* borrow_more values the debt at the exchange rate, liquidate does not.
LEMMA HealthyAfterBorrow ==
  ASSUME CdpInv, NEW p \in Positions, NEW extra \in Loans, BorrowMore(p, extra)
  PROVE  LET pos == Accrue(position[p]) IN
         Healthy(pos.collateral, Owed(pos) + extra)
<1> DEFINE pos == Accrue(position[p])
           owed == Owed(pos) + extra
           x == (CollateralUsd(pos.collateral) * collateral_config.max_ltv_bps) \div BPS
<1>1. /\ extra \in Nat /\ price > 0 /\ price \in Nat
      /\ SolUsd(RiseSolToSol(owed)) <= x
  BY TypeOfCdpConstants DEF BorrowMore, PythPrice, WithinLtv, CdpInv, CdpScalars
<1>2. OnTime(pos)
  BY OpenFits, AccrueKeeps
<1> HIDE DEF pos
<1>3. pos.collateral \in Nat /\ owed \in Nat
  BY <1>1, <1>2, PositionFields DEF OnTime, Owed
<1> HIDE DEF owed
<1>4. owed <= RiseSolToSol(owed) /\ RiseSolToSol(owed) \in Nat
  BY <1>3, ParConversion DEF CdpInv
<1>5. owed * SOL_PRICE <= RiseSolToSol(owed) * SOL_PRICE
  BY <1>3, <1>4, MulMono, TypeOfCdpConstants
<1>6. /\ owed * SOL_PRICE \in Nat /\ RiseSolToSol(owed) * SOL_PRICE \in Nat
  BY <1>3, <1>4, MulDistributes, TypeOfCdpConstants
<1>7. x \in Nat
  <2>1. CollateralUsd(pos.collateral) \in Nat /\ collateral_config.max_ltv_bps \in Nat
    BY <1>3, UsdType, LtvFields DEF CdpInv, CdpScalars
  <2>2. QED BY <2>1, ScaledType, TypeOfConstants
<1> HIDE DEF x
<1>8. SolUsd(owed) <= x
  <2> DEFINE o == SolUsd(owed)
             r == SolUsd(RiseSolToSol(owed))
  <2>1. o \in Nat /\ r \in Nat
    BY <1>3, <1>4, UsdType DEF CdpInv
  <2>2. o <= r
    BY <1>5, <1>6, DivMono, TypeOfCdpConstants DEF SolUsd
  <2>3. r <= x
    BY <1>1
  <2> HIDE DEF o, r
  <2>4. o <= x
    BY <1>7, <2>1, <2>2, <2>3
  <2>5. QED BY <2>4 DEF o
<1>9. QED BY <1>1, <1>3, <1>8, LtvHealthy DEF x, owed, pos

LEMMA HealthyAfterWithdrawal ==
  ASSUME CdpInv, NEW p \in Positions, NEW amount \in Deposits, WithdrawExcess(p, amount),
         SolUsd(Owed(Accrue(position[p]))) > DustUsd
  PROVE  LET pos == Accrue(position[p]) IN
         /\ pos.collateral - amount \in Nat
         /\ Healthy(pos.collateral - amount, Owed(pos))
<1> DEFINE pos == Accrue(position[p])
           left == pos.collateral - amount
           d == SolUsd(Owed(pos))
           q == RequiredUsd(pos)
           v == CollateralUsd(pos.collateral)
           x == CollateralUsd(amount)
           w == CollateralUsd(left)
           thr == collateral_config.liquidation_threshold_bps
<1>1. /\ amount \in Nat /\ pos.collateral >= amount /\ price \in Nat
      /\ SafeLtv > 0 /\ v > q /\ x <= v - q
  BY TypeOfCdpConstants DEF WithdrawExcess, IsExcess, CdpInv, CdpScalars
<1>2. OnTime(pos)
  BY OpenFits, AccrueKeeps
<1>3. d > 7
  BY DEF DustUsd
<1> HIDE DEF pos
<1>4. /\ pos.collateral \in Nat /\ Owed(pos) \in Nat /\ left \in Nat
  BY <1>1, <1>2, PositionFields DEF OnTime, Owed
<1>5. d \in Nat /\ v \in Nat /\ x \in Nat /\ w \in Nat
  BY <1>1, <1>4, UsdType DEF CdpInv
<1>6. /\ collateral_config.max_ltv_bps \in Nat /\ thr \in Nat
      /\ collateral_config.max_ltv_bps < thr /\ thr <= BPS
  BY LtvFields DEF CdpInv, CdpScalars
<1>7. SafeLtv \in Nat /\ SafeLtv = (collateral_config.max_ltv_bps * 80) \div 100
  BY <1>6, ScaledType DEF SafeLtv
<1>8. q \in Nat /\ q = (d * BPS) \div SafeLtv
  BY <1>1, <1>5, <1>7, ScaledType, TypeOfConstants DEF RequiredUsd
<1>9. v <= w + x + 1
  <2> DEFINE n == pos.collateral * price
             m == amount * price
  <2>1. n \in Nat /\ m \in Nat /\ m <= n
    BY <1>1, <1>4, MulDistributes, MulMono
  <2>2. left * price = n - m
    BY <1>1, <1>4, MulDistributes
  <2> HIDE DEF n, m
  <2>3. n \div DECIMAL_SCALE <= (n - m) \div DECIMAL_SCALE + m \div DECIMAL_SCALE + 1
    BY <2>1, LeftOver, TypeOfCdpConstants
  <2>4. /\ v = n \div DECIMAL_SCALE /\ x = m \div DECIMAL_SCALE
        /\ w = (n - m) \div DECIMAL_SCALE
    BY <2>2 DEF CollateralUsd, n, m
  <2>5. QED BY <2>3, <2>4
<1> HIDE DEF d, q, v, x, w, thr
<1>10. q <= w + 1
  BY <1>1, <1>5, <1>8, <1>9
<1>11. d <= (w * thr) \div BPS
  BY <1>1, <1>3, <1>5, <1>6, <1>7, <1>8, <1>10, ExcessCovers, TypeOfConstants
<1> DEFINE z == (w * thr) \div BPS
<1>12. z \in Nat
  BY <1>5, <1>6, ScaledType, TypeOfConstants
<1>13. z >= d
  <2> HIDE DEF z
  <2>1. d <= z
    BY <1>11 DEF z
  <2>2. QED BY <1>5, <1>12, <2>1
<1>14. QED BY <1>4, <1>13 DEF Healthy, w, thr, d, left, pos

\* Every other step leaves an open position owing no more principal and holding
\* no less collateral.
Eased(p, new) ==
  new.is_open =>
    /\ new.principal <= position[p].principal
    /\ new.collateral >= position[p].collateral

Eases == \E p \in Positions : \E new :
           position' = [position EXCEPT ![p] = new] /\ Eased(p, new)

LEMMA RecordEases ==
  ASSUME CdpInv, NEW p \in Positions, NEW payment \in Nat, NEW divert,
         CanSettle(position[p]), Record(p, Repaid(p, payment).after, divert)
  PROVE  Eases
<1> DEFINE r == Repaid(p, payment)
           pos == r.after
           new == IF Owed(pos) = 0 THEN Closed(pos, divert) ELSE pos
<1>1. /\ OnTime(pos) /\ SameAccount(pos, position[p])
      /\ pos.principal + r.principal = position[p].principal
      /\ pos.principal \in Nat /\ r.principal \in Nat
  BY RepaidType
<1>2. /\ position[p].collateral \in Nat /\ position[p].principal \in Nat
      /\ position' = [position EXCEPT ![p] = new]
  BY OpenFits DEF Record
<1> HIDE DEF r, pos
<1>3. pos.principal <= position[p].principal /\ pos.collateral >= position[p].collateral
  BY <1>1, <1>2 DEF SameAccount
<1>4. CASE Owed(pos) = 0
  <2>1. new = [pos EXCEPT !.is_open = FALSE, !.pending_buyback = divert]
    BY <1>4 DEF Closed
  <2> HIDE DEF new
  <2>2. ~new.is_open
    BY <1>1, <2>1 DEF OnTime, PositionType
  <2>3. QED BY <1>2, <2>2 DEF Eases, Eased
<1>5. CASE Owed(pos) # 0
  <2>1. new = pos
    BY <1>5
  <2> HIDE DEF new
  <2>2. QED BY <1>2, <1>3, <2>1 DEF Eases, Eased
<1>6. QED BY <1>4, <1>5

LEMMA CancelEases ==
  ASSUME CdpInv, NEW p \in Positions, CanSettle(position[p]),
         position' = [position EXCEPT ![p] =
           WithPrincipal([Settle(position[p]) EXCEPT !.is_open = FALSE,
                                                     !.interest = 0], 0)]
  PROVE  Eases
<1> DEFINE s == Settle(position[p])
           rest == [s EXCEPT !.is_open = FALSE, !.interest = 0]
           new == WithPrincipal(rest, 0)
<1>1. OnTime(s) /\ SameAccount(s, position[p])
  BY OpenFits, SettleKeeps
<1> HIDE DEF s
<1>2. /\ rest \in PositionType /\ ~rest.is_open
      /\ rest.last_accrual_slot = s.last_accrual_slot
  BY <1>1 DEF OnTime, PositionType
<1>3. OnTime(rest)
  BY <1>1, <1>2 DEF OnTime
<1> HIDE DEF rest
<1>4. SameAccount(new, rest)
  BY <1>3, WithPrincipalKeeps
<1>5. position' = [position EXCEPT ![p] = new]
  BY DEF new, rest, s
<1> HIDE DEF new
<1>6. QED BY <1>2, <1>4, <1>5 DEF Eases, Eased, SameAccount

LEMMA SettlesEases ==
  ASSUME CdpInv, NEW p \in Positions, Settles(p)
  PROVE  Eases
<1>1. ASSUME NEW payment \in Payments,
             RepayDebt(p, payment) \/ RepayDebtSpl(p, payment)
                \/ RepayDebtRiseSol(p, payment)
      PROVE  Eases
  <2>1. payment \in Nat /\ SolToRiseSol(payment) \in Nat
    BY TypeOfCdpConstants, ConversionTypes DEF CdpInv
  <2>2. CASE RepayDebt(p, payment)
    BY <2>1, <2>2, RecordEases DEF RepayDebt, SettleInSol
  <2>3. CASE RepayDebtSpl(p, payment)
    BY <2>1, <2>3, RecordEases DEF RepayDebtSpl, SettleInSol
  <2>4. CASE RepayDebtRiseSol(p, payment)
    BY <2>1, <2>4, RecordEases DEF RepayDebtRiseSol
  <2>5. QED BY <1>1, <2>2, <2>3, <2>4
<1>2. CASE ClosePosition(p)
  BY <1>2, CancelEases DEF ClosePosition
<1>3. CASE ClaimCollateral(p)
  <2>1. ~NoPosition.is_open
    BY DEF NoPosition
  <2>2. position' = [position EXCEPT ![p] = NoPosition]
    BY <1>3 DEF ClaimCollateral
  <2>3. QED BY <2>1, <2>2 DEF Eases, Eased
<1>4. CASE ClaimBorrowRewards(p)
  <2> DEFINE q == WithPrincipal(position[p], position[p].principal)
             new == [q EXCEPT !.pending_rewards = 0]
  <2>1. position' = [position EXCEPT ![p] = new]
    BY <1>4 DEF ClaimBorrowRewards
  <2>2. /\ OnTime(q) /\ SameAccount(q, position[p])
        /\ q.principal = position[p].principal
        /\ position[p].principal \in Nat /\ position[p].collateral \in Nat
    BY OpenFits, WithPrincipalKeeps
  <2> HIDE DEF q
  <2>3. SameAccount(new, q) /\ new.principal = q.principal
    BY <2>2, WithRewards DEF OnTime
  <2> HIDE DEF new
  <2>4. /\ new.principal <= position[p].principal
        /\ new.collateral >= position[p].collateral
    BY <2>2, <2>3 DEF SameAccount
  <2>5. QED BY <2>1, <2>4 DEF Eases, Eased
<1>5. QED BY <1>1, <1>2, <1>3, <1>4 DEF Settles

LEMMA AnybodyEases ==
  ASSUME CdpInv, Anybody
  PROVE  Eases \/ UNCHANGED position
<1>1. ASSUME NEW p \in Positions, AccrueInterest(p)
      PROVE  Eases
  <2> DEFINE new == [position[p] EXCEPT !.interest = @ + Interest(position[p]),
                                        !.last_accrual_slot = slot]
  <2>1. position' = [position EXCEPT ![p] = new]
    BY <1>1 DEF AccrueInterest
  <2>2. /\ position[p] \in PositionType
        /\ position[p].principal \in Nat /\ position[p].collateral \in Nat
    BY OpenFits
  <2>3. /\ new.principal = position[p].principal
        /\ new.collateral = position[p].collateral
    BY <2>2 DEF PositionType
  <2> HIDE DEF new
  <2>4. /\ new.principal <= position[p].principal
        /\ new.collateral >= position[p].collateral
    BY <2>2, <2>3
  <2>5. QED BY <2>1, <2>4 DEF Eases, Eased
<1>2. ASSUME NEW p \in Positions, NEW proceeds \in SwapOutputs, Liquidate(p, proceeds)
      PROVE  Eases
  BY <1>2, CancelEases DEF Liquidate, CancelDebt
<1>3. ASSUME NEW requested \in Deposits, NEW proceeds \in SwapOutputs,
             RedeemCollateralForLiquidity(requested, proceeds)
      PROVE  UNCHANGED position
  BY <1>3 DEF RedeemCollateralForLiquidity
<1>4. ASSUME NEW total_verise \in VeriseSupplies, CollectCdpFees(total_verise)
      PROVE  UNCHANGED position
  BY <1>4 DEF CollectCdpFees
<1>5. CASE CheckpointBorrowRewards
  BY <1>5 DEF CheckpointBorrowRewards
<1>6. QED BY <1>1, <1>2, <1>3, <1>4, <1>5 DEF Anybody

LEMMA QuietEases ==
  ASSUME PoolStep \/ CdpAuthority \/ World \/ UNCHANGED allVars
           \/ CloseBorrowRewards \/ InitializeBorrowRewards
  PROVE  UNCHANGED position
<1>1. CASE PoolStep \/ UNCHANGED allVars
  BY <1>1 DEF PoolStep, allVars, cdpVars
<1>2. CASE CdpAuthority
  BY <1>2 DEF CdpAuthority, UpdateDebtCeiling, UpdateCollateralConfig, UpdatePaymentConfig
<1>3. CASE World
  BY <1>3 DEF World, MovePrice, NextSlot
<1>4. CASE CloseBorrowRewards \/ InitializeBorrowRewards
  BY <1>4 DEF CloseBorrowRewards, InitializeBorrowRewards
<1>5. QED BY <1>1, <1>2, <1>3, <1>4

\* After the step the position is open and owes more principal than before, or holds
\* less collateral for a debt that is not dust.
Strained(q) ==
  /\ position'[q].is_open
  /\ \/ position'[q].principal > position[q].principal
     \/ /\ position'[q].collateral < position[q].collateral
        /\ SolUsd(Owed(position[q]))' > DustUsd

StartsHealthy(q) == Healthy(position[q].collateral, Owed(position[q]))'

LEMMA EasesNoStrain ==
  ASSUME CdpInv, CdpInv', Eases \/ UNCHANGED position,
         NEW q \in Positions, Strained(q)
  PROVE  FALSE
<1>1. /\ position \in [Positions -> PositionType]
      /\ position[q].principal \in Nat /\ position[q].collateral \in Nat
      /\ position'[q].principal \in Nat /\ position'[q].collateral \in Nat
  <2>1. position'[q] \in PositionType
    BY DEF CdpInv, PositionsFit
  <2>2. QED BY <2>1, OpenFits, PositionFields DEF CdpInv, PositionsFit
<1>2. CASE UNCHANGED position
  BY <1>1, <1>2 DEF Strained
<1>3. ASSUME NEW p \in Positions, NEW new,
             position' = [position EXCEPT ![p] = new], Eased(p, new)
      PROVE  FALSE
  <2>1. CASE p # q
    <3>1. position'[q] = position[q]
      BY <1>1, <1>3, <2>1
    <3>2. QED BY <1>1, <3>1 DEF Strained
  <2>2. CASE p = q
    <3>1. position'[q] = new
      BY <1>1, <1>3, <2>2
    <3>2. /\ position'[q].is_open
          /\ \/ position'[q].principal > position[q].principal
             \/ position'[q].collateral < position[q].collateral
      BY DEF Strained
    <3>3. /\ position'[q].principal <= position[q].principal
          /\ position'[q].collateral >= position[q].collateral
      BY <1>3, <2>2, <3>1, <3>2 DEF Eased
    <3>4. QED BY <1>1, <3>2, <3>3
  <2>3. QED BY <2>1, <2>2
<1>4. QED BY <1>2, <1>3 DEF Eases

\* The instructions that take something out keep price and configuration.
LEMMA HealthyNext ==
  ASSUME UNCHANGED <<cdpConfigVars, worldVars>>, NEW q \in Positions,
         Healthy(position'[q].collateral, Owed(position'[q]))
  PROVE  StartsHealthy(q)
  BY DEF StartsHealthy, Healthy, CollateralUsd, SolUsd, Owed, cdpConfigVars, worldVars

LEMMA BorrowsStartHealthy ==
  ASSUME CdpInv, CdpInv', NEW p \in Positions, Borrows(p),
         NEW q \in Positions, Strained(q)
  PROVE  StartsHealthy(q)
<1>1. position \in [Positions -> PositionType]
  BY DEF CdpInv, PositionsFit
<1>2. ASSUME NEW new, position' = [position EXCEPT ![p] = new]
      PROVE  p = q /\ position'[q] = new
  <2>1. /\ position[q].principal \in Nat /\ position[q].collateral \in Nat
    BY OpenFits
  <2>2. p # q => position'[q] = position[q]
    BY <1>1, <1>2
  <2>3. p = q
    BY <2>1, <2>2 DEF Strained
  <2>4. QED BY <1>1, <1>2, <2>3
<1>3. ASSUME NEW amount \in Deposits, AddCollateral(p, amount)
      PROVE  FALSE
  <2> DEFINE c == position[p].collateral + amount
             new == [position[p] EXCEPT !.collateral = c]
  <2>1. position' = [position EXCEPT ![p] = new]
    BY <1>3 DEF AddCollateral
  <2>2. /\ amount \in Nat /\ position[p] \in PositionType
        /\ position[p].collateral \in Nat /\ position[p].principal \in Nat
    BY OpenFits, TypeOfCdpConstants
  <2>3. new.principal = position[p].principal /\ new.collateral = c
    BY <2>2 DEF PositionType
  <2>4. c >= position[p].collateral
    BY <2>2
  <2> HIDE DEF new, c
  <2>5. /\ new.principal <= position[p].principal
        /\ new.collateral >= position[p].collateral
    BY <2>2, <2>3, <2>4
  <2>6. Eases
    BY <2>1, <2>5 DEF Eases, Eased
  <2>7. QED BY <2>6, EasesNoStrain
<1>4. ASSUME NEW amount \in Deposits, WithdrawExcess(p, amount)
      PROVE  StartsHealthy(q)
  <2> DEFINE pos == Accrue(position[p])
             c == pos.collateral - amount
             new == [pos EXCEPT !.collateral = c]
  <2>1. position' = [position EXCEPT ![p] = new] /\ UNCHANGED <<cdpConfigVars, worldVars>>
    BY <1>4 DEF WithdrawExcess
  <2>2. /\ OnTime(pos) /\ pos.principal = position[p].principal
        /\ position[p].principal \in Nat
    BY OpenFits, AccrueKeeps
  <2>3. pos \in PositionType
    BY <2>2 DEF OnTime
  <2> HIDE DEF pos
  <2>4. /\ new.principal = pos.principal /\ new.interest = pos.interest
        /\ new.collateral = c
    BY <2>3 DEF PositionType
  <2> HIDE DEF new, c
  <2>5. p = q /\ position'[q] = new
    BY <1>2, <2>1
  <2>6. SolUsd(Owed(pos)) > DustUsd
    <3>1. SolUsd(Owed(position[q]))' = SolUsd(Owed(new))
      BY <2>5 DEF SolUsd, Owed
    <3>2. ~(position'[q].principal > position[q].principal)
      BY <2>2, <2>4, <2>5
    <3>3. SolUsd(Owed(new)) > DustUsd
      BY <3>1, <3>2 DEF Strained
    <3>4. QED BY <2>4, <3>3 DEF Owed
  <2>7. Healthy(c, Owed(pos))
    BY <1>4, <2>6, HealthyAfterWithdrawal DEF pos, c
  <2>8. QED BY <2>1, <2>4, <2>5, <2>7, HealthyNext DEF Owed
<1>5. ASSUME NEW deposit \in Deposits, NEW loan \in Loans, OpenPosition(p, deposit, loan)
      PROVE  StartsHealthy(q)
  <2> DEFINE d == (loan * reward_per_token) \div REWARD_SCALE
             new == [NoPosition EXCEPT !.exists = TRUE, !.is_open = TRUE,
                                       !.collateral = deposit, !.tracked = TRUE,
                                       !.last_accrual_slot = slot,
                                       !.principal = loan, !.reward_debt = d]
  <2>1. position' = [position EXCEPT ![p] = new] /\ UNCHANGED <<cdpConfigVars, worldVars>>
    BY <1>5 DEF OpenPosition, WithPrincipal
  <2>2. new.principal = loan /\ new.interest = 0 /\ new.collateral = deposit
    BY DEF NoPosition
  <2> HIDE DEF new
  <2>3. position'[q] = new
    BY <1>2, <2>1
  <2>4. loan \in Nat /\ Owed(new) = loan
    BY <2>2, TypeOfCdpConstants DEF Owed
  <2>5. QED BY <1>5, <2>1, <2>2, <2>3, <2>4, HealthyAfterOpen, HealthyNext
<1>6. ASSUME NEW extra \in Loans, BorrowMore(p, extra)
      PROVE  StartsHealthy(q)
  <2> DEFINE pos == Accrue(position[p])
             n == pos.principal + extra
             new == WithPrincipal(Settle(pos), n)
  <2>1. /\ position' = [position EXCEPT ![p] = new] /\ CanSettle(pos)
        /\ UNCHANGED <<cdpConfigVars, worldVars>>
    BY <1>6 DEF BorrowMore, IssueMore
  <2>2. OnTime(pos) /\ extra \in Nat
    BY OpenFits, AccrueKeeps, TypeOfCdpConstants
  <2>3. Healthy(pos.collateral, Owed(pos) + extra)
    BY <1>6, HealthyAfterBorrow
  <2> HIDE DEF pos
  <2>4. pos.principal \in Nat /\ pos.interest \in Nat
    BY <2>2, PositionFields DEF OnTime
  <2>5. n \in Nat /\ n + pos.interest = Owed(pos) + extra
    BY <2>2, <2>4 DEF Owed
  <2> HIDE DEF n
  <2>6. /\ OnTime(Settle(pos)) /\ SameAccount(Settle(pos), pos)
        /\ Settle(pos).interest = pos.interest
    BY <2>1, <2>2, SettleKeeps
  <2>7. /\ SameAccount(new, Settle(pos)) /\ new.interest = Settle(pos).interest
        /\ new.principal = n
    BY <2>5, <2>6, WithPrincipalKeeps
  <2> HIDE DEF new
  <2>8. new.collateral = pos.collateral /\ Owed(new) = Owed(pos) + extra
    BY <2>5, <2>6, <2>7 DEF SameAccount, Owed
  <2>9. position'[q] = new
    BY <1>2, <2>1
  <2>10. QED BY <2>1, <2>3, <2>8, <2>9, HealthyNext
<1>7. QED BY <1>3, <1>4, <1>5, <1>6 DEF Borrows

LEMMA StepsStartHealthy ==
  CdpInv /\ CdpInv' /\ [CdpNext \/ Maintenance]_allVars =>
    \A q \in Positions : Strained(q) => StartsHealthy(q)
<1> SUFFICES ASSUME CdpInv, CdpInv', [CdpNext \/ Maintenance]_allVars,
                    NEW q \in Positions, Strained(q)
             PROVE  StartsHealthy(q)
  OBVIOUS
<1>1. ASSUME NEW p \in Positions, Borrows(p)
      PROVE  StartsHealthy(q)
  BY <1>1, BorrowsStartHealthy
<1>2. ASSUME NEW p \in Positions, Settles(p)
      PROVE  FALSE
  BY <1>2, SettlesEases, EasesNoStrain
<1>3. CASE Anybody
  BY <1>3, AnybodyEases, EasesNoStrain
<1>4. ASSUME PoolStep \/ CdpAuthority \/ World \/ UNCHANGED allVars
               \/ CloseBorrowRewards \/ InitializeBorrowRewards
      PROVE  FALSE
  BY <1>4, QuietEases, EasesNoStrain
<1>5. ASSUME NEW p \in Positions, NEW r \in Positions, CloseStalePosition(p, r)
      PROVE  FALSE
  <2>1. Lapses(p)
    BY <1>5, CloseStalePositionStep
  <2>2. position[q].principal \in Nat /\ position[q].collateral \in Nat
    BY OpenFits
  <2>3. CASE q = p
    BY <2>1, <2>3 DEF Lapses, SameAccount, NoPosition, Strained
  <2>4. CASE q # p
    BY <2>1, <2>2, <2>4 DEF Lapses, SameAccount, Strained
  <2>5. QED BY <2>3, <2>4
<1>6. QED BY <1>1, <1>2, <1>3, <1>4, <1>5 DEF CdpNext, Maintenance

\* Taking riseSOL or collateral out of a position never exposes it to liquidation at
\* the prices of that moment, for every configuration, price, number of decimals and
\* exchange rate: no loan, however small, and no withdrawal unless the debt is worth
\* DustUsd units or less, where rounding may lose what the threshold asks for.
THEOREM LoansStartSafe == ResetSpec => BorrowedSafely
<1>1. CdpInv /\ CdpInv' /\ [CdpNext \/ Maintenance]_allVars =>
        \A p \in Positions :
          (/\ position'[p].is_open
           /\ \/ position'[p].principal > position[p].principal
              \/ /\ position'[p].collateral < position[p].collateral
                 /\ SolUsd(Owed(position[p]))' > DustUsd)
          => Healthy(position[p].collateral, Owed(position[p]))'
  BY StepsStartHealthy DEF Strained, StartsHealthy
<1>2. QED BY <1>1, CdpInductive, PTL DEF ResetSpec, BorrowedSafely

-----------------------------------------------------------------------------
(* The rewards of the borrowers.  The books are kept in units of              *)
(* 1 / REWARD_SCALE, in which a reward debt loses nothing by being rounded.   *)

CreditAt(pos, index) ==
  pos.pending_rewards * REWARD_SCALE
    + (pos.principal * index - pos.reward_debt * REWARD_SCALE)

Credits(accounts, index) ==
  SumFunctionOnSet([p \in Positions |-> CreditAt(accounts[p], index)], Positions)

\* One base unit when a new principal is synced to a rounded debt.
Slack(old, new) ==
  IF new.principal # old.principal /\ (new.principal * reward_per_token) % REWARD_SCALE # 0
  THEN 1 ELSE 0

\* The step replaces one position, whose credit grows by no more than that.
Gains(p, new) ==
  /\ position' = [position EXCEPT ![p] = new]
  /\ UNCHANGED <<rewardVars, slot>>
  /\ CreditAt(new, reward_per_token)
       <= CreditAt(position[p], reward_per_token)
            + Slack(position[p], new) * REWARD_SCALE

\* Two forms of one account that earn the same ...
SameRewards(q, pos) ==
  /\ q.principal = pos.principal
  /\ q.reward_debt = pos.reward_debt
  /\ q.pending_rewards = pos.pending_rewards

\* ... and an account that was settled and synced again.
Resynced(q, pos) ==
  /\ q.pending_rewards = RewardOf(pos)
  /\ q.reward_debt = (q.principal * reward_per_token) \div REWARD_SCALE

LEMMA SameRewardsEarn ==
  ASSUME NEW q, NEW pos, SameRewards(q, pos)
  PROVE  /\ \A index : CreditAt(q, index) = CreditAt(pos, index)
         /\ RewardOf(q) = RewardOf(pos)
         /\ CanSettle(q) <=> CanSettle(pos)
  BY DEF SameRewards, CreditAt, RewardOf, CanSettle, Earned

\* A position that can be settled has a natural credit, which covers what it can claim.
LEMMA CreditType ==
  ASSUME CdpInv, NEW pos \in PositionType, CanSettle(pos)
  PROVE  /\ CreditAt(pos, reward_per_token) \in Nat
         /\ RewardOf(pos) \in Nat
         /\ RewardOf(pos) * REWARD_SCALE <= CreditAt(pos, reward_per_token)
<1> DEFINE s == REWARD_SCALE
           n == pos.principal * reward_per_token
<1>1. /\ s \in Nat /\ s > 0 /\ n \in Nat
      /\ pos.pending_rewards \in Nat /\ pos.reward_debt \in Nat
      /\ pos.pending_rewards * s \in Nat
  BY PositionFields, TypeOfCdpConstants, MulDistributes DEF CdpInv, CdpScalars
<1>2. pos.reward_debt <= n \div s /\ n \div s \in Nat
  BY <1>1, DivBounds DEF CanSettle, Earned
<1>3. /\ CreditAt(pos, reward_per_token)
           = pos.pending_rewards * s + (n - pos.reward_debt * s)
      /\ RewardOf(pos) = pos.pending_rewards + n \div s - pos.reward_debt
  BY DEF CreditAt, RewardOf, Earned
<1> HIDE DEF n, s
<1>4. /\ (pos.pending_rewards + (n \div s - pos.reward_debt)) * s
           <= pos.pending_rewards * s + (n - pos.reward_debt * s)
      /\ n - pos.reward_debt * s \in Nat
  BY <1>1, <1>2, RoundedCredit
<1>5. /\ RewardOf(pos) = pos.pending_rewards + (n \div s - pos.reward_debt)
      /\ RewardOf(pos) \in Nat
  BY <1>1, <1>2, <1>3
<1>6. QED BY <1>1, <1>3, <1>4, <1>5 DEF s

\* Settling and syncing to a new principal gains less than one base unit, and nothing
\* when the new debt is not rounded or the principal stays.
LEMMA ResyncedCredit ==
  ASSUME CdpInv, NEW pos \in PositionType, CanSettle(pos),
         NEW q \in PositionType, Resynced(q, pos)
  PROVE  CreditAt(q, reward_per_token)
           <= CreditAt(pos, reward_per_token) + Slack(pos, q) * REWARD_SCALE
<1> DEFINE s == REWARD_SCALE
           n == pos.principal * reward_per_token
           m == q.principal * reward_per_token
           before == CreditAt(pos, reward_per_token)
           after == CreditAt(q, reward_per_token)
<1>1. /\ s \in Nat /\ s > 0 /\ n \in Nat /\ m \in Nat
      /\ pos.pending_rewards \in Nat /\ pos.reward_debt \in Nat
  BY PositionFields, TypeOfCdpConstants, MulDistributes DEF CdpInv, CdpScalars
<1>2. pos.reward_debt <= n \div s /\ n \div s \in Nat
  BY <1>1, DivBounds DEF CanSettle, Earned
<1>3. /\ before = pos.pending_rewards * s + (n - pos.reward_debt * s)
      /\ after = RewardOf(pos) * s + (m - (m \div s) * s)
      /\ RewardOf(pos) = pos.pending_rewards + n \div s - pos.reward_debt
  BY DEF CreditAt, RewardOf, Earned, Resynced
<1>4. before \in Nat
  BY CreditType
<1>5. Slack(pos, q) = IF q.principal # pos.principal /\ m % s # 0 THEN 1 ELSE 0
  BY DEF Slack
<1>6. q.principal = pos.principal => m = n
  OBVIOUS
<1> HIDE DEF s, n, m, before, after
<1>7. /\ RewardOf(pos) = pos.pending_rewards + (n \div s - pos.reward_debt)
      /\ RewardOf(pos) \in Nat
  BY <1>1, <1>2, <1>3
<1>8. /\ RewardOf(pos) * s <= before
      /\ RewardOf(pos) * s + (m - (m \div s) * s) <= before + s
      /\ RewardOf(pos) * s + (n - (n \div s) * s) = before
      /\ RewardOf(pos) * s \in Nat
  <2> DEFINE r == pos.pending_rewards
             d == pos.reward_debt
  <2>1. r \in Nat /\ d \in Nat /\ d <= n \div s
    BY <1>1, <1>2
  <2>2. before = r * s + (n - d * s) /\ RewardOf(pos) = r + (n \div s - d)
    BY <1>3, <1>7
  <2> HIDE DEF r, d
  <2>3. /\ (r + (n \div s - d)) * s <= r * s + (n - d * s)
        /\ (r + (n \div s - d)) * s + (m - (m \div s) * s) <= r * s + (n - d * s) + s
        /\ (r + (n \div s - d)) * s + (n - (n \div s) * s) = r * s + (n - d * s)
    BY <1>1, <2>1, RoundedCredit
  <2>4. RewardOf(pos) * s \in Nat
    BY <1>1, <1>7, MulDistributes
  <2>5. QED BY <2>2, <2>3, <2>4
<1>9. after <= before + Slack(pos, q) * s
  <2>1. CASE q.principal # pos.principal /\ m % s # 0
    <3>1. Slack(pos, q) * s = s
      BY <1>1, <1>5, <2>1
    <3>2. QED BY <1>3, <1>8, <3>1
  <2>2. CASE q.principal = pos.principal
    <3>1. Slack(pos, q) * s = 0 /\ after = before
      BY <1>1, <1>3, <1>5, <1>6, <1>8, <2>2
    <3>2. QED BY <1>4, <3>1
  <2>3. CASE m % s = 0
    <3>1. m - (m \div s) * s = 0
      BY <1>1, <2>3, NoRemainder
    <3>2. \/ Slack(pos, q) * s = 0
          \/ Slack(pos, q) * s = s
      BY <1>1, <1>5
    <3>3. after <= before
      BY <1>3, <1>4, <1>8, <3>1
    <3>4. after \in Int
      BY <1>3, <1>8, <3>1
    <3>5. QED BY <1>1, <1>4, <3>2, <3>3, <3>4
  <2>4. QED BY <2>1, <2>2, <2>3
<1>10. QED BY <1>9 DEF s, before, after

-----------------------------------------------------------------------------
(* The fields that earn, through the helpers of the instructions *)

LEMMA AccrueRewards ==
  ASSUME CdpInv, NEW pos, OnTime(pos)
  PROVE  SameRewards(Accrue(pos), pos) /\ Accrue(pos) \in PositionType
<1>1. pos \in PositionType /\ Accrue(pos) \in PositionType
  BY AccrueKeeps DEF OnTime
<1>2. CASE Interest(pos) > 0
  <2> DEFINE i == pos.interest + Interest(pos)
  <2>1. Accrue(pos) = [pos EXCEPT !.interest = i, !.last_accrual_slot = slot]
    BY <1>2 DEF Accrue
  <2> HIDE DEF i
  <2>2. QED BY <1>1, <2>1 DEF PositionType, SameRewards
<1>3. CASE ~(Interest(pos) > 0)
  BY <1>1, <1>3 DEF Accrue, SameRewards
<1>4. QED BY <1>1, <1>2, <1>3

\* An instruction may write the other fields between settle and sync_debt.
LEMMA SettledFields ==
  ASSUME CdpInv, NEW pos \in PositionType, CanSettle(pos)
  PROVE  /\ Settle(pos) \in PositionType
         /\ Settle(pos).principal = pos.principal
         /\ Settle(pos).pending_rewards = RewardOf(pos)
<1> DEFINE r == RewardOf(pos)
<1>1. r \in Nat
  BY CreditType
<1>2. Settle(pos) = [pos EXCEPT !.pending_rewards = r]
  BY DEF Settle, RewardOf, PositionType
<1> HIDE DEF r
<1>3. /\ Settle(pos) \in PositionType
      /\ Settle(pos).principal = pos.principal
      /\ Settle(pos).pending_rewards = r
  BY <1>1, <1>2 DEF PositionType
<1>4. QED BY <1>3 DEF r

LEMMA SyncedFields ==
  ASSUME CdpInv, NEW pos \in PositionType, NEW n \in Nat
  PROVE  LET q == WithPrincipal(pos, n) IN
         /\ q \in PositionType
         /\ q.principal = n
         /\ q.pending_rewards = pos.pending_rewards
         /\ q.reward_debt = (n * reward_per_token) \div REWARD_SCALE
<1> DEFINE d == (n * reward_per_token) \div REWARD_SCALE
           q == WithPrincipal(pos, n)
<1>1. d \in Nat
  BY EarnedType
<1>2. q = [pos EXCEPT !.principal = n, !.reward_debt = d]
  BY DEF WithPrincipal
<1> HIDE DEF d, q
<1>3. /\ q \in PositionType /\ q.principal = n /\ q.reward_debt = d
      /\ q.pending_rewards = pos.pending_rewards
  BY <1>1, <1>2 DEF PositionType
<1>4. QED BY <1>3 DEF q, d

\* What a repayment leaves is settled and synced again.
LEMMA RepaidRewards ==
  ASSUME CdpInv, NEW p \in Positions, NEW payment \in Nat, CanSettle(position[p])
  PROVE  LET r == Repaid(p, payment) IN
         /\ r.after \in PositionType /\ Resynced(r.after, position[p])
<1> DEFINE pos == Accrue(position[p])
           i == Repaid(p, payment).interest
           k == Settle(pos).interest - i
           rest == [Settle(pos) EXCEPT !.interest = k]
           n == pos.principal - Repaid(p, payment).principal
           after == Repaid(p, payment).after
<1>1. /\ i \in Nat /\ Repaid(p, payment).principal \in Nat
      /\ after.principal + Repaid(p, payment).principal = position[p].principal
      /\ after.principal \in Nat /\ after \in PositionType
  BY RepaidType DEF OnTime
<1>2. /\ pos \in PositionType /\ SameRewards(pos, position[p])
  BY OpenFits, AccrueRewards
<1>3. CanSettle(pos) /\ RewardOf(pos) = RewardOf(position[p])
  BY <1>2, SameRewardsEarn
<1>4. after = WithPrincipal(rest, n)
  BY DEF Repaid
<1> HIDE DEF pos, after, i
<1>5. /\ Settle(pos) \in PositionType /\ Settle(pos).pending_rewards = RewardOf(pos)
  BY <1>2, <1>3, SettledFields
<1> HIDE DEF k
<1>6. rest.pending_rewards = RewardOf(pos)
  BY <1>5 DEF PositionType
<1> HIDE DEF rest, n
<1>7. /\ after.pending_rewards = rest.pending_rewards
      /\ after.principal = n
      /\ after.reward_debt = (n * reward_per_token) \div REWARD_SCALE
  BY <1>1, <1>4 DEF WithPrincipal
<1>8. QED BY <1>1, <1>3, <1>6, <1>7 DEF Resynced, after

-----------------------------------------------------------------------------
(* What each instruction adds to the credit of its position *)

LEMMA SameGains ==
  ASSUME CdpInv, AlwaysSettles, NEW p \in Positions, NEW new,
         SameRewards(new, position[p]),
         position' = [position EXCEPT ![p] = new], UNCHANGED <<rewardVars, slot>>
  PROVE  Gains(p, new)
<1>1. CreditAt(new, reward_per_token) = CreditAt(position[p], reward_per_token)
  BY SameRewardsEarn
<1>2. CreditAt(position[p], reward_per_token) \in Nat
  BY OpenFits, CreditType DEF AlwaysSettles, CanSettle
<1>3. Slack(position[p], new) * REWARD_SCALE \in Nat
  BY TypeOfCdpConstants DEF Slack
<1>4. QED BY <1>1, <1>2, <1>3 DEF Gains

LEMMA ResyncedGains ==
  ASSUME CdpInv, AlwaysSettles, NEW p \in Positions, NEW new \in PositionType,
         Resynced(new, position[p]),
         position' = [position EXCEPT ![p] = new], UNCHANGED <<rewardVars, slot>>
  PROVE  Gains(p, new)
  BY OpenFits, ResyncedCredit DEF AlwaysSettles, CanSettle, Gains

\* A new position has earned nothing; at most its reward debt is rounded down.
LEMMA OpenPositionGains ==
  ASSUME CdpInv, AlwaysSettles, NEW p \in Positions, NEW deposit \in Deposits,
         NEW loan \in Loans, OpenPosition(p, deposit, loan)
  PROVE  \E new : Gains(p, new)
<1> DEFINE blank == [NoPosition EXCEPT !.exists = TRUE, !.is_open = TRUE,
                                       !.collateral = deposit, !.tracked = TRUE,
                                       !.last_accrual_slot = slot]
           new == WithPrincipal(blank, loan)
           gain == CreditAt(new, reward_per_token)
           had == CreditAt(position[p], reward_per_token)
<1>1. /\ position' = [position EXCEPT ![p] = new] /\ UNCHANGED <<rewardVars, slot>>
      /\ position[p].principal = 0 /\ loan > 0
  BY OpenFits DEF OpenPosition, OpenPositionAccounts, worldVars
<1>2. deposit \in Nat /\ loan \in Nat /\ slot \in Nat
  BY TypeOfCdpConstants DEF CdpInv, CdpScalars
<1>3. /\ blank \in PositionType /\ blank.principal = 0
      /\ blank.reward_debt = 0 /\ blank.pending_rewards = 0
  BY <1>2 DEF NoPosition, PositionType
<1> HIDE DEF blank
<1>4. CanSettle(blank) /\ RewardOf(blank) = 0 /\ CreditAt(blank, reward_per_token) = 0
  <2>1. /\ (0 * reward_per_token) \div REWARD_SCALE = 0 /\ 0 * reward_per_token = 0
        /\ 0 * REWARD_SCALE = 0
    BY ScaledZero, TypeOfCdpConstants DEF CdpInv, CdpScalars
  <2>2. QED BY <1>3, <2>1 DEF CanSettle, RewardOf, Earned, CreditAt
<1>5. new \in PositionType /\ Resynced(new, blank) /\ new.principal = loan
  BY <1>2, <1>3, <1>4, SyncedFields DEF Resynced
<1> HIDE DEF new
<1>6. gain <= 0 + Slack(blank, new) * REWARD_SCALE
  BY <1>3, <1>4, <1>5, ResyncedCredit
<1>7. Slack(blank, new) = Slack(position[p], new)
  BY <1>1, <1>3 DEF Slack
<1>8. had \in Nat
  BY OpenFits, CreditType DEF AlwaysSettles, CanSettle
<1>9. Slack(blank, new) * REWARD_SCALE \in Nat
  BY TypeOfCdpConstants DEF Slack
<1>10. CanSettle(new)
  BY <1>5, EarnedType, <1>2 DEF CanSettle, Earned, Resynced
<1>11. gain \in Nat
  BY <1>5, <1>10, CreditType
<1> HIDE DEF gain, had
<1>12. gain <= had + Slack(position[p], new) * REWARD_SCALE
  BY <1>6, <1>7, <1>8, <1>9, <1>11
<1>13. QED BY <1>1, <1>12 DEF Gains, gain, had

LEMMA BorrowsGains ==
  ASSUME CdpInv, AlwaysSettles, NEW p \in Positions, Borrows(p)
  PROVE  \E new : Gains(p, new)
<1>1. ASSUME NEW amount \in Deposits, AddCollateral(p, amount)
      PROVE  \E new : Gains(p, new)
  <2> DEFINE c == position[p].collateral + amount
             new == [position[p] EXCEPT !.collateral = c]
  <2>1. position' = [position EXCEPT ![p] = new] /\ UNCHANGED <<rewardVars, slot>>
    BY <1>1 DEF AddCollateral, worldVars
  <2> HIDE DEF c
  <2>2. SameRewards(new, position[p])
    BY OpenFits DEF PositionType, SameRewards
  <2> HIDE DEF new
  <2>3. QED BY <2>1, <2>2, SameGains
<1>2. ASSUME NEW amount \in Deposits, WithdrawExcess(p, amount)
      PROVE  \E new : Gains(p, new)
  <2> DEFINE pos == Accrue(position[p])
             c == pos.collateral - amount
             new == [pos EXCEPT !.collateral = c]
  <2>1. position' = [position EXCEPT ![p] = new] /\ UNCHANGED <<rewardVars, slot>>
    BY <1>2 DEF WithdrawExcess, worldVars
  <2>2. pos \in PositionType /\ SameRewards(pos, position[p])
    BY OpenFits, AccrueRewards
  <2> HIDE DEF pos, c
  <2>3. SameRewards(new, position[p])
    BY <2>2 DEF PositionType, SameRewards
  <2> HIDE DEF new
  <2>4. QED BY <2>1, <2>3, SameGains
<1>3. ASSUME NEW extra \in Loans, BorrowMore(p, extra)
      PROVE  \E new : Gains(p, new)
  <2> DEFINE pos == Accrue(position[p])
             n == pos.principal + extra
             new == WithPrincipal(Settle(pos), n)
  <2>1. position' = [position EXCEPT ![p] = new] /\ UNCHANGED <<rewardVars, slot>>
    BY <1>3 DEF BorrowMore, IssueMore, worldVars
  <2>2. pos \in PositionType /\ SameRewards(pos, position[p])
    BY OpenFits, AccrueRewards
  <2>3. CanSettle(pos) /\ RewardOf(pos) = RewardOf(position[p])
    BY <2>2, SameRewardsEarn DEF AlwaysSettles, CanSettle
  <2> HIDE DEF pos
  <2>4. n \in Nat
    BY <2>2, PositionFields, TypeOfCdpConstants
  <2>5. Settle(pos) \in PositionType /\ Settle(pos).pending_rewards = RewardOf(pos)
    BY <2>2, <2>3, SettledFields
  <2> HIDE DEF n
  <2>6. new \in PositionType /\ Resynced(new, position[p])
    BY <2>3, <2>4, <2>5, SyncedFields DEF Resynced
  <2> HIDE DEF new
  <2>7. QED BY <2>1, <2>6, ResyncedGains
<1>4. QED BY <1>1, <1>2, <1>3, OpenPositionGains DEF Borrows

\* Closing a repaid position keeps what it has earned.
LEMMA RecordGains ==
  ASSUME CdpInv, AlwaysSettles, NEW p \in Positions, NEW payment \in Nat, NEW divert,
         Record(p, Repaid(p, payment).after, divert), UNCHANGED <<rewardVars, slot>>
  PROVE  \E new : Gains(p, new)
<1> DEFINE pos == Repaid(p, payment).after
           new == IF Owed(pos) = 0 THEN Closed(pos, divert) ELSE pos
<1>1. CanSettle(position[p])
  BY DEF AlwaysSettles, CanSettle
<1>2. pos \in PositionType /\ Resynced(pos, position[p])
  BY <1>1, RepaidRewards
<1>3. position' = [position EXCEPT ![p] = new]
  BY DEF Record
<1> HIDE DEF pos
<1>4. SameRewards(new, pos)
  BY <1>2 DEF Closed, PositionType, SameRewards
<1> HIDE DEF new
<1>5. CreditAt(new, reward_per_token) = CreditAt(pos, reward_per_token)
  BY <1>4, SameRewardsEarn
<1>6. Slack(position[p], new) = Slack(position[p], pos)
  BY <1>4 DEF Slack, SameRewards
<1>7. CreditAt(pos, reward_per_token)
        <= CreditAt(position[p], reward_per_token) + Slack(position[p], pos) * REWARD_SCALE
  BY <1>1, <1>2, OpenFits, ResyncedCredit
<1>8. QED BY <1>3, <1>5, <1>6, <1>7 DEF Gains

LEMMA CancelGains ==
  ASSUME CdpInv, AlwaysSettles, NEW p \in Positions, UNCHANGED <<rewardVars, slot>>,
         position' = [position EXCEPT ![p] =
           WithPrincipal([Settle(position[p]) EXCEPT !.is_open = FALSE,
                                                     !.interest = 0], 0)]
  PROVE  \E new : Gains(p, new)
<1> DEFINE s == Settle(position[p])
           rest == [s EXCEPT !.is_open = FALSE, !.interest = 0]
           new == WithPrincipal(rest, 0)
<1>1. position' = [position EXCEPT ![p] = new]
  OBVIOUS
<1>2. s \in PositionType /\ s.pending_rewards = RewardOf(position[p])
  BY OpenFits, SettledFields DEF AlwaysSettles, CanSettle
<1> HIDE DEF s
<1>3. rest \in PositionType /\ rest.pending_rewards = s.pending_rewards
  BY <1>2 DEF PositionType
<1> HIDE DEF rest
<1>4. new \in PositionType /\ Resynced(new, position[p])
  BY <1>2, <1>3, SyncedFields DEF Resynced
<1> HIDE DEF new
<1>5. QED BY <1>1, <1>4, ResyncedGains

\* What a closed account had pending is lost with it.
LEMMA ClaimCollateralGains ==
  ASSUME CdpInv, AlwaysSettles, NEW p \in Positions, ClaimCollateral(p)
  PROVE  \E new : Gains(p, new)
<1>1. position' = [position EXCEPT ![p] = NoPosition] /\ UNCHANGED <<rewardVars, slot>>
  BY DEF ClaimCollateral, worldVars
<1>2. CreditAt(NoPosition, reward_per_token) = 0
  <2>1. /\ 0 * reward_per_token = 0 /\ 0 * REWARD_SCALE = 0
    BY TypeOfCdpConstants DEF CdpInv, CdpScalars
  <2>2. QED BY <2>1 DEF CreditAt, NoPosition
<1>3. CreditAt(position[p], reward_per_token) \in Nat
  BY OpenFits, CreditType DEF AlwaysSettles, CanSettle
<1>4. Slack(position[p], NoPosition) * REWARD_SCALE \in Nat
  BY TypeOfCdpConstants DEF Slack
<1>5. Gains(p, NoPosition)
  BY <1>1, <1>2, <1>3, <1>4 DEF Gains
<1>6. QED BY <1>5

\* Every instruction with which a position pays back, but for the claim of rewards.
LEMMA SettlesGains ==
  ASSUME CdpInv, AlwaysSettles, NEW p \in Positions, Settles(p), ~ClaimBorrowRewards(p)
  PROVE  \E new : Gains(p, new)
<1>1. ASSUME NEW payment \in Payments,
             RepayDebt(p, payment) \/ RepayDebtSpl(p, payment)
                \/ RepayDebtRiseSol(p, payment)
      PROVE  \E new : Gains(p, new)
  <2>1. payment \in Nat /\ SolToRiseSol(payment) \in Nat
    BY TypeOfCdpConstants, ConversionTypes DEF CdpInv
  <2>2. CASE RepayDebt(p, payment)
    BY <2>1, <2>2, RecordGains DEF RepayDebt, SettleInSol, worldVars
  <2>3. CASE RepayDebtSpl(p, payment)
    BY <2>1, <2>3, RecordGains DEF RepayDebtSpl, SettleInSol, worldVars
  <2>4. CASE RepayDebtRiseSol(p, payment)
    BY <2>1, <2>4, RecordGains DEF RepayDebtRiseSol, worldVars
  <2>5. QED BY <1>1, <2>2, <2>3, <2>4
<1>2. CASE ClosePosition(p)
  BY <1>2, CancelGains DEF ClosePosition, worldVars
<1>3. CASE ClaimCollateral(p)
  BY <1>3, ClaimCollateralGains
<1>4. QED BY <1>1, <1>2, <1>3 DEF Settles

LEMMA AnybodyGains ==
  ASSUME CdpInv, AlwaysSettles, Anybody, ~CheckpointBorrowRewards
  PROVE  \/ \E p \in Positions : \E new : Gains(p, new)
         \/ UNCHANGED <<position, rewardVars, slot>>
<1>1. ASSUME NEW p \in Positions, AccrueInterest(p)
      PROVE  \E new : Gains(p, new)
  <2> DEFINE i == position[p].interest + Interest(position[p])
             new == [position[p] EXCEPT !.interest = i, !.last_accrual_slot = slot]
  <2>1. position' = [position EXCEPT ![p] = new] /\ UNCHANGED <<rewardVars, slot>>
    BY <1>1 DEF AccrueInterest, worldVars, CdpInv, PositionsFit, PositionType
  <2> HIDE DEF i
  <2>2. SameRewards(new, position[p])
    BY OpenFits DEF PositionType, SameRewards
  <2> HIDE DEF new
  <2>3. QED BY <2>1, <2>2, SameGains
<1>2. ASSUME NEW p \in Positions, NEW proceeds \in SwapOutputs, Liquidate(p, proceeds)
      PROVE  \E new : Gains(p, new)
  BY <1>2, CancelGains DEF Liquidate, CancelDebt, worldVars
<1>3. ASSUME NEW requested \in Deposits, NEW proceeds \in SwapOutputs,
             RedeemCollateralForLiquidity(requested, proceeds)
      PROVE  UNCHANGED <<position, rewardVars, slot>>
  BY <1>3 DEF RedeemCollateralForLiquidity, worldVars
<1>4. ASSUME NEW total_verise \in VeriseSupplies, CollectCdpFees(total_verise)
      PROVE  UNCHANGED <<position, rewardVars, slot>>
  BY <1>4 DEF CollectCdpFees, worldVars
<1>5. QED BY <1>1, <1>2, <1>3, <1>4 DEF Anybody

LEMMA QuietGains ==
  ASSUME CdpInv, PoolStep \/ CdpAuthority \/ World \/ UNCHANGED allVars
  PROVE  UNCHANGED <<position, rewardVars>> /\ slot' >= slot /\ slot' \in Nat
<1>1. slot \in Nat
  BY DEF CdpInv, CdpScalars
<1>2. CASE PoolStep \/ UNCHANGED allVars
  BY <1>1, <1>2 DEF PoolStep, allVars, cdpVars, worldVars
<1>3. CASE CdpAuthority
  BY <1>1, <1>3 DEF CdpAuthority, UpdateDebtCeiling, UpdateCollateralConfig,
     UpdatePaymentConfig, worldVars
<1>4. CASE World
  BY <1>1, <1>4 DEF World, MovePrice, NextSlot
<1>5. QED BY <1>2, <1>3, <1>4

-----------------------------------------------------------------------------
(* The books *)

\* The index was last brought up to date at a slot gone by.
CheckpointPast == last_checkpoint_slot <= slot

\* What was paid and all credits fit in what the index has been given so far.
BooksSolvent ==
  rewards_paid * REWARD_SCALE + Credits(position, reward_per_token)
    <= (EmittedBy(last_checkpoint_slot) + rounded) * REWARD_SCALE

BorrowInv ==
  /\ CdpInv /\ AlwaysSettles /\ DebtIsPrincipal
  /\ rewards_paid \in Nat /\ rounded \in Nat
  /\ CheckpointPast
  /\ BooksSolvent

LEMMA EmittedByType ==
  ASSUME NEW s \in Nat
  PROVE  EmittedBy(s) \in Nat
  BY ScaledType, TypeOfCdpConstants DEF EmittedBy

\* The emissions of two stretches of slots, each rounded down, fit in those of both.
LEMMA EmittedInParts ==
  ASSUME NEW r \in Nat, NEW s \in Nat, r <= s
  PROVE  EmittedBy(r) + (EPOCH_EMISSIONS * (s - r)) \div SLOTS_PER_EPOCH <= EmittedBy(s)
<1> DEFINE e == EPOCH_EMISSIONS
           d == SLOTS_PER_EPOCH
           x == (e * r) \div d
           y == (e * (s - r)) \div d
<1>1. e \in Nat /\ d \in Nat /\ d > 0 /\ s - r \in Nat
  BY TypeOfCdpConstants
<1> HIDE DEF e, d
<1>2. /\ e * r \in Nat /\ e * (s - r) \in Nat /\ e * s \in Nat
      /\ e * s = e * r + e * (s - r)
  <2>1. r * e \in Nat /\ (s - r) * e \in Nat /\ s * e = r * e + (s - r) * e
    BY <1>1, MulDistributes
  <2>2. r * e = e * r /\ (s - r) * e = e * (s - r) /\ s * e = e * s
    BY <1>1
  <2>3. QED BY <2>1, <2>2
<1>3. x \in Nat /\ y \in Nat /\ x * d <= e * r /\ y * d <= e * (s - r)
  BY <1>1, <1>2, DivBounds
<1> HIDE DEF x, y
<1>4. (x + y) * d = x * d + y * d /\ x * d \in Nat /\ y * d \in Nat
  BY <1>1, <1>3, MulDistributes
<1>5. (x + y) * d <= e * s /\ x + y \in Nat
  BY <1>2, <1>3, <1>4
<1>6. x + y <= (e * s) \div d
  BY <1>1, <1>2, <1>5, DivGreatest
<1>7. QED BY <1>6 DEF x, y, e, d, EmittedBy

CreditsNatural ==
  /\ \A p \in Positions : CreditAt(position[p], reward_per_token) \in Nat
  /\ Credits(position, reward_per_token) \in Nat

LEMMA CreditsType == CdpInv /\ AlwaysSettles => CreditsNatural
<1> SUFFICES ASSUME CdpInv, AlwaysSettles PROVE CreditsNatural
  OBVIOUS
<1> DEFINE f == [p \in Positions |-> CreditAt(position[p], reward_per_token)]
<1>1. \A p \in Positions : CreditAt(position[p], reward_per_token) \in Nat
  BY OpenFits, CreditType DEF AlwaysSettles, CanSettle
<1>2. \A p \in Positions : f[p] \in Nat
  BY <1>1
<1>3. SumFunctionOnSet(f, Positions) \in Nat
  <2> HIDE DEF f
  <2>1. QED BY <1>2, TypeOfCdpConstants, SumNat
<1>4. QED BY <1>1, <1>3 DEF Credits, CreditsNatural

LEMMA CreditsTypeNext == (CdpInv /\ AlwaysSettles => CreditsNatural)'
  BY CreditsType, PTL

\* Only the credit of the position that moves changes.
LEMMA CreditsMove ==
  ASSUME CdpInv, AlwaysSettles, CdpInv', AlwaysSettles', NEW p \in Positions, NEW new,
         position' = [position EXCEPT ![p] = new], UNCHANGED rewardVars
  PROVE  /\ CreditAt(new, reward_per_token) \in Nat
         /\ Credits(position, reward_per_token)'
              = Credits(position, reward_per_token)
                  - CreditAt(position[p], reward_per_token)
                  + CreditAt(new, reward_per_token)
<1> DEFINE f == [q \in Positions |-> CreditAt(position[q], reward_per_token)]
           g == [q \in Positions |-> CreditAt(position'[q], reward_per_token')]
<1>1. /\ position \in [Positions -> PositionType] /\ reward_per_token' = reward_per_token
  BY DEF CdpInv, PositionsFit, rewardVars
<1>2. \A q \in Positions : f[q] \in Nat
  BY CreditsType DEF CreditsNatural
<1>3. \A q \in Positions : CreditAt(position'[q], reward_per_token') \in Nat
  BY CreditsTypeNext DEF CreditsNatural
<1>4. /\ f \in [Positions -> Nat] /\ g \in [Positions -> Nat]
  BY <1>2, <1>3
<1>5. /\ \A q \in Positions \ {p} : g[q] = f[q]
      /\ f[p] = CreditAt(position[p], reward_per_token)
      /\ g[p] = CreditAt(new, reward_per_token)
  BY <1>1
<1>6. /\ Credits(position, reward_per_token) = SumFunctionOnSet(f, Positions)
      /\ Credits(position, reward_per_token)' = SumFunctionOnSet(g, Positions)
  BY DEF Credits
<1> HIDE DEF f, g
<1>7. SumFunctionOnSet(g, Positions) = SumFunctionOnSet(f, Positions) - f[p] + g[p]
  BY <1>4, <1>5, TypeOfCdpConstants, SumChange
<1>8. g[p] \in Nat
  BY <1>4
<1>9. QED BY <1>5, <1>6, <1>7, <1>8

\* The books stay solvent when a step pays a, gives the credits k more at most and
\* the budget k more at least.
LEMMA BooksStep ==
  ASSUME BorrowInv, CdpInv', AlwaysSettles', NEW a \in Nat, NEW k \in Nat,
         rewards_paid' = rewards_paid + a, rounded' \in Nat,
         Credits(position, reward_per_token)' + a * REWARD_SCALE
           <= Credits(position, reward_per_token) + k * REWARD_SCALE,
         EmittedBy(last_checkpoint_slot) + rounded + k
           <= EmittedBy(last_checkpoint_slot') + rounded'
  PROVE  BooksSolvent'
<1> DEFINE c == Credits(position, reward_per_token)
           d == Credits(position, reward_per_token)'
           b == EmittedBy(last_checkpoint_slot) + rounded
           e == EmittedBy(last_checkpoint_slot') + rounded'
<1>1. c \in Nat /\ d \in Nat
  BY CreditsType, CreditsTypeNext DEF BorrowInv, CreditsNatural
<1>2. b \in Nat /\ e \in Nat
  BY EmittedByType DEF BorrowInv, CdpInv, CdpScalars
<1>3. /\ REWARD_SCALE \in Nat /\ rewards_paid \in Nat /\ rewards_paid' \in Nat
      /\ rewards_paid * REWARD_SCALE + c <= b * REWARD_SCALE
  BY TypeOfCdpConstants DEF BorrowInv, BooksSolvent
<1>4. (BooksSolvent)' <=> rewards_paid' * REWARD_SCALE + d <= e * REWARD_SCALE
  BY DEF BooksSolvent, EmittedBy
<1>5. d + a * REWARD_SCALE <= c + k * REWARD_SCALE /\ b + k <= e
  OBVIOUS
<1> HIDE DEF c, d, b, e
<1>6. QED BY <1>1, <1>2, <1>3, <1>4, <1>5, BudgetStep

\* No debt is rounded where no position moves.
LEMMA NothingRounded ==
  ASSUME BorrowInv, BorrowLedgerNext, \A p \in Positions : ~RoundsDebt(p)
  PROVE  rounded' = rounded
  BY DEF BorrowInv, BorrowLedgerNext

\* A position that moves has its rounding counted.
LEMMA RoundingCounted ==
  ASSUME BorrowInv, BorrowLedgerNext, NEW p \in Positions, NEW new, Gains(p, new)
  PROVE  /\ Slack(position[p], new) \in Nat
         /\ rounded' = rounded + Slack(position[p], new)
<1>1. position \in [Positions -> PositionType] /\ rounded \in Nat
  BY DEF BorrowInv, CdpInv, PositionsFit
<1>2. \A q \in Positions : q # p => position'[q] = position[q]
  BY <1>1 DEF Gains
<1>3. position'[p] = new
  BY <1>1 DEF Gains
<1>4. (\E q \in Positions : RoundsDebt(q)) <=> RoundsDebt(p)
  BY <1>2 DEF RoundsDebt
<1>5. Slack(position[p], new) = IF RoundsDebt(p) THEN 1 ELSE 0
  BY <1>3 DEF Slack, RoundsDebt
<1>6. QED BY <1>1, <1>4, <1>5 DEF BorrowLedgerNext

LEMMA GainsBooks ==
  ASSUME BorrowInv, CdpInv', AlwaysSettles', BorrowLedgerNext,
         UNCHANGED rewards_paid,
         NEW p \in Positions, NEW new, Gains(p, new)
  PROVE  BooksSolvent' /\ CheckpointPast' /\ rounded' \in Nat
<1> DEFINE k == Slack(position[p], new)
           c == Credits(position, reward_per_token)
           d == Credits(position, reward_per_token)'
           old == CreditAt(position[p], reward_per_token)
           now == CreditAt(new, reward_per_token)
<1>1. k \in Nat /\ rounded' = rounded + k /\ rounded \in Nat /\ rewards_paid \in Nat
  BY RoundingCounted DEF BorrowInv
<1>2. /\ now \in Nat /\ d = c - old + now
  BY CreditsMove DEF BorrowInv, Gains
<1>3. c \in Nat /\ old \in Nat
  BY CreditsType DEF BorrowInv, CreditsNatural
<1>4. now <= old + k * REWARD_SCALE
  BY DEF Gains
<1>5. k * REWARD_SCALE \in Nat /\ 0 * REWARD_SCALE = 0
  BY <1>1, TypeOfCdpConstants
<1>6. /\ last_checkpoint_slot' = last_checkpoint_slot /\ slot' = slot
      /\ EmittedBy(last_checkpoint_slot) \in Nat
  BY EmittedByType DEF Gains, rewardVars, BorrowInv, CdpInv, CdpScalars
<1> HIDE DEF k, c, d, old, now
<1>7. d + 0 * REWARD_SCALE <= c + k * REWARD_SCALE
  BY <1>2, <1>3, <1>4, <1>5
<1>8. /\ EmittedBy(last_checkpoint_slot) + rounded + k
           <= EmittedBy(last_checkpoint_slot') + rounded'
      /\ rounded' \in Nat
  BY <1>1, <1>6
<1>9. rewards_paid' = rewards_paid + 0
  BY <1>1
<1>10. BooksSolvent'
  BY <1>1, <1>7, <1>8, <1>9, BooksStep DEF c, d
<1>11. QED BY <1>6, <1>8, <1>10 DEF BorrowInv, CheckpointPast

\* A claim takes out of the credits what it pays, and keeps the fraction.
LEMMA ClaimBooks ==
  ASSUME BorrowInv, CdpInv', AlwaysSettles', BorrowLedgerNext,
         NEW p \in Positions, Claimed(p)
  PROVE  /\ BooksSolvent' /\ CheckpointPast'
         /\ rounded' \in Nat /\ rewards_paid' \in Nat
<1> DEFINE pos == position[p]
           synced == WithPrincipal(pos, pos.principal)
           new == [synced EXCEPT !.pending_rewards = 0]
           a == RewardOf(pos)
           c == Credits(position, reward_per_token)
           d == Credits(position, reward_per_token)'
           old == CreditAt(pos, reward_per_token)
           now == CreditAt(new, reward_per_token)
<1>1. /\ position' = [position EXCEPT ![p] = new] /\ UNCHANGED <<rewardVars, slot>>
      /\ rewards_paid' = rewards_paid + a
  BY DEF Claimed, ClaimBorrowRewards, worldVars
<1>2. /\ CdpInv /\ AlwaysSettles /\ CanSettle(pos) /\ pos \in PositionType
      /\ pos.principal \in Nat
      /\ position \in [Positions -> PositionType]
  BY OpenFits DEF BorrowInv, AlwaysSettles, CanSettle, CdpInv, PositionsFit
<1>3. /\ synced \in PositionType /\ synced.principal = pos.principal
      /\ synced.reward_debt = (pos.principal * reward_per_token) \div REWARD_SCALE
  BY <1>2, SyncedFields
<1> HIDE DEF synced
<1>4. /\ new.principal = pos.principal /\ new.pending_rewards = 0
      /\ new.reward_debt = (pos.principal * reward_per_token) \div REWARD_SCALE
  BY <1>3 DEF PositionType
<1> HIDE DEF new
<1>5. old \in Nat /\ a \in Nat
  BY <1>2, CreditType
<1>6. now + a * REWARD_SCALE = old
  <2> DEFINE s == REWARD_SCALE
             n == pos.principal * reward_per_token
             r == pos.pending_rewards
             debt == pos.reward_debt
  <2>1. /\ s \in Nat /\ s > 0 /\ n \in Nat /\ r \in Nat /\ debt \in Nat
    BY <1>2, PositionFields, TypeOfCdpConstants, MulDistributes DEF CdpInv, CdpScalars
  <2>2. debt <= n \div s /\ n \div s \in Nat
    BY <1>2, <2>1, DivBounds DEF CanSettle, Earned
  <2>3. /\ old = r * s + (n - debt * s)
        /\ now = 0 * s + (n - (n \div s) * s)
        /\ a = r + n \div s - debt
    BY <1>4 DEF CreditAt, RewardOf, Earned
  <2> HIDE DEF s, n, r, debt, old, now, a
  <2>4. /\ (r + (n \div s - debt)) * s + (n - (n \div s) * s) = r * s + (n - debt * s)
        /\ n - (n \div s) * s \in Nat
    BY <2>1, <2>2, RoundedCredit
  <2>5. 0 * s = 0 /\ a = r + (n \div s - debt)
    BY <2>1, <2>2, <2>3
  <2>6. a * s \in Nat
    BY <1>5, <2>1, MulDistributes
  <2>7. now = n - (n \div s) * s
    BY <2>3, <2>4, <2>5
  <2>8. now + a * s = old
    BY <2>3, <2>4, <2>5, <2>6, <2>7
  <2>9. QED BY <2>8 DEF s
<1>7. now \in Nat /\ d = c - old + now
  BY <1>1, <1>2, CreditsMove
<1>8. c \in Nat
  BY <1>2, CreditsType DEF CreditsNatural
<1>9. a * REWARD_SCALE \in Nat /\ 0 * REWARD_SCALE = 0
  BY <1>5, TypeOfCdpConstants, MulDistributes
<1>10. d + a * REWARD_SCALE <= c + 0 * REWARD_SCALE
  <2> HIDE DEF c, d, old, now, a
  <2>1. QED BY <1>5, <1>6, <1>7, <1>8, <1>9
<1>11. \A q \in Positions : ~RoundsDebt(q)
  BY <1>1, <1>2, <1>4 DEF RoundsDebt
<1>12. rounded' = rounded /\ rounded \in Nat /\ rewards_paid \in Nat
  BY <1>11, NothingRounded DEF BorrowInv
<1>13. /\ last_checkpoint_slot' = last_checkpoint_slot /\ slot' = slot
       /\ EmittedBy(last_checkpoint_slot) \in Nat
  BY <1>1, <1>2, EmittedByType DEF rewardVars, CdpInv, CdpScalars
<1> HIDE DEF a, c, d
<1>14. EmittedBy(last_checkpoint_slot) + rounded + 0
         <= EmittedBy(last_checkpoint_slot') + rounded'
  BY <1>12, <1>13
<1>15. BooksSolvent'
  BY <1>1, <1>5, <1>10, <1>12, <1>14, BooksStep DEF c, d
<1>16. QED BY <1>1, <1>5, <1>12, <1>13, <1>15 DEF BorrowInv, CheckpointPast

\* The index rises by no more than the emissions of the slots gone by cover.
LEMMA CheckpointBooks ==
  ASSUME BorrowInv, CdpInv', AlwaysSettles', BorrowLedgerNext,
         UNCHANGED rewards_paid, CheckpointBorrowRewards
  PROVE  BooksSolvent' /\ CheckpointPast' /\ rounded' \in Nat
<1> DEFINE gone == slot - last_checkpoint_slot
           emissions == (EPOCH_EMISSIONS * gone) \div SLOTS_PER_EPOCH
           rise == IF total_cdp_debt = 0 THEN 0
                   ELSE (emissions * REWARD_SCALE) \div total_cdp_debt
           f == [q \in Positions |-> CreditAt(position[q], reward_per_token)]
           g == [q \in Positions |-> position[q].principal]
           gr == [q \in Positions |-> position[q].principal * rise]
           h == [q \in Positions |-> CreditAt(position'[q], reward_per_token')]
           c == Credits(position, reward_per_token)
           d == Credits(position, reward_per_token)'
<1>1. /\ UNCHANGED <<position, slot>>
      /\ reward_per_token' = IF total_cdp_debt = 0 THEN reward_per_token
           ELSE reward_per_token + (emissions * REWARD_SCALE) \div total_cdp_debt
      /\ last_checkpoint_slot' = slot /\ slot > last_checkpoint_slot
  BY DEF CheckpointBorrowRewards, worldVars
<1>2. /\ CdpInv /\ AlwaysSettles /\ total_cdp_debt = AllPrincipal
      /\ reward_per_token \in Nat /\ last_checkpoint_slot \in Nat /\ slot \in Nat
      /\ total_cdp_debt \in Nat /\ REWARD_SCALE \in Nat
      /\ position \in [Positions -> PositionType]
      /\ rounded \in Nat /\ rewards_paid \in Nat
  BY TypeOfCdpConstants DEF BorrowInv, DebtIsPrincipal, CdpInv, CdpScalars, PositionsFit
<1>3. gone \in Nat /\ emissions \in Nat
  BY <1>1, <1>2, ScaledType, TypeOfCdpConstants
<1>4. EmittedBy(last_checkpoint_slot) + emissions <= EmittedBy(slot)
  BY <1>1, <1>2, EmittedInParts
<1> HIDE DEF emissions
<1>5. emissions * REWARD_SCALE \in Nat
  BY <1>2, <1>3, MulDistributes
<1>6. rise \in Nat /\ rise * total_cdp_debt <= emissions * REWARD_SCALE
  <2>1. CASE total_cdp_debt = 0
    BY <1>5, <2>1
  <2>2. CASE total_cdp_debt # 0
    BY <1>2, <1>5, <2>2, DivBounds
  <2>3. QED BY <2>1, <2>2
<1>7. reward_per_token' = reward_per_token + rise
  BY <1>1, <1>2
<1> HIDE DEF rise
<1>8. \A q \in Positions : f[q] \in Int /\ g[q] \in Int /\ gr[q] \in Int
                           /\ gr[q] = g[q] * rise
  <2>1. \A q \in Positions : CreditAt(position[q], reward_per_token) \in Nat
    BY <1>2, CreditsType DEF CreditsNatural
  <2>2. \A q \in Positions : position[q].principal \in Nat
    BY <1>2, PositionFields
  <2>3. \A q \in Positions : position[q].principal * rise \in Nat
    BY <1>6, <2>2, MulDistributes
  <2>4. QED BY <2>1, <2>2, <2>3
<1>9. \A q \in Positions : h[q] = f[q] + gr[q]
  <2> SUFFICES ASSUME NEW q \in Positions
               PROVE  CreditAt(position[q], reward_per_token + rise)
                        = CreditAt(position[q], reward_per_token)
                            + position[q].principal * rise
    BY <1>1, <1>7
  <2> DEFINE n == position[q].principal
             r == position[q].pending_rewards * REWARD_SCALE
             debt == position[q].reward_debt * REWARD_SCALE
  <2>1. n \in Nat /\ r \in Nat /\ debt \in Nat
    BY <1>2, PositionFields, MulDistributes
  <2>2. /\ CreditAt(position[q], reward_per_token + rise)
             = r + (n * (reward_per_token + rise) - debt)
        /\ CreditAt(position[q], reward_per_token) = r + (n * reward_per_token - debt)
    BY DEF CreditAt
  <2> HIDE DEF n, r, debt
  <2>3. /\ n * reward_per_token \in Nat /\ n * rise \in Nat
        /\ n * (reward_per_token + rise) = n * reward_per_token + n * rise
    <3>1. /\ reward_per_token * n \in Nat /\ rise * n \in Nat
          /\ (reward_per_token + rise) * n = reward_per_token * n + rise * n
      BY <1>2, <1>6, <2>1, MulDistributes
    <3>2. /\ reward_per_token * n = n * reward_per_token /\ rise * n = n * rise
          /\ (reward_per_token + rise) * n = n * (reward_per_token + rise)
      BY <1>2, <1>6, <2>1
    <3>3. QED BY <3>1, <3>2
  <2>4. r + (n * (reward_per_token + rise) - debt)
          = r + (n * reward_per_token - debt) + n * rise
    BY <2>1, <2>3
  <2>5. QED BY <2>2, <2>4 DEF n
<1>10. /\ c = SumFunctionOnSet(f, Positions) /\ d = SumFunctionOnSet(h, Positions)
       /\ total_cdp_debt = SumFunctionOnSet(g, Positions)
  BY <1>2 DEF Credits, AllPrincipal
<1>11. c \in Nat
  BY <1>2, CreditsType DEF CreditsNatural
<1> HIDE DEF f, g, gr, h, c, d
<1>12. SumFunctionOnSet(h, Positions)
         = SumFunctionOnSet(f, Positions) + SumFunctionOnSet(gr, Positions)
  BY <1>8, <1>9, TypeOfCdpConstants, SumPlus
<1>13. SumFunctionOnSet(gr, Positions) = SumFunctionOnSet(g, Positions) * rise
  BY <1>6, <1>8, TypeOfCdpConstants, SumScale
<1>14. d = c + rise * total_cdp_debt /\ rise * total_cdp_debt \in Nat
  <2>1. total_cdp_debt * rise = rise * total_cdp_debt /\ rise * total_cdp_debt \in Nat
    BY <1>2, <1>6, MulDistributes
  <2>2. QED BY <1>10, <1>12, <1>13, <2>1
<1>15. d + 0 * REWARD_SCALE <= c + emissions * REWARD_SCALE
  <2>1. 0 * REWARD_SCALE = 0
    BY <1>2
  <2>2. QED BY <1>5, <1>6, <1>11, <1>14, <2>1
<1>16. rounded' = rounded
  BY <1>1, NothingRounded DEF RoundsDebt
<1>17. EmittedBy(last_checkpoint_slot) + rounded + emissions
         <= EmittedBy(last_checkpoint_slot') + rounded'
  <2>1. EmittedBy(last_checkpoint_slot) \in Nat /\ EmittedBy(slot) \in Nat
    BY <1>2, EmittedByType
  <2>2. QED BY <1>1, <1>2, <1>3, <1>4, <1>16, <2>1
<1>18. BooksSolvent'
  BY <1>2, <1>3, <1>15, <1>16, <1>17, BooksStep DEF c, d
<1>19. QED BY <1>1, <1>2, <1>16, <1>18 DEF CheckpointPast

\* Where no position and no index moves the books stand still.
LEMMA QuietBooks ==
  ASSUME BorrowInv, CdpInv', AlwaysSettles', BorrowLedgerNext, UNCHANGED rewards_paid,
         UNCHANGED <<position, rewardVars>>, slot' >= slot
  PROVE  BooksSolvent' /\ CheckpointPast' /\ rounded' \in Nat
<1>1. rounded' = rounded
  BY NothingRounded DEF RoundsDebt
<1>2. reward_per_token' = reward_per_token /\ last_checkpoint_slot' = last_checkpoint_slot
  BY DEF rewardVars
<1>3. BooksSolvent'
  BY <1>1, <1>2 DEF BorrowInv, BooksSolvent, Credits, CreditAt, EmittedBy
<1>4. CheckpointPast'
  BY <1>2 DEF BorrowInv, CheckpointPast, CdpInv, CdpScalars
<1>5. QED BY <1>1, <1>3, <1>4 DEF BorrowInv

-----------------------------------------------------------------------------
(* The theorem *)

LEMMA BorrowLedgerRefines ==
  /\ BorrowLedgerInit => CdpInit
  /\ [BorrowLedgerNext]_borrowLedgerVars => [CdpNext]_allVars
<1>1. BorrowLedgerInit => CdpInit
  BY DEF BorrowLedgerInit
<1>2. ASSUME NEW p \in Positions, Claimed(p) PROVE CdpNext
  BY <1>2 DEF Claimed, Settles, CdpNext
<1>3. BorrowLedgerNext => CdpNext
  BY <1>2 DEF BorrowLedgerNext, NothingClaimed
<1>4. QED BY <1>1, <1>3 DEF borrowLedgerVars

LEMMA BorrowInitHolds == BorrowLedgerInit => CheckpointPast /\ BooksSolvent
<1> SUFFICES ASSUME BorrowLedgerInit PROVE CheckpointPast /\ BooksSolvent
  OBVIOUS
<1> DEFINE f == [p \in Positions |-> CreditAt(position[p], reward_per_token)]
<1>1. CdpInit /\ CdpInv /\ rewards_paid = 0 /\ rounded = 0
  BY CdpInitEstablishes DEF BorrowLedgerInit
<1>2. /\ position = [p \in Positions |-> NoPosition]
      /\ last_checkpoint_slot = slot /\ slot \in Nat /\ reward_per_token \in Nat
      /\ last_checkpoint_slot \in Nat
  BY <1>1 DEF CdpInit, BorrowRewardsInit, CdpInv, CdpScalars
<1>3. \A p \in Positions : f[p] = 0
  <2>1. 0 * reward_per_token = 0 /\ 0 * REWARD_SCALE = 0
    BY <1>2, TypeOfCdpConstants
  <2>2. CreditAt(NoPosition, reward_per_token) = 0
    BY <2>1 DEF CreditAt, NoPosition
  <2>3. QED BY <1>2, <2>2
<1>4. SumFunctionOnSet(f, Positions) = 0
  <2> HIDE DEF f
  <2>1. QED BY <1>3, TypeOfCdpConstants, SumZero
<1>5. Credits(position, reward_per_token) = 0
  BY <1>4 DEF Credits
<1>6. (EmittedBy(last_checkpoint_slot) + 0) * REWARD_SCALE \in Nat
  BY <1>2, EmittedByType, TypeOfCdpConstants, MulDistributes
<1>7. 0 * REWARD_SCALE = 0
  BY TypeOfCdpConstants
<1>8. QED BY <1>1, <1>2, <1>5, <1>6, <1>7 DEF BooksSolvent, CheckpointPast

LEMMA BorrowNext ==
  BorrowInv /\ CdpInv' /\ AlwaysSettles' /\ DebtIsPrincipal'
    /\ [BorrowLedgerNext]_borrowLedgerVars => BorrowInv'
<1> SUFFICES ASSUME BorrowInv, CdpInv', AlwaysSettles', DebtIsPrincipal',
                    [BorrowLedgerNext]_borrowLedgerVars
             PROVE  BooksSolvent' /\ CheckpointPast'
                    /\ rewards_paid' \in Nat /\ rounded' \in Nat
  BY DEF BorrowInv
<1>1. CdpInv /\ AlwaysSettles /\ rewards_paid \in Nat
  BY DEF BorrowInv
<1>2. CASE UNCHANGED borrowLedgerVars
  <2>1. /\ UNCHANGED <<position, rewardVars, slot, rewards_paid, rounded>>
    BY <1>2 DEF borrowLedgerVars, allVars, cdpVars, worldVars
  <2>2. QED BY <2>1 DEF BorrowInv, BooksSolvent, CheckpointPast, Credits, CreditAt,
        EmittedBy, rewardVars
<1>3. ASSUME BorrowLedgerNext, NEW p \in Positions, Claimed(p)
      PROVE  BooksSolvent' /\ CheckpointPast' /\ rewards_paid' \in Nat /\ rounded' \in Nat
  BY <1>3, ClaimBooks
<1>4. CASE BorrowLedgerNext /\ NothingClaimed
  <2>1. /\ CdpNext /\ UNCHANGED rewards_paid
        /\ \A p \in Positions : ~ClaimBorrowRewards(p)
    BY <1>4 DEF NothingClaimed
  <2> SUFFICES BooksSolvent' /\ CheckpointPast' /\ rounded' \in Nat
    BY <1>1, <2>1
  <2>2. ASSUME NEW p \in Positions, \E new : Gains(p, new)
        PROVE  BooksSolvent' /\ CheckpointPast' /\ rounded' \in Nat
    BY <1>4, <2>1, <2>2, GainsBooks
  <2>3. CASE UNCHANGED <<position, rewardVars>> /\ slot' >= slot
    BY <1>1, <1>4, <2>1, <2>3, QuietBooks
  <2>4. CASE PoolStep \/ CdpAuthority \/ World
    BY <1>1, <2>3, <2>4, QuietGains
  <2>5. ASSUME NEW p \in Positions, Borrows(p) \/ Settles(p)
        PROVE  BooksSolvent' /\ CheckpointPast' /\ rounded' \in Nat
    BY <1>1, <2>1, <2>2, <2>5, BorrowsGains, SettlesGains
  <2>6. CASE Anybody /\ ~CheckpointBorrowRewards
    <3>1. UNCHANGED <<position, rewardVars, slot>>
            => UNCHANGED <<position, rewardVars>> /\ slot' >= slot
      BY <1>1 DEF CdpInv, CdpScalars
    <3>2. CASE UNCHANGED <<position, rewardVars, slot>>
      BY <2>3, <3>1, <3>2
    <3>3. QED BY <1>1, <2>2, <2>6, <3>2, AnybodyGains
  <2>7. CASE CheckpointBorrowRewards
    BY <1>4, <2>1, <2>7, CheckpointBooks
  <2>8. QED BY <1>1, <2>1, <2>4, <2>5, <2>6, <2>7 DEF CdpNext
<1>5. QED BY <1>2, <1>3, <1>4 DEF BorrowLedgerNext

\* What is owed is covered by the credits.
LEMMA OwedCovered == BorrowInv => BorrowersWithinEmissions
<1> SUFFICES ASSUME BorrowInv PROVE BorrowersWithinEmissions
  OBVIOUS
<1> DEFINE s == REWARD_SCALE
           f == [p \in Positions |-> RewardOf(position[p])]
           fs == [p \in Positions |-> RewardOf(position[p]) * s]
           g == [p \in Positions |-> CreditAt(position[p], reward_per_token)]
           c == Credits(position, reward_per_token)
           last == EmittedBy(last_checkpoint_slot)
<1>1. /\ CdpInv /\ AlwaysSettles /\ rewards_paid \in Nat /\ rounded \in Nat
      /\ s \in Nat /\ s > 0 /\ c \in Nat
      /\ rewards_paid * s + c <= (last + rounded) * s
  BY CreditsType, TypeOfCdpConstants DEF BorrowInv, BooksSolvent, CreditsNatural
<1>2. /\ last \in Nat /\ EmittedBy(slot) \in Nat /\ last <= EmittedBy(slot)
  <2>1. /\ last_checkpoint_slot \in Nat /\ slot \in Nat /\ last_checkpoint_slot <= slot
    BY DEF BorrowInv, CdpInv, CdpScalars, CheckpointPast
  <2>2. last \in Nat /\ EmittedBy(slot) \in Nat
    BY <2>1, EmittedByType
  <2>3. last <= EmittedBy(slot)
    BY <2>1, ScaledMono, TypeOfCdpConstants DEF EmittedBy
  <2>4. QED BY <2>2, <2>3
<1>3. \A p \in Positions : /\ RewardOf(position[p]) \in Nat
                           /\ CreditAt(position[p], reward_per_token) \in Nat
                           /\ RewardOf(position[p]) * s
                                <= CreditAt(position[p], reward_per_token)
  BY <1>1, OpenFits, CreditType DEF AlwaysSettles, CanSettle
<1>4. \A p \in Positions : /\ f[p] \in Nat /\ fs[p] \in Nat /\ g[p] \in Nat
                           /\ fs[p] = f[p] * s /\ fs[p] <= g[p]
  <2> HIDE DEF s
  <2>1. \A p \in Positions : RewardOf(position[p]) * s \in Nat
    BY <1>1, <1>3, MulDistributes
  <2>2. QED BY <1>3, <2>1
<1>5. /\ RewardsOwed = SumFunctionOnSet(f, Positions)
      /\ c = SumFunctionOnSet(g, Positions)
  BY DEF RewardsOwed, Credits
<1> HIDE DEF s, f, fs, g, c, last
<1>6. SumFunctionOnSet(fs, Positions) = SumFunctionOnSet(f, Positions) * s
  BY <1>1, <1>4, TypeOfCdpConstants, SumScale
<1>7. SumFunctionOnSet(fs, Positions) <= SumFunctionOnSet(g, Positions)
  BY <1>4, TypeOfCdpConstants, SumMono
<1>8. RewardsOwed \in Nat /\ RewardsOwed * s <= c
  BY <1>4, <1>5, <1>6, <1>7, TypeOfCdpConstants, SumNat
<1>9. rewards_paid + RewardsOwed <= last + rounded
  <2>1. last + rounded \in Nat
    BY <1>1, <1>2
  <2>2. QED BY <1>1, <1>8, <2>1, BudgetCovers
<1>10. QED BY <1>1, <1>2, <1>8, <1>9 DEF BorrowersWithinEmissions

\* Through late checkpoints, loans that open, grow, shrink, are liquidated and open
\* again, the borrowers are never paid and owed more RISE than the schedule emits, but
\* for a base unit per reward debt rounded down.
THEOREM BorrowersAlwaysWithinEmissions == BorrowLedgerSpec => []BorrowersWithinEmissions
<1>1. BorrowLedgerSpec => CdpSpec
  BY BorrowLedgerRefines, PTL DEF BorrowLedgerSpec, CdpSpec
<1>2. BorrowLedgerInit => rewards_paid \in Nat /\ rounded \in Nat
  BY DEF BorrowLedgerInit
<1>3. CdpInv /\ AlwaysSettles /\ DebtIsPrincipal /\ rewards_paid \in Nat
        /\ rounded \in Nat /\ CheckpointPast /\ BooksSolvent => BorrowInv
  BY DEF BorrowInv
<1>4. QED BY <1>1, <1>2, <1>3, CdpSpecInductive, SettlesAlways, DebtAlwaysPrincipal,
      BorrowInitHolds, BorrowNext, OwedCovered, PTL DEF BorrowLedgerSpec

-----------------------------------------------------------------------------
(* The collateral.  A step that moves one position gives the vault what it   *)
(* adds to the position, or takes what it takes from it.                     *)

VaultGain == collateral_vault' - collateral_vault

\* The position keeps its account; if it is closed, no collateral moves.
Carries(p, new) ==
  /\ position' = [position EXCEPT ![p] = new]
  /\ new.exists
  /\ new.collateral <= position[p].collateral + VaultGain
  /\ new.is_open => position[p].is_open \/ ~position[p].exists
  /\ ~new.is_open => VaultGain = 0

\* Its collateral is handed over, and the account stays behind.
HandsOver(p, new) ==
  /\ Returns(p)
  /\ position' = [position EXCEPT ![p] = new]
  /\ new.exists /\ ~new.is_open
  /\ position[p].collateral + VaultGain = 0

\* The account goes with its collateral.
Vanishes(p) ==
  /\ ClaimCollateral(p)
  /\ position' = [position EXCEPT ![p] = NoPosition]
  /\ position[p].collateral + VaultGain >= 0

Stays == UNCHANGED position /\ (Sells \/ VaultGain = 0)

Accounts ==
  \/ Stays
  \/ \E p \in Positions : \/ Vanishes(p)
                          \/ Lapses(p) /\ VaultGain = 0
                          \/ \E new : Carries(p, new) \/ HandsOver(p, new)

\* An instruction that leaves the collateral of an open position in the vault.
LEMMA SameAccountCarries ==
  ASSUME CdpInv, NEW p \in Positions, NEW new, SameAccount(new, position[p]),
         position[p].exists, UNCHANGED collateral_vault,
         position' = [position EXCEPT ![p] = new]
  PROVE  Carries(p, new)
<1>1. collateral_vault \in Nat /\ position[p].collateral \in Nat
  BY OpenFits DEF CdpInv, CdpScalars
<1>2. VaultGain = 0
  BY <1>1 DEF VaultGain
<1>3. QED BY <1>1, <1>2 DEF Carries, SameAccount

LEMMA OpenPositionAccounted ==
  ASSUME CdpInv, NEW p \in Positions, NEW deposit \in Deposits, NEW loan \in Loans,
         OpenPosition(p, deposit, loan)
  PROVE  Accounts
<1> DEFINE blank == [NoPosition EXCEPT !.exists = TRUE, !.is_open = TRUE,
                                       !.collateral = deposit, !.tracked = TRUE,
                                       !.last_accrual_slot = slot]
           new == WithPrincipal(blank, loan)
<1>1. /\ deposit \in Nat /\ loan \in Nat /\ slot \in Nat /\ collateral_vault \in Nat
      /\ position[p].collateral \in Nat
  BY OpenFits, TypeOfCdpConstants DEF CdpInv, CdpScalars
<1>2. /\ position' = [position EXCEPT ![p] = new] /\ ~position[p].exists
      /\ collateral_vault' = collateral_vault + deposit
  BY DEF OpenPosition, OpenPositionAccounts
<1>3. /\ blank.exists /\ blank.is_open /\ blank.collateral = deposit
      /\ blank \in PositionType /\ blank.last_accrual_slot <= slot
  <2>1. blank \in PositionType /\ blank.last_accrual_slot = slot
    BY <1>1 DEF NoPosition, PositionType
  <2>2. blank.exists /\ blank.is_open /\ blank.collateral = deposit
    BY DEF NoPosition
  <2> HIDE DEF blank
  <2>3. QED BY <1>1, <2>1, <2>2
<1> HIDE DEF blank
<1>4. SameAccount(new, blank)
  BY <1>1, <1>3, WithPrincipalKeeps DEF OnTime
<1> HIDE DEF new
<1>5. VaultGain = deposit
  BY <1>1, <1>2 DEF VaultGain
<1>6. Carries(p, new)
  BY <1>1, <1>2, <1>3, <1>4, <1>5 DEF Carries, SameAccount
<1>7. QED BY <1>6 DEF Accounts

LEMMA BorrowsAccounted ==
  ASSUME CdpInv, NEW p \in Positions, Borrows(p)
  PROVE  Accounts
<1>1. /\ collateral_vault \in Nat /\ position[p].collateral \in Nat
      /\ position[p] \in PositionType /\ OnTime(position[p])
      /\ position[p].is_open => position[p].exists
  BY OpenFits DEF CdpInv, CdpScalars
<1>2. ASSUME NEW amount \in Deposits, AddCollateral(p, amount)
      PROVE  Accounts
  <2> DEFINE c == position[p].collateral + amount
             new == [position[p] EXCEPT !.collateral = c]
  <2>1. /\ position' = [position EXCEPT ![p] = new] /\ position[p].is_open
        /\ collateral_vault' = collateral_vault + amount /\ amount \in Nat
    BY <1>2, TypeOfCdpConstants DEF AddCollateral
  <2>2. c \in Nat /\ c = position[p].collateral + amount
    BY <1>1, <2>1
  <2> HIDE DEF c
  <2>3. /\ new.exists = position[p].exists /\ new.is_open = position[p].is_open
        /\ new.collateral = c
    BY <1>1 DEF PositionType
  <2> HIDE DEF new
  <2>4. VaultGain = amount
    BY <1>1, <2>1 DEF VaultGain
  <2>5. Carries(p, new)
    BY <1>1, <2>1, <2>2, <2>3, <2>4 DEF Carries
  <2>6. QED BY <2>5 DEF Accounts
<1>3. ASSUME NEW amount \in Deposits, WithdrawExcess(p, amount)
      PROVE  Accounts
  <2> DEFINE pos == Accrue(position[p])
             c == pos.collateral - amount
             new == [pos EXCEPT !.collateral = c]
  <2>1. /\ position' = [position EXCEPT ![p] = new] /\ pos.is_open
        /\ collateral_vault' = collateral_vault - amount /\ amount \in Nat
    BY <1>3, TypeOfCdpConstants DEF WithdrawExcess, ReturnCollateral
  <2>2. SameAccount(pos, position[p]) /\ pos \in PositionType
    BY <1>1, AccrueKeeps DEF OnTime
  <2> HIDE DEF pos
  <2>3. c = position[p].collateral - amount
    BY <2>2 DEF SameAccount
  <2> HIDE DEF c
  <2>4. new.exists = pos.exists /\ new.is_open = pos.is_open /\ new.collateral = c
    BY <2>2 DEF PositionType
  <2> HIDE DEF new
  <2>5. VaultGain = -amount
    BY <1>1, <2>1 DEF VaultGain
  <2>6. Carries(p, new)
    BY <1>1, <2>1, <2>2, <2>3, <2>4, <2>5 DEF Carries, SameAccount
  <2>7. QED BY <2>6 DEF Accounts
<1>4. ASSUME NEW extra \in Loans, BorrowMore(p, extra)
      PROVE  Accounts
  <2> DEFINE pos == Accrue(position[p])
             n == pos.principal + extra
             new == WithPrincipal(Settle(pos), n)
  <2>1. /\ position' = [position EXCEPT ![p] = new] /\ position[p].is_open
        /\ CanSettle(pos) /\ UNCHANGED collateral_vault /\ extra \in Nat
    BY <1>4, TypeOfCdpConstants
       DEF BorrowMore, IssueMore, BorrowMoreAccounts, collateralVars, cdpVaultVars
  <2>2. OnTime(pos) /\ SameAccount(pos, position[p])
    BY <1>1, AccrueKeeps
  <2> HIDE DEF pos
  <2>3. n \in Nat
    BY <2>1, <2>2, PositionFields DEF OnTime
  <2>4. OnTime(Settle(pos)) /\ SameAccount(Settle(pos), pos)
    BY <2>1, <2>2, SettleKeeps
  <2> HIDE DEF n
  <2>5. SameAccount(new, Settle(pos))
    BY <2>3, <2>4, WithPrincipalKeeps
  <2> HIDE DEF new
  <2>6. SameAccount(new, position[p])
    BY <2>2, <2>4, <2>5 DEF SameAccount
  <2>7. Carries(p, new)
    BY <1>1, <2>1, <2>6, SameAccountCarries
  <2>8. QED BY <2>7 DEF Accounts
<1>5. QED BY <1>2, <1>3, <1>4, OpenPositionAccounted DEF Borrows

\* A repayment moves no collateral, and closes the position when it is the last.
LEMMA RecordAccounted ==
  ASSUME CdpInv, NEW p \in Positions, NEW payment \in Nat, NEW divert,
         CanSettle(position[p]), position[p].is_open, UNCHANGED collateral_vault,
         Record(p, Repaid(p, payment).after, divert)
  PROVE  Accounts
<1> DEFINE pos == Repaid(p, payment).after
           new == IF Owed(pos) = 0 THEN Closed(pos, divert) ELSE pos
<1>1. pos \in PositionType /\ SameAccount(pos, position[p])
  BY RepaidType DEF OnTime
<1>2. position' = [position EXCEPT ![p] = new]
  BY DEF Record
<1>3. /\ position[p].exists /\ position[p].collateral \in Nat
      /\ collateral_vault \in Nat
  BY OpenFits DEF CdpInv, CdpScalars
<1> HIDE DEF pos
<1>4. new.exists = pos.exists /\ new.collateral = pos.collateral
  BY <1>1 DEF Closed, PositionType
<1> HIDE DEF new
<1>5. VaultGain = 0
  BY <1>3 DEF VaultGain
<1>6. Carries(p, new)
  BY <1>1, <1>2, <1>3, <1>4, <1>5 DEF Carries, SameAccount
<1>7. QED BY <1>6 DEF Accounts

\* A closed or liquidated position leaves its account behind.
LEMMA CancelAccounted ==
  ASSUME CdpInv, NEW p \in Positions, Returns(p), CanSettle(position[p]),
         position[p].is_open,
         collateral_vault' = collateral_vault - position[p].collateral,
         position' = [position EXCEPT ![p] =
           WithPrincipal([Settle(position[p]) EXCEPT !.is_open = FALSE,
                                                     !.interest = 0], 0)]
  PROVE  Accounts
<1> DEFINE s == Settle(position[p])
           rest == [s EXCEPT !.is_open = FALSE, !.interest = 0]
           new == WithPrincipal(rest, 0)
<1>1. OnTime(s) /\ SameAccount(s, position[p]) /\ position[p].exists
  BY OpenFits, SettleKeeps
<1> HIDE DEF s
<1>2. /\ rest \in PositionType /\ ~rest.is_open /\ rest.exists = s.exists
      /\ rest.last_accrual_slot = s.last_accrual_slot
  BY <1>1 DEF OnTime, PositionType
<1> HIDE DEF rest
<1>3. SameAccount(new, rest)
  BY <1>1, <1>2, WithPrincipalKeeps DEF OnTime
<1>4. position' = [position EXCEPT ![p] = new]
  BY DEF s, rest
<1> HIDE DEF new
<1>5. position[p].collateral + VaultGain = 0
  BY OpenFits DEF CdpInv, CdpScalars, VaultGain
<1>6. HandsOver(p, new)
  BY <1>1, <1>2, <1>3, <1>4, <1>5 DEF HandsOver, SameAccount
<1>7. QED BY <1>6 DEF Accounts

LEMMA SettlesAccounted ==
  ASSUME CdpInv, NEW p \in Positions, Settles(p)
  PROVE  Accounts
<1>1. /\ collateral_vault \in Nat /\ position[p].collateral \in Nat
      /\ position[p] \in PositionType
  BY OpenFits DEF CdpInv, CdpScalars
<1>2. ASSUME NEW payment \in Payments,
             RepayDebt(p, payment) \/ RepayDebtSpl(p, payment)
                \/ RepayDebtRiseSol(p, payment)
      PROVE  Accounts
  <2>1. payment \in Nat /\ SolToRiseSol(payment) \in Nat
    BY TypeOfCdpConstants, ConversionTypes DEF CdpInv
  <2>2. CASE RepayDebt(p, payment)
    BY <2>1, <2>2, RecordAccounted
       DEF RepayDebt, RepayDebtAccounts, SettleInSol, collateralVars, cdpVaultVars
  <2>3. CASE RepayDebtSpl(p, payment)
    BY <2>1, <2>3, RecordAccounted
       DEF RepayDebtSpl, RepayDebtSplAccounts, RepayDebtAccounts, SettleInSol,
           collateralVars, cdpVaultVars
  <2>4. CASE RepayDebtRiseSol(p, payment)
    BY <2>1, <2>4, RecordAccounted
       DEF RepayDebtRiseSol, RepayDebtRiseSolAccounts, collateralVars, cdpVaultVars
  <2>5. QED BY <1>2, <2>2, <2>3, <2>4
<1>3. CASE ClosePosition(p)
  BY <1>3, CancelAccounted DEF ClosePosition, ClosePositionAccounts, ReturnCollateral, Returns
<1>4. CASE ClaimCollateral(p)
  <2>1. /\ position' = [position EXCEPT ![p] = NoPosition]
        /\ collateral_vault' = Monus(collateral_vault, position[p].collateral)
    BY <1>4 DEF ClaimCollateral
  <2>2. position[p].collateral + VaultGain >= 0
    BY <1>1, <2>1 DEF VaultGain, Monus
  <2>3. QED BY <1>4, <2>1, <2>2 DEF Accounts, Vanishes
<1>5. CASE ClaimBorrowRewards(p)
  <2> DEFINE synced == WithPrincipal(position[p], position[p].principal)
             new == [synced EXCEPT !.pending_rewards = 0]
  <2>1. /\ position' = [position EXCEPT ![p] = new] /\ position[p].exists
        /\ UNCHANGED collateral_vault
    BY <1>5 DEF ClaimBorrowRewards, collateralVars, cdpVaultVars
  <2>2. SameAccount(synced, position[p]) /\ synced \in PositionType
    BY OpenFits, WithPrincipalKeeps DEF OnTime
  <2> HIDE DEF synced
  <2>3. SameAccount(new, position[p])
    BY <2>2 DEF SameAccount, PositionType
  <2> HIDE DEF new
  <2>4. QED BY <2>1, <2>3, SameAccountCarries DEF Accounts
<1>6. QED BY <1>2, <1>3, <1>4, <1>5 DEF Settles

\* The excess that a liquidation returns is part of the collateral.
LEMMA ExcessFits ==
  ASSUME CdpInv, NEW p \in Positions, PythPrice
  PROVE  /\ ExcessCollateral(position[p]) \in Nat
         /\ ExcessCollateral(position[p]) <= position[p].collateral
<1> DEFINE c == position[p].collateral
           v == CollateralUsd(c)
           m == Monus(v, SolUsd(Owed(position[p])))
           e == UsdToCollateral(m)
<1>1. /\ price \in Nat /\ price > 0 /\ c \in Nat
      /\ position[p].principal + position[p].interest \in Nat
  BY OpenFits, TypeOfCdpConstants DEF CdpInv, CdpScalars, PythPrice
<1>2. /\ v \in Nat /\ v * DECIMAL_SCALE <= c * price
      /\ SolUsd(Owed(position[p])) \in Nat
  <2>1. c * price \in Nat
    BY <1>1, MulDistributes
  <2>2. QED BY <1>1, <2>1, DivBounds, UsdType, TypeOfCdpConstants
        DEF CollateralUsd, CdpInv, Owed
<1>3. m \in Nat /\ m <= v
  <2> HIDE DEF v
  <2>1. QED BY <1>2, LeastType
<1>4. ExcessCollateral(position[p]) = e
  BY DEF ExcessCollateral
<1> HIDE DEF m, c, v
<1>5. /\ m * DECIMAL_SCALE \in Nat /\ v * DECIMAL_SCALE \in Nat /\ c * price \in Nat
      /\ m * DECIMAL_SCALE <= v * DECIMAL_SCALE
  BY <1>1, <1>2, <1>3, MulMono, MulDistributes, TypeOfCdpConstants
<1>6. e \in Nat /\ e * price <= m * DECIMAL_SCALE
  BY <1>1, <1>5, DivBounds DEF UsdToCollateral
<1> HIDE DEF e
<1>7. e * price \in Nat
  BY <1>1, <1>6, MulDistributes
<1>8. e * price <= c * price
  BY <1>2, <1>5, <1>6, <1>7
<1>9. e <= c
  BY <1>1, <1>6, <1>8, MulCancel
<1>10. QED BY <1>4, <1>6, <1>9 DEF c

LEMMA AnybodyAccounted ==
  ASSUME CdpInv, Anybody
  PROVE  Accounts
<1>1. collateral_vault \in Nat
  BY DEF CdpInv, CdpScalars
<1>2. ASSUME NEW p \in Positions, AccrueInterest(p)
      PROVE  Accounts
  <2> DEFINE i == position[p].interest + Interest(position[p])
             new == [position[p] EXCEPT !.interest = i, !.last_accrual_slot = slot]
  <2>1. /\ position' = [position EXCEPT ![p] = new] /\ position[p].is_open
        /\ UNCHANGED collateral_vault
    BY <1>2 DEF AccrueInterest, collateralVars, cdpVaultVars, CdpInv, PositionsFit,
       PositionType
  <2> HIDE DEF i
  <2>2. SameAccount(new, position[p]) /\ position[p].exists
    BY <2>1, OpenFits DEF PositionType, SameAccount
  <2> HIDE DEF new
  <2>3. QED BY <2>1, <2>2, SameAccountCarries DEF Accounts
<1>3. ASSUME NEW p \in Positions, NEW proceeds \in SwapOutputs, Liquidate(p, proceeds)
      PROVE  Accounts
  <2> DEFINE pos == position[p]
             back == ExcessCollateral(pos)
             swapped == Monus(pos.collateral, back)
  <2>1. /\ collateral_vault' = collateral_vault - back - swapped
        /\ PythPrice /\ pos.is_open /\ CanSettle(pos)
        /\ position' = [position EXCEPT ![p] =
             WithPrincipal([Settle(pos) EXCEPT !.is_open = FALSE, !.interest = 0], 0)]
        /\ Returns(p)
    BY <1>3 DEF Liquidate, LiquidateAccounts, CancelDebt, Returns
  <2>2. back \in Nat /\ back <= pos.collateral /\ pos.collateral \in Nat
    BY <2>1, ExcessFits, OpenFits
  <2>3. swapped = pos.collateral - back
    BY <2>2 DEF Monus
  <2> HIDE DEF swapped, back
  <2>4. collateral_vault' = collateral_vault - pos.collateral
    BY <1>1, <2>1, <2>2, <2>3
  <2>5. QED BY <2>1, <2>4, CancelAccounted
<1>4. ASSUME NEW requested \in Deposits, NEW proceeds \in SwapOutputs,
             RedeemCollateralForLiquidity(requested, proceeds)
      PROVE  Accounts
  <2>1. Sells
    BY <1>4 DEF Sells
  <2>2. UNCHANGED position
    BY <1>4 DEF RedeemCollateralForLiquidity
  <2>3. QED BY <2>1, <2>2 DEF Accounts, Stays
<1>5. CASE CheckpointBorrowRewards
             \/ \E total_verise \in VeriseSupplies : CollectCdpFees(total_verise)
  <2>1. UNCHANGED <<position, collateral_vault>>
    BY <1>5 DEF CheckpointBorrowRewards, CollectCdpFees, collateralVars, cdpVaultVars
  <2>2. QED BY <1>1, <2>1 DEF Accounts, Stays, VaultGain
<1>6. QED BY <1>2, <1>3, <1>4, <1>5 DEF Anybody

\* Every step accounts for the collateral it moves.
LEMMA StepsAccount ==
  ASSUME CdpInv, [CdpNext \/ Maintenance]_allVars
  PROVE  Accounts
<1>1. collateral_vault \in Nat
  BY DEF CdpInv, CdpScalars
<1>2. ASSUME UNCHANGED <<position, collateral_vault>>
      PROVE  Accounts
  BY <1>1, <1>2 DEF Accounts, Stays, VaultGain
<1>3. CASE PoolStep \/ UNCHANGED allVars
  BY <1>2, <1>3 DEF PoolStep, allVars, cdpVars, collateralVars, cdpVaultVars
<1>4. CASE CdpAuthority
  BY <1>2, <1>4 DEF CdpAuthority, UpdateDebtCeiling, UpdateCollateralConfig,
     UpdatePaymentConfig, collateralVars, cdpVaultVars
<1>5. CASE World
  BY <1>2, <1>5 DEF World, MovePrice, NextSlot, cdpVars, collateralVars, cdpVaultVars
<1>6. CASE CloseBorrowRewards \/ InitializeBorrowRewards
  BY <1>2, <1>6 DEF CloseBorrowRewards, InitializeBorrowRewards, collateralVars,
     cdpVaultVars
<1>7. ASSUME NEW p \in Positions, NEW q \in Positions, CloseStalePosition(p, q)
      PROVE  Accounts
  <2>1. Lapses(p) /\ UNCHANGED collateral_vault
    BY <1>7, CloseStalePositionStep
  <2>2. VaultGain = 0
    BY <1>1, <2>1 DEF VaultGain
  <2>3. QED BY <2>1, <2>2 DEF Accounts
<1>8. QED BY <1>3, <1>4, <1>5, <1>6, <1>7, BorrowsAccounted, SettlesAccounted,
      AnybodyAccounted DEF CdpNext, Maintenance

HeldAt(p) == IF p \in returned THEN 0 ELSE position[p].collateral

HeldSum == SumFunctionOnSet([p \in Positions |-> HeldAt(p)], Positions)

LEMMA HeldIsSum == HeldCollateral = HeldSum /\ HeldCollateral' = HeldSum'
  BY DEF HeldCollateral, HeldSum, HeldAt

\* A position in returned is an account that stays behind, closed.
HistInv ==
  /\ CdpInv
  /\ returned \subseteq {p \in Positions : position[p].exists /\ ~position[p].is_open}
  /\ sold \in Int
  /\ claimed_twice \in Int
  /\ CollateralAccountedFor

LEMMA HeldType ==
  ASSUME CdpInv, NEW p \in Positions
  PROVE  HeldAt(p) \in Nat
  BY OpenFits DEF HeldAt

\* A position that does not move is not held for more.
LEMMA HeldRemains ==
  ASSUME HistInv, CollateralNext, NEW p \in Positions,
         SameAccount(position'[p], position[p])
  PROVE  HeldAt(p)' <= HeldAt(p) /\ (p \in returned => p \in returned')
<1>1. p \in returned => p \in returned'
  BY DEF CollateralNext, HistInv, SameAccount
<1>2. position[p].collateral \in Nat /\ position'[p].collateral = position[p].collateral
  BY OpenFits DEF HistInv, SameAccount
<1>3. QED BY <1>1, <1>2 DEF HeldAt

LEMMA HeldSumType == CdpInv => HeldSum \in Nat
<1> SUFFICES ASSUME CdpInv PROVE HeldSum \in Nat
  OBVIOUS
<1> DEFINE f == [p \in Positions |-> HeldAt(p)]
<1>1. \A p \in Positions : f[p] \in Nat
  BY HeldType
<1>2. HeldSum = SumFunctionOnSet(f, Positions)
  BY DEF HeldSum
<1> HIDE DEF f
<1>3. QED BY <1>1, <1>2, TypeOfCdpConstants, SumNat

LEMMA HeldSumTypeNext == CdpInv' => HeldSum' \in Nat
<1> SUFFICES ASSUME CdpInv' PROVE HeldSum' \in Nat
  OBVIOUS
<1> DEFINE g == [p \in Positions |-> HeldAt(p)']
<1>1. ASSUME NEW p \in Positions PROVE g[p] \in Nat
  <2>1. position'[p].collateral \in Nat
    BY DEF CdpInv, PositionsFit, PositionType
  <2>2. QED BY <2>1 DEF HeldAt
<1>2. HeldSum' = SumFunctionOnSet(g, Positions)
  BY DEF HeldSum
<1> HIDE DEF g
<1>3. QED BY <1>1, <1>2, TypeOfCdpConstants, SumNat

LEMMA HeldShrinks ==
  ASSUME HistInv, CdpInv', CollateralNext,
         \A p \in Positions : HeldAt(p)' <= HeldAt(p)
  PROVE  HeldSum' <= HeldSum
<1> DEFINE f == [p \in Positions |-> HeldAt(p)]
           g == [p \in Positions |-> HeldAt(p)']
<1>1. ASSUME NEW p \in Positions
      PROVE  HeldAt(p) \in Nat /\ HeldAt(p)' \in Nat
  <2>1. HeldAt(p) \in Nat
    BY HeldType DEF HistInv
  <2>2. position'[p].collateral \in Nat
    BY DEF CdpInv, PositionsFit, PositionType
  <2>3. QED BY <2>1, <2>2 DEF HeldAt
<1>2. \A p \in Positions : f[p] \in Int /\ g[p] \in Int /\ g[p] <= f[p]
  BY <1>1
<1>3. HeldSum = SumFunctionOnSet(f, Positions) /\ HeldSum' = SumFunctionOnSet(g, Positions)
  BY DEF HeldSum
<1> HIDE DEF f, g
<1>4. QED BY <1>2, <1>3, TypeOfCdpConstants, SumMono

LEMMA HeldStays ==
  ASSUME HistInv, CdpInv', CollateralNext, UNCHANGED position
  PROVE  HeldSum' <= HeldSum
<1>1. \A p \in Positions : SameAccount(position'[p], position[p])
  BY DEF SameAccount
<1>2. QED BY <1>1, HeldRemains, HeldShrinks

LEMMA HeldLapses ==
  ASSUME HistInv, CdpInv', CollateralNext, NEW p \in Positions, Lapses(p)
  PROVE  HeldSum' <= HeldSum
<1>1. HeldAt(p)' = 0
  BY DEF HeldAt, Lapses, SameAccount, NoPosition
<1>2. HeldAt(p)' <= HeldAt(p)
  BY <1>1, HeldType DEF HistInv
<1>3. ASSUME NEW q \in Positions, q # p
      PROVE  HeldAt(q)' <= HeldAt(q)
  BY <1>3, HeldRemains DEF Lapses
<1>4. QED BY <1>2, <1>3, HeldShrinks

LEMMA HeldErased ==
  ASSUME HistInv, CdpInv', CollateralNext, NEW p \in Positions,
         position' = [position EXCEPT ![p] = NoPosition]
  PROVE  HeldSum' <= HeldSum
<1>1. position \in [Positions -> PositionType]
  BY DEF HistInv, CdpInv, PositionsFit
<1>2. HeldAt(p)' = 0
  BY <1>1 DEF HeldAt, NoPosition
<1>3. HeldAt(p)' <= HeldAt(p)
  BY <1>2, HeldType DEF HistInv
<1>4. ASSUME NEW q \in Positions, q # p
      PROVE  HeldAt(q)' <= HeldAt(q)
  <2>1. SameAccount(position'[q], position[q])
    BY <1>1, <1>4 DEF SameAccount
  <2>2. QED BY <2>1, HeldRemains
<1>5. QED BY <1>3, <1>4, HeldShrinks

\* Where one position moves, what is held follows the vault if that position does.
LEMMA HeldFollows ==
  ASSUME HistInv, CdpInv', CollateralNext, NEW p \in Positions, NEW new,
         position' = [position EXCEPT ![p] = new],
         HeldAt(p)' <= HeldAt(p) + VaultGain
  PROVE  HeldSum' <= HeldSum + VaultGain
<1> DEFINE f == [q \in Positions |-> HeldAt(q)]
           g == [q \in Positions |-> HeldAt(q)']
           h == [q \in Positions |-> IF q = p THEN HeldAt(p)' ELSE HeldAt(q)]
<1>1. /\ position' \in [Positions -> PositionType]
      /\ position \in [Positions -> PositionType]
      /\ collateral_vault \in Nat /\ collateral_vault' \in Nat
  BY DEF HistInv, CdpInv, CdpScalars, PositionsFit
<1>2. ASSUME NEW q \in Positions
      PROVE  /\ HeldAt(q) \in Nat /\ HeldAt(q)' \in Nat
             /\ q # p => HeldAt(q)' <= HeldAt(q)
  <2>1. HeldAt(q) \in Nat
    BY HeldType DEF HistInv
  <2>2. position'[q].collateral \in Nat
    BY <1>1 DEF PositionType
  <2>3. HeldAt(q)' \in Nat
    BY <2>2 DEF HeldAt
  <2>4. q # p => SameAccount(position'[q], position[q])
    BY <1>1 DEF SameAccount
  <2>5. QED BY <2>1, <2>3, <2>4, HeldRemains
<1>3. /\ \A q \in Positions : /\ f[q] \in Int /\ g[q] \in Int /\ h[q] \in Int
                              /\ g[q] <= h[q]
      /\ \A q \in Positions \ {p} : h[q] = f[q]
      /\ f[p] = HeldAt(p) /\ h[p] = HeldAt(p)'
  BY <1>2
<1>4. HeldSum = SumFunctionOnSet(f, Positions) /\ HeldSum' = SumFunctionOnSet(g, Positions)
  BY DEF HeldSum
<1> HIDE DEF f, g, h
<1>5. SumFunctionOnSet(g, Positions) <= SumFunctionOnSet(h, Positions)
  BY <1>3, TypeOfCdpConstants, SumMono
<1>6. SumFunctionOnSet(h, Positions) = SumFunctionOnSet(f, Positions) - f[p] + h[p]
  BY <1>3, TypeOfCdpConstants, SumUpdate
<1>7. /\ SumFunctionOnSet(f, Positions) \in Int /\ SumFunctionOnSet(g, Positions) \in Int
      /\ SumFunctionOnSet(h, Positions) \in Int
  BY <1>3, TypeOfCdpConstants, SumInt
<1>8. VaultGain \in Int /\ HeldAt(p) \in Int /\ HeldAt(p)' \in Int
  BY <1>1, <1>2 DEF VaultGain
<1>9. QED BY <1>3, <1>4, <1>5, <1>6, <1>7, <1>8

\* Only an open position is closed or liquidated.
LEMMA ReturnsOpen ==
  ASSUME NEW p \in Positions, NEW new, HandsOver(p, new)
  PROVE  position[p].is_open
  BY DEF HandsOver, Returns, ClosePosition, ClosePositionAccounts, Liquidate,
     LiquidateAccounts

\* What one instruction does to the position it moves, returned before or not.
LEMMA HeldOfMoved ==
  ASSUME HistInv, CdpInv', CollateralNext, ~ClaimsTwice, NEW p \in Positions, NEW new,
         \/ Carries(p, new) \/ HandsOver(p, new)
         \/ new = NoPosition /\ Vanishes(p)
  PROVE  /\ position' = [position EXCEPT ![p] = new]
         /\ HeldAt(p)' <= HeldAt(p) + VaultGain
<1>1. /\ position \in [Positions -> PositionType] /\ position[p].collateral \in Nat
      /\ collateral_vault \in Nat /\ collateral_vault' \in Nat
      /\ p \in returned => position[p].exists /\ ~position[p].is_open
  BY OpenFits DEF HistInv, CdpInv, CdpScalars, PositionsFit
<1>2. VaultGain \in Int
  BY <1>1 DEF VaultGain
<1>3. position' = [position EXCEPT ![p] = new]
  BY DEF Carries, HandsOver, Vanishes
<1>4. position'[p] = new
  BY <1>1, <1>3
<1>5. p \in returned' <=> new.exists /\ ~new.is_open /\ (p \in returned \/ Returns(p))
  BY <1>4 DEF CollateralNext
<1>6. new.collateral \in Nat
  <2>1. position'[p] \in PositionType
    BY DEF CdpInv, PositionsFit
  <2>2. QED BY <1>4, <2>1 DEF PositionType
<1>7. HeldAt(p)' = IF p \in returned' THEN 0 ELSE new.collateral
  BY <1>4 DEF HeldAt
<1>8. CASE Carries(p, new)
  <2>1. CASE p \in returned
    BY <1>1, <1>2, <1>5, <1>7, <1>8, <2>1 DEF Carries, HeldAt
  <2>2. CASE p \notin returned
    BY <1>1, <1>2, <1>6, <1>7, <1>8, <2>2 DEF Carries, HeldAt
  <2>3. QED BY <1>3, <2>1, <2>2
<1>9. CASE HandsOver(p, new)
  <2>1. HeldAt(p)' = 0
    BY <1>5, <1>7, <1>9 DEF HandsOver
  <2>2. CASE p \notin returned
    BY <1>1, <1>2, <1>9, <2>1, <2>2 DEF HandsOver, HeldAt
  <2>3. p \notin returned
    BY <1>1, <1>9, ReturnsOpen
  <2>4. QED BY <1>3, <2>2, <2>3
<1>10. CASE new = NoPosition /\ Vanishes(p)
  <2>1. HeldAt(p)' = 0
    BY <1>7, <1>10 DEF NoPosition
  <2>2. p \notin returned
    BY <1>10 DEF Vanishes, ClaimsTwice
  <2>3. QED BY <1>1, <1>2, <1>3, <1>10, <2>1, <2>2 DEF Vanishes, HeldAt
<1>11. QED BY <1>8, <1>9, <1>10

\* A sale moves no position; a second claim erases a returned one.
LEMMA SaleMovesNothing == Sells => UNCHANGED position
  BY DEF Sells, RedeemCollateralForLiquidity

LEMMA SecondClaimErases ==
  ASSUME HistInv, NEW p \in returned, ClaimCollateral(p)
  PROVE  /\ p \in Positions /\ position[p].exists
         /\ position' = [position EXCEPT ![p] = NoPosition]
         /\ position'[p] # position[p]
<1>1. position \in [Positions -> PositionType]
  BY DEF HistInv, CdpInv, PositionsFit
<1>2. p \in Positions /\ position[p].exists
  BY DEF HistInv
<1>3. position' = [position EXCEPT ![p] = NoPosition]
  BY DEF ClaimCollateral
<1>4. position'[p] = NoPosition /\ ~NoPosition.exists
  BY <1>1, <1>2, <1>3 DEF NoPosition
<1>5. QED BY <1>2, <1>3, <1>4

LEMMA CollateralStep ==
  ASSUME HistInv, CdpInv', CollateralNext
  PROVE  CollateralAccountedFor' /\ sold' \in Int /\ claimed_twice' \in Int
<1>1. /\ HeldSum <= collateral_vault + sold + claimed_twice
      /\ collateral_vault \in Nat /\ collateral_vault' \in Nat
      /\ sold \in Int /\ claimed_twice \in Int
  BY HeldIsSum DEF HistInv, CollateralAccountedFor, CdpInv, CdpScalars
<1>2. HeldSum \in Nat /\ HeldSum' \in Nat
  <2>1. CdpInv
    BY DEF HistInv
  <2>2. QED BY <2>1, HeldSumType, HeldSumTypeNext
<1>3. /\ sold' = sold + (IF Sells THEN Paid ELSE 0)
      /\ claimed_twice' = claimed_twice + (IF ClaimsTwice THEN Paid ELSE 0)
  BY DEF CollateralNext
<1>4. /\ VaultGain \in Int /\ Paid = -VaultGain
      /\ collateral_vault' = collateral_vault + VaultGain
  <2> DEFINE v == collateral_vault
             w == collateral_vault'
  <2>1. v \in Int /\ w \in Int /\ VaultGain = w - v /\ Paid = v - w
    BY <1>1 DEF VaultGain, Paid
  <2> HIDE DEF v, w
  <2>2. VaultGain \in Int /\ Paid = -VaultGain /\ w = v + VaultGain
    BY <2>1
  <2>3. QED BY <2>2 DEF v, w
<1>5. sold' \in Int /\ claimed_twice' \in Int
  BY <1>1, <1>3, <1>4
<1> SUFFICES HeldSum' <= collateral_vault' + sold' + claimed_twice'
  BY <1>5, HeldIsSum DEF CollateralAccountedFor
<1>6. CASE Sells
  <2>1. UNCHANGED position
    BY <1>6, SaleMovesNothing
  <2>2. ~ClaimsTwice
    BY <2>1, SecondClaimErases DEF ClaimsTwice
  <2>3. HeldSum' <= HeldSum
    BY <2>1, HeldStays
  <2>4. sold' = sold - VaultGain /\ claimed_twice' = claimed_twice
    BY <1>1, <1>3, <1>4, <1>6, <2>2
  <2>5. QED BY <1>1, <1>2, <1>4, <2>3, <2>4
<1>7. CASE ClaimsTwice
  <2>1. PICK p \in returned : ClaimCollateral(p)
    BY <1>7 DEF ClaimsTwice
  <2>2. /\ p \in Positions /\ position[p].exists
        /\ position' = [position EXCEPT ![p] = NoPosition]
        /\ position'[p] # position[p]
    BY <2>1, SecondClaimErases
  <2>3. ~Sells
    BY <2>2, SaleMovesNothing
  <2>4. HeldSum' <= HeldSum
    BY <2>2, HeldErased
  <2>5. sold' = sold /\ claimed_twice' = claimed_twice - VaultGain
    BY <1>1, <1>3, <1>4, <1>7, <2>3
  <2>6. QED BY <1>1, <1>2, <1>4, <2>4, <2>5
<1>8. CASE ~Sells /\ ~ClaimsTwice
  <2>1. sold' = sold /\ claimed_twice' = claimed_twice
    BY <1>1, <1>3, <1>8
  <2>2. Accounts
    BY StepsAccount DEF HistInv, CollateralNext
  <2>3. CASE Stays
    <3>1. HeldSum' <= HeldSum /\ VaultGain = 0
      BY <1>8, <2>3, HeldStays DEF Stays
    <3>2. QED BY <1>1, <1>2, <1>4, <2>1, <3>1
  <2>4. ASSUME NEW p \in Positions, NEW new,
               \/ Carries(p, new) \/ HandsOver(p, new)
               \/ new = NoPosition /\ Vanishes(p)
        PROVE  HeldSum' <= HeldSum + VaultGain
    BY <1>8, <2>4, HeldOfMoved, HeldFollows
  <2>7. ASSUME NEW p \in Positions, Lapses(p), VaultGain = 0
        PROVE  HeldSum' <= HeldSum + VaultGain
    BY <1>2, <2>7, HeldLapses
  <2>5. CASE HeldSum' <= HeldSum + VaultGain
    BY <1>1, <1>2, <1>4, <2>1, <2>5
  <2>6. QED BY <2>2, <2>3, <2>4, <2>5, <2>7 DEF Accounts
<1>9. QED BY <1>6, <1>7, <1>8

LEMMA CollateralNextKeeps ==
  HistInv /\ CdpInv' /\ [CollateralNext]_<<allVars, historyVars>> => HistInv'
<1> SUFFICES ASSUME HistInv, CdpInv', [CollateralNext]_<<allVars, historyVars>>
             PROVE  HistInv'
  OBVIOUS
<1>1. CASE UNCHANGED <<allVars, historyVars>>
  <2>1. UNCHANGED <<position, collateral_vault, returned, sold, claimed_twice>>
    BY <1>1 DEF allVars, cdpVars, collateralVars, cdpVaultVars, historyVars
  <2>2. HeldSum' = HeldSum
    BY <2>1 DEF HeldSum, HeldAt
  <2>3. QED BY <2>1, <2>2, HeldIsSum DEF HistInv, CollateralAccountedFor
<1>2. CASE CollateralNext
  <2>1. returned' \subseteq {p \in Positions : position'[p].exists /\ ~position'[p].is_open}
    BY <1>2 DEF CollateralNext
  <2>2. QED BY <1>2, <2>1, CollateralStep DEF HistInv
<1>3. QED BY <1>1, <1>2

LEMMA CollateralInitHolds == CollateralInit => HistInv
<1> SUFFICES ASSUME CollateralInit PROVE HistInv
  OBVIOUS
<1> DEFINE f == [p \in Positions |-> HeldAt(p)]
<1>1. /\ CdpInit /\ CdpInv /\ returned = {} /\ sold = 0 /\ claimed_twice = 0
  BY CdpInitEstablishes DEF CollateralInit
<1>2. position = [p \in Positions |-> NoPosition] /\ collateral_vault \in Nat
  BY <1>1 DEF CdpInit, CdpInv, CdpScalars
<1>3. \A p \in Positions : f[p] = 0
  BY <1>1, <1>2 DEF HeldAt, NoPosition
<1>4. HeldSum = SumFunctionOnSet(f, Positions)
  BY DEF HeldSum
<1> HIDE DEF f
<1>5. HeldSum = 0
  BY <1>3, <1>4, TypeOfCdpConstants, SumZero
<1>6. CollateralAccountedFor
  BY <1>1, <1>2, <1>5, HeldIsSum DEF CollateralAccountedFor
<1>7. QED BY <1>1, <1>6 DEF HistInv

\* Every position that has not had its collateral still has it in the vault, but for
\* what was sold for the liquidity of stakers and what claim_collateral paid to
\* positions already closed or liquidated: no withdrawal, no liquidation with its
\* excess, no shortfall bought back and no stale account closed takes another's.
THEOREM CollateralAlwaysAccounted == CollateralSpec => []CollateralAccountedFor
<1>1. CollateralInit => CdpInit
  BY DEF CollateralInit
<1>2. [CollateralNext]_<<allVars, historyVars>> => [CdpNext \/ Maintenance]_allVars
  BY DEF CollateralNext
<1>3. CollateralSpec => ResetSpec
  BY <1>1, <1>2, PTL DEF CollateralSpec, ResetSpec
<1>4. HistInv => CollateralAccountedFor
  BY DEF HistInv
<1>5. QED BY <1>3, <1>4, CdpInductive, CollateralInitHolds, CollateralNextKeeps, PTL
      DEF CollateralSpec
=============================================================================
