---------------------------- MODULE CdpPositions ----------------------------
(***************************************************************************)
(* Program rise-cdp on top of the pool of StakingPool: borrowers post       *)
(* collateral and receive freshly minted riseSOL, interest accrues in       *)
(* riseSOL, debt is repaid in SOL, in another token or in riseSOL,          *)
(* unhealthy positions are liquidated, collateral is redeemed to serve      *)
(* stakers, and RISE borrow rewards accrue on the principal.                *)
(*                                                                         *)
(* One collateral mint and one SPL payment mint.  Token amounts are in base *)
(* units, prices in USD units of the oracle per whole token and per SOL, so *)
(* every conversion divides and rounds down as the code does.  Lamports of  *)
(* cdp_fee_vault are those above its rent floor; the rent of token accounts *)
(* is left out.  Jupiter and Pyth are external: a swap delivers any amount  *)
(* of a small set, the collateral price moves freely, and 0 stands for a    *)
(* moment with no acceptable price update.                                  *)
(* Fields that no instruction reads back (collateral_usd_value,             *)
(* health_factor, opened_at_slot, the queued excess withdrawal,             *)
(* total_claimed) are left out; so are the balances of the borrowers'       *)
(* collateral accounts and of the RISE rewards vault.                       *)
(***************************************************************************)
EXTENDS StakingPool

CONSTANTS
  Nonces,               \* CdpPosition.nonce: positions per wallet
  CollateralConfigs,    \* parameter sets the authority may give the mint
  Multipliers,          \* values of debt_ceiling_multiplier_bps
  MAX_SINGLE_LOAN_BPS,  \* one loan as a fraction of the ceiling (5% on chain)
  SLOTS_PER_YEAR,       \* 78_840_000 on chain
  DECIMAL_SCALE,        \* 10^decimals of the collateral mint
  LAMPORTS_PER_SOL,     \* 10^9 on chain
  SOL_PRICE,            \* Pyth SOL/USD
  Prices,               \* values of the Pyth price of the collateral, 0: none
  PaymentStates,        \* values the authority gives PaymentConfig.active
  REWARD_SCALE,         \* fixed-point one of reward_per_token (10^12 on chain)
  EPOCH_EMISSIONS,      \* RISE emitted to borrowers per epoch
  SLOTS_PER_EPOCH,
  Deposits,             \* collateral amounts borrowers post or withdraw
  Loans,                \* riseSOL amounts borrowers ask for
  Payments,             \* lamports, or riseSOL, offered as repayment
  SwapOutputs,          \* lamports Jupiter may return for seized collateral
  MaxCollateral,        \* bound: collateral of a position
  MaxEntitlements,      \* bound: total_collateral_entitlements
  MaxSlot               \* bound: last slot of the clock

ConfigType == [max_ltv_bps : 0..BPS, liquidation_threshold_bps : 0..BPS,
               liquidation_penalty_bps : 0..BPS, base_rate_bps : Nat,
               rate_slope1_bps : Nat, rate_slope2_bps : Nat,
               optimal_utilization_bps : 0..BPS, active : BOOLEAN]

\* initialize_ and update_collateral_config insist on a threshold above max LTV.
ASSUME CdpAssumption ==
  /\ IsFiniteSet(Users) /\ IsFiniteSet(Nonces)
  /\ CollateralConfigs \subseteq ConfigType
  /\ \A c \in CollateralConfigs : c.liquidation_threshold_bps > c.max_ltv_bps
  /\ Multipliers \subseteq Nat \ {0}
  /\ {SLOTS_PER_YEAR, SOL_PRICE, REWARD_SCALE, SLOTS_PER_EPOCH} \subseteq Nat \ {0}
  /\ {DECIMAL_SCALE, LAMPORTS_PER_SOL} \subseteq Nat \ {0}
  /\ Prices \subseteq Nat
  /\ PaymentStates \subseteq BOOLEAN
  /\ MAX_SINGLE_LOAN_BPS \in 0..BPS
  /\ EPOCH_EMISSIONS \in Nat
  /\ Deposits \cup Loans \cup Payments \cup SwapOutputs \subseteq Nat

VARIABLES
  position,                \* CdpPosition and its BorrowRewards, per PDA
  \* CdpConfig
  cdp_rise_sol_minted,
  debt_ceiling_multiplier_bps,
  \* CollateralConfig
  collateral_config,
  total_collateral_entitlements,
  payment_config_active,   \* PaymentConfig of the SPL token
  \* BorrowRewardsConfig
  borrow_rewards_open,     \* the account exists
  reward_per_token,
  total_cdp_debt,
  last_checkpoint_slot,
  \* vaults, oracle and clock
  collateral_vault,
  cdp_fee_vault,
  cdp_wsol_buyback_vault,
  cdp_wsol_vault_open,     \* the token account exists; it is empty between calls
  price,
  slot

debtVars == <<cdp_rise_sol_minted, total_cdp_debt>>
cdpConfigVars == <<debt_ceiling_multiplier_bps, collateral_config, payment_config_active>>
collateralVars == <<total_collateral_entitlements, collateral_vault>>
rewardVars == <<borrow_rewards_open, reward_per_token, last_checkpoint_slot>>
cdpVaultVars == <<cdp_fee_vault, cdp_wsol_buyback_vault, cdp_wsol_vault_open>>
worldVars == <<price, slot>>
cdpVars == <<position, debtVars, cdpConfigVars, collateralVars, rewardVars,
             cdpVaultVars, worldVars>>
allVars == <<vars, cdpVars>>

Positions == Users \X Nonces     \* PDA seeds: owner and nonce
OwnerOf(p) == p[1]

\* tracked: the BorrowRewards account exists.
NoPosition == [exists |-> FALSE, is_open |-> FALSE, collateral |-> 0,
               principal |-> 0, interest |-> 0, last_accrual_slot |-> 0,
               pending_buyback |-> 0,
               tracked |-> FALSE, reward_debt |-> 0, pending_rewards |-> 0]

-----------------------------------------------------------------------------
(* Helpers *)

Least(a, b) == IF a <= b THEN a ELSE b
Monus(a, b) == IF a >= b THEN a - b ELSE 0      \* saturating_sub

Owed(pos) == pos.principal + pos.interest

\* get_pyth_price: an update of the right feed, fresh, positive and certain
\* enough is at hand; otherwise the instruction fails.
PythPrice == price > 0

CollateralUsd(tokens) == (tokens * price) \div DECIMAL_SCALE
SolUsd(lamports) == (lamports * SOL_PRICE) \div LAMPORTS_PER_SOL
UsdToSol(usd) == (usd * LAMPORTS_PER_SOL) \div SOL_PRICE
UsdToCollateral(usd) == (usd * DECIMAL_SCALE) \div price

Ceiling == (staking_rise_sol_supply * debt_ceiling_multiplier_bps) \div BPS
SingleLoanCap == (Ceiling * MAX_SINGLE_LOAN_BPS) \div BPS

Utilization ==
  IF Ceiling = 0 THEN BPS ELSE Least((cdp_rise_sol_minted * BPS) \div Ceiling, BPS)

\* The kinked rate: slope1 up to the optimal utilization, slope2 beyond it.
EffectiveRate ==
  LET c == collateral_config
      optimal == c.optimal_utilization_bps
  IN IF Utilization <= optimal
     THEN c.base_rate_bps +
          (IF optimal = 0 THEN 0 ELSE (c.rate_slope1_bps * Utilization) \div optimal)
     ELSE c.base_rate_bps + c.rate_slope1_bps +
          (IF optimal = BPS THEN c.rate_slope2_bps
           ELSE (c.rate_slope2_bps * (Utilization - optimal)) \div (BPS - optimal))

Interest(pos) ==
  ((pos.principal * EffectiveRate * (slot - pos.last_accrual_slot)) \div BPS)
     \div SLOTS_PER_YEAR

\* Accrual inside borrow_more, withdraw_excess and the three repayments: the
\* slot moves only when the interest does not round to nothing.
Accrue(pos) ==
  IF Interest(pos) > 0
  THEN [pos EXCEPT !.interest = @ + Interest(pos), !.last_accrual_slot = slot]
  ELSE pos

\* health_factor >= 1.  The riseSOL owed is priced like SOL, as in open_position,
\* add_collateral and withdraw_excess; only borrow_more uses the exchange rate.
Healthy(tokens, owed) ==
  \/ SolUsd(owed) = 0
  \/ (CollateralUsd(tokens) * collateral_config.liquidation_threshold_bps) \div BPS
        >= SolUsd(owed)

Earned(pos) == (pos.principal * reward_per_token) \div REWARD_SCALE

\* BorrowRewards::settle fails when the earnings are below the reward debt.
CanSettle(pos) == Earned(pos) >= pos.reward_debt

Settle(pos) ==
  [pos EXCEPT !.pending_rewards = @ + Earned(pos) - pos.reward_debt]

WithPrincipal_Mutant_SyncedFirst(pos, principal) ==
  [pos EXCEPT !.principal = principal,
              !.reward_debt = (pos.principal * reward_per_token) \div REWARD_SCALE]

\* Every change of the principal is followed by BorrowRewards::sync_debt.
WithPrincipal(pos, principal) ==
  [pos EXCEPT !.principal = principal,
              !.reward_debt = (principal * reward_per_token) \div REWARD_SCALE]

MintDebt(amount) ==
  /\ cdp_rise_sol_minted' = cdp_rise_sol_minted + amount
  /\ total_cdp_debt' = total_cdp_debt + amount

RetireDebt_Mutant_OneCounter(amount) ==
  /\ cdp_rise_sol_minted' = Monus(cdp_rise_sol_minted, amount)
  /\ UNCHANGED total_cdp_debt

\* Principal leaves both global counters, saturating.
RetireDebt(amount) ==
  /\ cdp_rise_sol_minted' = Monus(cdp_rise_sol_minted, amount)
  /\ total_cdp_debt' = Monus(total_cdp_debt, amount)

ReleaseEntitlement_Mutant_Unsaturated(tokens) ==
  total_collateral_entitlements' = total_collateral_entitlements - tokens

ReleaseEntitlement(tokens) ==
  total_collateral_entitlements' = Monus(total_collateral_entitlements, tokens)

-----------------------------------------------------------------------------
\* What the authority's set-up leaves; each step of it runs once, its accounts
\* being created with `init`.
CollateralConfigInit ==
  /\ collateral_config \in CollateralConfigs
  /\ collateral_config.active
  /\ total_collateral_entitlements = 0
  /\ collateral_vault = 0

CdpConfigInit ==
  /\ cdp_rise_sol_minted = 0
  /\ debt_ceiling_multiplier_bps \in Multipliers

WsolVaultsInit ==
  /\ cdp_wsol_vault_open = TRUE
  /\ cdp_wsol_buyback_vault = 0

BorrowRewardsInit ==
  /\ borrow_rewards_open = TRUE
  /\ reward_per_token = 0
  /\ total_cdp_debt = 0
  /\ last_checkpoint_slot = 0

CdpInit ==
  /\ Init
  /\ CollateralConfigInit
  /\ CdpConfigInit
  /\ WsolVaultsInit
  /\ BorrowRewardsInit
  /\ payment_config_active = TRUE
  /\ position = [p \in Positions |-> NoPosition]
  /\ cdp_fee_vault = 0
  /\ price \in Prices
  /\ slot = 0

(* Instructions of borrowers *)

MaxLoan(deposit) ==
  UsdToSol((CollateralUsd(deposit) * collateral_config.max_ltv_bps) \div BPS)

\* The ceiling holds for all loans, the single-loan cap for the principal.
LoanFits(extra, principal) ==
  /\ cdp_rise_sol_minted + extra <= Ceiling
  /\ principal <= SingleLoanCap

\* The position and its BorrowRewards are created; neither may be there yet.
OpenPositionAccounts(p) ==
  ~position[p].exists /\ ~position[p].tracked /\ borrow_rewards_open

OpenPosition(p, deposit, loan) ==
  /\ OpenPositionAccounts(p)
  /\ collateral_config.active
  /\ deposit > 0
  /\ loan > 0
  /\ PythPrice
  /\ loan <= MaxLoan(deposit)
  /\ LoanFits(loan, loan)
  /\ deposit <= MaxCollateral
  /\ total_collateral_entitlements + deposit <= MaxEntitlements
  /\ position' = [position EXCEPT ![p] =
       WithPrincipal([NoPosition EXCEPT !.exists = TRUE, !.is_open = TRUE,
                                        !.collateral = deposit, !.tracked = TRUE,
                                        !.last_accrual_slot = slot], loan)]
  /\ MintDebt(loan)
  /\ MintForCdp(OwnerOf(p), loan)
  /\ total_collateral_entitlements' = total_collateral_entitlements + deposit
  /\ collateral_vault' = collateral_vault + deposit
  /\ UNCHANGED <<cdpConfigVars, rewardVars, cdpVaultVars, worldVars>>

AddCollateral(p, amount) ==
  /\ position[p].is_open
  /\ amount > 0
  /\ PythPrice
  /\ position[p].collateral + amount <= MaxCollateral
  /\ total_collateral_entitlements + amount <= MaxEntitlements
  /\ position' = [position EXCEPT ![p].collateral = @ + amount]
  /\ total_collateral_entitlements' = total_collateral_entitlements + amount
  /\ collateral_vault' = collateral_vault + amount
  /\ UNCHANGED <<vars, debtVars, cdpConfigVars, rewardVars, cdpVaultVars, worldVars>>

WithinLtv_Mutant_Unaccrued(p, extra) ==
  SolUsd(RiseSolToSol(position[p].principal + extra)) <=
    (CollateralUsd(position[p].collateral) * collateral_config.max_ltv_bps) \div BPS

\* Unlike open_position, the debt is valued at the pool's exchange rate.
WithinLtv(p, extra) ==
  LET pos == Accrue(position[p]) IN
  SolUsd(RiseSolToSol(Owed(pos) + extra)) <=
    (CollateralUsd(pos.collateral) * collateral_config.max_ltv_bps) \div BPS

\* Whatever changes a debt takes the open position, its BorrowRewards and the
\* shared reward configuration.
RewardAccounts(p) == position[p].tracked /\ borrow_rewards_open

BorrowMoreAccounts(p) == position[p].is_open /\ RewardAccounts(p)

IssueMore(p, pos, extra) ==
  /\ CanSettle(pos)
  /\ position' = [position EXCEPT ![p] =
       WithPrincipal(Settle(pos), pos.principal + extra)]
  /\ MintDebt(extra)
  /\ MintForCdp(OwnerOf(p), extra)

BorrowMore(p, extra) ==
  LET pos == Accrue(position[p]) IN
  /\ BorrowMoreAccounts(p)
  /\ extra > 0
  /\ PythPrice
  /\ WithinLtv(p, extra)
  /\ LoanFits(extra, pos.principal + extra)
  /\ IssueMore(p, pos, extra)
  /\ UNCHANGED <<cdpConfigVars, collateralVars, rewardVars, cdpVaultVars, worldVars>>

\* Collateral the debt needs at 80% of the maximum LTV.
SafeLtv == (collateral_config.max_ltv_bps * 80) \div 100
RequiredUsd(pos) == (SolUsd(Owed(pos)) * BPS) \div SafeLtv

IsExcess(pos, amount) ==
  /\ SafeLtv > 0
  /\ CollateralUsd(pos.collateral) > RequiredUsd(pos)
  /\ CollateralUsd(amount) <= CollateralUsd(pos.collateral) - RequiredUsd(pos)

ReturnCollateral(amount) ==
  /\ collateral_vault >= amount
  /\ collateral_vault' = collateral_vault - amount
  /\ ReleaseEntitlement(amount)

WithdrawExcess(p, amount) ==
  LET pos == Accrue(position[p]) IN
  /\ pos.is_open
  /\ amount > 0
  /\ PythPrice
  /\ IsExcess(pos, amount)
  /\ pos.collateral >= amount
  /\ ReturnCollateral(amount)
  /\ position' = [position EXCEPT ![p] = [pos EXCEPT !.collateral = @ - amount]]
  /\ UNCHANGED <<vars, debtVars, cdpConfigVars, rewardVars, cdpVaultVars, worldVars>>

-----------------------------------------------------------------------------
(* Repayment.  A payment clears interest first, then principal, and never   *)
(* more than is owed; `cleared` and the result are in riseSOL.              *)

Repaid(p, payment) ==
  LET pos == Accrue(position[p])
      cleared == Least(payment, Owed(pos))
      interest == Least(cleared, pos.interest)
      rest == [Settle(pos) EXCEPT !.interest = @ - interest]
  IN [interest |-> interest, principal |-> cleared - interest,
      after |-> WithPrincipal(rest, pos.principal - (cleared - interest))]

\* Full repayment closes the position; the SOL set aside for a collateral
\* shortfall is recorded in it.
Closed(pos, divert) == [pos EXCEPT !.is_open = FALSE, !.pending_buyback = divert]

Record(p, pos, divert) ==
  position' = [position EXCEPT ![p] = IF Owed(pos) = 0 THEN Closed(pos, divert) ELSE pos]

\* Tokens of the position that the shared vault cannot return.
Shortfall(pos) == Monus(pos.collateral, collateral_vault)
ShortfallSol(pos) == UsdToSol(CollateralUsd(Shortfall(pos)))

\* compute_shortfall_divert, called on full repayment only.
Diverted(pos, principal_sol) ==
  IF Owed(pos) = 0 THEN Least(ShortfallSol(pos), principal_sol) ELSE 0

InterestSol(repaid) == RiseSolToSol(repaid.interest)
PrincipalSol(repaid) ==
  Monus(RiseSolToSol(repaid.interest + repaid.principal), InterestSol(repaid))

SettleInSol(p, repaid) ==
  LET divert == Diverted(repaid.after, PrincipalSol(repaid))
      to_pool == Monus(PrincipalSol(repaid), divert)
  IN
  /\ Owed(repaid.after) = 0 /\ Shortfall(repaid.after) > 0 => PythPrice
  /\ Record(p, repaid.after, divert)
  /\ RetireDebt(repaid.principal)
  /\ RentExempt(pool_vault + to_pool)
  /\ pool_vault' = pool_vault + to_pool
  /\ cdp_wsol_buyback_vault' = cdp_wsol_buyback_vault + divert
  /\ UNCHANGED <<poolVars, ticketVars, treasuryVars, rise_sol, epoch, cdpConfigVars,
                 collateralVars, rewardVars, worldVars>>

RepayDebtAccounts(p) == position[p].is_open /\ RewardAccounts(p)

RepayDebt(p, payment) ==
  LET repaid == Repaid(p, SolToRiseSol(payment))
      due == InterestSol(repaid) + PrincipalSol(repaid)
  IN
  /\ RepayDebtAccounts(p)
  /\ SolToRiseSol(payment) > 0
  /\ CanSettle(position[p])
  /\ Owed(position[p]) > 0
  /\ wallet[OwnerOf(p)] >= due
  /\ SettleInSol(p, repaid)
  /\ wallet' = [wallet EXCEPT ![OwnerOf(p)] = @ - due]
  /\ cdp_fee_vault' = cdp_fee_vault + InterestSol(repaid)
  /\ UNCHANGED <<outside, cdp_wsol_vault_open>>

\* Besides, the payment token must be active and the WSOL vault must exist.
RepayDebtSplAccounts(p) ==
  /\ position[p].is_open
  /\ payment_config_active
  /\ cdp_wsol_vault_open
  /\ RewardAccounts(p)

\* The WSOL vault is closed into cdp_fee_vault, so the whole output of the swap
\* lands there; only the principal part goes on (route_spl), and what exceeds
\* the debt stays as a fee.
UnwrapAndRoute(received, principal_sol) ==
  /\ outside >= received
  /\ outside' = outside - received
  /\ cdp_wsol_vault_open' = FALSE
  /\ cdp_fee_vault' = cdp_fee_vault + received - principal_sol

RepayDebtSpl(p, received) ==
  LET repaid == Repaid(p, SolToRiseSol(received)) IN
  /\ RepayDebtSplAccounts(p)
  /\ SolToRiseSol(received) > 0
  /\ CanSettle(position[p])
  /\ Owed(position[p]) > 0
  /\ SettleInSol(p, repaid)
  /\ UnwrapAndRoute(received, PrincipalSol(repaid))
  /\ UNCHANGED wallet

\* riseSOL is burned; notify_rise_sol_burned lowers the staking supply by the
\* interest part.
BurnRiseSol(user, interest, principal) ==
  /\ rise_sol[user] >= interest + principal
  /\ staking_rise_sol_supply >= interest
  /\ rise_sol' = [rise_sol EXCEPT ![user] = @ - interest - principal]
  /\ staking_rise_sol_supply' = staking_rise_sol_supply - interest
  /\ UNCHANGED <<total_sol_staked, exchange_rate, last_rate_update_epoch,
                 liquid_buffer_lamports, pending_withdrawals_lamports,
                 ticketVars, treasuryVars, pool_vault, wallet, outside, epoch>>

RepayDebtRiseSolAccounts(p) == position[p].is_open /\ RewardAccounts(p)

RepayDebtRiseSol(p, payment) ==
  LET repaid == Repaid(p, payment) IN
  /\ RepayDebtRiseSolAccounts(p)
  /\ payment > 0
  /\ CanSettle(position[p])
  /\ Owed(position[p]) > 0
  /\ Record(p, repaid.after, 0)
  /\ RetireDebt(repaid.principal)
  /\ BurnRiseSol(OwnerOf(p), repaid.interest, repaid.principal)
  /\ UNCHANGED <<cdpConfigVars, collateralVars, rewardVars, cdpVaultVars, worldVars>>

ClosePositionAccounts(p) == position[p].is_open /\ RewardAccounts(p)

\* Repays everything in riseSOL, at the interest last accrued, and returns the
\* collateral.  The account stays, with its collateral amount.
ClosePosition(p) ==
  LET pos == position[p] IN
  /\ ClosePositionAccounts(p)
  /\ Owed(pos) > 0
  /\ CanSettle(pos)
  /\ BurnRiseSol(OwnerOf(p), pos.interest, pos.principal)
  /\ RetireDebt(pos.principal)
  /\ ReturnCollateral(pos.collateral)
  /\ position' = [position EXCEPT ![p] =
       WithPrincipal([Settle(pos) EXCEPT !.is_open = FALSE, !.interest = 0], 0)]
  /\ UNCHANGED <<cdpConfigVars, rewardVars, cdpVaultVars, worldVars>>

\* What buys the missing collateral: the SOL diverted at repayment, or else
\* the treasury.
Buyback_Mutant_WholeVault(pos) ==
  /\ pos.pending_buyback > 0
  /\ cdp_wsol_buyback_vault' = 0
  /\ outside' = outside + cdp_wsol_buyback_vault
  /\ UNCHANGED reserveVars

Buyback(pos) ==
  \/ /\ Shortfall(pos) = 0
     /\ UNCHANGED <<cdp_wsol_buyback_vault, reserveVars, outside>>
  \/ /\ Shortfall(pos) > 0
     /\ pos.pending_buyback > 0
     /\ cdp_wsol_buyback_vault >= pos.pending_buyback
     /\ cdp_wsol_buyback_vault' = cdp_wsol_buyback_vault - pos.pending_buyback
     /\ outside' = outside + pos.pending_buyback
     /\ UNCHANGED reserveVars
  \/ /\ Shortfall(pos) > 0
     /\ pos.pending_buyback = 0
     /\ PythPrice
     /\ ShortfallSol(pos) = 0 \/ reserve_vault >= RENT_MIN + ShortfallSol(pos)
     /\ DebitReserve(ShortfallSol(pos))
     /\ outside' = outside + ShortfallSol(pos)
     /\ UNCHANGED cdp_wsol_buyback_vault

\* The BorrowRewards account is closed with the position, its pending rewards
\* unpaid; borrow_rewards_config is not asked for.
ClaimCollateralAccounts(p) ==
  position[p].exists /\ ~position[p].is_open /\ position[p].tracked

ClaimCollateral_Mutant_AccountKept(p) ==
  LET pos == position[p] IN
  /\ ClaimCollateralAccounts(p)
  /\ Buyback(pos)
  /\ ReleaseEntitlement(pos.collateral)
  /\ collateral_vault' = Monus(collateral_vault, pos.collateral)
  /\ position' = [position EXCEPT ![p].pending_buyback = 0]
  /\ UNCHANGED <<poolVars, ticketVars, configVars, revenueVars, last_collection_epoch,
                 pool_vault, userVars, epoch, debtVars, cdpConfigVars, rewardVars,
                 cdp_fee_vault, cdp_wsol_vault_open, worldVars>>

\* The nonce is free again.
ClaimCollateral(p) ==
  LET pos == position[p] IN
  /\ ClaimCollateralAccounts(p)
  /\ Buyback(pos)
  /\ ReleaseEntitlement(pos.collateral)
  /\ collateral_vault' = Monus(collateral_vault, pos.collateral)
  /\ position' = [position EXCEPT ![p] = NoPosition]
  /\ UNCHANGED <<poolVars, ticketVars, configVars, revenueVars, last_collection_epoch,
                 pool_vault, userVars, epoch, debtVars, cdpConfigVars, rewardVars,
                 cdp_fee_vault, cdp_wsol_vault_open, worldVars>>

ClaimBorrowRewards(p) ==
  LET pos == position[p] IN
  /\ pos.exists
  /\ RewardAccounts(p)
  /\ CanSettle(pos)
  /\ Settle(pos).pending_rewards > 0
  /\ position' = [position EXCEPT ![p] =
       [WithPrincipal(pos, pos.principal) EXCEPT !.pending_rewards = 0]]
  /\ UNCHANGED <<vars, debtVars, cdpConfigVars, collateralVars, rewardVars,
                 cdpVaultVars, worldVars>>

-----------------------------------------------------------------------------
(* Permissionless instructions *)

\* The crank moves last_accrual_slot even when the interest rounds to nothing.
AccrueInterest(p) ==
  /\ position[p].is_open
  /\ slot > position[p].last_accrual_slot
  /\ position' = [position EXCEPT ![p].interest = @ + Interest(position[p]),
                                  ![p].last_accrual_slot = slot]
  /\ UNCHANGED <<vars, debtVars, cdpConfigVars, collateralVars, rewardVars,
                 cdpVaultVars, worldVars>>

LiquidateAccounts(p) == position[p].is_open /\ RewardAccounts(p)

\* Collateral worth more than the debt goes back to the borrower.
ExcessCollateral(pos) ==
  UsdToCollateral(Monus(CollateralUsd(pos.collateral), SolUsd(Owed(pos))))

\* What the swap brings pays the caller's fee, then principal and interest in
\* proportion to their worth.
SplitProceeds(pos, proceeds) ==
  LET fee == (proceeds * collateral_config.liquidation_penalty_bps) \div BPS
      target == RiseSolToSol(pos.principal) + RiseSolToSol(pos.interest)
      interest == IF target = 0 THEN 0
                  ELSE ((proceeds - fee) * RiseSolToSol(pos.interest)) \div target
  IN [fee |-> fee, interest |-> interest, principal |-> proceeds - fee - interest]

\* The WSOL vault exists from here on unless something is swapped: then it is
\* closed, its lamports land in cdp_fee_vault and the shares go on from there.
RouteProceeds(swapped, proceeds, split) ==
  /\ swapped = 0 => proceeds = 0
  /\ cdp_wsol_vault_open' = (swapped = 0)
  /\ outside >= proceeds
  /\ outside' = outside - proceeds + split.fee
  /\ RentExempt(pool_vault + split.principal)
  /\ pool_vault' = pool_vault + split.principal
  /\ cdp_fee_vault' = cdp_fee_vault + split.interest

CancelDebt(p) ==
  LET pos == position[p] IN
  /\ CanSettle(pos)
  /\ position' = [position EXCEPT ![p] =
       WithPrincipal([Settle(pos) EXCEPT !.is_open = FALSE, !.interest = 0], 0)]
  /\ RetireDebt(pos.principal)
  /\ ReleaseEntitlement(pos.collateral)

\* Interest is not accrued first.
Liquidate(p, proceeds) ==
  LET pos == position[p]
      swapped == Monus(pos.collateral, ExcessCollateral(pos))
  IN
  /\ LiquidateAccounts(p)
  /\ PythPrice
  /\ ~Healthy(pos.collateral, Owed(pos))
  /\ collateral_vault >= ExcessCollateral(pos) + swapped
  /\ collateral_vault' = collateral_vault - ExcessCollateral(pos) - swapped
  /\ RouteProceeds(swapped, proceeds, SplitProceeds(pos, proceeds))
  /\ CancelDebt(p)
  /\ UNCHANGED <<poolVars, ticketVars, treasuryVars, userVars, epoch, cdpConfigVars,
                 rewardVars, cdp_wsol_buyback_vault, worldVars>>

\* The liquidity backstop: collateral of the shared vault is sold, whatever
\* position it came from, and its proceeds become liquid buffer.
RedeemableCollateral ==
  UsdToCollateral(SolUsd(pending_withdrawals_lamports - liquid_buffer_lamports))

RedeemCollateralForLiquidity(requested, proceeds) ==
  LET amount == Least(requested, RedeemableCollateral) IN
  /\ liquid_buffer_lamports < pending_withdrawals_lamports
  /\ PythPrice
  /\ amount > 0
  /\ collateral_vault >= amount
  /\ proceeds > 0
  /\ outside >= proceeds
  /\ pool_vault >= Accounted
  /\ collateral_vault' = collateral_vault - amount
  /\ cdp_wsol_vault_open' = FALSE
  /\ outside' = outside - proceeds
  /\ pool_vault' = pool_vault + proceeds
  /\ liquid_buffer_lamports' = liquid_buffer_lamports + proceeds
  /\ UNCHANGED <<stakeVars, last_rate_update_epoch, pending_withdrawals_lamports,
                 ticketVars, treasuryVars, userVars, epoch, position, debtVars,
                 cdpConfigVars, total_collateral_entitlements, rewardVars,
                 cdp_fee_vault, cdp_wsol_buyback_vault, worldVars>>

\* 90% to the stakers, half of the rest to veRISE holders, the remainder to
\* the reserve.
SplitFees(fees) ==
  LET staking == (fees * 9) \div 10
      verise == (fees - staking) \div 2
  IN [staking |-> staking, verise |-> verise, reserve |-> fees - staking - verise]

CreditStakers(amount) ==
  \/ amount = 0 /\ UNCHANGED <<stakeVars, liquid_buffer_lamports>>
  \/ amount > 0 /\ pool_vault >= Accounted /\ Credit(amount)

CollectCdpFees(total_verise) ==
  LET share == SplitFees(cdp_fee_vault) IN
  /\ cdp_fee_vault > 0                \* at the rent floor: returns Ok, no effect
  /\ RentExempt(pool_vault + share.staking)
  /\ RentExempt(reserve_vault + share.reserve)
  /\ RentExempt(verise_vault + share.verise)
  /\ CreditStakers(share.staking)
  /\ pool_vault' = pool_vault + share.staking
  /\ reserve_vault' = reserve_vault + share.reserve
  /\ reserve_lamports' = reserve_lamports + share.reserve
  /\ verise_vault' = verise_vault + share.verise
  /\ BookVerise(share.verise, total_verise)
  /\ cdp_fee_vault' = 0
  /\ UNCHANGED <<last_rate_update_epoch, pending_withdrawals_lamports, ticketVars,
                 configVars, last_collection_epoch, userVars, outside, epoch,
                 position, debtVars, cdpConfigVars, collateralVars, rewardVars,
                 cdp_wsol_buyback_vault, cdp_wsol_vault_open, worldVars>>

CheckpointBorrowRewards ==
  LET emissions == (EPOCH_EMISSIONS * (slot - last_checkpoint_slot)) \div SLOTS_PER_EPOCH
  IN
  /\ borrow_rewards_open
  /\ slot > last_checkpoint_slot
  /\ reward_per_token' =
       IF total_cdp_debt = 0 THEN reward_per_token
       ELSE reward_per_token + (emissions * REWARD_SCALE) \div total_cdp_debt
  /\ last_checkpoint_slot' = slot
  /\ UNCHANGED <<vars, position, debtVars, cdpConfigVars, collateralVars,
                 borrow_rewards_open, cdpVaultVars, worldVars>>

-----------------------------------------------------------------------------
(* Instructions of the authority, and the world outside *)

UpdateDebtCeiling(multiplier) ==
  /\ debt_ceiling_multiplier_bps' = multiplier
  /\ UNCHANGED <<vars, position, debtVars, collateral_config, payment_config_active,
                 collateralVars, rewardVars, cdpVaultVars, worldVars>>

UpdateCollateralConfig(config) ==
  /\ collateral_config' = config
  /\ UNCHANGED <<vars, position, debtVars, debt_ceiling_multiplier_bps,
                 payment_config_active, collateralVars, rewardVars, cdpVaultVars,
                 worldVars>>

UpdatePaymentConfig(active) ==
  /\ payment_config_active' = active
  /\ UNCHANGED <<vars, position, debtVars, debt_ceiling_multiplier_bps,
                 collateral_config, collateralVars, rewardVars, cdpVaultVars, worldVars>>

MovePrice(new) ==
  /\ price' = new
  /\ UNCHANGED <<vars, position, debtVars, cdpConfigVars, collateralVars,
                 rewardVars, cdpVaultVars, slot>>

NextSlot ==
  /\ slot < MaxSlot
  /\ slot' = slot + 1
  /\ UNCHANGED <<vars, position, debtVars, cdpConfigVars, collateralVars,
                 rewardVars, cdpVaultVars, price>>

(* The two instructions with which the authority replaces the borrow-reward *)
(* configuration, for a new RISE mint or a new emission rate.               *)

CloseBorrowRewards ==
  /\ borrow_rewards_open
  /\ borrow_rewards_open' = FALSE
  /\ UNCHANGED <<vars, position, debtVars, cdpConfigVars, collateralVars,
                 reward_per_token, last_checkpoint_slot, cdpVaultVars, worldVars>>

InitializeBorrowRewards ==
  /\ ~borrow_rewards_open
  /\ borrow_rewards_open' = TRUE
  /\ reward_per_token' = 0
  /\ total_cdp_debt' = 0
  /\ last_checkpoint_slot' = slot
  /\ UNCHANGED <<vars, position, cdp_rise_sol_minted, cdpConfigVars, collateralVars,
                 cdpVaultVars, worldVars>>

\* A CdpPosition closed alone, and a BorrowRewards closed alone.
WithoutAccount(pos) ==
  [NoPosition EXCEPT !.tracked = pos.tracked, !.reward_debt = pos.reward_debt,
                     !.pending_rewards = pos.pending_rewards]
WithoutRewards(pos) ==
  [pos EXCEPT !.tracked = FALSE, !.reward_debt = 0, !.pending_rewards = 0]

\* The authority's clean-up of old accounts: the instruction looks at the
\* discriminator and the seeds of the position only, so any position of this
\* program passes, and nothing ties the BorrowRewards it closes to it.  Neither
\* collateral nor debt leaves the books.
CloseStalePosition(p, q) ==
  /\ position[p].exists
  /\ position[q].tracked
  /\ position' = [r \in Positions |->
       LET pos == IF r = p THEN WithoutAccount(position[r]) ELSE position[r]
       IN IF r = q THEN WithoutRewards(pos) ELSE pos]
  /\ UNCHANGED <<vars, debtVars, cdpConfigVars, collateralVars, rewardVars,
                 cdpVaultVars, worldVars>>

-----------------------------------------------------------------------------
\* The pool's own users and cranks, and plain transfers into its vaults.
PoolStep ==
  /\ \/ Staker \/ Crank \/ Authority \/ NextEpoch
     \/ \E amount \in Flows : SolArrives(amount)
     \/ \E amount \in TreasuryFlows : ReserveFunded(amount)
  /\ UNCHANGED cdpVars

\* The instructions that change what a position has posted or borrowed ...
Borrows(p) ==
  \/ \E amount \in Deposits :
       AddCollateral(p, amount) \/ WithdrawExcess(p, amount)
  \/ \E deposit \in Deposits, loan \in Loans : OpenPosition(p, deposit, loan)
  \/ \E extra \in Loans : BorrowMore(p, extra)

\* ... and those that pay back or collect.
Settles(p) ==
  \/ \E payment \in Payments :
       RepayDebt(p, payment) \/ RepayDebtSpl(p, payment) \/ RepayDebtRiseSol(p, payment)
  \/ ClosePosition(p) \/ ClaimCollateral(p) \/ ClaimBorrowRewards(p)

Anybody ==
  \/ \E p \in Positions :
       AccrueInterest(p) \/ \E proceeds \in SwapOutputs : Liquidate(p, proceeds)
  \/ \E requested \in Deposits, proceeds \in SwapOutputs :
       RedeemCollateralForLiquidity(requested, proceeds)
  \/ \E total_verise \in VeriseSupplies : CollectCdpFees(total_verise)
  \/ CheckpointBorrowRewards

CdpAuthority ==
  \/ \E multiplier \in Multipliers : UpdateDebtCeiling(multiplier)
  \/ \E config \in CollateralConfigs : UpdateCollateralConfig(config)
  \/ \E active \in PaymentStates : UpdatePaymentConfig(active)

World == (\E new \in Prices : MovePrice(new)) \/ NextSlot

CdpNext ==
  \/ PoolStep
  \/ \E p \in Positions : Borrows(p) \/ Settles(p)
  \/ Anybody
  \/ CdpAuthority
  \/ World

CdpSpec == CdpInit /\ [][CdpNext]_allVars

\* With the authority's maintenance: after the replacement of the borrow-reward
\* configuration the debt total and the index start again at zero, and a
\* position closed as stale leaves the counters behind.
Maintenance ==
  \/ CloseBorrowRewards \/ InitializeBorrowRewards
  \/ \E p, q \in Positions : CloseStalePosition(p, q)

ResetSpec == CdpInit /\ [][CdpNext \/ Maintenance]_allVars

-----------------------------------------------------------------------------
(* Properties *)

PositionType ==
  [exists : BOOLEAN, is_open : BOOLEAN, collateral : Nat, principal : Nat,
   interest : Nat, last_accrual_slot : Nat, pending_buyback : Nat,
   tracked : BOOLEAN, reward_debt : Nat, pending_rewards : Nat]

\* Every field of the CDP program is in its range, and an open position is an
\* existing one.
CdpTypeOK ==
  /\ TypeOK
  /\ position \in [Positions -> PositionType]
  /\ \A p \in Positions : position[p].is_open => position[p].exists
  /\ cdp_rise_sol_minted \in Nat
  /\ debt_ceiling_multiplier_bps \in Multipliers
  /\ collateral_config \in CollateralConfigs
  /\ total_collateral_entitlements \in Nat
  /\ payment_config_active \in BOOLEAN
  /\ borrow_rewards_open \in BOOLEAN
  /\ cdp_wsol_vault_open \in BOOLEAN
  /\ reward_per_token \in Nat
  /\ total_cdp_debt \in Nat
  /\ last_checkpoint_slot \in Nat
  /\ collateral_vault \in Nat
  /\ cdp_fee_vault \in Nat
  /\ cdp_wsol_buyback_vault \in Nat
  /\ price \in Prices
  /\ slot \in Nat

OpenPositions == {p \in Positions : position[p].is_open}
AllPrincipal == SumFunctionOnSet([p \in Positions |-> position[p].principal], Positions)

\* The two global debt counters, kept by six instructions with saturating
\* arithmetic, are both exactly the principal of the positions: "Sum of
\* rise_sol_debt_principal across all open positions" and "Total riseSOL
\* currently minted via CDP (principal only, not interest)".
DebtIsPrincipal ==
  cdp_rise_sol_minted = AllPrincipal /\ total_cdp_debt = AllPrincipal

\* A position can always be settled: the earnings of its principal never fall
\* below its reward debt, so no borrow, repayment or liquidation can be
\* blocked by the checked_sub of BorrowRewards::settle.
AlwaysSettles ==
  \A p \in Positions : Earned(position[p]) >= position[p].reward_debt

\* The buyback vault holds the SOL set aside for every repaid position that
\* has not claimed its collateral yet, so one claim never spends another's.
BuybackFunded ==
  SumFunctionOnSet([p \in Positions |-> position[p].pending_buyback], Positions)
    <= cdp_wsol_buyback_vault

\* Debts worth no more USD units than this may lose their slack to the three
\* quotients by which withdraw_excess values collateral, debt and request.
DustUsd == 7

\* Opening a loan or borrowing more never leaves a position open to liquidation
\* at the prices of that moment, however small, and withdrawing collateral does so
\* only under a dust debt, though open_position, borrow_more, withdraw_excess and
\* liquidate value collateral and debt by four formulas, each rounded on its own.
BorrowedSafely ==
  [][\A p \in Positions :
       (/\ position'[p].is_open
        /\ \/ position'[p].principal > position[p].principal
           \/ /\ position'[p].collateral < position[p].collateral
              /\ SolUsd(Owed(position[p]))' > DustUsd)
       => Healthy(position[p].collateral, Owed(position[p]))']_allVars

\* The vault returns a position's collateral at most once: what it holds
\* covers every open position's collateral.  (Checked where nothing is redeemed
\* for liquidity.)
VaultCoversCollateral ==
  MapThenSumSet(LAMBDA p : position[p].collateral, OpenPositions) <= collateral_vault

\* While a position is open, the WSOL vault that repay_debt_spl swaps through
\* exists: "One-time deploy step: creates cdp_wsol_vault ...  Must be called
\* after initialize_cdp_config and before any repay_debt calls."
SplVaultExists == OpenPositions # {} => cdp_wsol_vault_open

\* At the current rate all riseSOL in wallets is worth no more than the SOL of
\* the pool and the riseSOL borrowers still owe: the principal SOL of a repaid or
\* liquidated debt "maintains riseSOL backing" in pool_vault.
EveryRiseSolIsBacked ==
  Circulating * exchange_rate <=
    (pool_vault - pending_withdrawals_lamports) * RATE_SCALE
      + cdp_rise_sol_minted * exchange_rate
=============================================================================
