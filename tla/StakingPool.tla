---------------------------- MODULE StakingPool ----------------------------
(***************************************************************************)
(* The liquid-staking core of program rise-staking: the accounting of      *)
(* GlobalPool against the lamports of pool_vault, the withdrawal tickets,  *)
(* the two epoch cranks (update_exchange_rate and collect_fees), the       *)
(* treasury, and the entry points through which program rise-cdp, or       *)
(* anybody, brings revenue, liquidity or riseSOL burns into the pool.      *)
(*                                                                         *)
(* One action is one instruction.  A Solana instruction is atomic: when    *)
(* any require!, checked operation or transfer in it fails, the whole      *)
(* transaction is rolled back.  Every such failure is therefore a conjunct *)
(* of the guard, and an instruction that returns Ok early is a disjunct.   *)
(*                                                                         *)
(* Not part of the state: GlobalPool.paused (initialised to false, and no  *)
(* instruction ever sets it), prev_exchange_rate and prev_rate_update_slot *)
(* (written for the frontend, read by no instruction) and the optional     *)
(* reward accounts of stake_sol and unstake_rise_sol (module StakeRewards; *)
(* the pool half of those handlers does not depend on them).               *)
(* verise_vault only grows: nothing takes lamports out of it (see module   *)
(* Governance for the claim of rise-governance that cannot).               *)
(***************************************************************************)
EXTENDS Integers, FiniteSets, FiniteSetsExt

CONSTANTS
  Users,                \* wallets that stake
  RATE_SCALE,           \* fixed-point one of exchange_rate (10^9 on chain)
  INDEX_SCALE,          \* fixed-point one of revenue_index (10^12 on chain)
  BPS,                  \* fixed-point one of a fee (10_000 on chain)
  UNSTAKE_EPOCH_DELAY,  \* epochs before a ticket is claimable (2 on chain)
  PROTOCOL_FEE_BPS,     \* GlobalPool.protocol_fee_bps, fixed at initialisation
  RENT_MIN,             \* rent-exempt minimum of a lamport-only account
  InitialWallet,        \* lamports each user starts with
  InitialOutside,       \* lamports outside: validators, borrowers, the team
  Amounts,              \* inputs of stake_sol and unstake_rise_sol
  Flows,                \* lamports sent to the pool or recognised by it
  TokenFlows,           \* riseSOL the CDP program mints and burns
  TreasuryFlows,        \* lamports entering and leaving the treasury
  TeamFees,             \* values governance gives team_fee_bps
  VeriseShares,         \* values governance gives verise_share_bps
  VeriseSupplies,       \* GovernanceConfig.total_verise as the cranks read it
  MaxCirculating,       \* bound: riseSOL in wallets
  MaxEpoch,             \* bound: last epoch of the clock
  MaxNonce              \* bound: number of unstake requests

ASSUME ScaleAssumption ==
  /\ RATE_SCALE \in Nat \ {0}
  /\ INDEX_SCALE \in Nat \ {0}
  /\ BPS \in Nat \ {0}
  /\ UNSTAKE_EPOCH_DELAY \in Nat
  /\ PROTOCOL_FEE_BPS \in 0..BPS
  /\ RENT_MIN \in Nat

ASSUME InputAssumption ==
  /\ InitialWallet \in Nat
  /\ InitialOutside \in Nat
  /\ Amounts \subseteq Nat
  /\ Flows \cup TokenFlows \cup TreasuryFlows \subseteq Nat
  /\ TeamFees \subseteq Nat
  /\ VeriseShares \subseteq Nat
  /\ VeriseSupplies \subseteq Nat

VARIABLES
  \* GlobalPool
  total_sol_staked,
  staking_rise_sol_supply,
  exchange_rate,
  last_rate_update_epoch,
  liquid_buffer_lamports,
  pending_withdrawals_lamports,
  unstake_nonce,
  tickets,                \* the open WithdrawalTicket accounts
  \* ProtocolTreasury
  team_fee_bps,
  verise_share_bps,
  reserve_lamports,
  revenue_index,
  total_distributed,
  last_collection_epoch,
  \* lamports and riseSOL
  pool_vault,
  reserve_vault,
  verise_vault,
  wallet,                 \* lamports of each user
  outside,                \* lamports of everybody else
  rise_sol,               \* riseSOL token balance of each user
  \* Clock
  epoch

stakeVars == <<total_sol_staked, staking_rise_sol_supply, exchange_rate>>
poolVars == <<stakeVars, last_rate_update_epoch, liquid_buffer_lamports,
              pending_withdrawals_lamports>>
ticketVars == <<unstake_nonce, tickets>>
configVars == <<team_fee_bps, verise_share_bps>>
revenueVars == <<revenue_index, total_distributed, verise_vault>>
reserveVars == <<reserve_lamports, reserve_vault>>
treasuryVars == <<configVars, reserveVars, revenueVars, last_collection_epoch>>
userVars == <<wallet, rise_sol>>
vars == <<poolVars, ticketVars, treasuryVars, pool_vault, userVars, outside, epoch>>

-----------------------------------------------------------------------------
(* Helpers.  An operator whose name ends in _Mutant_<what> is a deliberately *)
(* broken form of the operator after it, used to show that a property can   *)
(* fail; no specification uses it.                                          *)

SolToRiseSol_Mutant_RoundsUp(lamports) ==
  (lamports * RATE_SCALE + exchange_rate - 1) \div exchange_rate

SolToRiseSol(lamports) == (lamports * RATE_SCALE) \div exchange_rate

RiseSolToSol_Mutant_RoundsUp(amount) ==
  (amount * exchange_rate + RATE_SCALE - 1) \div RATE_SCALE

RiseSolToSol(amount) == (amount * exchange_rate) \div RATE_SCALE

ProtocolFee(rewards) == (rewards * PROTOCOL_FEE_BPS) \div BPS

TeamCut(fees) == (fees * team_fee_bps) \div BPS

VeriseCut(fees) == (fees * verise_share_bps) \div BPS

\* initialize_treasury and update_treasury_config cap the team fee at 50%.
MaxTeamFee == BPS \div 2

\* exchange_rate = total_sol_staked / staking_rise_sol_supply, kept when no
\* riseSOL is outstanding.
RateFor(total, supply) ==
  IF supply > 0 THEN (total * RATE_SCALE) \div supply ELSE exchange_rate

Circulating == MapThenSumSet(LAMBDA u : rise_sol[u], Users)

\* The runtime rejects a transaction that leaves a lamport-only account with a
\* positive balance below the rent-exempt minimum.
RentExempt(lamports) == lamports = 0 \/ lamports >= RENT_MIN

\* SOL of the vault that neither the liquid buffer nor a ticket speaks for.
Accounted == liquid_buffer_lamports + pending_withdrawals_lamports

Excess_Mutant_IgnoresTickets == pool_vault - liquid_buffer_lamports

Excess == pool_vault - Accounted

Matured_Mutant_ExactEpoch(ticket) == epoch = ticket.claimable_epoch

Matured(ticket) == epoch >= ticket.claimable_epoch

CloseTicket_Mutant_LeftOpen(ticket) == tickets' = tickets

\* Anchor's close = owner: the ticket account is gone after a claim.
CloseTicket(ticket) == tickets' = tickets \ {ticket}

Credit_Mutant_BufferForgotten(amount) ==
  /\ total_sol_staked' = total_sol_staked + amount
  /\ exchange_rate' = RateFor(total_sol_staked + amount, staking_rise_sol_supply)
  /\ UNCHANGED <<liquid_buffer_lamports, staking_rise_sol_supply>>

\* Revenue becomes staker capital and the rate is recomputed at once.
Credit(amount) ==
  /\ total_sol_staked' = total_sol_staked + amount
  /\ liquid_buffer_lamports' = liquid_buffer_lamports + amount
  /\ exchange_rate' = RateFor(total_sol_staked + amount, staking_rise_sol_supply)
  /\ UNCHANGED staking_rise_sol_supply

DebitReserve_Mutant_CounterKept(amount) ==
  /\ reserve_vault' = reserve_vault - amount
  /\ UNCHANGED reserve_lamports

DebitReserve_Mutant_Unsaturated(amount) ==
  /\ reserve_vault' = reserve_vault - amount
  /\ reserve_lamports' = reserve_lamports - amount

\* SOL leaves reserve_vault; the counter follows with saturating_sub.
DebitReserve(amount) ==
  /\ reserve_vault' = reserve_vault - amount
  /\ reserve_lamports' = IF reserve_lamports >= amount
                         THEN reserve_lamports - amount ELSE 0

-----------------------------------------------------------------------------
TreasuryInit ==
  /\ team_fee_bps \in {fee \in TeamFees : fee <= MaxTeamFee}
  /\ verise_share_bps \in {share \in VeriseShares : share <= BPS}
  /\ reserve_lamports = 0
  /\ revenue_index = 0
  /\ total_distributed = 0
  /\ last_collection_epoch = 0

Init ==
  /\ total_sol_staked = 0
  /\ staking_rise_sol_supply = 0
  /\ exchange_rate = RATE_SCALE
  /\ last_rate_update_epoch = 0
  /\ liquid_buffer_lamports = 0
  /\ pending_withdrawals_lamports = 0
  /\ unstake_nonce = 0
  /\ tickets = {}
  /\ TreasuryInit
  /\ pool_vault = 0
  /\ reserve_vault = 0
  /\ verise_vault = 0
  /\ wallet = [u \in Users |-> InitialWallet]
  /\ outside = InitialOutside
  /\ rise_sol = [u \in Users |-> 0]
  /\ epoch = 0

(* Instructions of stakers *)

StakeSol(user, lamports) ==
  LET minted == SolToRiseSol(lamports) IN
  /\ lamports > 0
  /\ minted > 0
  /\ wallet[user] >= lamports
  /\ RentExempt(pool_vault + lamports)
  /\ Circulating + minted <= MaxCirculating
  /\ wallet' = [wallet EXCEPT ![user] = @ - lamports]
  /\ pool_vault' = pool_vault + lamports
  /\ total_sol_staked' = total_sol_staked + lamports
  /\ staking_rise_sol_supply' = staking_rise_sol_supply + minted
  /\ liquid_buffer_lamports' = liquid_buffer_lamports + lamports
  /\ rise_sol' = [rise_sol EXCEPT ![user] = @ + minted]
  /\ UNCHANGED <<exchange_rate, last_rate_update_epoch,
                 pending_withdrawals_lamports, ticketVars, treasuryVars,
                 outside, epoch>>

UnstakeRiseSol(user, amount) ==
  LET sol == RiseSolToSol(amount) IN
  /\ amount > 0
  /\ sol > 0
  /\ rise_sol[user] >= amount
  /\ staking_rise_sol_supply >= amount
  /\ total_sol_staked >= sol
  /\ liquid_buffer_lamports >= sol
  /\ unstake_nonce < MaxNonce
  /\ epoch + UNSTAKE_EPOCH_DELAY <= MaxEpoch
  /\ rise_sol' = [rise_sol EXCEPT ![user] = @ - amount]
  /\ staking_rise_sol_supply' = staking_rise_sol_supply - amount
  /\ total_sol_staked' = total_sol_staked - sol
  /\ liquid_buffer_lamports' = liquid_buffer_lamports - sol
  /\ pending_withdrawals_lamports' = pending_withdrawals_lamports + sol
  /\ unstake_nonce' = unstake_nonce + 1
  /\ tickets' = tickets \cup
       {[owner |-> user, sol_amount |-> sol,
         claimable_epoch |-> epoch + UNSTAKE_EPOCH_DELAY,
         nonce |-> unstake_nonce]}
  /\ UNCHANGED <<exchange_rate, last_rate_update_epoch, treasuryVars,
                 pool_vault, wallet, outside, epoch>>

\* Permissionless: whoever calls, the owner is paid and the ticket is closed.
ClaimUnstake(ticket) ==
  /\ Matured(ticket)
  /\ pending_withdrawals_lamports >= ticket.sol_amount
  /\ pool_vault >= ticket.sol_amount
  /\ RentExempt(pool_vault - ticket.sol_amount)
  /\ pending_withdrawals_lamports' =
       pending_withdrawals_lamports - ticket.sol_amount
  /\ pool_vault' = pool_vault - ticket.sol_amount
  /\ wallet' = [wallet EXCEPT ![ticket.owner] = @ + ticket.sol_amount]
  /\ CloseTicket(ticket)
  /\ UNCHANGED <<stakeVars, last_rate_update_epoch, liquid_buffer_lamports,
                 unstake_nonce, treasuryVars, outside, rise_sol, epoch>>

-----------------------------------------------------------------------------
(* Epoch cranks *)

UpdateExchangeRate ==
  LET available == pool_vault - pending_withdrawals_lamports
      rewards == available - liquid_buffer_lamports
      credited == rewards - ProtocolFee(rewards)
  IN
  /\ epoch > last_rate_update_epoch
  /\ available >= 0
  /\ last_rate_update_epoch' = epoch
  /\ \/ /\ available <= liquid_buffer_lamports     \* no new rewards
        /\ UNCHANGED <<stakeVars, liquid_buffer_lamports>>
     \/ /\ available > liquid_buffer_lamports
        /\ Credit(credited)
  /\ UNCHANGED <<pending_withdrawals_lamports, ticketVars, treasuryVars,
                 pool_vault, userVars, outside, epoch>>

\* Revenue for veRISE holders moves the per-share index only when somebody
\* holds veRISE; total_verise is read from the governance program's account.
BookVerise(verise, total_verise) ==
  /\ revenue_index' = IF verise > 0 /\ total_verise > 0
                      THEN revenue_index + (verise * INDEX_SCALE) \div total_verise
                      ELSE revenue_index
  /\ total_distributed' = total_distributed + verise

CollectFees(total_verise) ==
  LET fees == Excess
      team == TeamCut(fees)
      verise == VeriseCut(fees)
      reserve == fees - team - verise
  IN
  /\ epoch > last_collection_epoch
  /\ fees > 0                          \* nothing to sweep: returns Ok, no effect
  /\ reserve >= 0
  /\ RentExempt(pool_vault - fees)
  /\ RentExempt(reserve_vault + reserve)
  /\ RentExempt(verise_vault + verise)
  /\ pool_vault' = pool_vault - fees
  /\ outside' = outside + team
  /\ reserve_vault' = reserve_vault + reserve
  /\ reserve_lamports' = reserve_lamports + reserve
  /\ verise_vault' = verise_vault + verise
  /\ BookVerise(verise, total_verise)
  /\ last_collection_epoch' = epoch
  /\ UNCHANGED <<poolVars, ticketVars, configVars, userVars, epoch>>

-----------------------------------------------------------------------------
(* Entry points of the CDP program, and permissionless deposits *)

\* Validator rewards, CDP repayments and donations reach pool_vault by plain
\* transfers that run no handler of this program.
SolArrives(amount) ==
  /\ amount > 0
  /\ outside >= amount
  /\ RentExempt(pool_vault + amount)
  /\ outside' = outside - amount
  /\ pool_vault' = pool_vault + amount
  /\ UNCHANGED <<poolVars, ticketVars, treasuryVars, userVars, epoch>>

\* Nothing stops a plain transfer into reserve_vault either (its rent, say);
\* reserve_lamports does not see it.
ReserveFunded(amount) ==
  /\ amount > 0
  /\ outside >= amount
  /\ RentExempt(reserve_vault + amount)
  /\ outside' = outside - amount
  /\ reserve_vault' = reserve_vault + amount
  /\ UNCHANGED <<poolVars, ticketVars, configVars, revenueVars, reserve_lamports,
                 last_collection_epoch, pool_vault, userVars, epoch>>

ReceiveCdpLiquidity(amount) ==
  /\ amount > 0
  /\ pool_vault >= Accounted + amount
  /\ liquid_buffer_lamports' = liquid_buffer_lamports + amount
  /\ UNCHANGED <<stakeVars, last_rate_update_epoch,
                 pending_withdrawals_lamports, ticketVars, treasuryVars,
                 pool_vault, userVars, outside, epoch>>

CreditStakingRevenue(amount) ==
  /\ amount > 0
  /\ pool_vault >= Accounted + amount
  /\ Credit(amount)
  /\ UNCHANGED <<last_rate_update_epoch,
                 pending_withdrawals_lamports, ticketVars, treasuryVars,
                 pool_vault, userVars, outside, epoch>>

\* A borrower receives riseSOL; staking_rise_sol_supply is not touched.
MintForCdp(user, amount) ==
  /\ amount > 0
  /\ Circulating + amount <= MaxCirculating
  /\ rise_sol' = [rise_sol EXCEPT ![user] = @ + amount]
  /\ UNCHANGED <<poolVars, ticketVars, treasuryVars, pool_vault, wallet,
                 outside, epoch>>

\* The caller, rise-cdp, burns interest from the borrower in the same
\* transaction.
NotifyRiseSolBurned(user, amount) ==
  /\ amount > 0
  /\ rise_sol[user] >= amount
  /\ staking_rise_sol_supply >= amount
  /\ rise_sol' = [rise_sol EXCEPT ![user] = @ - amount]
  /\ staking_rise_sol_supply' = staking_rise_sol_supply - amount
  /\ UNCHANGED <<total_sol_staked, exchange_rate, last_rate_update_epoch,
                 liquid_buffer_lamports, pending_withdrawals_lamports,
                 ticketVars, treasuryVars, pool_vault, wallet, outside, epoch>>

\* rise-cdp deposits the two shares, then registers them.
RegisterExternalRevenue(verise, reserve, total_verise) ==
  /\ verise + reserve > 0
  /\ outside >= verise + reserve
  /\ RentExempt(verise_vault + verise)
  /\ RentExempt(reserve_vault + reserve)
  /\ outside' = outside - verise - reserve
  /\ verise_vault' = verise_vault + verise
  /\ reserve_vault' = reserve_vault + reserve
  /\ BookVerise(verise, total_verise)
  /\ reserve_lamports' = reserve_lamports + reserve
  /\ UNCHANGED <<poolVars, ticketVars, configVars, last_collection_epoch,
                 pool_vault, userVars, epoch>>

\* The buyback may draw on lamports reserve_lamports does not count.
WithdrawTreasuryForCdpBuyback(shortfall) ==
  /\ shortfall > 0
  /\ reserve_vault >= RENT_MIN + shortfall
  /\ DebitReserve(shortfall)
  /\ outside' = outside + shortfall
  /\ UNCHANGED <<poolVars, ticketVars, configVars, revenueVars,
                 last_collection_epoch, pool_vault, userVars, epoch>>

-----------------------------------------------------------------------------
(* Instructions of the authority *)

WithdrawReserve(amount) ==
  /\ amount > 0
  /\ reserve_lamports >= amount
  /\ reserve_vault >= RENT_MIN + amount
  /\ DebitReserve(amount)
  /\ outside' = outside + amount
  /\ UNCHANGED <<poolVars, ticketVars, configVars, revenueVars,
                 last_collection_epoch, pool_vault, userVars, epoch>>

UpdateTreasuryConfig(team, verise) ==
  /\ team <= MaxTeamFee
  /\ verise <= BPS
  /\ team_fee_bps' = team
  /\ verise_share_bps' = verise
  /\ UNCHANGED <<poolVars, ticketVars, reserveVars, revenueVars,
                 last_collection_epoch, pool_vault, userVars, outside, epoch>>

NextEpoch ==
  /\ epoch < MaxEpoch
  /\ epoch' = epoch + 1
  /\ UNCHANGED <<poolVars, ticketVars, treasuryVars, pool_vault, userVars,
                 outside>>

-----------------------------------------------------------------------------
Staker ==
  \/ \E user \in Users, amount \in Amounts :
       StakeSol(user, amount) \/ UnstakeRiseSol(user, amount)
  \/ \E ticket \in tickets : ClaimUnstake(ticket)

Crank ==
  \/ UpdateExchangeRate
  \/ \E total_verise \in VeriseSupplies : CollectFees(total_verise)

Cdp ==
  \/ \E amount \in Flows :
       SolArrives(amount) \/ ReceiveCdpLiquidity(amount) \/ CreditStakingRevenue(amount)
  \/ \E user \in Users, amount \in TokenFlows :
       MintForCdp(user, amount) \/ NotifyRiseSolBurned(user, amount)
  \/ \E verise, reserve \in TreasuryFlows, total_verise \in VeriseSupplies :
       RegisterExternalRevenue(verise, reserve, total_verise)
  \/ \E amount \in TreasuryFlows :
       ReserveFunded(amount) \/ WithdrawTreasuryForCdpBuyback(amount)

Authority ==
  \/ \E amount \in TreasuryFlows : WithdrawReserve(amount)
  \/ \E team \in TeamFees, verise \in VeriseShares :
       UpdateTreasuryConfig(team, verise)

Next == Staker \/ Crank \/ Cdp \/ Authority \/ NextEpoch

Spec == Init /\ [][Next]_vars

\* The clock never stops and the unstake claimer of crank-bot retries every
\* open ticket on each scan.
Fairness ==
  /\ WF_vars(NextEpoch)
  /\ \A n \in 0..(MaxNonce - 1) :
       WF_vars(\E ticket \in tickets : ticket.nonce = n /\ ClaimUnstake(ticket))

FairSpec == Spec /\ Fairness

-----------------------------------------------------------------------------
(* Properties *)

TicketType == [owner : Users, sol_amount : Nat \ {0},
               claimable_epoch : Nat, nonce : Nat]

\* Every field is in its range; a ticket's nonce was drawn from the counter.
TypeOK ==
  /\ total_sol_staked \in Nat
  /\ staking_rise_sol_supply \in Nat
  /\ exchange_rate \in Nat
  /\ last_rate_update_epoch \in Nat
  /\ liquid_buffer_lamports \in Nat
  /\ pending_withdrawals_lamports \in Nat
  /\ unstake_nonce \in Nat
  /\ tickets \subseteq TicketType
  /\ team_fee_bps \in 0..MaxTeamFee
  /\ verise_share_bps \in 0..BPS
  /\ reserve_lamports \in Nat
  /\ revenue_index \in Nat
  /\ total_distributed \in Nat
  /\ last_collection_epoch \in Nat
  /\ pool_vault \in Nat
  /\ reserve_vault \in Nat
  /\ verise_vault \in Nat
  /\ wallet \in [Users -> Nat]
  /\ outside \in Nat
  /\ rise_sol \in [Users -> Nat]
  /\ epoch \in Nat

\* The vault holds at least the liquid buffer plus the pending withdrawals,
\* whatever order the cranks, sweeps and deposits run in: the "vault =
\* liquid_buffer + pending_withdrawals + fee_excess" of update_exchange_rate
\* and collect_fees, with a fee excess that is never negative.
VaultCovers == pool_vault >= Accounted

\* pending_withdrawals_lamports is exactly what the open tickets are owed, so
\* no claim_unstake can fail on its checked_sub.
PendingIsTickets ==
  pending_withdrawals_lamports =
    SumFunctionOnSet([ticket \in tickets |-> ticket.sol_amount], tickets)

\* The liquid buffer covers all staked SOL (nothing is delegated yet), so the
\* buffer's checked_sub in unstake_rise_sol never fails before the stake's.
BufferCoversStake == total_sol_staked <= liquid_buffer_lamports

\* The riseSOL that stakers hold, at the current rate, is worth no more than
\* the SOL staked: rounding and the rate updates never over-promise.
Backed == staking_rise_sol_supply * exchange_rate <= total_sol_staked * RATE_SCALE

\* Whatever part of the staking supply is presented, unstake_rise_sol can
\* honour it: no amount in the supply makes its checked subtractions fail.
UnstakeAlwaysFits ==
  \A amount \in 0..staking_rise_sol_supply :
    /\ RiseSolToSol(amount) <= total_sol_staked
    /\ RiseSolToSol(amount) <= liquid_buffer_lamports

\* reserve_lamports never claims more than reserve_vault holds, through
\* sweeps, CDP revenue, withdrawals and the saturating buyback.
ReserveBacked == reserve_lamports <= reserve_vault

Custody == INSTANCE CustodyVault WITH held <- pool_vault, owed <- Accounted

\* The pool implements the abstract custody vault: what it owes stakers and
\* ticket holders shrinks only by paying it out, and a sweep of the vault
\* releases only what nobody is owed.
ImplementsCustody == Custody!Spec

\* exchange_rate never falls: stakers lose nothing to other stakers' rounding,
\* to the cranks or to CDP interest burns.
RateNeverFalls == [][exchange_rate' >= exchange_rate]_vars

\* Every ticket is eventually paid and closed by the unstake claimer.
TicketsPaid ==
  \A n \in 0..(MaxNonce - 1) :
    (\E t \in tickets : t.nonce = n) ~> (\A t \in tickets : t.nonce # n)
=============================================================================
