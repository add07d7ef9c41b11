------------------------- MODULE StakingPoolProofs --------------------------
(***************************************************************************)
(* Theorems about StakingPool, for every value of its constants: the types *)
(* and safety invariants, the monotone exchange rate and the refinement of *)
(* CustodyVault.                                                           *)
(*                                                                         *)
(* One inductive invariant, IInv, carries all of them.  Backed is not      *)
(* inductive alone: the conversions divide by exchange_rate, so it needs   *)
(* the rate to be positive, and the rate stays at or above par only        *)
(* because a recomputed rate is at least the old one, which is Backed.     *)
(*                                                                         *)
(* TicketInv carries PendingIsTickets.  It has to know that a new ticket   *)
(* is not one of the open ones: its nonce was never drawn before.          *)
(***************************************************************************)
EXTENDS StakingPool, Arithmetic, Sums

\* The rate never drops below its genesis value.
RateAtPar == exchange_rate >= RATE_SCALE

IInv ==
  /\ TypeOK
  /\ VaultCovers
  /\ BufferCoversStake
  /\ Backed
  /\ RateAtPar
  /\ ReserveBacked

-----------------------------------------------------------------------------
(* The arithmetic of the rate: t SOL staked, s riseSOL supplied, rate r,    *)
(* scale S.                                                                 *)

\* stake_sol mints no more riseSOL than the deposit backs.
LEMMA MintKeepsBacked ==
  ASSUME NEW t \in Nat, NEW s \in Nat, NEW r \in Nat, NEW S \in Nat,
         NEW l \in Nat, r > 0, s * r <= t * S
  PROVE  /\ (l * S) \div r \in Nat
         /\ (s + (l * S) \div r) * r <= (t + l) * S
<1> DEFINE m == (l * S) \div r
<1>1. l * S \in Nat /\ t * S \in Nat /\ (t + l) * S = t * S + l * S
  BY MulDistributes
<1>2. m \in Nat /\ m * r <= l * S
  BY <1>1, DivBounds
<1>3. (s + m) * r = s * r + m * r
  BY <1>2, MulDistributes
<1>4. s * r \in Nat /\ m * r \in Nat
  BY <1>2, MulDistributes
<1> HIDE DEF m
<1>5. (s + m) * r <= (t + l) * S
  BY <1>1, <1>2, <1>3, <1>4
<1>6. QED BY <1>2, <1>5 DEF m

\* unstake_rise_sol pays no more than is staked, and what remains is backed.
LEMMA RedeemKeepsBacked ==
  ASSUME NEW t \in Nat, NEW s \in Nat, NEW r \in Nat, NEW S \in Nat,
         NEW a \in Nat, S > 0, a <= s, s * r <= t * S
  PROVE  /\ (a * r) \div S \in Nat
         /\ (a * r) \div S <= t
         /\ (s - a) * r <= (t - (a * r) \div S) * S
<1> DEFINE v == (a * r) \div S
<1>1. a * r \in Nat /\ s * r \in Nat /\ t * S \in Nat
  BY MulDistributes
<1>2. v \in Nat /\ v * S <= a * r
  BY <1>1, DivBounds
<1>3. a * r <= s * r
  BY MulMono
<1>4. v * S \in Nat
  BY <1>2, MulDistributes
<1>5. (s - a) * r = s * r - a * r /\ (t - v) * S = t * S - v * S
  BY <1>2, MulDistributes
<1> HIDE DEF v
<1>6. v * S <= t * S
  BY <1>1, <1>2, <1>3, <1>4
<1>7. v <= t
  BY <1>2, <1>6, MulCancel
<1>8. (s - a) * r <= (t - v) * S
  BY <1>1, <1>2, <1>4, <1>5
<1>9. QED BY <1>2, <1>7, <1>8 DEF v

\* A rate recomputed after a credit of c lamports is backed and no lower.
LEMMA CreditKeepsBacked ==
  ASSUME NEW t \in Nat, NEW s \in Nat, NEW r \in Nat, NEW S \in Nat,
         NEW c \in Nat, s > 0, s * r <= t * S
  PROVE  /\ ((t + c) * S) \div s \in Nat
         /\ r <= ((t + c) * S) \div s
         /\ s * (((t + c) * S) \div s) <= (t + c) * S
<1> DEFINE n == (t + c) * S
<1>1. n \in Nat /\ n = t * S + c * S /\ t * S \in Nat /\ c * S \in Nat
  BY MulDistributes
<1>2. r * s = s * r /\ s * r \in Nat
  BY MulDistributes
<1> HIDE DEF n
<1>3. r * s <= n
  BY <1>1, <1>2
<1>4. r <= n \div s
  BY <1>1, <1>3, DivGreatest
<1>5. n \div s \in Nat /\ (n \div s) * s <= n
  BY <1>1, DivBounds
<1>6. s * (n \div s) = (n \div s) * s
  BY <1>5
<1>7. QED BY <1>4, <1>5, <1>6 DEF n

-----------------------------------------------------------------------------
(* Initial states, and one lemma per instruction. *)

\* The scales are positive and the fee fractions are at most one.
LEMMA TypeOfConstants ==
  /\ RATE_SCALE \in Nat /\ RATE_SCALE > 0
  /\ INDEX_SCALE \in Nat /\ INDEX_SCALE > 0
  /\ BPS \in Nat /\ BPS > 0
  /\ MaxTeamFee \in Nat /\ MaxTeamFee <= BPS
  /\ PROTOCOL_FEE_BPS \in Nat /\ PROTOCOL_FEE_BPS <= BPS
  /\ RENT_MIN \in Nat
  BY ScaleAssumption DEF MaxTeamFee

\* A freshly initialised pool and treasury satisfy the invariant.
LEMMA InitEstablishes == Init => IInv
<1> SUFFICES ASSUME Init PROVE IInv
  OBVIOUS
<1>1. TypeOK
  BY TypeOfConstants, InputAssumption DEF Init, TreasuryInit, TypeOK
<1>2. VaultCovers /\ BufferCoversStake /\ RateAtPar /\ ReserveBacked
  BY TypeOfConstants DEF Init, TreasuryInit, VaultCovers, Accounted, BufferCoversStake,
     RateAtPar,
     ReserveBacked
<1>3. Backed
  BY TypeOfConstants DEF Init, TreasuryInit, Backed
<1>4. QED BY <1>1, <1>2, <1>3 DEF IInv

\* stake_sol: the mint rounds down, so the deposit backs it.
LEMMA StakeSolStep ==
  ASSUME IInv, NEW user \in Users, NEW lamports \in Amounts, StakeSol(user, lamports)
  PROVE  IInv'
<1> DEFINE minted == SolToRiseSol(lamports)
<1>1. lamports \in Nat
  BY InputAssumption
<1>2. /\ minted \in Nat
      /\ (staking_rise_sol_supply + minted) * exchange_rate
           <= (total_sol_staked + lamports) * RATE_SCALE
  BY <1>1, MintKeepsBacked, TypeOfConstants
     DEF IInv, TypeOK, Backed, RateAtPar, SolToRiseSol
<1> HIDE DEF minted
<1>3. /\ wallet[user] >= lamports
      /\ wallet' = [wallet EXCEPT ![user] = @ - lamports]
      /\ pool_vault' = pool_vault + lamports
      /\ total_sol_staked' = total_sol_staked + lamports
      /\ staking_rise_sol_supply' = staking_rise_sol_supply + minted
      /\ liquid_buffer_lamports' = liquid_buffer_lamports + lamports
      /\ rise_sol' = [rise_sol EXCEPT ![user] = @ + minted]
      /\ UNCHANGED <<exchange_rate, last_rate_update_epoch,
                     pending_withdrawals_lamports, ticketVars, treasuryVars,
                     outside, epoch>>
  BY DEF StakeSol, minted
<1>4. TypeOK'
  BY <1>1, <1>2, <1>3 DEF IInv, TypeOK, ticketVars, treasuryVars, configVars, reserveVars,
     revenueVars
<1>5. VaultCovers' /\ BufferCoversStake' /\ RateAtPar' /\ ReserveBacked'
  BY <1>1, <1>3, TypeOfConstants
     DEF IInv, TypeOK, VaultCovers, Accounted, BufferCoversStake, RateAtPar,
     ReserveBacked, treasuryVars, reserveVars
<1>6. Backed'
  BY <1>2, <1>3 DEF Backed
<1>7. QED BY <1>4, <1>5, <1>6 DEF IInv

\* unstake_rise_sol: the payout rounds down and moves from buffer to pending.
LEMMA UnstakeRiseSolStep ==
  ASSUME IInv, NEW user \in Users, NEW amount \in Amounts, UnstakeRiseSol(user, amount)
  PROVE  IInv'
<1> DEFINE sol == RiseSolToSol(amount)
<1>1. amount \in Nat /\ amount <= staking_rise_sol_supply
  BY InputAssumption DEF UnstakeRiseSol, IInv, TypeOK
<1>2. /\ sol \in Nat
      /\ (staking_rise_sol_supply - amount) * exchange_rate
           <= (total_sol_staked - sol) * RATE_SCALE
  BY <1>1, RedeemKeepsBacked, TypeOfConstants DEF IInv, TypeOK, Backed, RiseSolToSol
<1> HIDE DEF sol
<1>3. /\ sol > 0
      /\ rise_sol[user] >= amount
      /\ total_sol_staked >= sol
      /\ liquid_buffer_lamports >= sol
      /\ rise_sol' = [rise_sol EXCEPT ![user] = @ - amount]
      /\ staking_rise_sol_supply' = staking_rise_sol_supply - amount
      /\ total_sol_staked' = total_sol_staked - sol
      /\ liquid_buffer_lamports' = liquid_buffer_lamports - sol
      /\ pending_withdrawals_lamports' = pending_withdrawals_lamports + sol
      /\ unstake_nonce' = unstake_nonce + 1
      /\ tickets' = tickets \cup
           {[owner |-> user, sol_amount |-> sol,
             claimable_epoch |-> epoch + UNSTAKE_EPOCH_DELAY,
             nonce |-> unstake_nonce]}
      /\ UNCHANGED <<exchange_rate, last_rate_update_epoch, treasuryVars,
                     pool_vault, wallet, outside, epoch>>
  BY DEF UnstakeRiseSol, sol
<1>4. TypeOK'
  <2>1. tickets' \subseteq TicketType
    BY <1>2, <1>3, ScaleAssumption DEF IInv, TypeOK, TicketType
  <2>2. QED BY <1>1, <1>2, <1>3, <2>1
    DEF IInv, TypeOK, treasuryVars, configVars, reserveVars, revenueVars
<1>5. VaultCovers' /\ BufferCoversStake' /\ RateAtPar' /\ ReserveBacked'
  BY <1>2, <1>3, TypeOfConstants
     DEF IInv, TypeOK, VaultCovers, Accounted, BufferCoversStake, RateAtPar,
     ReserveBacked, treasuryVars, reserveVars
<1>6. Backed'
  BY <1>2, <1>3 DEF Backed
<1>7. QED BY <1>4, <1>5, <1>6 DEF IInv

\* claim_unstake pays out of the pending withdrawals.
LEMMA ClaimUnstakeStep ==
  ASSUME IInv, NEW ticket \in tickets, ClaimUnstake(ticket)
  PROVE  IInv'
<1>1. ticket \in TicketType
  BY DEF IInv, TypeOK
<1>2. TypeOK'
  BY <1>1 DEF ClaimUnstake, CloseTicket, IInv, TypeOK, TicketType, stakeVars,
     treasuryVars,
     configVars, reserveVars, revenueVars
<1>3. VaultCovers' /\ BufferCoversStake' /\ RateAtPar' /\ ReserveBacked'
  BY <1>1, TypeOfConstants DEF ClaimUnstake, IInv, TypeOK, TicketType, VaultCovers,
     Accounted, BufferCoversStake, RateAtPar, ReserveBacked, stakeVars,
     treasuryVars, reserveVars
<1>4. Backed'
  BY DEF ClaimUnstake, IInv, Backed, stakeVars
<1>5. QED BY <1>2, <1>3, <1>4 DEF IInv

\* Recognising revenue keeps the backing and never lowers the rate.
LEMMA CreditEffect ==
  ASSUME IInv, NEW amount \in Nat, Credit(amount)
  PROVE  /\ total_sol_staked' \in Nat
         /\ liquid_buffer_lamports' = liquid_buffer_lamports + amount
         /\ exchange_rate' \in Nat
         /\ exchange_rate' >= exchange_rate
         /\ staking_rise_sol_supply' = staking_rise_sol_supply
         /\ BufferCoversStake'
         /\ Backed'
<1>1. /\ total_sol_staked \in Nat
      /\ staking_rise_sol_supply \in Nat
      /\ exchange_rate \in Nat
      /\ liquid_buffer_lamports \in Nat
  BY DEF IInv, TypeOK
<1>2. /\ total_sol_staked' = total_sol_staked + amount
      /\ liquid_buffer_lamports' = liquid_buffer_lamports + amount
      /\ staking_rise_sol_supply' = staking_rise_sol_supply
      /\ exchange_rate' =
           RateFor(total_sol_staked + amount, staking_rise_sol_supply)
  BY DEF Credit
<1>3. BufferCoversStake'
  BY <1>1, <1>2 DEF IInv, BufferCoversStake
<1>4. CASE staking_rise_sol_supply > 0
  <2>1. exchange_rate' =
          ((total_sol_staked + amount) * RATE_SCALE) \div staking_rise_sol_supply
    BY <1>2, <1>4 DEF RateFor
  <2>2. staking_rise_sol_supply * exchange_rate <= total_sol_staked * RATE_SCALE
    BY DEF IInv, Backed
  <2>3. /\ exchange_rate' \in Nat
        /\ exchange_rate <= exchange_rate'
        /\ staking_rise_sol_supply * exchange_rate'
             <= (total_sol_staked + amount) * RATE_SCALE
    BY <1>1, <1>4, <2>1, <2>2, CreditKeepsBacked, TypeOfConstants
  <2>4. QED BY <1>1, <1>2, <1>3, <2>3 DEF Backed
<1>5. CASE staking_rise_sol_supply = 0
  <2>1. exchange_rate' = exchange_rate
    BY <1>2, <1>5 DEF RateFor
  <2>2. (total_sol_staked + amount) * RATE_SCALE \in Nat
    BY <1>1, TypeOfConstants, MulDistributes
  <2>3. staking_rise_sol_supply' * exchange_rate' = 0
    BY <1>1, <1>2, <1>5, <2>1
  <2>4. QED BY <1>1, <1>2, <1>3, <2>1, <2>2, <2>3 DEF Backed
<1>6. QED BY <1>1, <1>4, <1>5

\* credit_staking_revenue recognises lamports the vault already holds.
LEMMA CreditStakingRevenueStep ==
  ASSUME IInv, NEW amount \in Flows, CreditStakingRevenue(amount)
  PROVE  IInv'
<1>1. amount \in Nat
  BY InputAssumption
<1>2. Credit(amount)
  BY DEF CreditStakingRevenue
<1>3. /\ total_sol_staked' \in Nat
      /\ liquid_buffer_lamports' = liquid_buffer_lamports + amount
      /\ exchange_rate' \in Nat
      /\ exchange_rate' >= exchange_rate
      /\ staking_rise_sol_supply' = staking_rise_sol_supply
      /\ BufferCoversStake'
      /\ Backed'
  BY <1>1, <1>2, CreditEffect
<1>4. TypeOK'
  BY <1>1, <1>3 DEF CreditStakingRevenue, IInv, TypeOK, ticketVars, treasuryVars,
     configVars, reserveVars, revenueVars, userVars
<1>5. VaultCovers' /\ RateAtPar' /\ ReserveBacked'
  BY <1>1, <1>3, TypeOfConstants
     DEF CreditStakingRevenue, IInv, TypeOK, VaultCovers, Accounted, RateAtPar,
     ReserveBacked, treasuryVars, reserveVars
<1>6. QED BY <1>3, <1>4, <1>5 DEF IInv

\* update_exchange_rate credits at most the excess and never lowers the rate.
LEMMA UpdateExchangeRateStep ==
  ASSUME IInv, UpdateExchangeRate
  PROVE  IInv' /\ exchange_rate' >= exchange_rate
<1> DEFINE available == pool_vault - pending_withdrawals_lamports
           rewards == available - liquid_buffer_lamports
           credited == rewards - ProtocolFee(rewards)
<1>1. /\ last_rate_update_epoch' = epoch
      /\ UNCHANGED <<pending_withdrawals_lamports, ticketVars, treasuryVars,
                     pool_vault, userVars, outside, epoch>>
  BY DEF UpdateExchangeRate
<1>2. CASE available <= liquid_buffer_lamports
  <2>1. UNCHANGED <<stakeVars, liquid_buffer_lamports>>
    BY <1>2 DEF UpdateExchangeRate, IInv, TypeOK
  <2>2. TypeOK'
    BY <1>1, <2>1 DEF IInv, TypeOK, stakeVars, ticketVars, treasuryVars,
       configVars, reserveVars, revenueVars, userVars
  <2>3. /\ VaultCovers' /\ BufferCoversStake' /\ RateAtPar' /\ ReserveBacked'
        /\ Backed'
    BY <1>1, <2>1 DEF IInv, VaultCovers, Accounted, BufferCoversStake, RateAtPar,
       ReserveBacked, Backed, stakeVars, treasuryVars, reserveVars
  <2>4. exchange_rate' >= exchange_rate
    BY <2>1 DEF stakeVars, IInv, TypeOK
  <2>5. QED BY <2>2, <2>3, <2>4 DEF IInv
<1>3. CASE available > liquid_buffer_lamports
  <2>1. Credit(credited)
    BY <1>3 DEF UpdateExchangeRate, IInv, TypeOK
  <2>2. rewards \in Nat
    BY <1>3 DEF IInv, TypeOK
  <2>3. credited \in Nat /\ credited <= rewards
    BY <2>2, FractionBound, TypeOfConstants DEF ProtocolFee
  <2> HIDE DEF credited
  <2>4. /\ total_sol_staked' \in Nat
        /\ liquid_buffer_lamports' = liquid_buffer_lamports + credited
        /\ exchange_rate' \in Nat
        /\ exchange_rate' >= exchange_rate
        /\ staking_rise_sol_supply' = staking_rise_sol_supply
        /\ BufferCoversStake'
        /\ Backed'
    BY <2>1, <2>3, CreditEffect
  <2>5. TypeOK'
    BY <1>1, <2>3, <2>4 DEF IInv, TypeOK, ticketVars, treasuryVars,
       configVars, reserveVars, revenueVars, userVars
  <2>6. VaultCovers' /\ RateAtPar' /\ ReserveBacked'
    BY <1>1, <2>2, <2>3, <2>4, TypeOfConstants
       DEF IInv, TypeOK, VaultCovers, Accounted, RateAtPar, ReserveBacked,
       treasuryVars, reserveVars
  <2>7. QED BY <2>4, <2>5, <2>6 DEF IInv
<1>4. QED BY <1>2, <1>3 DEF IInv, TypeOK

\* The revenue index and the distribution total stay natural numbers.
LEMMA BookVeriseType ==
  ASSUME IInv, NEW verise \in Nat, NEW total_verise \in Nat,
         BookVerise(verise, total_verise)
  PROVE  revenue_index' \in Nat /\ total_distributed' \in Nat
<1>1. revenue_index \in Nat /\ total_distributed \in Nat
  BY DEF IInv, TypeOK
<1>2. verise * INDEX_SCALE \in Nat
  BY TypeOfConstants, MulDistributes
<1>3. CASE verise > 0 /\ total_verise > 0
  <2>1. (verise * INDEX_SCALE) \div total_verise \in Nat
    BY <1>2, <1>3, DivBounds
  <2>2. QED BY <1>1, <1>3, <2>1 DEF BookVerise
<1>4. CASE ~(verise > 0 /\ total_verise > 0)
  BY <1>1, <1>4 DEF BookVerise
<1>5. QED BY <1>3, <1>4

\* collect_fees takes the excess and nothing more.
LEMMA CollectFeesStep ==
  ASSUME IInv, NEW total_verise \in VeriseSupplies, CollectFees(total_verise)
  PROVE  IInv'
<1> DEFINE fees == Excess
           team == TeamCut(fees)
           verise == VeriseCut(fees)
           reserve == fees - team - verise
<1>1. fees \in Nat /\ fees = pool_vault - Accounted
  BY DEF CollectFees, Excess, Accounted, IInv, TypeOK
<1>2. team \in Nat /\ verise \in Nat
  <2>1. /\ team_fee_bps \in Nat /\ team_fee_bps <= BPS
        /\ verise_share_bps \in Nat /\ verise_share_bps <= BPS
    BY TypeOfConstants DEF IInv, TypeOK
  <2>2. QED BY <1>1, <2>1, FractionBound, TypeOfConstants DEF TeamCut, VeriseCut
<1>3. reserve \in Nat
  BY <1>1, <1>2 DEF CollectFees
<1>4. BookVerise(verise, total_verise)
  BY DEF CollectFees
<1>5. revenue_index' \in Nat /\ total_distributed' \in Nat
  BY <1>2, <1>4, BookVeriseType, InputAssumption
<1> HIDE DEF team, verise, reserve
<1>6. /\ pool_vault' = pool_vault - fees
      /\ outside' = outside + team
      /\ reserve_vault' = reserve_vault + reserve
      /\ reserve_lamports' = reserve_lamports + reserve
      /\ verise_vault' = verise_vault + verise
      /\ last_collection_epoch' = epoch
      /\ UNCHANGED <<poolVars, ticketVars, configVars, userVars, epoch>>
  BY DEF CollectFees, team, verise, reserve
<1> HIDE DEF fees
<1>7. pool_vault' = liquid_buffer_lamports + pending_withdrawals_lamports
  BY <1>1, <1>6 DEF Accounted, IInv, TypeOK
<1>8. TypeOK'
  BY <1>2, <1>3, <1>5, <1>6, <1>7 DEF IInv, TypeOK, poolVars, stakeVars,
     ticketVars, configVars, userVars
<1>9. VaultCovers' /\ BufferCoversStake' /\ RateAtPar' /\ ReserveBacked' /\ Backed'
  BY <1>3, <1>6, <1>7 DEF IInv, TypeOK, VaultCovers, Accounted,
     BufferCoversStake, RateAtPar, ReserveBacked, Backed, poolVars, stakeVars
<1>10. QED BY <1>8, <1>9 DEF IInv

\* A plain transfer into pool_vault only adds to the excess.
LEMMA SolArrivesStep ==
  ASSUME IInv, NEW amount \in Flows, SolArrives(amount)
  PROVE  IInv'
<1>1. amount \in Nat
  BY InputAssumption
<1>2. TypeOK'
  BY <1>1, TypeOfConstants DEF SolArrives, IInv, TypeOK, poolVars, stakeVars, ticketVars,
     treasuryVars, configVars, reserveVars, revenueVars, userVars
<1>3. VaultCovers' /\ BufferCoversStake' /\ RateAtPar' /\ ReserveBacked'
  BY <1>1, TypeOfConstants DEF SolArrives, IInv, TypeOK, VaultCovers, Accounted,
     BufferCoversStake, RateAtPar, ReserveBacked, poolVars, stakeVars,
     treasuryVars, reserveVars
<1>4. Backed'
  BY DEF SolArrives, IInv, Backed, poolVars, stakeVars
<1>5. QED BY <1>2, <1>3, <1>4 DEF IInv

\* receive_cdp_liquidity moves excess into the liquid buffer.
LEMMA ReceiveCdpLiquidityStep ==
  ASSUME IInv, NEW amount \in Flows, ReceiveCdpLiquidity(amount)
  PROVE  IInv'
<1>1. amount \in Nat
  BY InputAssumption
<1>2. TypeOK'
  BY <1>1, TypeOfConstants DEF ReceiveCdpLiquidity, IInv, TypeOK, poolVars, stakeVars,
     ticketVars,
     treasuryVars, configVars, reserveVars, revenueVars, userVars
<1>3. VaultCovers' /\ BufferCoversStake' /\ RateAtPar' /\ ReserveBacked'
  BY <1>1, TypeOfConstants DEF ReceiveCdpLiquidity, IInv, TypeOK, VaultCovers, Accounted,
     BufferCoversStake, RateAtPar, ReserveBacked, poolVars, stakeVars,
     treasuryVars, reserveVars
<1>4. Backed'
  BY DEF ReceiveCdpLiquidity, IInv, Backed, poolVars, stakeVars
<1>5. QED BY <1>2, <1>3, <1>4 DEF IInv

\* mint_for_cdp leaves the pool's accounting alone.
LEMMA MintForCdpStep ==
  ASSUME IInv, NEW user \in Users, NEW amount \in Nat, MintForCdp(user, amount)
  PROVE  IInv'
<1>1. TypeOK'
  BY TypeOfConstants DEF MintForCdp, IInv, TypeOK, poolVars, stakeVars, ticketVars,
     treasuryVars, configVars, reserveVars, revenueVars, userVars
<1>2. VaultCovers' /\ BufferCoversStake' /\ RateAtPar' /\ ReserveBacked'
  BY TypeOfConstants DEF MintForCdp, IInv, TypeOK, VaultCovers, Accounted,
     BufferCoversStake, RateAtPar, ReserveBacked, poolVars, stakeVars,
     treasuryVars, reserveVars
<1>3. Backed'
  BY DEF MintForCdp, IInv, Backed, poolVars, stakeVars
<1>4. QED BY <1>1, <1>2, <1>3 DEF IInv

\* An interest burn shrinks the supply side of Backed only.
LEMMA NotifyRiseSolBurnedStep ==
  ASSUME IInv, NEW user \in Users, NEW amount \in TokenFlows,
         NotifyRiseSolBurned(user, amount)
  PROVE  IInv'
<1>1. amount \in Nat
  BY InputAssumption
<1>2. TypeOK'
  BY <1>1 DEF NotifyRiseSolBurned, IInv, TypeOK, ticketVars,
     treasuryVars, configVars, reserveVars, revenueVars
<1>3. VaultCovers' /\ BufferCoversStake' /\ RateAtPar' /\ ReserveBacked'
  BY DEF NotifyRiseSolBurned, IInv, VaultCovers, Accounted,
     BufferCoversStake, RateAtPar, ReserveBacked, treasuryVars, reserveVars
<1>4. Backed'
  <2>1. staking_rise_sol_supply' * exchange_rate
          <= staking_rise_sol_supply * exchange_rate
    BY <1>1, MulMono DEF NotifyRiseSolBurned, IInv, TypeOK
  <2>2. /\ staking_rise_sol_supply' * exchange_rate \in Nat
        /\ staking_rise_sol_supply * exchange_rate \in Nat
        /\ total_sol_staked * RATE_SCALE \in Nat
    BY <1>2, MulDistributes, TypeOfConstants DEF IInv, TypeOK
  <2>3. QED BY <2>1, <2>2 DEF NotifyRiseSolBurned, IInv, Backed
<1>5. QED BY <1>2, <1>3, <1>4 DEF IInv

\* register_external_revenue raises the reserve and its counter together.
LEMMA RegisterExternalRevenueStep ==
  ASSUME IInv, NEW verise \in TreasuryFlows, NEW reserve \in TreasuryFlows,
         NEW total_verise \in VeriseSupplies,
         RegisterExternalRevenue(verise, reserve, total_verise)
  PROVE  IInv'
<1>1. verise \in Nat /\ reserve \in Nat /\ total_verise \in Nat
  BY InputAssumption
<1>2. revenue_index' \in Nat /\ total_distributed' \in Nat
  BY <1>1, BookVeriseType DEF RegisterExternalRevenue
<1>3. TypeOK'
  BY <1>1, <1>2 DEF RegisterExternalRevenue, IInv, TypeOK, poolVars, stakeVars,
     ticketVars, configVars, userVars
<1>4. /\ VaultCovers' /\ BufferCoversStake' /\ RateAtPar' /\ ReserveBacked'
      /\ Backed'
  BY <1>1 DEF RegisterExternalRevenue, IInv, TypeOK, VaultCovers, Accounted,
     BufferCoversStake, RateAtPar, ReserveBacked, Backed, poolVars, stakeVars
<1>5. QED BY <1>3, <1>4 DEF IInv

\* A plain transfer into reserve_vault adds lamports nobody counts.
LEMMA ReserveFundedStep ==
  ASSUME IInv, NEW amount \in TreasuryFlows, ReserveFunded(amount)
  PROVE  IInv'
<1>1. amount \in Nat
  BY InputAssumption
<1>2. TypeOK'
  BY <1>1 DEF ReserveFunded, IInv, TypeOK, poolVars, stakeVars, ticketVars,
     configVars, revenueVars, userVars
<1>3. VaultCovers' /\ BufferCoversStake' /\ RateAtPar' /\ ReserveBacked'
  BY <1>1 DEF ReserveFunded, IInv, TypeOK, VaultCovers, Accounted,
     BufferCoversStake, RateAtPar, ReserveBacked, poolVars, stakeVars
<1>4. Backed'
  BY DEF ReserveFunded, IInv, Backed, poolVars, stakeVars
<1>5. QED BY <1>2, <1>3, <1>4 DEF IInv

\* The buyback lowers the reserve at least as much as its counter.
LEMMA WithdrawTreasuryForCdpBuybackStep ==
  ASSUME IInv, NEW amount \in TreasuryFlows,
         WithdrawTreasuryForCdpBuyback(amount)
  PROVE  IInv'
<1>1. amount \in Nat
  BY InputAssumption
<1>2. TypeOK'
  BY <1>1, TypeOfConstants DEF WithdrawTreasuryForCdpBuyback, DebitReserve, IInv,
     TypeOK, poolVars, stakeVars, ticketVars,
     treasuryVars, configVars, reserveVars, revenueVars, userVars
<1>3. VaultCovers' /\ BufferCoversStake' /\ RateAtPar' /\ ReserveBacked'
  BY <1>1, TypeOfConstants DEF WithdrawTreasuryForCdpBuyback, DebitReserve, IInv,
     TypeOK, VaultCovers, Accounted,
     BufferCoversStake, RateAtPar, ReserveBacked, poolVars, stakeVars,
     treasuryVars, reserveVars
<1>4. Backed'
  BY DEF WithdrawTreasuryForCdpBuyback, DebitReserve, IInv, Backed, poolVars, stakeVars
<1>5. QED BY <1>2, <1>3, <1>4 DEF IInv

\* withdraw_reserve lowers the reserve and its counter together.
LEMMA WithdrawReserveStep ==
  ASSUME IInv, NEW amount \in TreasuryFlows, WithdrawReserve(amount)
  PROVE  IInv'
<1>1. amount \in Nat
  BY InputAssumption
<1>2. TypeOK'
  BY <1>1, TypeOfConstants DEF WithdrawReserve, DebitReserve, IInv, TypeOK, poolVars,
     stakeVars, ticketVars,
     treasuryVars, configVars, reserveVars, revenueVars, userVars
<1>3. VaultCovers' /\ BufferCoversStake' /\ RateAtPar' /\ ReserveBacked'
  BY <1>1, TypeOfConstants DEF WithdrawReserve, DebitReserve, IInv, TypeOK, VaultCovers,
     Accounted,
     BufferCoversStake, RateAtPar, ReserveBacked, poolVars, stakeVars,
     treasuryVars, reserveVars
<1>4. Backed'
  BY DEF WithdrawReserve, DebitReserve, IInv, Backed, poolVars, stakeVars
<1>5. QED BY <1>2, <1>3, <1>4 DEF IInv

\* update_treasury_config keeps the fee fractions within their caps.
LEMMA UpdateTreasuryConfigStep ==
  ASSUME IInv, NEW team \in TeamFees, NEW verise \in VeriseShares,
         UpdateTreasuryConfig(team, verise)
  PROVE  IInv'
<1>1. team \in Nat /\ verise \in Nat
  BY InputAssumption
<1>2. TypeOK'
  BY <1>1, TypeOfConstants DEF UpdateTreasuryConfig, IInv, TypeOK, poolVars, stakeVars,
     ticketVars,
     treasuryVars, configVars, reserveVars, revenueVars, userVars
<1>3. VaultCovers' /\ BufferCoversStake' /\ RateAtPar' /\ ReserveBacked'
  BY <1>1, TypeOfConstants DEF UpdateTreasuryConfig, IInv, TypeOK, VaultCovers, Accounted,
     BufferCoversStake, RateAtPar, ReserveBacked, poolVars, stakeVars,
     treasuryVars, reserveVars
<1>4. Backed'
  BY DEF UpdateTreasuryConfig, IInv, Backed, poolVars, stakeVars
<1>5. QED BY <1>2, <1>3, <1>4 DEF IInv

\* The clock touches no account.
LEMMA NextEpochStep ==
  ASSUME IInv, NextEpoch
  PROVE  IInv'
<1>2. TypeOK'
  BY TypeOfConstants DEF NextEpoch, IInv, TypeOK, poolVars, stakeVars, ticketVars,
     treasuryVars, configVars, reserveVars, revenueVars, userVars
<1>3. VaultCovers' /\ BufferCoversStake' /\ RateAtPar' /\ ReserveBacked'
  BY TypeOfConstants DEF NextEpoch, IInv, TypeOK, VaultCovers, Accounted,
     BufferCoversStake, RateAtPar, ReserveBacked, poolVars, stakeVars,
     treasuryVars, reserveVars
<1>4. Backed'
  BY DEF NextEpoch, IInv, Backed, poolVars, stakeVars
<1>5. QED BY <1>2, <1>3, <1>4 DEF IInv

-----------------------------------------------------------------------------
(* The invariant is inductive. *)

\* Every instruction, and a stuttering step, preserves the invariant.
LEMMA NextKeepsIInv == IInv /\ [Next]_vars => IInv'
<1> SUFFICES ASSUME IInv, [Next]_vars PROVE IInv'
  OBVIOUS
<1>1. CASE Staker
  <2>1. CASE \E user \in Users, amount \in Amounts :
               StakeSol(user, amount) \/ UnstakeRiseSol(user, amount)
    BY <2>1, StakeSolStep, UnstakeRiseSolStep
  <2>2. CASE \E ticket \in tickets : ClaimUnstake(ticket)
    BY <2>2, ClaimUnstakeStep
  <2>3. QED BY <1>1, <2>1, <2>2 DEF Staker
<1>2. CASE Crank
  BY <1>2, UpdateExchangeRateStep, CollectFeesStep DEF Crank
<1>3. CASE Cdp
  <2>1. CASE \E amount \in Flows : \/ SolArrives(amount)
                                   \/ ReceiveCdpLiquidity(amount)
                                   \/ CreditStakingRevenue(amount)
    BY <2>1, SolArrivesStep, ReceiveCdpLiquidityStep, CreditStakingRevenueStep
  <2>2. CASE \E user \in Users, amount \in TokenFlows :
               MintForCdp(user, amount) \/ NotifyRiseSolBurned(user, amount)
    BY <2>2, MintForCdpStep, NotifyRiseSolBurnedStep, InputAssumption
  <2>3. CASE \E verise, reserve \in TreasuryFlows, total_verise \in VeriseSupplies :
               RegisterExternalRevenue(verise, reserve, total_verise)
    BY <2>3, RegisterExternalRevenueStep
  <2>4. CASE \E amount \in TreasuryFlows :
               ReserveFunded(amount) \/ WithdrawTreasuryForCdpBuyback(amount)
    BY <2>4, ReserveFundedStep, WithdrawTreasuryForCdpBuybackStep
  <2>5. QED BY <1>3, <2>1, <2>2, <2>3, <2>4 DEF Cdp
<1>4. CASE Authority
  BY <1>4, WithdrawReserveStep, UpdateTreasuryConfigStep DEF Authority
<1>5. CASE NextEpoch
  BY <1>5, NextEpochStep
<1>6. CASE UNCHANGED vars
  BY <1>6 DEF vars, poolVars, stakeVars, ticketVars, treasuryVars, configVars,
     reserveVars, revenueVars, userVars, IInv, TypeOK, VaultCovers, Accounted,
     BufferCoversStake, Backed, RateAtPar, ReserveBacked
<1>7. QED BY <1>1, <1>2, <1>3, <1>4, <1>5, <1>6 DEF Next

\* The invariant holds in every reachable state.
LEMMA Inductive == Spec => []IInv
  BY InitEstablishes, NextKeepsIInv, PTL DEF Spec

-----------------------------------------------------------------------------
(* What follows for every value of the constants. *)

\* Every field of the pool, the treasury, the tickets and the wallets keeps its
\* type: no counter of an instruction of rise-staking ever goes negative.
THEOREM TypeCorrect == Spec => []TypeOK
<1>1. IInv => TypeOK
  BY DEF IInv
<1>2. QED BY <1>1, Inductive, PTL

\* pool_vault always covers the liquid buffer and the pending withdrawals, so
\* the fee excess collect_fees sweeps is never negative.
THEOREM VaultAlwaysCovers == Spec => []VaultCovers
<1>1. IInv => VaultCovers
  BY DEF IInv
<1>2. QED BY <1>1, Inductive, PTL

\* The liquid buffer always covers the staked SOL.
THEOREM BufferAlwaysCovers == Spec => []BufferCoversStake
<1>1. IInv => BufferCoversStake
  BY DEF IInv
<1>2. QED BY <1>1, Inductive, PTL

\* At the current rate, the staking supply is never worth more than the SOL
\* staked, whatever rounding, cranks, CDP revenue and CDP burns have done.
THEOREM AlwaysBacked == Spec => []Backed
<1>1. IInv => Backed
  BY DEF IInv
<1>2. QED BY <1>1, Inductive, PTL

\* reserve_lamports never claims more than reserve_vault holds.
THEOREM ReserveAlwaysBacked == Spec => []ReserveBacked
<1>1. IInv => ReserveBacked
  BY DEF IInv
<1>2. QED BY <1>1, Inductive, PTL

\* No amount of the staking supply makes the checked subtractions of
\* unstake_rise_sol fail.
THEOREM UnstakeNeverBlocked == Spec => []UnstakeAlwaysFits
<1>1. ASSUME IInv PROVE UnstakeAlwaysFits
  <2>1. /\ total_sol_staked \in Nat /\ staking_rise_sol_supply \in Nat
        /\ exchange_rate \in Nat /\ liquid_buffer_lamports \in Nat
        /\ total_sol_staked <= liquid_buffer_lamports
        /\ staking_rise_sol_supply * exchange_rate <= total_sol_staked * RATE_SCALE
    BY <1>1 DEF IInv, TypeOK, BufferCoversStake, Backed
  <2>2. ASSUME NEW amount \in 0..staking_rise_sol_supply
        PROVE  /\ RiseSolToSol(amount) \in Nat
               /\ RiseSolToSol(amount) <= total_sol_staked
    <3>1. amount \in Nat /\ amount <= staking_rise_sol_supply
      BY <2>1
    <3>2. QED BY <2>1, <3>1, TypeOfConstants, RedeemKeepsBacked DEF RiseSolToSol
  <2>3. QED BY <2>1, <2>2 DEF UnstakeAlwaysFits
<1>2. IInv => UnstakeAlwaysFits
  BY <1>1
<1>3. QED BY <1>2, Inductive, PTL

\* No step lowers the exchange rate.
LEMMA NextKeepsRate ==
  ASSUME IInv, [Next]_vars PROVE exchange_rate' >= exchange_rate
<1>1. exchange_rate \in Nat
  BY DEF IInv, TypeOK
<1>2. CASE UpdateExchangeRate
  BY <1>2, UpdateExchangeRateStep
<1>3. ASSUME NEW amount \in Flows, CreditStakingRevenue(amount)
      PROVE  exchange_rate' >= exchange_rate
  BY <1>3, CreditEffect, InputAssumption DEF CreditStakingRevenue
<1>4. CASE Staker
  BY <1>1, <1>4 DEF Staker, StakeSol, UnstakeRiseSol, ClaimUnstake, stakeVars
<1>5. CASE Crank
  BY <1>1, <1>2, <1>5 DEF Crank, CollectFees, poolVars, stakeVars
<1>6. CASE Cdp
  BY <1>1, <1>3, <1>6 DEF Cdp, SolArrives, ReceiveCdpLiquidity, MintForCdp,
     NotifyRiseSolBurned, RegisterExternalRevenue, ReserveFunded,
     WithdrawTreasuryForCdpBuyback,
     poolVars, stakeVars
<1>7. CASE Authority
  BY <1>1, <1>7 DEF Authority, WithdrawReserve, UpdateTreasuryConfig, poolVars,
     stakeVars
<1>8. CASE NextEpoch \/ UNCHANGED vars
  BY <1>1, <1>8 DEF NextEpoch, vars, poolVars, stakeVars
<1>9. QED BY <1>4, <1>5, <1>6, <1>7, <1>8 DEF Next

\* No instruction ever lowers the exchange rate.
THEOREM RateMonotone == Spec => RateNeverFalls
<1>1. IInv /\ [Next]_vars => [exchange_rate' >= exchange_rate]_vars
  BY NextKeepsRate
<1>2. QED BY <1>1, Inductive, PTL DEF Spec, RateNeverFalls

-----------------------------------------------------------------------------
(* Refinement of the abstract custody vault. *)

\* The empty pool is the empty custody vault.
LEMMA InitMaps == Init => Custody!Init
  BY DEF Init, TreasuryInit, Custody!Init, Accounted

\* A step that changes neither the vault nor what is accounted for stutters.
LEMMA QuietStep ==
  ASSUME UNCHANGED <<pool_vault, liquid_buffer_lamports,
                     pending_withdrawals_lamports>>
  PROVE  UNCHANGED Custody!vars
  BY DEF Custody!vars, Accounted

\* Recognised revenue raises what the vault owes, by at most its excess.
LEMMA CreditMaps ==
  ASSUME IInv, NEW amount \in Nat, amount <= Excess, Credit(amount),
         UNCHANGED <<pending_withdrawals_lamports, pool_vault>>
  PROVE  [Custody!Next]_Custody!vars
<1>1. CASE amount = 0
  BY <1>1, QuietStep DEF Credit, IInv, TypeOK
<1>2. CASE amount > 0
  BY <1>2 DEF Credit, Excess, Accounted, IInv, TypeOK, VaultCovers, Custody!Next,
     Custody!Recognise
<1>3. QED BY <1>1, <1>2

\* A stake is a deposit, an unstake a stutter, a claim a payout.
LEMMA StakerMaps ==
  ASSUME IInv, Staker
  PROVE  [Custody!Next]_Custody!vars
<1>1. ASSUME NEW user \in Users, NEW lamports \in Amounts, StakeSol(user, lamports)
      PROVE  Custody!Next
  BY <1>1, InputAssumption DEF StakeSol, IInv, TypeOK, VaultCovers, Accounted,
     Custody!Next,
     Custody!Deposit
<1>2. ASSUME NEW user \in Users, NEW amount \in Amounts, UnstakeRiseSol(user, amount)
      PROVE  UNCHANGED Custody!vars
  <2>1. RiseSolToSol(amount) \in Nat
    BY <1>2, InputAssumption, RedeemKeepsBacked, TypeOfConstants
       DEF UnstakeRiseSol, RiseSolToSol, IInv, TypeOK, Backed
  <2>2. QED BY <1>2, <2>1 DEF UnstakeRiseSol, IInv, TypeOK, Accounted, Custody!vars
<1>3. ASSUME NEW ticket \in tickets, ClaimUnstake(ticket)
      PROVE  Custody!Next
  <2>1. ticket.sol_amount \in Nat \ {0}
    BY DEF IInv, TypeOK, TicketType
  <2>2. QED BY <1>3, <2>1 DEF ClaimUnstake, IInv, TypeOK, VaultCovers, Accounted,
        Custody!Next, Custody!PayOut
<1>4. QED BY <1>1, <1>2, <1>3 DEF Staker

\* A rate update recognises excess as owed; a sweep releases the rest.
LEMMA CrankMaps ==
  ASSUME IInv, IInv', Crank
  PROVE  [Custody!Next]_Custody!vars
<1>1. CASE UpdateExchangeRate
  <2> DEFINE available == pool_vault - pending_withdrawals_lamports
             rewards == available - liquid_buffer_lamports
             credited == rewards - ProtocolFee(rewards)
  <2>1. UNCHANGED <<pending_withdrawals_lamports, pool_vault>>
    BY <1>1 DEF UpdateExchangeRate
  <2>2. CASE UNCHANGED liquid_buffer_lamports
    BY <2>1, <2>2, QuietStep
  <2>3. CASE available > liquid_buffer_lamports /\ Credit(credited)
    <3>1. rewards \in Nat /\ rewards = Excess
      BY <2>3 DEF IInv, TypeOK, Excess, Accounted
    <3>2. credited \in Nat /\ credited <= rewards
      BY <3>1, FractionBound, TypeOfConstants DEF ProtocolFee
    <3> HIDE DEF credited
    <3>3. QED BY <2>1, <2>3, <3>1, <3>2, CreditMaps
  <2>4. QED BY <1>1, <2>2, <2>3 DEF UpdateExchangeRate
<1>2. ASSUME NEW total_verise \in VeriseSupplies, CollectFees(total_verise)
      PROVE  Custody!Next
  BY <1>2 DEF CollectFees, Excess, Accounted, IInv, TypeOK, VaultCovers, poolVars,
     Custody!Next, Custody!Release
<1>3. QED BY <1>1, <1>2 DEF Crank

\* The CDP program's steps arrive, are recognised or touch neither balance.
LEMMA CdpMaps ==
  ASSUME IInv, Cdp
  PROVE  [Custody!Next]_Custody!vars
<1>1. ASSUME NEW amount \in Flows, SolArrives(amount)
      PROVE  Custody!Next
  BY <1>1, InputAssumption DEF SolArrives, IInv, TypeOK, VaultCovers, Accounted,
     poolVars, Custody!Next, Custody!Arrive
<1>2. ASSUME NEW amount \in Flows, ReceiveCdpLiquidity(amount)
      PROVE  Custody!Next
  BY <1>2, InputAssumption DEF ReceiveCdpLiquidity, IInv, TypeOK, Accounted,
     Custody!Next, Custody!Recognise
<1>3. ASSUME NEW amount \in Flows, CreditStakingRevenue(amount)
      PROVE  [Custody!Next]_Custody!vars
  <2>1. amount \in Nat /\ amount <= Excess
    BY <1>3, InputAssumption DEF CreditStakingRevenue, Excess, Accounted, IInv, TypeOK
  <2>2. QED BY <1>3, <2>1, CreditMaps DEF CreditStakingRevenue
<1>4. ASSUME NEW user \in Users, NEW amount \in TokenFlows,
             MintForCdp(user, amount) \/ NotifyRiseSolBurned(user, amount)
      PROVE  UNCHANGED Custody!vars
  BY <1>4, QuietStep DEF MintForCdp, NotifyRiseSolBurned, poolVars
<1>5. ASSUME NEW verise \in TreasuryFlows, NEW reserve \in TreasuryFlows,
             NEW total_verise \in VeriseSupplies,
             RegisterExternalRevenue(verise, reserve, total_verise)
      PROVE  UNCHANGED Custody!vars
  BY <1>5, QuietStep DEF RegisterExternalRevenue, poolVars
<1>6. ASSUME NEW amount \in TreasuryFlows,
             ReserveFunded(amount) \/ WithdrawTreasuryForCdpBuyback(amount)
      PROVE  UNCHANGED Custody!vars
  BY <1>6, QuietStep DEF ReserveFunded, WithdrawTreasuryForCdpBuyback, poolVars
<1>7. QED BY <1>1, <1>2, <1>3, <1>4, <1>5, <1>6 DEF Cdp

\* The authority and the clock touch neither balance.
LEMMA QuietMaps ==
  ASSUME Authority \/ NextEpoch \/ UNCHANGED vars
  PROVE  UNCHANGED Custody!vars
  BY QuietStep DEF Authority, WithdrawReserve, UpdateTreasuryConfig, NextEpoch,
     vars, poolVars

\* Every step of the pool is one of the custody vault, or none.
LEMMA NextMaps ==
  ASSUME IInv, IInv', [Next]_vars
  PROVE  [Custody!Next]_Custody!vars
  BY StakerMaps, CrankMaps, CdpMaps, QuietMaps DEF Next

\* Every behaviour of the pool is a behaviour of the abstract custody vault:
\* what is owed to stakers and ticket holders leaves only by being paid out,
\* and a sweep releases only what nobody is owed.
THEOREM PoolImplementsCustody == Spec => ImplementsCustody
<1>1. IInv /\ IInv' /\ [Next]_vars => [Custody!Next]_Custody!vars
  BY NextMaps
<1>2. QED BY <1>1, InitMaps, Inductive, PTL DEF Spec, ImplementsCustody, Custody!Spec

-----------------------------------------------------------------------------
(* Withdrawal tickets *)

OwedOn(t) == SumFunctionOnSet([ticket \in t |-> ticket.sol_amount], t)

\* Every open ticket has a nonce that was drawn, so the next one is new.
NoncesDrawn ==
  /\ IsFiniteSet(tickets)
  /\ \A ticket \in tickets : ticket.nonce < unstake_nonce

TicketInv == NoncesDrawn /\ PendingIsTickets

\* The sum moves with the set by the one ticket that is opened or closed.
LEMMA OwedAdd ==
  ASSUME NEW T, IsFiniteSet(T), NEW ticket, ticket \notin T,
         \A t \in T \cup {ticket} : t.sol_amount \in Int
  PROVE  OwedOn(T \cup {ticket}) = OwedOn(T) + ticket.sol_amount
<1> DEFINE U == T \cup {ticket}
           f == [t \in U |-> t.sol_amount]
           g == [t \in T |-> t.sol_amount]
<1>1. /\ \A t \in T \cup {ticket} : f[t] \in Int
      /\ f[ticket] = ticket.sol_amount
      /\ \A t \in T : g[t] = f[t]
  OBVIOUS
<1>2. OwedOn(T \cup {ticket}) = SumFunctionOnSet(f, T \cup {ticket})
      /\ OwedOn(T) = SumFunctionOnSet(g, T)
  BY DEF OwedOn
<1> HIDE DEF f, g, U
<1>3. SumFunctionOnSet(f, T \cup {ticket}) = SumFunctionOnSet(f, T) + f[ticket]
  BY <1>1, SumAdd
<1>4. SumFunctionOnSet(g, T) = SumFunctionOnSet(f, T)
  BY <1>1, SumSame
<1>5. QED BY <1>1, <1>2, <1>3, <1>4

LEMMA OwedRemove ==
  ASSUME NEW T, IsFiniteSet(T), NEW ticket \in T, \A t \in T : t.sol_amount \in Nat
  PROVE  /\ OwedOn(T) \in Nat /\ OwedOn(T \ {ticket}) \in Nat
         /\ OwedOn(T \ {ticket}) = OwedOn(T) - ticket.sol_amount
<1> DEFINE S == T \ {ticket}
<1>1. IsFiniteSet(S) /\ ticket \notin S /\ S \cup {ticket} = T
  BY FS_Subset
<1> HIDE DEF S
<1>2. \A t \in S \cup {ticket} : t.sol_amount \in Int
  BY <1>1
<1>3. OwedOn(T) = OwedOn(S) + ticket.sol_amount
  BY <1>1, <1>2, OwedAdd
<1>4. ASSUME NEW R, IsFiniteSet(R), \A t \in R : t.sol_amount \in Nat
      PROVE  OwedOn(R) \in Nat
  <2> DEFINE f == [t \in R |-> t.sol_amount]
  <2>1. \A t \in R : f[t] \in Nat
    BY <1>4
  <2>2. OwedOn(R) = SumFunctionOnSet(f, R)
    BY DEF OwedOn
  <2> HIDE DEF f
  <2>3. QED BY <1>4, <2>1, <2>2, SumNat
<1>5. OwedOn(S) \in Nat /\ OwedOn(T) \in Nat
  <2>1. \A t \in S : t.sol_amount \in Nat
    BY <1>1
  <2>2. QED BY <1>1, <1>4, <2>1
<1>6. QED BY <1>3, <1>5 DEF S

LEMMA InitTickets == Init => TicketInv
<1> SUFFICES ASSUME Init PROVE TicketInv
  OBVIOUS
<1>1. tickets = {} /\ pending_withdrawals_lamports = 0
  BY DEF Init
<1>2. IsFiniteSet({})
  BY FS_EmptySet
<1>3. \A f : SumFunctionOnSet(f, {}) = 0
  BY SumEmpty
<1>4. QED BY <1>1, <1>2, <1>3 DEF TicketInv, NoncesDrawn, PendingIsTickets

\* unstake_rise_sol opens a ticket for what it moves out of the buffer.
LEMMA UnstakeRiseSolTickets ==
  ASSUME TypeOK, TypeOK', TicketInv, NEW user \in Users, NEW amount \in Amounts,
         UnstakeRiseSol(user, amount)
  PROVE  TicketInv'
<1> DEFINE sol == RiseSolToSol(amount)
           ticket == [owner |-> user, sol_amount |-> sol,
                      claimable_epoch |-> epoch + UNSTAKE_EPOCH_DELAY,
                      nonce |-> unstake_nonce]
<1>1. /\ pending_withdrawals_lamports' = pending_withdrawals_lamports + sol
      /\ unstake_nonce' = unstake_nonce + 1 /\ unstake_nonce \in Nat
      /\ tickets' = tickets \cup {ticket}
  BY DEF UnstakeRiseSol, TypeOK
<1>2. ticket.sol_amount = sol /\ ticket.nonce = unstake_nonce
  OBVIOUS
<1> HIDE DEF sol, ticket
<1>3. \A t \in tickets \cup {ticket} : t.sol_amount \in Int /\ t.nonce \in Nat
  BY <1>1 DEF TypeOK, TicketType
<1>4. /\ IsFiniteSet(tickets) /\ \A t \in tickets : t.nonce < unstake_nonce
      /\ pending_withdrawals_lamports = OwedOn(tickets)
  BY DEF TicketInv, NoncesDrawn, PendingIsTickets, OwedOn
<1>5. ticket \notin tickets
  BY <1>1, <1>2, <1>4
<1>6. OwedOn(tickets') = OwedOn(tickets) + sol
  BY <1>1, <1>2, <1>3, <1>4, <1>5, OwedAdd
<1>7. IsFiniteSet(tickets')
  BY <1>1, <1>4, FS_AddElement
<1>8. \A t \in tickets' : t.nonce < unstake_nonce'
  BY <1>1, <1>2, <1>3, <1>4
<1>9. QED BY <1>1, <1>4, <1>6, <1>7, <1>8 DEF TicketInv, NoncesDrawn, PendingIsTickets,
             OwedOn

\* claim_unstake closes the ticket it pays.
LEMMA ClaimUnstakeTickets ==
  ASSUME TypeOK, TicketInv, NEW ticket \in tickets, ClaimUnstake(ticket)
  PROVE  TicketInv'
<1>1. /\ pending_withdrawals_lamports' = pending_withdrawals_lamports - ticket.sol_amount
      /\ tickets' = tickets \ {ticket} /\ unstake_nonce' = unstake_nonce
  BY DEF ClaimUnstake, CloseTicket
<1>2. /\ IsFiniteSet(tickets) /\ \A t \in tickets : t.nonce < unstake_nonce
      /\ pending_withdrawals_lamports = OwedOn(tickets)
  BY DEF TicketInv, NoncesDrawn, PendingIsTickets, OwedOn
<1>3. \A t \in tickets : t.sol_amount \in Nat
  BY DEF TypeOK, TicketType
<1>4. OwedOn(tickets') = OwedOn(tickets) - ticket.sol_amount
  BY <1>1, <1>2, <1>3, OwedRemove
<1>5. IsFiniteSet(tickets') /\ \A t \in tickets' : t.nonce < unstake_nonce'
  BY <1>1, <1>2, FS_Subset
<1>6. QED BY <1>1, <1>2, <1>4, <1>5 DEF TicketInv, NoncesDrawn, PendingIsTickets, OwedOn

LEMMA StepTickets == TypeOK /\ TypeOK' /\ TicketInv /\ [Next]_vars => TicketInv'
<1> SUFFICES ASSUME TypeOK, TypeOK', TicketInv, [Next]_vars PROVE TicketInv'
  OBVIOUS
<1>1. CASE UNCHANGED <<pending_withdrawals_lamports, ticketVars>>
  BY <1>1 DEF TicketInv, NoncesDrawn, PendingIsTickets, ticketVars
<1>2. ASSUME NEW user \in Users, NEW amount \in Amounts,
             StakeSol(user, amount) \/ UnstakeRiseSol(user, amount)
      PROVE  TicketInv'
  BY <1>1, <1>2, UnstakeRiseSolTickets DEF StakeSol
<1>3. CASE Crank
  BY <1>1, <1>3 DEF Crank, UpdateExchangeRate, CollectFees, poolVars
<1>4. CASE Cdp
  BY <1>1, <1>4 DEF Cdp, SolArrives, ReceiveCdpLiquidity, CreditStakingRevenue,
     MintForCdp,
     NotifyRiseSolBurned, RegisterExternalRevenue, ReserveFunded,
     WithdrawTreasuryForCdpBuyback, poolVars
<1>5. CASE Authority \/ NextEpoch \/ UNCHANGED vars
  BY <1>1, <1>5 DEF Authority, NextEpoch, WithdrawReserve, UpdateTreasuryConfig,
     poolVars, vars
<1>6. QED BY <1>2, <1>3, <1>4, <1>5, ClaimUnstakeTickets DEF Next, Staker

LEMMA TicketsInductive == Spec => [](TypeOK /\ TicketInv)
<1>1. TypeOK /\ TicketInv /\ TypeOK' /\ [Next]_vars => (TypeOK /\ TicketInv)'
  BY StepTickets
<1>2. QED BY <1>1, InitTickets, TypeCorrect, PTL DEF Spec

\* pending_withdrawals_lamports is the sum of the open tickets, through requests,
\* claims in any order, sweeps and rate updates.
THEOREM PendingAlwaysTickets == Spec => []PendingIsTickets
<1>1. TicketInv => PendingIsTickets
  BY DEF TicketInv
<1>2. QED BY <1>1, TicketsInductive, PTL

\* Neither checked subtraction of claim_unstake can fail: each ticket, whichever
\* others were claimed before it, fits in the pending total and in the vault.
ClaimsAlwaysFit ==
  \A ticket \in tickets :
    /\ ticket.sol_amount <= pending_withdrawals_lamports
    /\ ticket.sol_amount <= pool_vault

\* Every open ticket is covered for ever, in whatever order tickets are claimed.
THEOREM TicketsAlwaysFit == Spec => []ClaimsAlwaysFit
<1>1. TypeOK /\ TicketInv /\ VaultCovers => ClaimsAlwaysFit
  <2> SUFFICES ASSUME TypeOK, TicketInv, VaultCovers, NEW ticket \in tickets
               PROVE  /\ ticket.sol_amount <= pending_withdrawals_lamports
                      /\ ticket.sol_amount <= pool_vault
    BY DEF ClaimsAlwaysFit
  <2>1. IsFiniteSet(tickets) /\ pending_withdrawals_lamports = OwedOn(tickets)
    BY DEF TicketInv, NoncesDrawn, PendingIsTickets, OwedOn
  <2>2. \A t \in tickets : t.sol_amount \in Nat
    BY DEF TypeOK, TicketType
  <2>3. /\ OwedOn(tickets \ {ticket}) \in Nat
        /\ OwedOn(tickets \ {ticket}) = OwedOn(tickets) - ticket.sol_amount
    BY <2>1, <2>2, OwedRemove
  <2>4. ticket.sol_amount <= pending_withdrawals_lamports
    BY <2>1, <2>2, <2>3 DEF TypeOK
  <2>5. QED BY <2>2, <2>4 DEF VaultCovers, Accounted, TypeOK
<1>2. QED BY <1>1, TicketsInductive, VaultAlwaysCovers, PTL
=============================================================================
