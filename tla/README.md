# TLA+ models of the RISE protocol

These modules model the on-chain programs of the RISE protocol (`programs/`) and
the loops of `crank-bot/` and the weight tally script that drive them. TLC checks them on small instances;
TLAPS proves nearly all safety properties the runs check for every value of the
constants. `PROJECT.json` maps every definition to the lines it stands for, and
lists the runs, the mutants that show each property can fail, the hazards and the
findings.

## 1. Inventory

Four Anchor programs run on Solana. An instruction is atomic: when any `require!`,
checked operation or inner call fails, the whole transaction is rolled back. So
there is no concurrency inside an instruction. What is hard lies *between*
instructions: anybody sends them in any order, several programs keep copies of
the same quantity, and lamports can arrive in a vault without any instruction of
the program that owns it.

| Component | State it keeps | Operations | Correct when |
|---|---|---|---|
| **Staking pool** (`rise-staking`) | `GlobalPool`: SOL staked, riseSOL supply, exchange rate, liquid buffer, pending withdrawals; `WithdrawalTicket`s; `pool_vault` | `stake_sol`, `unstake_rise_sol`, `claim_unstake`, `update_exchange_rate`; `mint_for_cdp`, `notify_rise_sol_burned`, `receive_cdp_liquidity`, `credit_staking_revenue` | the vault covers buffer and tickets, riseSOL is backed, the rate never falls, every ticket is paid |
| **Treasury and fees** (`rise-staking`) | `ProtocolTreasury`; `reserve_vault`, `verise_vault` | `collect_fees`, `register_external_revenue`, `withdraw_reserve`, `withdraw_treasury_for_cdp_buyback`, `update_treasury_config` | a sweep leaves what is owed, the reserve counter is backed |
| **Staker rewards** (`rise-staking`) | `StakeRewardsConfig`, `UserStakeRewards` | `initialize_`, `checkpoint_`, `register_`, `claim_`, `close_stake_rewards`, and a part of stake and unstake | no settlement fails, no more is owed than emitted |
| **CDP positions** (`rise-cdp`) | `CdpPosition`, `CdpConfig`, `CollateralConfig`, `PaymentConfig`; collateral, fee, WSOL and buyback vaults | open, add, borrow more, withdraw, three ways to repay, close, claim, accrue, liquidate, redeem collateral for stakers, collect fees, the authority's configuration and clean-up | debt counters equal principals, loans are healthy when made, each position's collateral comes back once, every way to repay stays open, riseSOL stays backed |
| **Borrower rewards** (`rise-cdp`) | `BorrowRewardsConfig`, `BorrowRewards` | checkpoint, claim, initialise, close | no settlement fails, no more is paid and owed than emitted |
| **LP gauges** (`rise-rewards`) | `RewardsConfig`, `Gauge`, `UserStake`; LP and reward vaults | deposit, withdraw, claim, `checkpoint_gauge`, and the authority's gauge operations | LP conserved, no settlement fails, no gauge is credited faster than its schedule, no more is owed than distributed |
| **Governance** (`rise-governance`) | `GovernanceConfig`, `VeLock`, `Proposal`, `VoteRecord`, `GaugeVote` | lock, extend, unlock, create, vote, execute, close, vote on gauges; claim revenue, which always fails | the total is the sum of the locks, the proposal count is exact, the revenue index allots the locks no more than was booked |
| **crank-bot** | nothing on disk: five loops that read accounts and send instructions | epoch cranks, reward cranks, liquidator, governance monitor, unstake claimer | tickets are paid, epochs advance, unhealthy positions are liquidated |
| **Weight tally** (`tally_and_set_weights.mjs`) | nothing: reads gauge votes and locks, sets gauge weights | tally, default weights, `set_gauge_weight` per pool | the weights are accepted and share out one epoch's emissions |

How they interact. `rise-cdp` calls `rise-staking` (mint, burn notification,
liquidity, revenue, buyback) and transfers lamports straight into `pool_vault`
and `cdp_fee_vault`. `rise-staking` reads `total_verise` out of the governance
account to turn revenue into an index; `rise-governance` reads that index and is meant
to pay out of `verise_vault`, but cannot sign for it. riseSOL is a plain SPL token, so it moves between wallets,
and from borrowers to stakers, without the programs being told. The bot's loops
run independently; the rate update and the sweep come from the same loop, but
anybody may send either at any time.

The hard behaviours, each at its line, are `hazards` in `PROJECT.json`: order of
rate update, sweep and arriving SOL; saturating counters; indices that start
again at zero when a configuration is replaced; values read at one instruction
and used at another (shortfall, the stored health factor, quorum, gauge votes); accounts
that an instruction needs and another closes; optional accounts; rounding.

## 2. Modules

| Module | Models | Composition |
|---|---|---|
| `Arithmetic` | lemmas on integer division | – |
| `Sums` | lemmas on sums over finite sets | – |
| `CustodyVault` | abstract: a vault that holds what it owes | – |
| `StakingPool` | pool, tickets, treasury, all entry points of `rise-staking` but rewards | refines `CustodyVault` |
| `StakingPoolProofs` | theorems about `StakingPool` | extends it, `Arithmetic` and `Sums` |
| `StakeRewards` | RISE rewards of stakers | – |
| `StakeRewardsProofs` | theorems about `StakeRewards` | as above |
| `CdpPositions` | positions, liquidation, borrower rewards | extends `StakingPool`: every cross-program call is the pool's own action |
| `BorrowLedger` | `CdpPositions` with the history of RISE paid to borrowers | extends `CdpPositions` |
| `CollateralHistory` | `CdpPositions` with the history of collateral returned, sold and claimed again | extends `CdpPositions` |
| `CdpPositionsProofs` | theorems about the three | extends `BorrowLedger`, `CollateralHistory` and `StakingPoolProofs`, whose lemmas it uses |
| `Liquidator` | the bot's liquidation monitor among everybody else | extends `CdpPositions` |
| `RewardLedger` | abstract: what is owed changes only by accrual and payment | – |
| `GaugeRewards` | LP gauges | – |
| `GaugeRewardsProofs` | theorems about `GaugeRewards` | extends it, `Arithmetic` and `Sums` |
| `GaugeLedger` | `GaugeRewards` with the history of RISE distributed | extends `GaugeRewards`, refines `RewardLedger` |
| `GaugeLedgerProofs` | theorems about `GaugeLedger` | extends it and `GaugeRewardsProofs` |
| `GaugeCrank` | the bot's gauge scan, as the only caller of `checkpoint_gauge` | extends `GaugeRewards` |
| `Governance` | locks, the revenue they are allotted, proposals, gauge votes | – |
| `GaugeTally` | the tally of the gauge votes, a function of `Governance`'s state | extends `Governance` |
| `RevenueHistory` | `Governance` with the history of locks that grew after a booking | extends `Governance` |
| `GovernanceProofs` | theorems about the three | extends `GaugeTally`, `RevenueHistory`, `Arithmetic` and `Sums` |

One action is one instruction. Its guard is the conjunction of every check in the
handler and of every checked subtraction or transfer that could fail; an early
`Ok(())` is a disjunct, or leaves nothing changed. An account that does not exist
is a record with `exists = FALSE`, or an element missing from a set. Names are
those of the Rust fields and handlers. `MC_x` gives `x` its constants; each
`MC_x_run.cfg` is one run.

What is abstracted: fixed-point scales are small numbers (the formulas and their
rounding are kept, every division by a token's decimals or by the lamports of a SOL
included); checked additions on 64 and 128 bits never overflow in the
bounds and are plain additions, while every subtraction keeps its check or its
saturation. Prices are an external action; a swap returns any amount of a small set
that the caller's minimum admits. PDAs, bumps, mints and token programs are
left out, but for the ownership conditions they enforce.

### Where the state is

- `StakingPool`: `pool_vault`, `reserve_vault` and `verise_vault` are lamport balances;
  the fields of `GlobalPool` and `ProtocolTreasury` have their own names; `tickets`
  is the set of open ticket accounts; `outside` is the SOL validators, borrowers
  and the team may bring.
- `CdpPositions`: `position` joins the `CdpPosition` and `BorrowRewards` accounts of
  one owner and nonce; `exists` and `tracked` say which of the two is there. One
  collateral mint, whose configuration is the record `collateral_config`, and one payment
  token. `cdp_wsol_vault_open` says whether the shared WSOL account exists;
  it is empty between instructions. Price 0 is a moment with no acceptable update.
- `Liquidator`: adds the stored `health_factor`, which no instruction reads, and the bot's
  place in its loop; between its reads and transactions everybody else moves.
- `GaugeRewards`: gauges are functions of their pool, stakes of owner and pool.
- `StakeRewards`: `tracker` is the `UserStakeRewards` of a wallet; `passed` in
  `StakeSol` and `UnstakeRiseSol` says which optional accounts the caller gives.
- `Governance`: a lock is named by owner and nonce, the seeds of its PDA, so a nonce
  used again finds the vote records of the lock before it. `gauge_vote` is the last vote of each owner.

## 3. Runs

Passing runs. Each property has a mutant in `PROJECT.json`: a plausible bug in one
mapped definition under which the same run fails.

| Run | Question | Bounds and why they are enough |
|---|---|---|
| `pool` | Do the vaults cover what they are accounted for; are pending withdrawals the open tickets; does the buffer cover the stake; is riseSOL backed, is every redemption possible, can the rate fall; is every ticket paid; is the pool a custody vault? | one staker with up to two tickets, and the CDP program; flows of 1 and 2 at rate scale 2 (rates 1, 3/2, 2 and more, where both conversions round); every treasury flow before and after each crank, claims before, at and after maturity |
| `trackers` | Can a staker's settlement fail; are stakers owed more than emitted? | two wallets, any subset of optional accounts, transfers, mints and burns; two slots, four size changes: checkpoints before, between and after them |
| `loans` | Are both debt counters the principals; can borrowers always settle; is a loan, or the rest of a withdrawal under more than a dust debt, ever liquidatable at once; are borrowers paid and owed more RISE than was emitted? | two positions of a borrower, two prices at which a deposit is worth a fraction of a USD unit (a token of 3 base units, a SOL of 2 lamports; every debt is worth 9 units or more, above `DustUsd`), two configurations, one slot of interest (a half of the principal at full utilization) and of rewards, over a scale at which increments and debts round; two debts rounded down; a third position adds no new pair of instructions |
| `buyback` | Is every recorded buyback in the vault; is each position's collateral there until it has it, but for what was sold or claimed again? | two positions, a redemption that empties the collateral vault, an unstake to justify it, up to 6 units of collateral sold or claimed again (`MaxSpent`; a deposit is 2 or 4); a price that may be missing, a ceiling that may fall (a payment token that is switched off only takes `repay_debt_spl` away, so it stays on), and the authority's maintenance (the borrow-reward configuration replaced, positions closed as stale with the reward account of either) |
| `gauges` | Are LP conserved, settlements safe; are depositors owed more than distributed; is a gauge credited faster than its schedule; does anything but a checkpoint or a payment change what is owed? | two depositors on one gauge, which is closed and created again, two configurations, five resizes, three units per epoch over a scale of 2, where increments and debts round |
| `governance` | Do total and vault match the locks; is the proposal count exact; do the gauge votes always give weights that the gauges accept; does the revenue index allot no more than was booked while no lock has grown after a booking? | two owners with a lock each, extensions that raise and lower veRISE, expiry; two proposals, gauge votes or lamports of revenue in all (`MaxActivity`, which lets any two of them meet), a cap of one, two settings the authority switches between; gauge votes over three pools of which the script knows two, two accepted, one short of the full weight and one with too many pools, before and after locks come, go and expire |

Deadlock is not checked: every model stops at its bounds, and nothing in the programs
has to be enabled for ever. `TicketsPaid`, `EpochsAdvance` and `UnderwaterLiquidated` say what must not stop.
Symmetry is used for wallets, nonces and owners, and only in runs of safety properties.

Runs that show a disagreement between the code and what it says of itself
(`findings` quotes the lines):

| Run | Property | What happens |
|---|---|---|
| `claimed` | `VaultCoversCollateral` | a closed or liquidated position can be claimed once more |
| `backing` | `EveryRiseSolIsBacked` | repaid principal is swept as fees |
| `spl` | `SplVaultExists` | `repay_debt_spl` closes the one WSOL vault it needs; the next such repayment finds none |
| `liquidator` | `UnderwaterLiquidated` | the monitor reads the health factor of the last borrowing instruction and passes over a position that sank since |
| `bot` | `EpochsAdvance` | the bot skips level gauges, so the epoch never moves |
| `extend` | `RevenueCovered` | an extended lock is allotted past revenue at its new veRISE |

The passing runs state what holds around these. `RewardsWithinEmissions` of
`StakeRewards` is about histories in which callers pass every account and riseSOL
stays with its stakers (`by_the_book`); `loans` does not replace the borrow-reward
configuration (`BorrowLedgerSpec` is `CdpSpec` with its history; `ResetSpec` replaces it); `AllottedWithinBookings` is
about the histories in which no lock grows after a booking; `CollateralAccountedFor` is
`VaultCoversCollateral` with what a second claim and a sale for the stakers took added
back, over every position that has not had its collateral, and no other instruction can
break it (no liquidation or withdrawal of excess fits the bounds of `buyback`; the theorem
covers both). `SplVaultExists` fails whenever `repay_debt_spl` may be called, so no passing
run restates it.

### Observations without a run

Seen with TLC while modelling, each with its hazard in `PROJECT.json`; no property of
the project is about them.

- `update_exchange_rate` leaves its fee in the vault unrecorded: a second update, or
  `credit_staking_revenue`, gives it to stakers before a sweep takes it.
- Rewards that reach `pool_vault` after the epoch's rate update are swept whole by
  `collect_fees`, the stakers' share included; a sweep that finds nothing does not use
  up the epoch.
- A team fee and a veRISE share that `update_treasury_config` accepts can add up to
  more than the fees; `collect_fees` then fails.
- riseSOL not from staking earns once registered, but is not in the divisor of the
  emissions, so more can be owed than was emitted.
- A tracker passed without the config is synced at index zero, so its new size earns
  for the past.
- An interest burn leaves `total_staking_supply` behind `staking_rise_sol_supply`.
- Replacing the borrow-reward configuration forgets the open debt, and settlements
  fail until the index has caught up.
- A late `checkpoint_gauge` advances the epoch for all gauges and settles one, so
  another gauge can miss an epoch.
- `repay_debt_spl` keeps what a swap brings beyond the debt as a fee.
- Accounts of `liquidate` that the bot fills in by older names are taken to match.
- Weights of two tallies mix when a `set_gauge_weight` of the second fails; the script
  logs it and goes on. The contract bounds each weight, not their sum.
- `claim_revenue_share` never pays: `verise_vault` is a PDA of `rise-staking`, and
  `rise-governance` signs the transfer with seeds under its own program id. Revenue booked
  for the lockers stays in the vault, so what the models state is what the index allots.
- `close_stale_position` takes any `BorrowRewards` account, also one of another position:
  that position can then no longer be repaid, closed or liquidated, and the nonce of the
  first is not free.
- An owner that has sold the NFT of a lock cannot unlock, nor can its buyer.
- `create_proposal` counts a lock twice that is listed twice.

### Fairness

- `StakingPool!Fairness` (run `pool`): the epoch clock is weakly fair, and so is the
  claim of each ticket, by its nonce. `unstakeClaimer.ts` scans all tickets every ten
  minutes and goes on after an error, and a matured ticket stays claimable: nothing
  else spends the lamports it is owed (`VaultCovers`). Weak fairness suffices, and the
  cranks, stakers and sweeps need none.
- `Liquidator!LiquidatorSpec` (run `liquidator`): the monitor's loop is weakly fair
  (`runLoop` survives every error and starts it again), and a liquidation that may go
  through again and again goes through (`withRetry`, and the loop comes back). Under it
  the property fails without the bot ever being stuck: it scans for ever.
- `GaugeCrank!BotSpec` (run `bot`): the clock and the bot's own loop. A scan starts again
  after it ends (`runLoop`), and each open gauge is visited infinitely often even
  though scans may abort. Under it `EpochsAdvance` fails, so the failure is not for
  want of scheduling: `checkpoint_gauge` itself is enabled all the time.

## 4. Proofs

The theorems hold for every value of the constants under the assumptions of the
modules: `ScaleAssumption` and `InputAssumption` of `StakingPool` and of `GaugeRewards`,
`LedgerAssumption`, `CdpAssumption`, `BorrowLedgerAssumption`, `CollateralAssumption`, `GovernanceAssumption`, `TallyAssumption` and
`StakeRewardsAssumption`. They say that scales are positive, fractions within one,
inputs natural numbers, that wallets, nonces, gauges and pools are finite in number, and
that the script's default weights share out exactly one epoch's emissions.

| Module | Theorem | Property |
|---|---|---|
| `StakingPoolProofs` | `TypeCorrect` | `TypeOK` |
| | `VaultAlwaysCovers` | `pool_vault` covers buffer and pending withdrawals |
| | `BufferAlwaysCovers` | the buffer covers the staked SOL |
| | `AlwaysBacked` | the staking supply at the rate is worth at most the SOL staked |
| | `ReserveAlwaysBacked` | the reserve counter is covered by its vault |
| | `UnstakeNeverBlocked` | no redemption within the supply can fail on its subtractions |
| | `RateMonotone` | no step lowers the rate |
| | `PoolImplementsCustody` | the pool refines `CustodyVault` |
| | `PendingAlwaysTickets` | the pending withdrawals are the sum of the open tickets |
| | `TicketsAlwaysFit` | every open ticket fits in the pending total and in the vault |
| `CdpPositionsProofs` | `CdpTypeCorrect` | `CdpTypeOK`, and `TypeOK` of the pool under it |
| | `PoolSafeUnderLoans` | the four invariants of the pool, with `rise-cdp` on top |
| | `RateMonotoneUnderLoans` | the rate does not fall either |
| | `LoansImplementCustody` | the pool under `rise-cdp` refines `CustodyVault` |
| | `BuybackAlwaysFunded` | the buyback vault holds what is set aside for every position |
| | `DebtAlwaysPrincipal` | both debt counters are the sum of the principals |
| | `SettlesAlways` | no settlement of a borrower fails |
| | `BorrowersAlwaysWithinEmissions` | borrowers are paid and owed no more than was emitted |
| | `CollateralAlwaysAccounted` | each position's collateral leaves the vault once, but for sales and second claims |
| | `LoansStartSafe` | no loan starts liquidatable; a withdrawal makes one so only under a debt of 7 units of USD or less |
| `GaugeRewardsProofs` | `TypeCorrect` | `TypeOK` |
| | `LpAlwaysConserved` | LP vault, total and stakes agree |
| | `DebtNeverAhead` | no settlement of a depositor fails |
| `GaugeLedgerProofs` | `EmissionsOnSchedule` | no gauge is credited faster than its schedule |
| | `RewardsAlwaysCovered` | depositors are owed no more than was distributed |
| | `RewardsAreBooked` | the gauges refine `RewardLedger` |
| `StakeRewardsProofs` | `TypeCorrect` | `TypeOK` |
| | `StakersAlwaysSettle` | no settlement of a staker fails, under the first config |
| | `StakersWithinEmissions` | stakers are owed no more than was emitted, under the first config |
| `GovernanceProofs` | `TypeCorrect` | `TypeOK` |
| | `TotalAlwaysLocks` | `total_verise` is the veRISE of the locks |
| | `VaultAlwaysHoldsLocks` | `rise_vault` holds the RISE of the locks |
| | `ActiveAlwaysOpen` | `active_proposal_count` is the number of open proposals |
| | `TallyAlwaysWithinBudget` | the tally's weights are accepted and share out one epoch's emissions |
| | `AllottedUntilRaise` | the index allots no more than was booked while no lock has grown after a booking |

### The arguments

*Pool.* `IInv` is the conjunction of the pool's invariants and `RateAtPar` (the rate
is at least one). None is inductive alone: that an unstake keeps `VaultCovers`
needs `BufferCoversStake`; that needs `Backed` (a redemption never takes more than
the stake); and that `update_exchange_rate` keeps `Backed` and does not lower the rate needs
`Backed` before, because the new rate is a rounded quotient of a numerator that
has grown. There is one lemma per instruction (`StakeSolStep`, ...), and the
rounding is isolated in `MintKeepsBacked`, `RedeemKeepsBacked` and
`CreditKeepsBacked`, which rest on the division lemmas of `Arithmetic`. The refinement
follows from `IInv` and the effect of each instruction on held and owed. For the
tickets, `PendingIsTickets` needs that no two open tickets share a nonce and that no
nonce is drawn twice (`TicketInv`): tickets are a set, and equal ones would be one.

*Pool under loans.* Every instruction of `rise-cdp` is shown to keep `PoolKept`: the
pool's `IInv`, a rate that does not fall, a step of the abstract vault. The lemmas of
`StakingPoolProofs` are cited for the calls into the pool; what is new are lamports
that arrive outside them and the burns that leave `total_staking_supply` alone.

*CDP positions.* `CdpInv` adds the types. Interest is a natural number because no
position is accrued in the future (`OnTime`) and the utilization is a fraction of one;
a position that is not open has no principal (`Fit`). Each instruction but the
clean-up of stale accounts (`Lapses`) then replaces one position or none (`Moves`, `Rests`): what is set aside for it stays in the buyback
vault, the counters follow its principal, and its reward debt stays within its
earnings. The saturating subtractions do not saturate because a summand is at most
its sum. `DebtAlwaysPrincipal` and `SettlesAlways` are about `CdpSpec`,
`BorrowersAlwaysWithinEmissions` is about `BorrowLedgerSpec`, which implies it, the others
are about `ResetSpec` (`CollateralSpec` is `ResetSpec` with its history), where the
authority also replaces the borrow-reward configuration and closes positions as stale:
after either the counters no longer match, and after the first
settlements fail until the index has caught up.

*Collateral.* `CollateralAccountedFor` totals the collateral of the positions that have not
had it (`HeldAt`). Every step of `rise-cdp` is one of five (`Accounts`): a position gains or
loses what the vault does (`Carries`), is closed with its collateral handed over while its
account stays (`HandsOver`), is erased with its collateral (`Vanishes`) or, as stale,
without it (`Lapses`), or no position moves and only a sale takes from the vault (`Stays`). The invariant (`HistInv`)
adds that a position in `returned` is a closed account: no instruction opens it again, so
it is worth nothing to the sum, and the one instruction that still pays it is
`claim_collateral`, which is the finding of `claimed`.

*Borrower rewards.* `BorrowersWithinEmissions` joins what claims have paid, what every
position could claim, the schedule and the slots gone by. Its invariant (`BorrowInv`) is in
units of `1 / REWARD_SCALE` again, where a position's credit is what its principal has
earned less its reward debt, unrounded (`CreditAt`). A checkpoint gives the credits the
increment times the sum of the principals, and that is at most the emissions because the
divisor `total_cdp_debt` is that sum (`DebtIsPrincipal`); emissions of two stretches of slots, each rounded
down, fit in those of both (`EmittedInParts`). `settle` and `sync_debt` keep a
credit, but for less than one unit of RISE when the debt of a new principal is rounded down
(`ResyncedCredit`): `rounded` counts these, and a claim, which syncs the same principal, adds
none. A claim takes out what it pays, and `claim_collateral` takes the rewards still
pending with it. The credits cover what can be claimed only because every position can be
settled (`AlwaysSettles`).

`LoansStartSafe` is an action property: each formula that lets riseSOL or collateral out
of a position is compared with the one that liquidates it. Asking for 80% of the
loan-to-value, below the threshold, leaves a fifth of the debt as slack. `withdraw_excess`
rounds three times: the debt's requirement, the value of the request and the value of the
collateral, and so may let the rest fall short of the exact requirement by almost two units
(`LeftOver`, `ExcessCovers`), which the slack makes up from 8 units of USD on (`DustUsd`). With a limit
of 9998 and a threshold of 9999 of 10000, a debt of 7 units may be left liquidatable. Whoever
opens or borrows more is tested without these quotients, so there no debt is too small.

*Gauges.* A gauge that is created again starts at zero under stakes and a vault that
outlive it. That is right because a closed gauge is empty (`ClosedIsEmpty`), and it is
empty because `close_gauge` finds `total_lp_deposited` at zero while that is the sum of the
stakes. `NoFasterThanSchedule` needs the epochs a gauge lies behind (`OnSchedule`): it may
still be credited one epoch's emissions for each. `RewardsWithinEmissions` is not
inductive in whole RISE, because a debt is a rounded product whose rounding comes back
with the next change of the stake. In units of `1 / REWARD_SCALE` the books balance but
for one unit of RISE per change (`Solvent`).

*Staker rewards.* The same units; and that a checkpoint gives out no more than it emits
needs that `total_staking_supply` covers the size of every tracker, although interest
burns lower the balance behind a tracker and leave its size (`SupplyCovers`). Both theorems
are for `configs <= 1`: a second configuration restarts the index at zero while trackers keep
their debts, and then both properties fail (a hazard of its own).

*Governance.* The counters are kept with saturating subtraction. One never saturates
because the amount is a summand of the total, and it is one because a closed lock or
proposal is blank (`Blank`) and a new proposal takes a fresh index (`Numbered`). The types
need that a lock begins before it ends (`Dated`), or its veRISE would decay by a
division by zero.

*Tally.* A stored vote has the full weight, because `vote_gauge` asks for it and nothing
else writes one (`VotesFull`). So the votes for all pools add up to the full weight times
the power that voted (`VotesAddUp`): the sum over pools of the sum over voters is the sum
over voters of the sum over pools, which is `SumExchange`. Each share is rounded down
twice, which loses less than one basis point (`TwiceRounded`); the shares therefore add up to the
full weight less at most one basis point per pool (`SharesAddUp`), and what the last pool
absorbs is not negative and less than the number of pools.

*Revenue.* In units of `1 / INDEX_SCALE` what was booked covers what the index allots the
locks, before it is rounded down (`RevenueSolvent`). A booking raises the index by at most its
lamports over `total_verise`, and every lock is allotted by its own veRISE: the books balance
because the divisor is the sum of the veRISE of the locks, which is `TotalIsLocks`. An
expiry and an unlock only take shares away; a growing lock adds none if nothing was booked
since it began, which `RaisesSettled` says and the code does not.

*Sums.* A sum over a set is a fold, defined by a recursive function on subsets. `Sums`
proves from the library's induction over finite sets, with membership in a set for
the predicate, that the fold is well defined (`SumExists`), and from it what the
models need: the change of one summand (`SumChange`), linearity, monotonicity, and the
exchange of two sums over a table (`SumExchange`).

### Only model-checked

- `TicketsPaid`, `EpochsAdvance`, `UnderwaterLiquidated`: liveness under fairness, beyond the
  prover.
- What the runs that expect a violation say.

## 5. Not modelled

- `claim_revenue_share` as a step: it fails in every state (see the observations) and is
  rolled back. What it would compute is `Claimable`, which `RevenueCovered` adds up.
- `set_cdp_config` and `migrate_global_pool` of `rise-staking`: a key and a field of an
  older layout.
- `migrate_governance_config`, `close_governance_config`, `close_rise_vault`: devnet
  instructions that reset accounts of an older layout (closing stale positions, which
  takes any position of the program, is modelled).
- The encodings of calls to Jupiter and Token Metadata (`jupiter.rs`, `nft_cpi.rs`): a
  swap returns any amount of a small set. Who holds the NFT of a lock is not kept: it is
  read by `unlock_rise` only, and in `Governance` an owner may always abstain from it.
- Reward cranks and governance monitor of the bot: each loop reads one account and sends
  one instruction that anybody may send at any time in the models. Nothing the programs
  promise depends on how often they come.
- `paused`: read by three instructions, set by none.
- Rent: a lamport-only account may hold nothing or at least the minimum; the rent of data
  accounts, paid and returned, is left out. The runs keep the minimum at 0 or 1, where it never binds.
- Several collateral mints or payment tokens: each has a configuration and vault of its
  own; what they share (`cdp_config`, the WSOL vaults, the fee vault) is shared by two
  positions in the runs.
- The step-by-step setting of the tallied weights: in `GaugeRewards` weights change in any
  order, so its properties do not rest on the script.
- `errors.rs`, `mod.rs`, integration tests, scripts, migrations, logging, `rise-protocol`
  (a placeholder).

## 6. Plan

Done, in this order: `StakingPool` with its proofs, `GaugeRewards` with ledger and crank,
`CdpPositions`, `Governance`, `StakeRewards`; then the missing instructions of
`CdpPositions` (payment token, WSOL vaults, clean-up, missing prices), `Liquidator`,
`RewardLedger`, gauge votes and `GaugeTally`.

Then the proofs: the pool, sums over finite sets, governance, gauges with the two
ledger properties and their refinement, staker rewards, and CDP positions over the
lemmas of the pool.

The proofs were then extended to the gauge tally, to the revenue of the locks, to the
rewards of the borrowers and to their collateral, the last three with a history of their
own (`RevenueHistory`, `BorrowLedger`, `CollateralHistory`).

What is left: an abstract promise for the reserve and the veRISE vault. It is not that of
`CustodyVault`: `withdraw_treasury_for_cdp_buyback` takes the shortfall from
the vault and what is left of it, saturating at zero, from the counter, so the counter is
covered (`ReserveBacked`) but is not a record of what is owed.
