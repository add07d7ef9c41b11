SPECIFICATION FairSpec
CONSTANTS
  u1 = u1
  u2 = u2
  Users <- MCOneUser
  RATE_SCALE = 2
  INDEX_SCALE = 2
  BPS = 4
  UNSTAKE_EPOCH_DELAY = 1
  PROTOCOL_FEE_BPS = 1
  RENT_MIN = 1
  InitialWallet = 3
  InitialOutside = 3
  Amounts <- MCOneTwo
  Flows <- MCOneTwo
  TokenFlows <- MCOneTwo
  TreasuryFlows <- MCZeroTwo
  TeamFees <- MCOne
  VeriseShares <- MCTwo
  VeriseSupplies <- MCTwo
  MaxCirculating = 5
  MaxEpoch = 2
  MaxNonce = 2
INVARIANTS
  TypeOK
  VaultCovers
  ReserveBacked
  PendingIsTickets
  BufferCoversStake
  Backed
  UnstakeAlwaysFits
PROPERTIES
  RateNeverFalls
  ImplementsCustody
  TicketsPaid
CHECK_DEADLOCK FALSE
