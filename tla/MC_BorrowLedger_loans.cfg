SPECIFICATION BorrowLedgerSpec
CONSTANTS
  u1 = u1
  n1 = n1
  n2 = n2
  Users <- MCUsers
  RATE_SCALE = 2
  INDEX_SCALE = 2
  BPS = 10
  UNSTAKE_EPOCH_DELAY = 1
  PROTOCOL_FEE_BPS = 1
  RENT_MIN = 0
  InitialWallet = 5
  InitialOutside = 2
  Amounts <- MCFour
  Flows <- MCNone
  TokenFlows <- MCNone
  TreasuryFlows <- MCNone
  TeamFees <- MCOne
  VeriseShares <- MCTwo
  VeriseSupplies <- MCZero
  MaxCirculating = 8
  MaxEpoch = 0
  MaxNonce = 0
  Nonces <- MCNonces
  CollateralConfigs <- MCTwoConfigs
  Multipliers <- MCDoubled
  MAX_SINGLE_LOAN_BPS = 5
  SLOTS_PER_YEAR = 1
  DECIMAL_SCALE = 3
  LAMPORTS_PER_SOL = 2
  SOL_PRICE = 9
  Prices <- MCFractionPrices
  PaymentStates <- MCTrue
  REWARD_SCALE = 3
  EPOCH_EMISSIONS = 2
  SLOTS_PER_EPOCH = 1
  Deposits <- MCTwoFour
  Loans <- MCTwo
  Payments <- MCTwo
  SwapOutputs <- MCTwo
  MaxCollateral = 4
  MaxEntitlements = 8
  MaxSlot = 1
  MaxRounded = 2
SYMMETRY NonceSymmetry
INVARIANTS
  CdpTypeOK
  DebtIsPrincipal
  AlwaysSettles
  BorrowersWithinEmissions
CHECK_DEADLOCK FALSE
PROPERTIES
  BorrowedSafely
