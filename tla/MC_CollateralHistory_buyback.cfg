SPECIFICATION CollateralSpec
CONSTANTS
  u1 = u1
  n1 = n1
  n2 = n2
  Users <- MCUsers
  RATE_SCALE = 2
  INDEX_SCALE = 2
  BPS = 10
  UNSTAKE_EPOCH_DELAY = 1
  PROTOCOL_FEE_BPS = 1
  RENT_MIN = 0
  InitialWallet = 5
  InitialOutside = 4
  Amounts <- MCFour
  Flows <- MCNone
  TokenFlows <- MCNone
  TreasuryFlows <- MCOne
  TeamFees <- MCOne
  VeriseShares <- MCTwo
  VeriseSupplies <- MCZero
  MaxCirculating = 8
  MaxEpoch = 1
  MaxNonce = 1
  Nonces <- MCNonces
  CollateralConfigs <- MCConfig
  Multipliers <- MCOneOrThreefold
  MAX_SINGLE_LOAN_BPS = 5
  SLOTS_PER_YEAR = 1
  DECIMAL_SCALE = 1
  LAMPORTS_PER_SOL = 1
  SOL_PRICE = 1
  Prices <- MCPriceOrNone
  PaymentStates <- MCTrue
  REWARD_SCALE = 2
  EPOCH_EMISSIONS = 0
  SLOTS_PER_EPOCH = 1
  Deposits <- MCTwoFour
  Loans <- MCTwo
  Payments <- MCTwo
  SwapOutputs <- MCTwo
  MaxCollateral = 4
  MaxEntitlements = 8
  MaxSlot = 0
  MaxSpent = 6
SYMMETRY NonceSymmetry
INVARIANTS
  BuybackFunded
  CollateralAccountedFor
CHECK_DEADLOCK FALSE
