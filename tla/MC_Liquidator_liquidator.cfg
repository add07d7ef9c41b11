SPECIFICATION LiquidatorSpec
CONSTANTS
  u1 = u1
  n1 = n1
  Users <- MCUsers
  RATE_SCALE = 2
  INDEX_SCALE = 2
  BPS = 10
  UNSTAKE_EPOCH_DELAY = 1
  PROTOCOL_FEE_BPS = 1
  RENT_MIN = 0
  InitialWallet = 5
  InitialOutside = 2
  Amounts <- MCFour
  Flows <- MCNone
  TokenFlows <- MCNone
  TreasuryFlows <- MCNone
  TeamFees <- MCOne
  VeriseShares <- MCTwo
  VeriseSupplies <- MCZero
  MaxCirculating = 8
  MaxEpoch = 0
  MaxNonce = 0
  Nonces <- MCNonces
  CollateralConfigs <- MCConfig
  Multipliers <- MCTripled
  MAX_SINGLE_LOAN_BPS = 5
  SLOTS_PER_YEAR = 1
  DECIMAL_SCALE = 1
  LAMPORTS_PER_SOL = 1
  SOL_PRICE = 1
  Prices <- MCOneTwo
  PaymentStates <- MCTrue
  REWARD_SCALE = 2
  EPOCH_EMISSIONS = 0
  SLOTS_PER_EPOCH = 1
  Deposits <- MCFour
  Loans <- MCTwo
  Payments <- MCTwo
  SwapOutputs <- MCZeroTwo
  MaxCollateral = 4
  MaxEntitlements = 8
  MaxSlot = 1
  HF_SCALE = 100
  HF_THRESHOLD = 99
  HF_INFINITE = 1000
PROPERTIES
  UnderwaterLiquidated
CHECK_DEADLOCK FALSE
