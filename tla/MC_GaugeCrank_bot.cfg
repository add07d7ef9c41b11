SPECIFICATION BotSpec
CONSTANTS
  u1 = u1
  u2 = u2
  g1 = g1
  g2 = g2
  Users <- MCOneUser
  Gauges <- MCGauges
  REWARD_SCALE = 1
  BPS = 2
  SLOTS_PER_EPOCH = 2
  MIN_DEPOSIT = 2
  Emissions <- MCEmissions
  Weights <- MCFullWeight
  Amounts <- MCNone
  InitialLp = 2
  InitialRise = 0
  MaxSlot = 5
  MaxConfigs = 1
PROPERTIES
  EpochsAdvance
CHECK_DEADLOCK FALSE
