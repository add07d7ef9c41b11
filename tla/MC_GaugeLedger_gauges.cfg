SPECIFICATION LedgerSpec
CONSTANTS
  u1 = u1
  u2 = u2
  g1 = g1
  g2 = g2
  Users <- MCUsers
  Gauges <- MCOneGauge
  REWARD_SCALE = 2
  BPS = 2
  SLOTS_PER_EPOCH = 1
  MIN_DEPOSIT = 2
  Emissions <- MCEmissions
  Weights <- MCFullWeight
  Amounts <- MCAmounts
  InitialLp = 3
  InitialRise = 4
  MaxSlot = 3
  MaxConfigs = 2
  MaxResizes = 5
INVARIANTS
  TypeOK
  LpConserved
  DebtWithinAccrued
  RewardsWithinEmissions
  NoFasterThanSchedule
PROPERTIES
  ImplementsRewardLedger
CHECK_DEADLOCK FALSE
