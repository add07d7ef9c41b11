SPECIFICATION Spec
CONSTANTS
  u1 = u1
  u2 = u2
  Users <- MCUsers
  REWARD_SCALE = 2
  EPOCH_EMISSIONS = 3
  SLOTS_PER_EPOCH = 2
  Amounts <- MCOneTwo
  OutsideAmounts <- MCOne
  BurnAmounts <- MCOne
  Funds <- MCTwo
  MaxSupply = 2
  MaxVault = 2
  MaxConfigs = 1
  MaxResizes = 4
  MaxSlot = 2
SYMMETRY Symmetry
INVARIANTS
  TypeOK
  StakersCanSettle
  RewardsWithinEmissions
CHECK_DEADLOCK FALSE
