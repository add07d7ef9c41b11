SPECIFICATION HistorySpec
CONSTANTS
  o1 = o1
  o2 = o2
  n1 = n1
  n2 = n2
  p1 = p1
  p2 = p2
  p3 = p3
  Owners <- MCOwners
  Nonces <- MCOneNonce
  MIN_LOCK_SLOTS = 2
  MAX_LOCK_SLOTS = 4
  INDEX_SCALE = 4
  BPS = 10
  RENT_MIN = 0
  MAX_ACTIVE_PROPOSALS = 1
  Settings <- MCStrict
  Pools <- MCPools
  MAX_GAUGE_ENTRIES = 2
  Allocations <- MCNoAllocation
  DEFAULT_WEIGHTS <- MCDefaults
  InitialRise = 4
  LockAmounts <- MCTwoFour
  LockDurations <- MCTwoFour
  Extensions <- MCTwo
  Revenues <- MCTwo
  MaxIndex = 8
  MaxProposals = 0
  MaxActivity = 4
  MaxListed = 1
  MaxSlot = 4
INVARIANTS
  RevenueCovered
CHECK_DEADLOCK FALSE
