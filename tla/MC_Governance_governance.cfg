SPECIFICATION HistorySpec
CONSTANTS
  o1 = o1
  o2 = o2
  n1 = n1
  n2 = n2
  p1 = p1
  p2 = p2
  p3 = p3
  Owners <- MCOwners
  Nonces <- MCOneNonce
  MIN_LOCK_SLOTS = 2
  MAX_LOCK_SLOTS = 4
  INDEX_SCALE = 4
  BPS = 10
  RENT_MIN = 0
  MAX_ACTIVE_PROPOSALS = 1
  Settings <- MCSettings
  Pools <- MCPools
  MAX_GAUGE_ENTRIES = 2
  Allocations <- MCAllocations
  DEFAULT_WEIGHTS <- MCDefaults
  InitialRise = 2
  LockAmounts <- MCTwo
  LockDurations <- MCDurations
  Extensions <- MCTwo
  Revenues <- MCOne
  MaxIndex = 5
  MaxProposals = 2
  MaxActivity = 2
  MaxListed = 2
  MaxSlot = 4
SYMMETRY Symmetry
INVARIANTS
  TypeOK
  TotalIsLocks
  VaultHoldsLocks
  ActiveIsOpen
  TallyWithinBudget
  AllottedWithinBookings
CHECK_DEADLOCK FALSE
