CONSTANTS
  v1 = v1
  v2 = v2
  NoBucket = NoBucket
  VAddrs = {v1, v2}
  NGroups = 2
  GroupSize = 3
  PoolSize = 3
  Reserve <- SmallReserve
  JournalBuckets = 1
  MaxMeta = 1
SPECIFICATION Spec
SYMMETRY Alike
INVARIANTS OneOwner Accounts FreeIsFound
CHECK_DEADLOCK FALSE
