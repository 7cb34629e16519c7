SPECIFICATION FairSpec
CONSTANTS
  Client = {a1, a2}
  iPhone = iPhone
  Nobody = Nobody
  LOCK_ATTEMPTS = 3
  MaxNest = 2
INVARIANTS
  ContextHoldsLock
  NoLockLeft
  NestingCounts
PROPERTIES
  CallsReturn
