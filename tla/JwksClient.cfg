\* Three requests and two rotations of the key.
CONSTANTS
  Requests = {r1, r2, r3}
  MaxKeys = 3
SPECIFICATION FairSpec
INVARIANTS
  TypeOK
  CurrentKeyIsKnown
  BurstSharesFetch
PROPERTIES
  ImplementsKeyCache
  CacheNeverGoesBack
  EveryRequestAnswered
