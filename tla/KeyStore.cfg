\* One process or two, with and without a path, that die anywhere.
CONSTANTS
  None = None
  Processes = {p1, p2}
  MaxKeys = 5
  MaxCrashes = 3
SPECIFICATION FairSpec
INVARIANTS
  TypeOK
  TokensSurviveRestarts
PROPERTIES
  KeyFileSettles
  EveryProcessGetsAKey
