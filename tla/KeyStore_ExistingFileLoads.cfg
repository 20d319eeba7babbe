\* One process that dies once: ExistingFileLoads, as documented, is refuted.
CONSTANTS
  None = None
  Processes = {p1}
  MaxKeys = 2
  MaxCrashes = 1
SPECIFICATION Spec
INVARIANT ExistingFileLoads
