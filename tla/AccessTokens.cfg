\* One connection with any number of requests, two tokens, two signing keys.
CONSTANTS
  Users = {u1}
  Requests = {r1}
  TTL = 2
  Skews <- MCSkews
  Latency = 1
  MaxTime = 4
  MaxKeys = 2
  MaxTokens = 2
  None = None
SPECIFICATION Spec
INVARIANTS
  TypeOK
  FreshAtIdentity
PROPERTIES
  LocalAccessEnds
  RefusalHasReason
