\* One connection that asks for snapshots.
CONSTANTS
  r1 = r1
  r2 = r2
  r3 = r3
  Requests <- Connected
  Calls <- MixedCalls
  Threads = 1
  Connections = 2
  Sources <- PublicApis
  Upstreams <- Services
  Health <- Days
SPECIFICATION FairSpec
INVARIANT SnapshotAlwaysAnswered
