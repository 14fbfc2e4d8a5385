\* Two arrays, one administrator, one client, one crash.
SPECIFICATION Spec
CONSTANTS
  Null = Null
  Ttl <- MCTtl
  MaxHistory = 1
  MaxSessions = 1
  MaxJobs = 1
  MaxTime = 1
  Names = {"default", "a1"}
  Default = "default"
  Authority = "ca"
  Managed = {"a1"}
  Admins = {admin1}
  CacheTtl = 1
  MaxCrashes = 1
INVARIANTS TypeOK VhostsCurrent StaleAtMostTtl PairsLoad
PROPERTIES ComesUp
\* The clock and the sessions within the bounds run out.
CHECK_DEADLOCK FALSE
