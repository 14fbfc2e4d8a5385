\* Two clients apply the same file, by the tool or in a session; one crash.
SPECIFICATION ApplySpecification
CONSTANTS
  Null = Null
  Arrays = {"default", "a1"}
  Default = "default"
  PoolNames = {"silver", "gold"}
  VolumeNames = {"vol1"}
  Hosts = {"h1"}
  Ports = {}
  MaxPools = 5
  MaxVolumes = 3
  MaxTwins = 3
  Clients = {o1, o2}
  Readers = {o1, o2}
  Topology <- TheTopology
  Watched = {}
  MaxRaced = 0
  Refuses = FALSE
  MaxFaults = 1
  MovesVolumes = FALSE
INVARIANTS PoolBacked ReportedIsPresent
PROPERTIES Converges
\* Everything is applied in the end.
CHECK_DEADLOCK FALSE
