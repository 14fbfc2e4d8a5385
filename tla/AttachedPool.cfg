\* Two clients: vendors' commands and administrators; a crash, an RPC refused.
SPECIFICATION Spec
CONSTANTS
  Null = Null
  Arrays = {"default", "a1"}
  Default = "default"
  PoolNames = {"gold"}
  VolumeNames = {"vol1"}
  Hosts = {"h1"}
  Ports = {x1, x2}
  MaxPools = 1
  MaxVolumes = 1
  MaxTwins = 2
  Clients = {c1, c2}
  Readers = {}
  MaxRaced = 1
  Refuses = TRUE
  MaxFaults = 1
  Watched = {"default", "a1", "gold", "vol1", "h1"}
  MovesVolumes = TRUE
SYMMETRY Symmetric
INVARIANT PoolUsable
\* The gateway may be down for good, and the UUIDs run out.
CHECK_DEADLOCK FALSE
