\* One request at a time; crashes and failing SPDK calls.
SPECIFICATION Spec
CONSTANTS
  Requests = {r1}
  Volumes = {v1, v2}
  Names = {n1, n2}
  Hosts = {h1}
  Endpoints = {"iscsi", "nvme", "fc"}
  Protocol <- MCProtocol
  Targeted <- MCTargeted
  Paths <- MixedPaths
  LunBase = 1
  MaxSize = 2
  MaxMappings = 3
  Operations = {"create_volume", "delete_volume", "extend_volume", "create_mapping", "delete_mapping"}
  RpcFaults = {"refused", "lost"}
  Disruptions = {"gateway_crash"}
  Null = Null
SYMMETRY Symmetric
INVARIANTS TypeOK StatusSettled OfferedHasBdev NamesUnique LunsUnique NoDanglingMapping InUseIsMapped
PROPERTIES SizesOnlyGrow KeepsPromise
\* The supply of UUIDs and mapping ids runs out.
CHECK_DEADLOCK FALSE
