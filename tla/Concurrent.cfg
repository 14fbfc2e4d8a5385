\* Two requests at a time on the storage of volumes; SPDK may refuse a call.
SPECIFICATION Spec
CONSTANTS
  Requests = {r1, r2}
  Volumes = {v1, v2}
  Names = {n1, n2}
  Hosts = {h1}
  Endpoints = {"nvme"}
  Protocol <- MCProtocol
  Targeted <- MCTargeted
  Paths <- SamePaths
  LunBase = 0
  MaxSize = 3
  MaxMappings = 2
  Operations = {"create_volume", "delete_volume", "extend_volume", "create_mapping"}
  RpcFaults = {"refused"}
  Disruptions = {}
  Null = Null
SYMMETRY Symmetric
INVARIANTS RecordedIsProvisioned NoOrphanLvol
\* The supply of UUIDs and mapping ids runs out.
CHECK_DEADLOCK FALSE
