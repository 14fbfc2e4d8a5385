\* Mappings on NVMe namespaces come back after a reboot that empties SPDK.
SPECIFICATION Spec
CONSTANTS
  Requests = {r1}
  Volumes = {v1, v2}
  Names = {n1, n2}
  Hosts = {h1}
  Endpoints = {"nvme", "bare_iscsi"}
  Protocol <- MCProtocol
  Targeted <- MCTargeted
  Paths <- SamePaths
  LunBase = 0
  MaxSize = 2
  MaxMappings = 3
  Operations = {"create_volume", "delete_volume", "extend_volume", "create_mapping", "mkvdiskhostmap", "delete_mapping"}
  RpcFaults = {}
  Disruptions = {"host_reboot"}
  Null = Null
INVARIANTS ExportedAsMapped RightVolumeExported RecordedIsProvisioned
\* The supply of UUIDs and mapping ids runs out.
CHECK_DEADLOCK FALSE
