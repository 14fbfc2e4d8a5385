\* One of two mappings of an iSCSI target is deleted.
SPECIFICATION Spec
CONSTANTS
  Requests = {r1}
  Volumes = {v1, v2}
  Names = {n1, n2}
  Hosts = {h1}
  Endpoints = {"iscsi"}
  Protocol <- MCProtocol
  Targeted <- MCTargeted
  Paths <- SamePaths
  LunBase = 0
  MaxSize = 1
  MaxMappings = 2
  Operations = {"create_volume", "create_mapping", "delete_mapping"}
  RpcFaults = {}
  Disruptions = {}
  Null = Null
INVARIANT ExportedAsMapped
\* The supply of UUIDs and mapping ids runs out.
CHECK_DEADLOCK FALSE
