\* Every operation, two at a time, with every failure: what always ends.
SPECIFICATION FairSpec
CONSTANTS
  Requests = {r1, r2}
  Volumes = {v1}
  Names = {n1}
  Hosts = {h1}
  Endpoints = {"iscsi"}
  Protocol <- MCProtocol
  Targeted <- MCTargeted
  Paths <- SamePaths
  LunBase = 0
  MaxSize = 2
  MaxMappings = 2
  Operations = {"create_volume", "delete_volume", "extend_volume", "create_mapping", "mkvdiskhostmap", "delete_mapping"}
  RpcFaults = {"refused", "lost"}
  Disruptions = {"gateway_crash", "spdk_restart"}
  Null = Null
INVARIANTS StatusSettled OfferedHasBdev SpdkCallsSerialised
PROPERTY RequestsEnd
\* The supply of UUIDs and mapping ids runs out.
CHECK_DEADLOCK FALSE
