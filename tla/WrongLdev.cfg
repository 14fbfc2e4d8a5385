\* A volume of another API next to a Hitachi one, one request at a time.
SPECIFICATION Spec
CONSTANTS
  Own = "own"
  ArrayOf <- MCArrayOf
  IsFc <- MCIsFc
  Null = Null
  Requests = {"creator"}
  Volumes = {"v1", "v2"}
  Endpoints = {"e_iscsi"}
  Hosts = {h1, h2}
  Initiators = {i1}
  MaxLdev = 3
  MaxLuns = 1
  Explicit = {}
  Operations <- MCOperations
  Elsewhere = {"create"}
  Faults = {}
INVARIANTS LdevsUnique
\* The numbers within the bounds run out.
CHECK_DEADLOCK FALSE
