\* Two requests over one mapper, other clients of the gateway, crashes, failing refreshes.
SPECIFICATION Spec
CONSTANTS
  Own = "own"
  ArrayOf <- MCArrayOf
  IsFc <- MCIsFc
  Null = Null
  Requests = {"creator", "user"}
  Volumes = {v1, v2, "v_other"}
  Endpoints = {"e_iscsi", "e_other"}
  Hosts = {h1}
  Initiators = {i1}
  MaxLdev = 1
  MaxLuns = 1
  Explicit = {0}
  Operations <- MCOperations
  Elsewhere = {"create", "delete"}
  Faults = {"crash", "locked"}
SYMMETRY SameVolumes
INVARIANTS TypeOK NumberLeadsToItsVolume GrantsKept LunsWithinArray
PROPERTIES RecordedNumbersKept
\* The numbers within the bounds run out.
CHECK_DEADLOCK FALSE
