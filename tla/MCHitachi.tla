------------------------------ MODULE MCHitachi ------------------------------
(* The Hitachi personality of array "own", next to an array "other".  One   *)
(* request creates LDEVs, the other is all that may overlap a creation: it  *)
(* deletes LDEVs, and makes host groups, targets and LUNs.                  *)
EXTENDS HitachiProperties, TLC

MCArrayOf == [x \in Volumes \cup Endpoints |->
                IF x \in {"v_other", "e_other"} THEN "other" ELSE "own"]

MCIsFc == [e \in Endpoints |-> e = "e_fc"]

MCOperations ==
  [r \in Requests |->
     IF r = "creator" THEN {"create_ldev"}
     ELSE {"delete_ldev", "create_group", "delete_group", "create_target",
           "add_initiator", "create_lun", "delete_lun"}]

SameVolumes == Permutations({v \in Volumes : ArrayOf[v] = Own})
=============================================================================
