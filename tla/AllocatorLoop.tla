--------------------------- MODULE AllocatorLoop ---------------------------
(***************************************************************************)
(* The while-loops of the allocators, one iteration a step.  A call takes  *)
(* the ids found in the mapping table (a list there, a set here: the code  *)
(* turns it into a set first), subtracts the base from those at or above   *)
(* it if the call is allocate_lun_from_base, and counts up from its start  *)
(* until it meets a number that is not used.                               *)
(***************************************************************************)
EXTENDS Allocators

CONSTANTS
  Ids,    \* the ids a mapping table may hold
  Bases   \* values of settings.iscsi_underlay_lun_base

\* A table has finitely many rows; ids and bases are natural numbers.
IdsAreFinite == IsFiniteSet(Ids) /\ Ids \subseteq Nat /\ Bases \subseteq Nat

VARIABLES
  call,       \* the function called, the ids it is given and its base
  used_set,   \* the local variable of the same name
  candidate,  \* the local variable of the same name
  returned    \* whether the loop has ended
vars == <<call, used_set, candidate, returned>>

Calls ==
  [function : {"allocate_lun", "allocate_nsid"}, used : SUBSET Ids, base : {0}]
    \cup
  [function : {"allocate_lun_from_base"}, used : SUBSET Ids, base : Bases]

Normalized(c) == {u - c.base : u \in {x \in c.used : x >= c.base}}

FirstCandidate(c) == IF c.function = "allocate_nsid" THEN 1 ELSE 0

Init ==
  /\ call \in Calls
  /\ used_set = Normalized(call)
  /\ candidate = FirstCandidate(call)
  /\ returned = FALSE

Advance ==
  /\ ~returned
  /\ candidate \in used_set
  /\ candidate' = candidate + 1
  /\ UNCHANGED <<call, used_set, returned>>

Return ==
  /\ ~returned
  /\ candidate \notin used_set
  /\ returned' = TRUE
  /\ UNCHANGED <<call, used_set, candidate>>

Next == Advance \/ Return

Spec == Init /\ [][Next]_vars

-----------------------------------------------------------------------------
Result == candidate + call.base

\* The loops compute what Allocators says of them: the smallest number, from
\* the start or the base on, that the given ids leave free (ensure.py:37-58).
ReturnsSmallestFree ==
  returned =>
    Result = CASE call.function = "allocate_lun" -> AllocateLun(call.used)
               [] call.function = "allocate_nsid" -> AllocateNsid(call.used)
               [] call.function = "allocate_lun_from_base" ->
                    AllocateLunFromBase(call.used, call.base)
=============================================================================
