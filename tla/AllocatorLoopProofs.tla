------------------------ MODULE AllocatorLoopProofs ------------------------
(***************************************************************************)
(* The while-loops return what Allocators says of them, for every finite   *)
(* set of ids and every base.                                              *)
(***************************************************************************)
EXTENDS AllocatorLoop, AllocatorsProofs

\* Everything from the start up to the candidate is in use.
LoopInv ==
  /\ call \in Calls /\ used_set = Normalized(call)
  /\ candidate \in Nat /\ candidate >= FirstCandidate(call)
  /\ \A k \in Nat : FirstCandidate(call) <= k /\ k < candidate => k \in used_set
  /\ returned \in BOOLEAN /\ (returned => candidate \notin used_set)

\* A call gives finitely many numbers, none below the base.
LEMMA CallsAre ==
  ASSUME IdsAreFinite, NEW c \in Calls
  PROVE  /\ IsFiniteSet(c.used) /\ c.used \subseteq Nat /\ c.base \in Nat
         /\ c.function \in {"allocate_lun", "allocate_nsid", "allocate_lun_from_base"}
         /\ c.function # "allocate_lun_from_base" => c.base = 0
<1>1. \/ c \in [function : {"allocate_lun", "allocate_nsid"}, used : SUBSET Ids, base : {0}]
      \/ c \in [function : {"allocate_lun_from_base"}, used : SUBSET Ids, base : Bases]
  BY DEF Calls
<1>2. c.used \subseteq Ids /\ c.base \in {0} \cup Bases
  BY <1>1
<1>3. /\ c.function \in {"allocate_lun", "allocate_nsid", "allocate_lun_from_base"}
      /\ c.function # "allocate_lun_from_base" => c.base = 0
  BY <1>1
<1>4. IsFiniteSet(c.used)
  BY <1>2, FS_Subset DEF IdsAreFinite
<1>5. c.used \subseteq Nat
  BY <1>2 DEF IdsAreFinite
<1>6. c.base \in Nat
  <2>1. ASSUME NEW b \in {0} \cup Bases PROVE b \in Nat
    BY DEF IdsAreFinite
  <2> QED
    BY <1>2, <2>1
<1> QED
  BY <1>3, <1>4, <1>5, <1>6

\* Without a base the numbers are taken as they are, with one they are shifted.
LEMMA NormalizedAre ==
  ASSUME IdsAreFinite, NEW c \in Calls
  PROVE  /\ IsFiniteSet(Normalized(c))
         /\ c.base = 0 => Normalized(c) = c.used
<1> DEFINE high == {x \in c.used : x >= c.base}
           f == [u \in high |-> u - c.base]
<1>1. IsFiniteSet(high)
  BY CallsAre, FS_Subset
<1>2. f \in Surjection(high, Normalized(c))
  BY DEF Normalized, Surjection
<1>3. IsFiniteSet(Normalized(c))
  BY <1>1, <1>2, FS_Surjection
<1>4. c.used \subseteq Nat
  BY CallsAre
<1>5. ASSUME c.base = 0 PROVE Normalized(c) = c.used
  BY <1>4, <1>5 DEF Normalized
<1> QED
  BY <1>3, <1>5

\* The loop counts only past numbers in use.
LEMMA LoopSteps == LoopInv /\ [Next]_vars => LoopInv'
<1> SUFFICES ASSUME LoopInv, [Next]_vars PROVE LoopInv'
  OBVIOUS
<1>1. CASE Advance
  <2>1. UNCHANGED <<call, used_set, returned>> /\ candidate' = candidate + 1
        /\ candidate \in used_set /\ ~returned
    BY <1>1 DEF Advance
  <2>2. FirstCandidate(call) \in Nat
    BY DEF FirstCandidate
  <2>3. ASSUME NEW k \in Nat, FirstCandidate(call) <= k, k < candidate' PROVE k \in used_set
    BY <2>1, <2>2, <2>3 DEF LoopInv
  <2> QED
    BY <2>1, <2>2, <2>3 DEF LoopInv, FirstCandidate
<1>2. CASE Return
  BY <1>2 DEF Return, LoopInv
<1>3. CASE UNCHANGED vars
  BY <1>3 DEF vars, LoopInv
<1> QED
  BY <1>1, <1>2, <1>3 DEF Next

\* Where a loop ends is what its function promises: two smallest free numbers
\* are one.
LEMMA LoopResult ==
  ASSUME IdsAreFinite
  PROVE  LoopInv => ReturnsSmallestFree
<1> SUFFICES ASSUME LoopInv, returned PROVE ReturnsSmallestFree
  BY DEF ReturnsSmallestFree
<1>1. /\ candidate \in Nat /\ candidate >= FirstCandidate(call)
      /\ candidate \notin Normalized(call)
      /\ \A k \in Nat : FirstCandidate(call) <= k /\ k < candidate => k \in Normalized(call)
  BY DEF LoopInv
<1>2. /\ IsFiniteSet(call.used) /\ call.used \subseteq Nat /\ call.base \in Nat
      /\ call.function \in {"allocate_lun", "allocate_nsid", "allocate_lun_from_base"}
      /\ call.function # "allocate_lun_from_base" => call.base = 0
  BY CallsAre DEF LoopInv
<1>3. IsFiniteSet(Normalized(call)) /\ (call.base = 0 => Normalized(call) = call.used)
  BY NormalizedAre DEF LoopInv
<1>4. CASE call.function = "allocate_nsid"
  <2> DEFINE n == AllocateNsid(call.used)
  <2>1. /\ n \in Nat \ {0} /\ n \notin call.used
        /\ \A k \in Nat \ {0} : k < n => k \in call.used
    BY <1>2, AllocateNsidCorrect
  <2>2. Normalized(call) = call.used /\ call.base = 0
    BY <1>2, <1>3, <1>4
  <2> HIDE DEF n
  <2>3. FirstCandidate(call) = 1
    BY <1>4 DEF FirstCandidate
  <2>4. candidate \in Nat \ {0}
    BY <1>1, <2>3
  <2>5. ~(candidate < n) /\ ~(n < candidate)
    BY <1>1, <2>1, <2>2, <2>3, <2>4
  <2>6. candidate = n
    BY <2>1, <2>4, <2>5
  <2> QED
    BY <1>4, <2>2, <2>4, <2>6 DEF ReturnsSmallestFree, Result, n
<1>5. CASE call.function # "allocate_nsid"
  <2> DEFINE n == AllocateLun(Normalized(call))
  <2>1. /\ n \in Nat /\ n \notin Normalized(call)
        /\ \A k \in Nat : k < n => k \in Normalized(call)
    BY <1>3, AllocateLunCorrect
  <2> HIDE DEF n
  <2>2. FirstCandidate(call) = 0
    BY <1>5 DEF FirstCandidate
  <2>3. ~(candidate < n) /\ ~(n < candidate)
    BY <1>1, <2>1, <2>2
  <2>4. candidate = n
    BY <1>1, <2>1, <2>3
  <2>5. CASE call.function = "allocate_lun"
    BY <1>1, <1>2, <1>3, <2>4, <2>5 DEF ReturnsSmallestFree, Result, n
  <2>6. CASE call.function = "allocate_lun_from_base"
    BY <2>4, <2>6 DEF ReturnsSmallestFree, Result, n, AllocateLunFromBase, Normalized
  <2> QED
    BY <1>2, <1>5, <2>5, <2>6
<1> QED
  BY <1>4, <1>5

\* The loops compute the smallest number, from the start or the base on, that
\* the given ids leave free (ensure.py:37-58).
THEOREM AlwaysReturnsSmallestFree ==
  ASSUME IdsAreFinite
  PROVE  Spec => []ReturnsSmallestFree
<1>1. Init => LoopInv
  <2>1. FirstCandidate(call) \in Nat
    BY DEF FirstCandidate
  <2>2. ASSUME Init PROVE LoopInv
    <3>1. candidate = FirstCandidate(call) /\ candidate \in Nat
      BY <2>1, <2>2 DEF Init
    <3>2. candidate >= FirstCandidate(call)
      BY <3>1
    <3>3. \A k \in Nat : ~(FirstCandidate(call) <= k /\ k < candidate)
      BY <3>1
    <3> QED
      BY <2>2, <3>1, <3>2, <3>3 DEF Init, LoopInv
  <2> QED
    BY <2>2
<1> QED
  BY <1>1, LoopSteps, LoopResult, PTL DEF Spec
=============================================================================
