-------------------------- MODULE AllocatorsProofs --------------------------
(***************************************************************************)
(* What the allocators of spdk/ensure.py return, for every finite set of   *)
(* used ids.                                                               *)
(***************************************************************************)
EXTENDS Allocators, FiniteSetTheorems, TLAPS

\* Every nonempty set of natural numbers has a least element.
LEMMA LeastNatural ==
  ASSUME NEW T, T \subseteq Nat, T # {}
  PROVE  \E x \in T : \A y \in T : x <= y
<1> DEFINE R == OpToRel(<, Nat)
<1>1. IsWellFoundedOn(R, Nat)
  BY NatLessThanWellFounded
<1> HIDE DEF R
<1>2. PICK x \in T : \A y \in T : ~ (<<y, x>> \in R)
  BY <1>1, WFMin, Zenon
<1>3. \A y \in T : y < x => <<y, x>> \in R
  BY DEF R, OpToRel
<1>4. \A y \in T : x <= y
  <2> TAKE y \in T
  <2>1. x \in Nat /\ y \in Nat
    OBVIOUS
  <2>2. ~ (y < x)
    BY <1>2, <1>3
  <2> QED
    BY <2>1, <2>2
<1> QED
  BY <1>4

\* A range with more numbers than are used has a smallest free one, and
\* SmallestFree is it.
LEMMA SmallestFreeIsFree ==
  ASSUME NEW used, IsFiniteSet(used),
         NEW lo \in Nat, NEW hi \in Nat, hi - lo + 1 > Cardinality(used)
  PROVE  /\ SmallestFree(used, lo, hi) \in lo..hi
         /\ SmallestFree(used, lo, hi) \notin used
         /\ \A k \in lo..hi : k < SmallestFree(used, lo, hi) => k \in used
<1> DEFINE free == {n \in lo..hi : n \notin used}
           Good(n) == n \notin used /\ \A k \in lo..hi : k < n => k \in used
<1>1. Cardinality(used) \in Nat
  BY FS_CardinalityType
<1>2. free # {}
  <2> SUFFICES ASSUME free = {} PROVE FALSE
    OBVIOUS
  <2>1. lo..hi \in SUBSET used
    OBVIOUS
  <2>2. Cardinality(lo..hi) <= Cardinality(used)
    BY <2>1, FS_Subset
  <2>3. Cardinality(lo..hi) = IF lo > hi THEN 0 ELSE hi - lo + 1
    BY FS_Interval
  <2> QED
    BY <1>1, <2>2, <2>3
<1>3. PICK n \in free : \A k \in free : n <= k
  <2>1. free \subseteq Nat
    OBVIOUS
  <2> QED
    BY <1>2, <2>1, LeastNatural
<1>4. n \in lo..hi /\ Good(n)
  BY <1>3
<1>5. \E x \in lo..hi : Good(x)
  BY <1>4
<1>6. SmallestFree(used, lo, hi) = CHOOSE x \in lo..hi : Good(x)
  BY DEF SmallestFree
<1> HIDE DEF Good
<1>7. SmallestFree(used, lo, hi) \in lo..hi /\ Good(SmallestFree(used, lo, hi))
  BY <1>5, <1>6
<1> QED
  BY <1>7 DEF Good

\* allocate_lun returns the smallest LUN that is not used (ensure.py:37-43).
THEOREM AllocateLunCorrect ==
  ASSUME NEW used, IsFiniteSet(used)
  PROVE  /\ AllocateLun(used) \in Nat
         /\ AllocateLun(used) \notin used
         /\ \A k \in Nat : k < AllocateLun(used) => k \in used
<1>1. Cardinality(used) \in Nat
  BY FS_CardinalityType
<1>2. Cardinality(used) - 0 + 1 > Cardinality(used)
  BY <1>1
<1>3. /\ SmallestFree(used, 0, Cardinality(used)) \in 0..Cardinality(used)
      /\ SmallestFree(used, 0, Cardinality(used)) \notin used
      /\ \A k \in 0..Cardinality(used) :
           k < SmallestFree(used, 0, Cardinality(used)) => k \in used
  BY <1>1, <1>2, SmallestFreeIsFree
<1> QED
  BY <1>1, <1>3 DEF AllocateLun

\* allocate_nsid returns the smallest namespace id from 1 on that is not used
\* (ensure.py:52-58).
THEOREM AllocateNsidCorrect ==
  ASSUME NEW used, IsFiniteSet(used)
  PROVE  /\ AllocateNsid(used) \in Nat \ {0}
         /\ AllocateNsid(used) \notin used
         /\ \A k \in Nat \ {0} : k < AllocateNsid(used) => k \in used
<1> DEFINE hi == Cardinality(used) + 1
<1>1. Cardinality(used) \in Nat
  BY FS_CardinalityType
<1>2. hi \in Nat /\ hi - 1 + 1 > Cardinality(used)
  BY <1>1
<1> HIDE DEF hi
<1>3. /\ SmallestFree(used, 1, hi) \in 1..hi
      /\ SmallestFree(used, 1, hi) \notin used
      /\ \A k \in 1..hi : k < SmallestFree(used, 1, hi) => k \in used
  BY <1>2, SmallestFreeIsFree
<1>4. AllocateNsid(used) = SmallestFree(used, 1, hi)
  BY DEF AllocateNsid, hi
<1> QED
  BY <1>2, <1>3, <1>4

\* allocate_lun_from_base returns the smallest LUN from the base on that is
\* not used (ensure.py:46-49).
THEOREM AllocateLunFromBaseCorrect ==
  ASSUME NEW used, IsFiniteSet(used), used \subseteq Nat, NEW base \in Nat
  PROVE  LET n == AllocateLunFromBase(used, base)
         IN  /\ n \in Nat /\ n >= base
             /\ n \notin used
             /\ \A k \in Nat : base <= k /\ k < n => k \in used
<1> DEFINE high == {x \in used : x >= base}
           f == [u \in high |-> u - base]
           shifted == {u - base : u \in high}
           n == AllocateLunFromBase(used, base)
<1>1. IsFiniteSet(high)
  BY FS_Subset
<1>2. IsFiniteSet(shifted)
  <2>1. f \in Surjection(high, shifted)
    BY DEF Surjection
  <2> HIDE DEF f, high, shifted
  <2> QED
    BY <1>1, <2>1, FS_Surjection
<1>3. n = AllocateLun(shifted) + base
  BY DEF AllocateLunFromBase
<1> HIDE DEF shifted, n
<1>4. /\ AllocateLun(shifted) \in Nat
      /\ AllocateLun(shifted) \notin shifted
      /\ \A k \in Nat : k < AllocateLun(shifted) => k \in shifted
  BY <1>2, AllocateLunCorrect
<1>5. n \in Nat /\ n >= base
  BY <1>3, <1>4
<1>6. n \notin used
  <2> SUFFICES ASSUME n \in used PROVE FALSE
    OBVIOUS
  <2>1. n - base \in shifted
    BY <1>5 DEF shifted
  <2>2. n - base = AllocateLun(shifted)
    BY <1>3, <1>4
  <2> QED
    BY <1>4, <2>1, <2>2
<1>7. ASSUME NEW k \in Nat, base <= k, k < n PROVE k \in used
  <2>1. k - base \in Nat /\ k - base < AllocateLun(shifted)
    BY <1>3, <1>4, <1>7
  <2>2. k - base \in shifted
    BY <1>4, <2>1
  <2>3. PICK u \in high : k - base = u - base
    BY <2>2 DEF shifted
  <2>4. u \in used /\ u = k
    BY <2>3
  <2> QED
    BY <2>4
<1> QED
  BY <1>5, <1>6, <1>7 DEF n
=============================================================================
