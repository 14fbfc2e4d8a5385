----------------------------- MODULE Allocators -----------------------------
(***************************************************************************)
(* The three pure allocators of spdk/ensure.py.  Each returns the smallest *)
(* free number: host LUNs count from 0, underlay LUNs of an iSCSI target   *)
(* from a configured base, NVMe namespace ids from 1.  The while-loops     *)
(* that compute them are in AllocatorLoop; here they are stated by what    *)
(* they return, so that theorems can be proved about them.                 *)
(***************************************************************************)
EXTENDS Naturals, FiniteSets

\* The smallest number of lo..hi that is not in used.
SmallestFree(used, lo, hi) ==
  CHOOSE n \in lo..hi : n \notin used /\ \A k \in lo..hi : k < n => k \in used

\* Among Cardinality(used) + 1 candidates at least one is free, so the
\* search never has to look further.
AllocateLun(used) == SmallestFree(used, 0, Cardinality(used))

AllocateLunFromBase(used, base) ==
  AllocateLun({u - base : u \in {x \in used : x >= base}}) + base

AllocateNsid(used) == SmallestFree(used, 1, Cardinality(used) + 1)
=============================================================================
