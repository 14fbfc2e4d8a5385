--------------------------- MODULE HitachiNumbers ---------------------------
(***************************************************************************)
(* personalities/hitachi/translate.py: the numbers by which the Hitachi    *)
(* API knows volumes and endpoints.  Rows are sequences of ids, in the     *)
(* order of created_at; a number is recorded in the row's vendor_metadata  *)
(* or Null.  A port "CL{n}-A" is its n.                                    *)
(***************************************************************************)
EXTENDS Allocators, SequencesExt

CONSTANTS Own,       \* the array whose mapper this is
          ArrayOf,   \* the array of a volume, and of an endpoint
          IsFc,      \* is the endpoint's protocol "fc"?
          Null

\* Mutant: recorded numbers are not looked at.
NumberOfAfresh(x, recorded, next) == next

\* A recorded number is kept, a row without one gets the loop's counter.
NumberOf(x, recorded, next) == IF recorded[x] = Null THEN next ELSE recorded[x]

\* What a loop over ids gives to those in scope, next[i] its counter after i rows.
Numbering(ids, scope, recorded, next) ==
  [x \in scope |-> NumberOf(x, recorded, next[SelectInSeq(ids, LAMBDA y : y = x) - 1])]

\* The volumes of the array or, if it has none, those of every array.
VolumesInScope(rows) ==
  LET own == {v \in ToSet(rows) : ArrayOf[v] = Own}
  IN IF own = {} THEN ToSet(rows) ELSE own

\* The numbers of the rows selected, those of noted, in the rows' order: the
\* counter goes on after the largest number met so far.
LdevNumbering(ids, noted) ==
  LET scope == DOMAIN noted
      next[i \in 0..Len(ids)] ==
        IF i = 0 THEN 0
        ELSE IF ids[i] \notin scope THEN next[i - 1]
        ELSE Max({next[i - 1], NumberOf(ids[i], noted, next[i - 1])}) + 1
  IN Numbering(ids, scope, noted, next)

\* The counter is moved past every number met.
PortCounter(ids, scope, recorded, first) ==
  LET next[i \in 0..Len(ids)] ==
        IF i = 0 THEN first
        ELSE IF ids[i] \notin scope THEN next[i - 1]
        ELSE Max({next[i - 1], NumberOf(ids[i], recorded, next[i - 1]) + 1})
  IN next

OwnOf(ids) == {e \in ToSet(ids) : ArrayOf[e] = Own}

\* FC ports count from CL1-A, all others from CL3-A.
PortNumbering(ids, recorded) ==
  LET fc == {e \in OwnOf(ids) : IsFc[e]}
      other == OwnOf(ids) \ fc
      fcNumber == Numbering(ids, fc, recorded, PortCounter(ids, fc, recorded, 1))
      otherNumber == Numbering(ids, other, recorded, PortCounter(ids, other, recorded, 3))
  IN [e \in OwnOf(ids) |-> IF e \in fc THEN fcNumber[e] ELSE otherNumber[e]]

\* What a number stands for after a loop that assigns row by row: the last
\* row that has the number.
LastWith(ids, number, n) ==
  LET last == SelectLastInSeq(ids, LAMBDA x : x \in DOMAIN number /\ number[x] = n)
  IN IF last = 0 THEN Null ELSE ids[last]

\* The first row of a set.
FirstOf(ids, S) ==
  LET first == SelectInSeq(ids, LAMBDA x : x \in S)
  IN IF first = 0 THEN Null ELSE ids[first]

NextLdev(volumeAt) ==
  LET used == {n \in DOMAIN volumeAt : volumeAt[n] # Null}
  IN IF used = {} THEN 0 ELSE Max(used) + 1

\* create_host_group and create_iscsi_target: the smallest number not in use
\* on this host's other ports.
NextGroupNumber(numberAt) ==
  LET used == {numberAt[p] : p \in DOMAIN numberAt} \ {Null}
  IN SmallestFree(used, 0, Cardinality(used))
=============================================================================
