---------------------------- MODULE HitachiProofs ----------------------------
(***************************************************************************)
(* What the Hitachi personality keeps, for any number of requests, volumes *)
(* and hosts: LDEV numbers (LdevInv), ports, hosts and LUNs (HostInv) and, *)
(* for one request at a time, what clients were told of their groups       *)
(* (GrantInv).                                                             *)
(***************************************************************************)
EXTENDS HitachiProperties, AllocatorsProofs, SequenceTheorems

-----------------------------------------------------------------------------
\* Rows, and positions in them.

\* A set of numbers has a least one, and Min is it.
LEMMA MinOf ==
  ASSUME NEW T, T \subseteq Nat, T # {}
  PROVE  Min(T) \in T /\ \A y \in T : Min(T) <= y
<1>1. PICK x \in T : \A y \in T : x <= y
  BY LeastNatural
<1> QED
  BY <1>1 DEF Min

\* A set of numbers up to a bound has a greatest one, and Max is it.
LEMMA MaxOf ==
  ASSUME NEW n \in Nat, NEW T, T \subseteq 0..n, T # {}
  PROVE  Max(T) \in T /\ \A y \in T : Max(T) >= y
<1> DEFINE D == {d \in Nat : n - d \in T}
<1>1. D # {}
  <2>1. PICK x \in T : TRUE
    OBVIOUS
  <2>2. n - x \in Nat /\ n - (n - x) = x
    BY <2>1
  <2>3. n - x \in D
    BY <2>1, <2>2
  <2> QED
    BY <2>3
<1>2. D \subseteq Nat
  OBVIOUS
<1> HIDE DEF D
<1>3. PICK d \in D : \A e \in D : d <= e
  BY <1>1, <1>2, LeastNatural
<1>4. n - d \in T /\ d \in Nat
  BY <1>3 DEF D
<1>5. ASSUME NEW y \in T PROVE n - d >= y
  <2>1. y \in 0..n
    OBVIOUS
  <2>2. n - y \in Nat /\ n - (n - y) = y
    BY <2>1
  <2>3. n - y \in D
    BY <2>2 DEF D
  <2>4. d <= n - y
    BY <1>3, <2>3
  <2> QED
    BY <1>4, <2>1, <2>4
<1>6. \E x \in T : \A y \in T : x >= y
  BY <1>4, <1>5
<1> QED
  BY <1>6 DEF Max

\* Where a row is.
LEMMA IndexOf ==
  ASSUME NEW X, NEW ids \in Seq(X), NEW x \in ToSet(ids)
  PROVE  LET i == SelectInSeq(ids, LAMBDA y : y = x)
         IN  i \in 1..Len(ids) /\ ids[i] = x
<1> DEFINE I == {i \in 1..Len(ids) : ids[i] = x}
<1>1. PICK i \in 1..Len(ids) : ids[i] = x
  BY DEF ToSet
<1>2. I # {} /\ I \subseteq Nat
  BY <1>1
<1>3. SelectInSeq(ids, LAMBDA y : y = x) = Min(I)
  BY <1>2 DEF SelectInSeq
<1> HIDE DEF I
<1>4. Min(I) \in I
  BY <1>2, MinOf
<1> QED
  BY <1>3, <1>4 DEF I

\* The first row of a set is a row of it.
LEMMA FirstOfRow ==
  ASSUME NEW X, NEW ids \in Seq(X), NEW S
  PROVE  FirstOf(ids, S) = Null \/ FirstOf(ids, S) \in ToSet(ids) \cap S
<1> DEFINE I == {i \in 1..Len(ids) : ids[i] \in S}
           first == SelectInSeq(ids, LAMBDA x : x \in S)
<1>0. I \subseteq Nat
  OBVIOUS
<1>1. first = IF I # {} THEN Min(I) ELSE 0
  BY DEF SelectInSeq
<1>2. FirstOf(ids, S) = IF first = 0 THEN Null ELSE ids[first]
  BY DEF FirstOf
<1> HIDE DEF I, first
<1>3. CASE I = {}
  BY <1>1, <1>2, <1>3
<1>4. CASE I # {}
  <2>1. first \in I
    BY <1>0, <1>1, <1>4, MinOf
  <2> QED
    BY <1>2, <2>1 DEF I, ToSet
<1> QED
  BY <1>3, <1>4

\* What a number stands for is a row that has it.
LEMMA LastWithRow ==
  ASSUME NEW X, NEW ids \in Seq(X), NEW number, NEW n, LastWith(ids, number, n) # Null
  PROVE  LET x == LastWith(ids, number, n)
         IN  x \in ToSet(ids) /\ x \in DOMAIN number /\ number[x] = n
<1> DEFINE I == {i \in 1..Len(ids) : ids[i] \in DOMAIN number /\ number[ids[i]] = n}
           last == SelectLastInSeq(ids, LAMBDA x : x \in DOMAIN number /\ number[x] = n)
<1>0. I \subseteq 0..Len(ids) /\ Len(ids) \in Nat
  OBVIOUS
<1>1. last = IF I # {} THEN Max(I) ELSE 0
  BY DEF SelectLastInSeq
<1>2. LastWith(ids, number, n) = IF last = 0 THEN Null ELSE ids[last]
  BY DEF LastWith
<1> HIDE DEF I, last
<1>3. I # {}
  BY <1>1, <1>2
<1>4. last \in I
  BY <1>0, <1>1, <1>3, MaxOf
<1> QED
  BY <1>2, <1>4 DEF I, ToSet

\* A row that is inserted comes last.
LEMMA InsertRow ==
  ASSUME NEW X, NEW ids \in Seq(X), IsInjective(ids), NEW x \in X, x \notin ToSet(ids)
  PROVE  /\ Append(ids, x) \in Seq(X) /\ IsInjective(Append(ids, x))
         /\ ToSet(Append(ids, x)) = ToSet(ids) \cup {x}
<1> DEFINE new == Append(ids, x)
<1>1. new \in Seq(X) /\ DOMAIN new = 1..(Len(ids) + 1)
  OBVIOUS
<1>2. \A i \in 1..Len(ids) : new[i] = ids[i]
  OBVIOUS
<1>3. new[Len(ids) + 1] = x
  OBVIOUS
<1>4. DOMAIN ids = 1..Len(ids) /\ Len(ids) \in Nat
  OBVIOUS
<1> HIDE DEF new
<1>5. ToSet(new) = ToSet(ids) \cup {x}
  BY <1>1, <1>2, <1>3, <1>4 DEF ToSet
<1>6. \A i \in DOMAIN ids : ids[i] # x
  BY <1>4 DEF ToSet
<1>7. IsInjective(new)
  BY <1>1, <1>2, <1>3, <1>4, <1>6 DEF IsInjective
<1> QED
  BY <1>1, <1>5, <1>7 DEF new

\* A row that is removed leaves the others.
LEMMA RemoveRow ==
  ASSUME NEW X, NEW ids \in Seq(X), IsInjective(ids), NEW x
  PROVE  /\ RemoveFirst(ids, x) \in Seq(X) /\ IsInjective(RemoveFirst(ids, x))
         /\ ToSet(RemoveFirst(ids, x)) = ToSet(ids) \ {x}
<1>1. CASE x \notin ToSet(ids)
  <2>1. RemoveFirst(ids, x) = ids
    BY <1>1 DEF RemoveFirst, ToSet
  <2> QED
    BY <1>1, <2>1
<1>2. CASE x \in ToSet(ids)
  <2> DEFINE k == SelectInSeq(ids, LAMBDA y : y = x)
             new == [i \in 1..(Len(ids) - 1) |-> IF i < k THEN ids[i] ELSE ids[i + 1]]
  <2>1. k \in 1..Len(ids) /\ ids[k] = x
    BY <1>2, IndexOf
  <2>2. RemoveFirst(ids, x) = RemoveAt(ids, k)
    BY <2>1 DEF RemoveFirst
  <2> HIDE DEF k
  <2>3. RemoveAt(ids, k) = new
    <3> DEFINE a == SubSeq(ids, 1, k - 1)
               b == SubSeq(ids, k + 1, Len(ids))
    <3>1. a \in Seq(X) /\ Len(a) = k - 1 /\ \A i \in 1..(k - 1) : a[i] = ids[i]
      BY <2>1
    <3>2. b \in Seq(X) /\ Len(b) = Len(ids) - k /\ \A i \in 1..(Len(ids) - k) : b[i] = ids[i + k]
      BY <2>1
    <3>3. RemoveAt(ids, k) = a \o b
      BY DEF RemoveAt
    <3> HIDE DEF a, b
    <3>4. /\ a \o b \in Seq(X) /\ Len(a \o b) = Len(a) + Len(b)
          /\ \A i \in 1..Len(a) + Len(b) :
               (a \o b)[i] = IF i <= Len(a) THEN a[i] ELSE b[i - Len(a)]
      BY <3>1, <3>2, ConcatProperties
    <3>5. new \in Seq(X) /\ Len(new) = Len(ids) - 1
      BY <2>1
    <3>0. \A i \in 1..(Len(ids) - 1) : new[i] = IF i < k THEN ids[i] ELSE ids[i + 1]
      OBVIOUS
    <3>6. ASSUME NEW i \in 1..Len(a \o b) PROVE (a \o b)[i] = new[i]
      <4>0. i \in 1..(Len(ids) - 1)
        BY <2>1, <3>1, <3>2, <3>4
      <4> HIDE DEF new
      <4>1. CASE i < k
        <5>1. i \in 1..(k - 1) /\ (a \o b)[i] = a[i]
          BY <2>1, <3>1, <3>2, <3>4, <4>1
        <5> QED
          BY <3>0, <3>1, <4>0, <4>1, <5>1
      <4>2. CASE i >= k
        <5>0. /\ i - (k - 1) \in 1..(Len(ids) - k) /\ ~(i <= Len(a)) /\ i - Len(a) = i - (k - 1)
              /\ i \in 1..(Len(a) + Len(b))
          <6>1. /\ Len(a) = k - 1 /\ Len(b) = Len(ids) - k
                /\ Len(ids) \in Nat /\ k \in 1..Len(ids)
            BY <2>1, <3>1, <3>2
          <6> QED
            BY <4>0, <4>2, <6>1
        <5>1. i - (k - 1) \in 1..(Len(ids) - k) /\ (a \o b)[i] = b[i - (k - 1)]
          BY <3>4, <5>0
        <5>2. b[i - (k - 1)] = ids[i + 1]
          BY <2>1, <3>2, <5>1
        <5>3. new[i] = ids[i + 1]
          BY <2>1, <3>0, <4>0, <4>2
        <5> QED
          BY <5>1, <5>2, <5>3
      <4> QED
        BY <2>1, <4>0, <4>1, <4>2
    <3>7. Len(a \o b) = Len(new)
      BY <2>1, <3>1, <3>2, <3>4, <3>5
    <3> HIDE DEF new
    <3>8. a \o b = new
      BY <3>4, <3>5, <3>6, <3>7, SeqEqual
    <3> QED
      BY <3>3, <3>8
  <2>4. new \in Seq(X)
    BY <2>1
  <2>5. IsInjective(new)
    BY <2>1 DEF IsInjective
  <2>6. ToSet(new) = ToSet(ids) \ {x}
    <3>1. ToSet(new) \subseteq ToSet(ids) \ {x}
      BY <2>1 DEF ToSet, IsInjective
    <3>2. ASSUME NEW y \in ToSet(ids) \ {x} PROVE y \in ToSet(new)
      <4>1. PICK i \in 1..Len(ids) : ids[i] = y
        BY DEF ToSet
      <4>2. i # k
        BY <2>1, <4>1, <3>2
      <4>3. CASE i < k
        <5>1. i \in 1..(Len(ids) - 1) /\ new[i] = y
          BY <2>1, <4>1, <4>3
        <5> QED
          BY <5>1 DEF ToSet
      <4>4. CASE i > k
        <5>1. i - 1 \in 1..(Len(ids) - 1) /\ new[i - 1] = y
          BY <2>1, <4>1, <4>4
        <5> QED
          BY <5>1 DEF ToSet
      <4> QED
        BY <2>1, <4>2, <4>3, <4>4
    <3> QED
      BY <3>1, <3>2
  <2> QED
    BY <2>2, <2>3, <2>4, <2>5, <2>6
<1> QED
  BY <1>1, <1>2

-----------------------------------------------------------------------------
\* Numbers.

\* A set that has 0 and with each number the next has them all.
LEMMA EveryNatural ==
  ASSUME NEW S, 0 \in S, \A n \in Nat : n \in S => n + 1 \in S
  PROVE  \A n \in Nat : n \in S
<1> DEFINE T == Nat \ S
<1>1. SUFFICES ASSUME T # {} PROVE FALSE
  OBVIOUS
<1>2. T \subseteq Nat
  OBVIOUS
<1> HIDE DEF T
<1>3. PICK n \in T : \A m \in T : n <= m
  BY <1>1, <1>2, LeastNatural
<1>4. n \in Nat /\ n \notin S
  BY DEF T
<1>5. n - 1 \in Nat /\ n - 1 + 1 = n
  BY <1>4
<1>6. n - 1 \notin T
  BY <1>3, <1>4, <1>5
<1> QED
  BY <1>4, <1>5, <1>6 DEF T

\* A recorded LDEV number is kept, whatever rows there are.
LEMMA LdevNumbersKept ==
  ASSUME NEW ids, NEW noted
  PROVE  /\ DOMAIN LdevNumbering(ids, noted) = DOMAIN noted
         /\ \A v \in DOMAIN noted :
              noted[v] # Null => LdevNumbering(ids, noted)[v] = noted[v]
BY DEF LdevNumbering, Numbering, NumberOf

\* The counter of ports, after i rows that have no number yet.
LEMMA CounterBounds ==
  ASSUME NEW X, NEW ids \in Seq(X), NEW scope, NEW noted, NEW first \in Nat,
         \A x \in scope : noted[x] = Null
  PROVE  \A i \in 0..Len(ids) : PortCounter(ids, scope, noted, first)[i] \in first..(first + i)
<1> DEFINE After(i, x) == IF ids[i] \notin scope THEN x
                          ELSE Max({x, NumberOf(ids[i], noted, x) + 1})
           Counts(f, n) == f = [i \in 0..n |-> IF i = 0 THEN first ELSE After(i, f[i - 1])]
           C == PortCounter(ids, scope, noted, first)
<1>1. C = CHOOSE f : Counts(f, Len(ids))
  BY DEF PortCounter
<1> HIDE DEF After
<1>2. \A n \in Nat : \E f : Counts(f, n)
  <2> DEFINE S == {n \in Nat : \E f : Counts(f, n)}
  <2>1. 0 \in S
    <3>1. Counts([i \in 0..0 |-> first], 0)
      OBVIOUS
    <3> QED
      BY <3>1
  <2>2. ASSUME NEW n \in Nat, n \in S PROVE n + 1 \in S
    <3>1. PICK f : Counts(f, n)
      BY <2>2
    <3> DEFINE g == [i \in 0..(n + 1) |-> IF i = n + 1 THEN After(n + 1, f[n]) ELSE f[i]]
    <3>2. \A i \in 0..n : g[i] = f[i] /\ f[i] = IF i = 0 THEN first ELSE After(i, f[i - 1])
      BY <3>1
    <3>3. g[n + 1] = After(n + 1, f[n])
      OBVIOUS
    <3>4. g = [i \in 0..(n + 1) |-> g[i]]
      OBVIOUS
    <3> HIDE DEF g
    <3>5. ASSUME NEW i \in 0..(n + 1)
          PROVE  g[i] = IF i = 0 THEN first ELSE After(i, g[i - 1])
      <4>1. CASE i = n + 1
        <5>1. i - 1 = n /\ n \in 0..n /\ i # 0
          BY <4>1
        <5> QED
          BY <3>2, <3>3, <4>1, <5>1
      <4>2. CASE i \in 1..n
        <5>1. i \in 0..n /\ i - 1 \in 0..n /\ i # 0
          BY <4>2
        <5> QED
          BY <3>2, <5>1
      <4>3. CASE i = 0
        BY <3>2, <4>3
      <4> QED
        BY <4>1, <4>2, <4>3
    <3>6. Counts(g, n + 1)
      BY <3>4, <3>5
    <3>7. n + 1 \in Nat
      OBVIOUS
    <3> HIDE DEF Counts
    <3> QED
      BY <3>6, <3>7
  <2> HIDE DEF S
  <2>3. \A n \in Nat : n \in S
    BY <2>1, <2>2, EveryNatural
  <2> QED
    BY <2>3 DEF S
<1>3. Counts(C, Len(ids))
  <2>1. Len(ids) \in Nat
    OBVIOUS
  <2>2. \E f : Counts(f, Len(ids))
    BY <1>2, <2>1
  <2> HIDE DEF Counts, C
  <2> QED
    BY <1>1, <2>2
<1>4. /\ C[0] = first
      /\ \A i \in 1..Len(ids) : C[i] = After(i, C[i - 1])
  <2> HIDE DEF C, After
  <2> QED
    BY <1>3
<1> HIDE DEF C, Counts
<1>5. ASSUME NEW i \in 1..Len(ids), NEW x \in Nat PROVE After(i, x) \in x..(x + 1)
  <2>1. CASE ids[i] \notin scope
    BY <2>1 DEF After
  <2>2. CASE ids[i] \in scope
    <3>1. After(i, x) = Max({x, x + 1})
      BY <2>2 DEF After, NumberOf
    <3>2. x + 1 \in Nat /\ {x, x + 1} \subseteq 0..(x + 1) /\ {x, x + 1} # {}
      OBVIOUS
    <3>3. Max({x, x + 1}) \in {x, x + 1}
      BY <3>2, MaxOf
    <3>4. x \in x..(x + 1) /\ x + 1 \in x..(x + 1)
      OBVIOUS
    <3> QED
      BY <3>1, <3>3, <3>4
  <2> QED
    BY <2>1, <2>2
<1>6. \A i \in Nat : i <= Len(ids) => C[i] \in first..(first + i)
  <2> DEFINE S == {i \in Nat : i <= Len(ids) => C[i] \in first..(first + i)}
  <2>1. 0 \in S
    BY <1>4
  <2>2. ASSUME NEW i \in Nat, i \in S PROVE i + 1 \in S
    <3>1. SUFFICES ASSUME i + 1 <= Len(ids) PROVE C[i + 1] \in first..(first + (i + 1))
      OBVIOUS
    <3>2. Len(ids) \in Nat
      OBVIOUS
    <3>3. i + 1 \in 1..Len(ids) /\ (i + 1) - 1 = i
      BY <3>1, <3>2
    <3>4. C[i] \in first..(first + i)
      BY <2>2, <3>1, <3>2
    <3>5. C[i + 1] = After(i + 1, C[i])
      BY <1>4, <3>3
    <3>6. C[i] \in Nat
      BY <3>4
    <3>7. After(i + 1, C[i]) \in C[i]..(C[i] + 1)
      BY <1>5, <3>3, <3>6
    <3> QED
      BY <3>4, <3>5, <3>6, <3>7
  <2> HIDE DEF S
  <2>3. \A i \in Nat : i \in S
    BY <2>1, <2>2, EveryNatural
  <2> QED
    BY <2>3 DEF S
<1> QED
  BY <1>6 DEF C

\* Ports get numbers within the bound, and recorded ones are kept: the ports of
\* an array are all numbered at once.
LEMMA PortNumbers ==
  ASSUME NEW X, NEW ids \in Seq(X), NEW noted,
         \/ \A e \in OwnOf(ids) : noted[e] = Null
         \/ \A e \in OwnOf(ids) : noted[e] \in 1..(Len(ids) + 2) /\ noted[e] # Null
  PROVE  /\ DOMAIN PortNumbering(ids, noted) = OwnOf(ids)
         /\ \A e \in OwnOf(ids) : PortNumbering(ids, noted)[e] \in 1..(Len(ids) + 2)
<1> DEFINE fc == {e \in OwnOf(ids) : IsFc[e]}
           other == OwnOf(ids) \ fc
           countFc == PortCounter(ids, fc, noted, 1)
           countOther == PortCounter(ids, other, noted, 3)
           at(e) == SelectInSeq(ids, LAMBDA y : y = e)
<1>1. PortNumbering(ids, noted) =
        [e \in OwnOf(ids) |-> IF e \in fc THEN Numbering(ids, fc, noted, countFc)[e]
                                         ELSE Numbering(ids, other, noted, countOther)[e]]
  BY DEF PortNumbering
<1>2. \A e \in fc : Numbering(ids, fc, noted, countFc)[e] = NumberOf(e, noted, countFc[at(e) - 1])
  BY DEF Numbering
<1>3. \A e \in other :
        Numbering(ids, other, noted, countOther)[e] = NumberOf(e, noted, countOther[at(e) - 1])
  BY DEF Numbering
<1>4. \A e \in OwnOf(ids) : at(e) \in 1..Len(ids)
  BY IndexOf DEF OwnOf
<1>5. fc \subseteq OwnOf(ids) /\ other \subseteq OwnOf(ids) /\ OwnOf(ids) = fc \cup other
  OBVIOUS
<1>6. Len(ids) \in Nat
  OBVIOUS
<1> HIDE DEF fc, other, at, countFc, countOther
<1>7. CASE \A e \in OwnOf(ids) : noted[e] \in 1..(Len(ids) + 2) /\ noted[e] # Null
  BY <1>1, <1>2, <1>3, <1>5, <1>7 DEF NumberOf
<1>8. CASE \A e \in OwnOf(ids) : noted[e] = Null
  <2>1. \A i \in 0..Len(ids) : countFc[i] \in 1..(1 + i)
    BY <1>5, <1>8, CounterBounds DEF countFc
  <2>2. \A i \in 0..Len(ids) : countOther[i] \in 3..(3 + i)
    BY <1>5, <1>8, CounterBounds DEF countOther
  <2>3. ASSUME NEW e \in fc PROVE countFc[at(e) - 1] \in 1..(Len(ids) + 2)
    <3>1. at(e) \in 1..Len(ids)
      BY <1>4, <1>5
    <3>2. at(e) - 1 \in 0..Len(ids) /\ 1 + (at(e) - 1) <= Len(ids) + 2
      BY <1>6, <3>1
    <3> QED
      BY <2>1, <3>1, <3>2, <1>6
  <2>4. ASSUME NEW e \in other PROVE countOther[at(e) - 1] \in 1..(Len(ids) + 2)
    <3>1. at(e) \in 1..Len(ids)
      BY <1>4, <1>5
    <3>2. at(e) - 1 \in 0..Len(ids) /\ 3 + (at(e) - 1) <= Len(ids) + 2
      BY <1>6, <3>1
    <3> QED
      BY <2>2, <3>1, <3>2, <1>6
  <2> QED
    BY <1>1, <1>2, <1>3, <1>5, <1>8, <2>3, <2>4 DEF NumberOf
<1> QED
  BY <1>1, <1>7, <1>8

\* All endpoints in a row.
LEMMA EndpointRows ==
  LET all == SetToSeq(Endpoints)
  IN  all \in Seq(Endpoints) /\ Len(all) = Cardinality(Endpoints) /\ ToSet(all) \subseteq Endpoints
<1> DEFINE n == Cardinality(Endpoints)
           all == SetToSeq(Endpoints)
<1>1. n \in Nat
  BY HitachiAssumption, FS_CardinalityType
<1>2. \E f : f \in Bijection(1..n, Endpoints)
  BY HitachiAssumption, FS_CardinalityType DEF ExistsBijection
<1>3. PICK f : f \in Bijection(1..n, Endpoints)
  BY <1>2
<1>4. f \in [1..n -> Endpoints] /\ IsInjective(f)
  BY <1>3 DEF Bijection, Injection
<1>5. all \in [1..n -> Endpoints]
  BY <1>4 DEF SetToSeq
<1> HIDE DEF all
<1>6. all \in Seq(Endpoints) /\ Len(all) = n
  BY <1>1, <1>5
<1> QED
  BY <1>5, <1>6 DEF all, ToSet

-----------------------------------------------------------------------------
\* LDEV numbers.

Steps == RefreshSteps \cup
           {"idle", "serve", "register", "insert", "unregister", "erase", "save"}
CreateSteps == {"register", "insert"}
LdevSteps == CreateSteps \cup {"unregister", "erase"}
EmptySteps == {"select", "select_all", "fill"}

\* The volume that a creation has drawn is its own, has no row yet and no number
\* but the chosen one, and no refresh has read it.
Drawn(r) ==
  LET v == local[r].volume
  IN /\ v \in Volumes \ ToSet(rows) /\ local[r].ldev \in Ldevs
     /\ pc[r] = "register" => ldevOf[v] = Null
     /\ ldevOf[v] \in {Null, local[r].ldev}
     /\ \A s \in Requests : pc[s] \in CreateSteps /\ local[s].volume = v => s = r
     /\ \A s \in Requests : v \notin InHand(s)

\* The mapper's two maps agree where the second leads anywhere, and with what
\* the rows record.
MapsAgree == \A n \in Ldevs : volumeAt[n] # Null => ldevOf[volumeAt[n]] = n
RecordAgrees ==
  \A v \in Volumes : IF Exists(v) THEN recorded[v] = Null \/ ldevOf[v] \in {Null, recorded[v]}
                                  ELSE recorded[v] = Null

\* What a refresh has read is true of the rows that are still there, and the
\* maps, if they know a row by then, know it by the number that was read.
ReadOK(r) ==
  LET noted == local[r].noted
  IN /\ local[r].order \in Seq(Volumes)
     /\ DOMAIN noted \subseteq Volumes
     /\ \A v \in DOMAIN noted : /\ Exists(v) => noted[v] = recorded[v]
                                /\ ldevOf[v] \in {Null, noted[v]}

\* The numbers that it gives are in the maps, for rows that record none.
NumbersOK(r) ==
  LET numbers == local[r].numbers
  IN /\ DOMAIN numbers \subseteq Volumes
     /\ \A v \in DOMAIN numbers : /\ numbers[v] \in Ldevs
                                  /\ Exists(v) => recorded[v] = Null
                                  /\ ldevOf[v] \in {Null, numbers[v]}

OneRefresh == \A r, s \in Requests : Refreshing(r) /\ Refreshing(s) => r = s

\* What the maps learn between their emptying and their filling is recorded.
SinceEmptied ==
  (\E r \in Requests : pc[r] \in EmptySteps) =>
     \A v \in Volumes : Exists(v) => ldevOf[v] \in {Null, recorded[v]}

RefreshInv ==
  /\ OneRefresh /\ SinceEmptied
  /\ \A r \in Requests : ReadOK(r) /\ NumbersOK(r)
  /\ \A r \in Requests : ~Refreshing(r) => InHand(r) = {}

LdevInv ==
  /\ rows \in Seq(Volumes) /\ IsInjective(rows)
  /\ recorded \in [Volumes -> Ldevs \cup {Null}]
  /\ ldevOf \in [Volumes -> Ldevs \cup {Null}]
  /\ volumeAt \in [Ldevs -> Volumes \cup {Null}]
  /\ pc \in [Requests -> Steps] /\ DOMAIN local = Requests
  /\ \A r \in Requests : pc[r] \in CreateSteps => Drawn(r)
  /\ \A r \in Requests : pc[r] \in LdevSteps => local[r].volume \in Volumes
  /\ MapsAgree /\ RecordAgrees /\ RefreshInv

ldevs == <<rows, recorded, ldevOf, volumeAt>>

\* Null is none of what it stands for the lack of.
LEMMA Nulls == Null \notin Ldevs /\ Null \notin Volumes /\ Null \notin Endpoints /\ Null \notin Hosts /\ Null \notin Nat
BY HitachiAssumption DEF Ldevs

\* Whatever number is looked up, the row records it or nothing.
LEMMA LookUpAgrees ==
  ASSUME LdevInv
  PROVE  NumberLeadsToItsVolume
BY Nulls DEF LdevInv, MapsAgree, RecordAgrees, NumberLeadsToItsVolume, LookUp, Exists

\* A request that keeps what a refresh has in hand, or drops it.
HandStays(r) ==
  \/ /\ local'[r].order = local[r].order /\ local'[r].noted = local[r].noted
     /\ local'[r].numbers = local[r].numbers
     /\ pc'[r] \in RefreshSteps <=> pc[r] \in RefreshSteps
     /\ pc'[r] \in EmptySteps => pc[r] \in EmptySteps
  \/ /\ local'[r].order = <<>> /\ local'[r].noted = Nothing /\ local'[r].numbers = Nothing
     /\ pc'[r] \notin RefreshSteps

\* Steps that read nothing and number nothing, and take nothing in hand amiss.
LEMMA RefreshStays ==
  ASSUME LdevInv, \A r \in Requests : HandStays(r),
         \A r \in Requests : \A v \in InHand(r)' :
            /\ v \in ToSet(rows') => v \in ToSet(rows) /\ recorded'[v] = recorded[v]
            /\ ldevOf'[v] \in {Null, ldevOf[v]},
         \A v \in Volumes : v \in ToSet(rows') =>
            \/ ldevOf'[v] \in {Null, recorded'[v]}
            \/ v \in ToSet(rows) /\ ldevOf'[v] = ldevOf[v] /\ recorded'[v] = recorded[v]
  PROVE  RefreshInv'
<1>1. \A r \in Requests : pc'[r] \in RefreshSteps => pc[r] \in RefreshSteps
  BY DEF HandStays
<1>2. \A r \in Requests : pc'[r] \in EmptySteps => pc[r] \in EmptySteps
  BY DEF HandStays, EmptySteps, RefreshSteps
<1>3. OneRefresh'
  BY <1>1 DEF LdevInv, RefreshInv, OneRefresh, Refreshing
<1>4. SinceEmptied'
  BY <1>2 DEF LdevInv, RefreshInv, SinceEmptied, Exists
<1>5. ASSUME NEW r \in Requests PROVE ReadOK(r)' /\ NumbersOK(r)'
  <2>1. ReadOK(r) /\ NumbersOK(r)
    BY DEF LdevInv, RefreshInv
  <2>2. CASE local'[r].order = <<>> /\ local'[r].noted = Nothing /\ local'[r].numbers = Nothing
    BY <2>2 DEF ReadOK, NumbersOK, Nothing
  <2>3. CASE /\ local'[r].order = local[r].order /\ local'[r].noted = local[r].noted
             /\ local'[r].numbers = local[r].numbers
    <3>1. InHand(r)' = DOMAIN local[r].noted \cup DOMAIN local[r].numbers
      BY <2>3 DEF InHand
    <3> QED
      BY <2>1, <2>3, <3>1 DEF ReadOK, NumbersOK, Exists
  <2> QED
    BY <2>2, <2>3 DEF HandStays
<1>6. \A r \in Requests : ~Refreshing(r)' => InHand(r)' = {}
  BY DEF HandStays, LdevInv, RefreshInv, Refreshing, InHand, Nothing
<1> QED
  BY <1>3, <1>4, <1>5, <1>6 DEF RefreshInv

\* Nothing new comes into a hand that stays.
LEMMA HandsOnlyDrop ==
  ASSUME NEW r, HandStays(r)
  PROVE  InHand(r)' \subseteq InHand(r)
BY DEF HandStays, InHand, Nothing

\* Steps that have nothing to do with LDEVs, and failures of those that do.
LEMMA LdevsStay ==
  ASSUME LdevInv, UNCHANGED ldevs, pc' \in [Requests -> Steps], DOMAIN local' = Requests,
         \A r \in Requests : pc'[r] \in LdevSteps => pc'[r] = pc[r] /\ local'[r] = local[r],
         \A r \in Requests : HandStays(r)
  PROVE  LdevInv'
<1>1. \A r \in Requests : pc'[r] \in CreateSteps => Drawn(r)'
  BY HandsOnlyDrop DEF LdevInv, Drawn, ldevs, CreateSteps, LdevSteps
<1>2. \A r \in Requests : pc'[r] \in LdevSteps => local'[r].volume \in Volumes
  BY DEF LdevInv
<1>3. MapsAgree' /\ RecordAgrees'
  BY DEF LdevInv, MapsAgree, RecordAgrees, Exists, ldevs
<1>4. RefreshInv'
  BY RefreshStays DEF ldevs
<1> QED
  BY <1>1, <1>2, <1>3, <1>4 DEF LdevInv, ldevs

\* A request that moves on, alone.
LEMMA MovesOn ==
  ASSUME LdevInv, NEW r \in Requests, NEW step \in Steps, GoTo(r, step)
  PROVE  /\ pc' \in [Requests -> Steps] /\ pc'[r] = step
         /\ \A s \in Requests \ {r} : pc'[s] = pc[s]
BY DEF LdevInv, GoTo

\* The other requests keep what they have in hand.
LEMMA OthersStay ==
  ASSUME NEW r \in Requests, HandStays(r),
         \A s \in Requests \ {r} : pc'[s] = pc[s] /\ local'[s] = local[s]
  PROVE  \A s \in Requests : HandStays(s)
BY DEF HandStays

\* A request that drops what it holds.
LEMMA Drops ==
  ASSUME LdevInv, NEW r \in Requests, Drop(r), NEW step \in Steps \ RefreshSteps, GoTo(r, step)
  PROVE  /\ pc' \in [Requests -> Steps] /\ pc'[r] = step /\ DOMAIN local' = Requests
         /\ local'[r] = Idle /\ InHand(r)' = {}
         /\ \A s \in Requests \ {r} : pc'[s] = pc[s] /\ local'[s] = local[s]
         /\ \A s \in Requests : HandStays(s)
<1>1. /\ pc' \in [Requests -> Steps] /\ pc'[r] = step
      /\ \A s \in Requests \ {r} : pc'[s] = pc[s]
  BY MovesOn
<1>2. /\ DOMAIN local' = Requests /\ local'[r] = Idle
      /\ \A s \in Requests \ {r} : local'[s] = local[s]
  BY DEF Drop, LdevInv
<1>3. HandStays(r) /\ InHand(r)' = {}
  BY <1>1, <1>2 DEF HandStays, Idle, InHand, Nothing
<1> QED
  BY <1>1, <1>2, <1>3, OthersStay

\* A request that ends.
LEMMA Ends ==
  ASSUME LdevInv, NEW r \in Requests, Finish(r)
  PROVE  /\ pc' \in [Requests -> Steps] /\ pc'[r] = "idle" /\ DOMAIN local' = Requests
         /\ \A s \in Requests \ {r} : pc'[s] = pc[s] /\ local'[s] = local[s]
         /\ \A s \in Requests : HandStays(s)
BY Drops DEF Finish, Steps, RefreshSteps

\* Of the requests that have read rows or numbered them there is only the one
\* that refreshes.
LEMMA OthersHoldNothing ==
  ASSUME LdevInv, NEW r \in Requests, Refreshing(r)
  PROVE  \A s \in Requests \ {r} : ~Refreshing(s) /\ InHand(s) = {}
BY DEF LdevInv, RefreshInv, OneRefresh

\* A SELECT of the refresh.
LEMMA TakeKeeps ==
  ASSUME LdevInv, NEW r \in Requests, pc[r] \in {"select", "select_all"},
         NEW selected, selected \subseteq ToSet(rows), Take(r, selected), GoTo(r, "fill"),
         UNCHANGED ldevs
  PROVE  LdevInv'
<1>1. /\ pc' \in [Requests -> Steps] /\ pc'[r] = "fill"
      /\ \A s \in Requests \ {r} : pc'[s] = pc[s]
  BY MovesOn DEF Steps, RefreshSteps
<1>2. /\ DOMAIN local' = Requests /\ \A s \in Requests \ {r} : local'[s] = local[s]
      /\ local'[r].order = rows /\ local'[r].numbers = Nothing
      /\ local'[r].noted = [v \in selected |-> recorded[v]]
  BY DEF Take, Restrict, Idle, LdevInv
<1>3. selected \subseteq Volumes
  BY DEF ToSet, LdevInv
<1>4. InHand(r)' = selected /\ \A s \in Requests \ {r} : InHand(s)' = InHand(s)
  BY <1>2 DEF InHand, Nothing
<1>5. \A s \in Requests : pc'[s] \in CreateSteps => Drawn(s)'
  BY <1>1, <1>2, <1>4 DEF LdevInv, Drawn, ldevs, CreateSteps
<1>6. \A s \in Requests : pc'[s] \in LdevSteps => local'[s].volume \in Volumes
  BY <1>1, <1>2 DEF LdevInv, LdevSteps, CreateSteps
<1>7. MapsAgree' /\ RecordAgrees'
  BY DEF MapsAgree, RecordAgrees, Exists, LdevInv, ldevs
<1>8. Refreshing(r) /\ \A s \in Requests \ {r} : ~Refreshing(s) /\ InHand(s) = {}
  <2>1. Refreshing(r)
    BY DEF Refreshing, RefreshSteps
  <2> QED
    BY <2>1, OthersHoldNothing
<1>9. OneRefresh'
  BY <1>1, <1>8 DEF OneRefresh, Refreshing
<1>10. \A v \in Volumes : Exists(v) => ldevOf[v] \in {Null, recorded[v]}
  BY DEF LdevInv, RefreshInv, SinceEmptied, EmptySteps
<1>11. SinceEmptied'
  BY <1>10 DEF SinceEmptied, Exists, ldevs
<1>12. ReadOK(r)' /\ NumbersOK(r)'
  BY <1>2, <1>3, <1>10 DEF ReadOK, NumbersOK, Nothing, Exists, ldevs, LdevInv
<1>13. \A s \in Requests \ {r} : ReadOK(s)' /\ NumbersOK(s)'
  BY <1>2 DEF LdevInv, RefreshInv, ReadOK, NumbersOK, Exists, ldevs
<1>14. \A s \in Requests : ~Refreshing(s)' => InHand(s)' = {}
  BY <1>1, <1>4, <1>8 DEF Refreshing, RefreshSteps
<1>15. RefreshInv'
  BY <1>9, <1>11, <1>12, <1>13, <1>14 DEF RefreshInv
<1> QED
  BY <1>1, <1>2, <1>5, <1>6, <1>7, <1>15 DEF LdevInv, ldevs

\* The first loop of a refresh adds what it has read to what was registered
\* since the maps were emptied.
LEMMA FillLdevsKeeps ==
  ASSUME LdevInv, NEW r \in Requests, FillLdevs(r)
  PROVE  LdevInv'
<1> DEFINE order == local[r].order
           noted == local[r].noted
           read == DOMAIN noted
           numbering == LdevNumbering(order, noted)
           found(n) == LastWith(order, numbering, n)
           new == {v \in read : noted[v] = Null}
<1>1. /\ pc[r] = "fill" /\ \A v \in read : numbering[v] \in Ldevs
      /\ ldevOf' = [v \in Volumes |-> IF v \in read THEN numbering[v] ELSE ldevOf[v]]
      /\ volumeAt' = [n \in Ldevs |-> IF found(n) # Null THEN found(n) ELSE volumeAt[n]]
      /\ local' = [local EXCEPT ![r] = [Idle EXCEPT !.numbers = Restrict(numbering, new)]]
      /\ UNCHANGED <<rows, recorded>>
      /\ GoTo(r, "ports") \/ GoTo(r, "flush")
  BY DEF FillLdevs, tables, ToPorts
<1>2. ReadOK(r)
  BY DEF LdevInv, RefreshInv
<1>3. /\ order \in Seq(Volumes) /\ read \subseteq Volumes
      /\ \A v \in read : Exists(v) => noted[v] = recorded[v]
      /\ \A v \in read : ldevOf[v] \in {Null, noted[v]}
  BY <1>2 DEF ReadOK
<1>4. DOMAIN numbering = read /\ \A v \in read : noted[v] # Null => numbering[v] = noted[v]
  BY LdevNumbersKept
<1>5. \A n \in Ldevs : found(n) # Null => found(n) \in read /\ numbering[found(n)] = n
  BY <1>3, <1>4, LastWithRow
<1>6. \E step \in {"ports", "flush"} : GoTo(r, step)
  BY <1>1
<1>7. /\ pc' \in [Requests -> Steps] /\ pc'[r] \in {"ports", "flush"}
      /\ \A s \in Requests \ {r} : pc'[s] = pc[s]
  BY <1>6, MovesOn DEF Steps, RefreshSteps
<1>8. /\ DOMAIN local' = Requests /\ \A s \in Requests \ {r} : local'[s] = local[s]
      /\ local'[r].order = <<>> /\ local'[r].noted = Nothing
      /\ local'[r].numbers = [v \in new |-> numbering[v]]
  BY <1>1 DEF Restrict, Idle, LdevInv
<1> HIDE DEF numbering, order, noted, found
<1>9. Refreshing(r) /\ \A s \in Requests \ {r} : ~Refreshing(s) /\ InHand(s) = {}
  <2>1. Refreshing(r)
    BY <1>1 DEF Refreshing, RefreshSteps
  <2> QED
    BY <2>1, OthersHoldNothing
<1>10. InHand(r)' \subseteq InHand(r) /\ \A s \in Requests \ {r} : InHand(s)' = {}
  BY <1>8, <1>9 DEF InHand, Nothing, noted
<1>11. /\ ldevOf' \in [Volumes -> Ldevs \cup {Null}]
       /\ volumeAt' \in [Ldevs -> Volumes \cup {Null}]
  BY <1>1, <1>3, <1>5 DEF LdevInv
<1>12. ASSUME NEW s \in Requests, pc'[s] \in CreateSteps PROVE Drawn(s)'
  <2>1. s # r /\ pc'[s] = pc[s] /\ local'[s] = local[s]
    BY <1>7, <1>8, <1>12 DEF CreateSteps
  <2>2. Drawn(s)
    BY <1>12, <2>1 DEF LdevInv
  <2> DEFINE w == local[s].volume
  <2>3. w \in Volumes /\ w \notin read /\ ldevOf'[w] = ldevOf[w]
    BY <1>1, <2>2 DEF Drawn, InHand, noted
  <2>4. \A q \in Requests : w \notin InHand(q)'
    BY <1>10, <2>2 DEF Drawn
  <2>5. \A q \in Requests : pc'[q] \in CreateSteps /\ local'[q].volume = w => q = s
    BY <1>7, <1>8, <2>2 DEF Drawn, CreateSteps
  <2> QED
    BY <1>1, <2>1, <2>2, <2>3, <2>4, <2>5 DEF Drawn
<1>13. \A s \in Requests : pc'[s] \in LdevSteps => local'[s].volume \in Volumes
  BY <1>7, <1>8 DEF LdevInv, LdevSteps, CreateSteps
<1>14. ASSUME NEW n \in Ldevs, volumeAt'[n] # Null PROVE ldevOf'[volumeAt'[n]] = n
  <2>1. CASE found(n) # Null
    <3>1. volumeAt'[n] = found(n) /\ found(n) \in read /\ numbering[found(n)] = n
      BY <1>1, <1>5, <2>1
    <3> QED
      BY <1>1, <1>3, <3>1
  <2>2. CASE found(n) = Null
    <3>1. volumeAt'[n] = volumeAt[n] /\ volumeAt[n] \in Volumes /\ ldevOf[volumeAt[n]] = n
      BY <1>1, <1>14, <2>2 DEF LdevInv, MapsAgree
    <3>2. volumeAt[n] \in read => numbering[volumeAt[n]] = n
      BY <1>3, <1>4, <3>1, Nulls
    <3> QED
      BY <1>1, <3>1, <3>2
  <2> QED
    BY <2>1, <2>2
<1>15. MapsAgree'
  BY <1>14 DEF MapsAgree
<1>16. RecordAgrees'
  BY <1>1, <1>3, <1>4 DEF RecordAgrees, Exists, LdevInv
<1>17. OneRefresh' /\ SinceEmptied'
  BY <1>7, <1>9 DEF OneRefresh, SinceEmptied, Refreshing, EmptySteps, RefreshSteps
<1>18. ReadOK(r)' /\ NumbersOK(r)'
  <2>1. ReadOK(r)'
    BY <1>8 DEF ReadOK, Nothing
  <2>2. \A v \in new : /\ v \in Volumes /\ numbering[v] \in Ldevs /\ ldevOf'[v] = numbering[v]
                       /\ v \in ToSet(rows') => recorded'[v] = Null
    BY <1>1, <1>3 DEF Exists
  <2> QED
    BY <1>8, <2>1, <2>2 DEF NumbersOK, Exists
<1>19. ASSUME NEW s \in Requests \ {r} PROVE ReadOK(s)' /\ NumbersOK(s)'
  <2>1. ReadOK(s) /\ local'[s] = local[s]
    BY <1>8 DEF LdevInv, RefreshInv
  <2>2. DOMAIN local[s].noted = {} /\ DOMAIN local[s].numbers = {}
    BY <1>9 DEF InHand
  <2> QED
    BY <2>1, <2>2 DEF ReadOK, NumbersOK
<1>20. \A s \in Requests : ~Refreshing(s)' => InHand(s)' = {}
  BY <1>7, <1>10 DEF Refreshing, RefreshSteps
<1>21. RefreshInv'
  BY <1>17, <1>18, <1>19, <1>20 DEF RefreshInv
<1> QED
  BY <1>1, <1>7, <1>8, <1>11, <1>12, <1>13, <1>15, <1>16, <1>21 DEF LdevInv

\* A refresh that goes on with what it has in hand.
LEMMA RefreshGoesOn ==
  ASSUME LdevInv, NEW r \in Requests, Refreshing(r),
         NEW step \in {"select_all", "ports", "commit"}, GoTo(r, step),
         step = "select_all" => pc[r] \in EmptySteps,
         UNCHANGED <<rows, recorded, ldevOf, volumeAt, local>>
  PROVE  LdevInv'
<1>1. /\ pc' \in [Requests -> Steps] /\ pc'[r] = step
      /\ \A s \in Requests \ {r} : pc'[s] = pc[s]
  BY MovesOn DEF Steps, RefreshSteps
<1>2. HandStays(r)
  BY <1>1 DEF HandStays, Refreshing, RefreshSteps, EmptySteps
<1>3. \A s \in Requests : HandStays(s)
  BY <1>1, <1>2, OthersStay
<1>4. \A s \in Requests : pc'[s] \in LdevSteps => pc'[s] = pc[s] /\ local'[s] = local[s]
  BY <1>1 DEF LdevSteps, CreateSteps
<1> QED
  BY <1>1, <1>3, <1>4, LdevsStay DEF ldevs, LdevInv

\* The SELECTs of a refresh.
LEMMA ReadsKeepLdevs ==
  ASSUME LdevInv, NEW r \in Requests, ReadVolumes(r) \/ ReadAll(r)
  PROVE  LdevInv'
<1>1. pc[r] \in {"select", "select_all"} /\ UNCHANGED <<rows, recorded, ldevOf, volumeAt>>
  BY DEF ReadVolumes, ReadAll, tables, mapper
<1>2. CASE GoTo(r, "select_all") /\ UNCHANGED local
  BY <1>1, <1>2, RefreshGoesOn DEF Refreshing, RefreshSteps, EmptySteps
<1>3. ASSUME NEW selected, selected \subseteq ToSet(rows), GoTo(r, "fill"), Take(r, selected)
      PROVE  LdevInv'
  BY <1>1, <1>3, TakeKeeps DEF ldevs
<1> QED
  BY <1>2, <1>3 DEF ReadVolumes, ReadAll

\* The flush of the numbers, and the filling of the ports.
LEMMA FlushKeepsLdevs ==
  ASSUME LdevInv, NEW r \in Requests, FlushLdevs(r) \/ FillPorts(r)
  PROVE  LdevInv'
<1>1. pc[r] \in {"flush", "ports"} /\ UNCHANGED <<rows, recorded, ldevOf, volumeAt>>
  BY DEF FlushLdevs, FillPorts, tables
<1>2. ASSUME NEW step \in {"ports", "commit"}, GoTo(r, step), UNCHANGED local PROVE LdevInv'
  BY <1>1, <1>2, RefreshGoesOn DEF Refreshing, RefreshSteps
<1>3. CASE GoTo(r, "serve") /\ Drop(r)
  <2>1. "serve" \in Steps \ RefreshSteps
    BY DEF Steps, RefreshSteps
  <2>2. /\ pc' \in [Requests -> Steps] /\ pc'[r] = "serve" /\ DOMAIN local' = Requests
        /\ \A s \in Requests \ {r} : pc'[s] = pc[s] /\ local'[s] = local[s]
        /\ \A s \in Requests : HandStays(s)
    BY <1>3, <2>1, Drops
  <2>3. \A s \in Requests : pc'[s] \in LdevSteps => pc'[s] = pc[s] /\ local'[s] = local[s]
    BY <2>2 DEF LdevSteps, CreateSteps
  <2> QED
    BY <1>1, <2>2, <2>3, LdevsStay DEF ldevs
<1> QED
  BY <1>2, <1>3 DEF FlushLdevs, FillPorts, ToPorts

\* The commit records the numbers that the rows were given.
LEMMA CommitKeepsLdevs ==
  ASSUME LdevInv, NEW r \in Requests, CommitRefresh(r)
  PROVE  LdevInv'
<1> DEFINE numbers == local[r].numbers
<1>1. /\ pc[r] = "commit" /\ GoTo(r, "serve") /\ Drop(r) /\ UNCHANGED <<rows, ldevOf, volumeAt>>
      /\ \/ recorded' = recorded
         \/ recorded' = [v \in Volumes |->
               IF v \in DOMAIN numbers /\ Exists(v) THEN numbers[v] ELSE recorded[v]]
  BY DEF CommitRefresh
<1>2. "serve" \in Steps \ RefreshSteps
  BY DEF Steps, RefreshSteps
<1>3. /\ pc' \in [Requests -> Steps] /\ pc'[r] = "serve" /\ DOMAIN local' = Requests
      /\ InHand(r)' = {} /\ \A s \in Requests : HandStays(s)
      /\ \A s \in Requests \ {r} : pc'[s] = pc[s] /\ local'[s] = local[s]
  BY <1>1, <1>2, Drops
<1>4. \A s \in Requests \ {r} : InHand(s)' = {}
  <2>1. Refreshing(r)
    BY <1>1 DEF Refreshing, RefreshSteps
  <2> QED
    BY <1>3, <2>1, OthersHoldNothing DEF InHand
<1>5. \A v \in DOMAIN numbers : /\ v \in Volumes /\ numbers[v] \in Ldevs
                                /\ Exists(v) => recorded[v] = Null
                                /\ ldevOf[v] \in {Null, numbers[v]}
  BY DEF LdevInv, RefreshInv, NumbersOK
<1> HIDE DEF numbers
<1>6. /\ recorded' \in [Volumes -> Ldevs \cup {Null}]
      /\ \A v \in Volumes : \/ recorded'[v] = recorded[v]
                            \/ /\ Exists(v) /\ ldevOf[v] \in {Null, recorded'[v]}
  BY <1>1, <1>5 DEF LdevInv
<1>7. \A s \in Requests : pc'[s] \in CreateSteps => Drawn(s)'
  BY <1>1, <1>3, <1>4 DEF LdevInv, Drawn, CreateSteps
<1>8. \A s \in Requests : pc'[s] \in LdevSteps => local'[s].volume \in Volumes
  BY <1>3 DEF LdevInv, LdevSteps, CreateSteps
<1>9. MapsAgree' /\ RecordAgrees'
  BY <1>1, <1>6 DEF MapsAgree, RecordAgrees, Exists, LdevInv
<1>10. \A v \in Volumes : v \in ToSet(rows') =>
            \/ ldevOf'[v] \in {Null, recorded'[v]}
            \/ v \in ToSet(rows) /\ ldevOf'[v] = ldevOf[v] /\ recorded'[v] = recorded[v]
  BY <1>1, <1>6 DEF Exists
<1>11. RefreshInv'
  BY <1>3, <1>4, <1>10, RefreshStays
<1> QED
  BY <1>1, <1>3, <1>6, <1>7, <1>8, <1>9, <1>11 DEF LdevInv

\* A request that takes a step outside a refresh.
LEMMA StepsOutside ==
  ASSUME LdevInv, NEW r \in Requests, ~Refreshing(r),
         NEW step \in Steps \ RefreshSteps, GoTo(r, step),
         \A s \in Requests \ {r} : local'[s] = local[s],
         \/ local'[r] = local[r]
         \/ /\ local'[r].order = <<>> /\ local'[r].noted = Nothing
            /\ local'[r].numbers = Nothing
  PROVE  \A s \in Requests : HandStays(s)
<1>1. /\ pc' \in [Requests -> Steps] /\ pc'[r] = step
      /\ \A s \in Requests \ {r} : pc'[s] = pc[s]
  BY MovesOn
<1>2. HandStays(r)
  BY <1>1 DEF HandStays, Refreshing, EmptySteps, RefreshSteps
<1> QED
  BY <1>1, <1>2, OthersStay

\* create_ldev draws a volume that nothing refers to.
LEMMA CreateLdevKeeps ==
  ASSUME LdevInv, NEW r \in Requests, CreateLdev(r)
  PROVE  LdevInv'
<1>1. PICK v \in Volumes, n \in Ldevs :
        Unused(v) /\ local' = [local EXCEPT ![r] = [Idle EXCEPT !.volume = v, !.ldev = n]]
  BY DEF CreateLdev
<1>2. GoTo(r, "register") /\ UNCHANGED ldevs
  BY DEF CreateLdev, tables, mapper, ldevs
<1>3. /\ pc' \in [Requests -> Steps] /\ pc'[r] = "register"
      /\ \A s \in Requests \ {r} : pc'[s] = pc[s]
  BY <1>2, MovesOn DEF Steps
<1>4. /\ DOMAIN local' = Requests /\ local'[r].volume = v /\ local'[r].ldev = n
      /\ local'[r].order = <<>> /\ local'[r].noted = Nothing /\ local'[r].numbers = Nothing
      /\ \A s \in Requests \ {r} : local'[s] = local[s]
  BY <1>1 DEF LdevInv, Idle
<1>5. /\ v \notin ToSet(rows) /\ ldevOf[v] = Null
      /\ \A s \in Requests : local[s].volume # v /\ v \notin InHand(s)
  BY <1>1 DEF Unused, Exists
<1>6. \A s \in Requests : HandStays(s)
  BY <1>2, <1>4, StepsOutside DEF CreateLdev, Serves, Refreshing, Steps, RefreshSteps
<1>7. \A s \in Requests : InHand(s)' \subseteq InHand(s)
  BY <1>6, HandsOnlyDrop
<1>8. RefreshInv'
  BY <1>2, <1>6, RefreshStays DEF ldevs
<1>9. \A s \in Requests : pc'[s] \in CreateSteps => Drawn(s)'
  BY <1>2, <1>3, <1>4, <1>5, <1>7 DEF LdevInv, Drawn, ldevs, CreateSteps
<1>10. \A s \in Requests : pc'[s] \in LdevSteps => local'[s].volume \in Volumes
  BY <1>3, <1>4 DEF LdevInv
<1>11. MapsAgree' /\ RecordAgrees'
  BY <1>2 DEF MapsAgree, RecordAgrees, Exists, LdevInv, ldevs
<1> QED
  BY <1>2, <1>3, <1>4, <1>9, <1>10, <1>11, <1>8 DEF LdevInv, ldevs

\* register_ldev.
LEMMA RegisterLdevKeeps ==
  ASSUME LdevInv, NEW r \in Requests, RegisterLdev(r)
  PROVE  LdevInv'
<1> DEFINE v == local[r].volume
           n == local[r].ldev
<1>1. /\ pc[r] = "register" /\ GoTo(r, "insert") /\ UNCHANGED <<rows, recorded, local>>
      /\ ldevOf' = [ldevOf EXCEPT ![v] = n] /\ volumeAt' = [volumeAt EXCEPT ![n] = v]
  BY DEF RegisterLdev, Register, tables
<1>2. /\ pc' \in [Requests -> Steps] /\ pc'[r] = "insert"
      /\ \A s \in Requests \ {r} : pc'[s] = pc[s]
  BY <1>1, MovesOn DEF Steps
<1>3. \A s \in Requests : HandStays(s) /\ InHand(s)' = InHand(s)
  <2>1. ~Refreshing(r)
    BY <1>1 DEF Refreshing, RefreshSteps
  <2>2. "insert" \in Steps \ RefreshSteps
    BY DEF Steps, RefreshSteps
  <2> QED
    BY <1>1, <2>1, <2>2, StepsOutside DEF InHand
<1>4. \A s \in Requests : v \notin InHand(s)
  BY <1>1 DEF LdevInv, Drawn, CreateSteps
<1>5. v \in Volumes /\ v \notin ToSet(rows) /\ n \in Ldevs /\ ldevOf[v] = Null
  BY <1>1 DEF LdevInv, Drawn, CreateSteps
<1>6. \A s \in Requests \ {r} : pc[s] \in CreateSteps => local[s].volume # v
  BY <1>1 DEF LdevInv, Drawn, CreateSteps
<1> HIDE DEF v, n
<1>7. /\ ldevOf' \in [Volumes -> Ldevs \cup {Null}] /\ ldevOf'[v] = n
      /\ \A w \in Volumes \ {v} : ldevOf'[w] = ldevOf[w]
      /\ volumeAt' \in [Ldevs -> Volumes \cup {Null}] /\ volumeAt'[n] = v
      /\ \A m \in Ldevs \ {n} : volumeAt'[m] = volumeAt[m]
  BY <1>1, <1>5 DEF LdevInv
<1>8. Drawn(r)'
  BY <1>1, <1>2, <1>5, <1>6, <1>7, <1>3, <1>4 DEF LdevInv, Drawn, v, n, CreateSteps
<1>9. \A s \in Requests : pc'[s] \in CreateSteps => Drawn(s)'
  BY <1>1, <1>2, <1>6, <1>7, <1>8, <1>3 DEF LdevInv, Drawn, CreateSteps
<1>10. \A s \in Requests : pc'[s] \in LdevSteps => local'[s].volume \in Volumes
  BY <1>1, <1>2, <1>5 DEF LdevInv, v
<1>11. ASSUME NEW m \in Ldevs, volumeAt'[m] # Null PROVE ldevOf'[volumeAt'[m]] = m
  <2>1. CASE m = n
    BY <1>7, <2>1
  <2>2. CASE m # n
    <3>1. volumeAt'[m] = volumeAt[m] /\ volumeAt[m] \in Volumes /\ ldevOf[volumeAt[m]] = m
      BY <1>7, <1>11, <2>2 DEF LdevInv, MapsAgree
    <3>2. volumeAt[m] # v
      BY <1>5, <3>1, Nulls
    <3> QED
      BY <1>7, <3>1, <3>2
  <2> QED
    BY <2>1, <2>2
<1>12. RecordAgrees'
  BY <1>1, <1>5, <1>7 DEF RecordAgrees, Exists, LdevInv
<1>13. \A s \in Requests : InHand(s) \subseteq Volumes
  BY DEF LdevInv, RefreshInv, ReadOK, NumbersOK, InHand
<1>14. RefreshInv'
  BY <1>1, <1>5, <1>7, <1>3, <1>4, <1>13, RefreshStays
<1> QED
  BY <1>1, <1>2, <1>7, <1>9, <1>10, <1>11, <1>12, <1>14 DEF LdevInv, MapsAgree

\* create_ldev commits.
LEMMA InsertLdevKeeps ==
  ASSUME LdevInv, NEW r \in Requests, InsertLdev(r)
  PROVE  LdevInv'
<1> DEFINE v == local[r].volume
           n == local[r].ldev
<1>1. /\ pc[r] = "insert" /\ Finish(r) /\ UNCHANGED <<ldevOf, volumeAt>>
      /\ rows' = Append(rows, v) /\ recorded' = [recorded EXCEPT ![v] = n]
  BY DEF InsertLdev, mapper, InsertedNumber
<1>2. /\ pc' \in [Requests -> Steps] /\ pc'[r] = "idle" /\ DOMAIN local' = Requests
      /\ \A s \in Requests \ {r} : pc'[s] = pc[s] /\ local'[s] = local[s]
      /\ \A s \in Requests : HandStays(s)
  BY <1>1, Ends
<1>3. /\ v \in Volumes /\ v \notin ToSet(rows) /\ n \in Ldevs /\ ldevOf[v] \in {Null, n}
      /\ \A s \in Requests \ {r} : pc[s] \in CreateSteps => local[s].volume # v
      /\ \A s \in Requests : v \notin InHand(s)
  BY <1>1 DEF LdevInv, Drawn, CreateSteps
<1> HIDE DEF v, n
<1>4. /\ rows' \in Seq(Volumes) /\ IsInjective(rows') /\ ToSet(rows') = ToSet(rows) \cup {v}
  BY <1>1, <1>3, InsertRow DEF LdevInv
<1>5. /\ recorded' \in [Volumes -> Ldevs \cup {Null}] /\ recorded'[v] = n
      /\ \A w \in Volumes \ {v} : recorded'[w] = recorded[w]
  BY <1>1, <1>3 DEF LdevInv
<1>6. \A s \in Requests : InHand(s)' \subseteq InHand(s) /\ InHand(s) \subseteq Volumes
  BY <1>2, HandsOnlyDrop DEF LdevInv, RefreshInv, ReadOK, NumbersOK, InHand
<1>7. RefreshInv'
  BY <1>1, <1>2, <1>3, <1>4, <1>5, <1>6, RefreshStays
<1>8. ASSUME NEW s \in Requests, pc'[s] \in CreateSteps PROVE Drawn(s)'
  <2>1. s # r
    BY <1>2, <1>8 DEF CreateSteps
  <2>2. pc'[s] = pc[s] /\ local'[s] = local[s]
    BY <1>2, <2>1
  <2>3. Drawn(s) /\ local[s].volume # v
    BY <1>3, <1>8, <2>1, <2>2 DEF LdevInv
  <2> DEFINE w == local[s].volume
  <2>4. /\ w \in Volumes /\ w \notin ToSet(rows) /\ w # v /\ local[s].ldev \in Ldevs
        /\ pc[s] = "register" => ldevOf[w] = Null
        /\ ldevOf[w] \in {Null, local[s].ldev}
    BY <2>3 DEF Drawn
  <2>5. \A q \in Requests : pc[q] \in CreateSteps /\ local[q].volume = w => q = s
    BY <2>3 DEF Drawn
  <2>6. \A q \in Requests : pc'[q] \in CreateSteps /\ local'[q].volume = w => q = s
    <3> SUFFICES ASSUME NEW q \in Requests, pc'[q] \in CreateSteps, local'[q].volume = w
                 PROVE  q = s
      OBVIOUS
    <3>1. q # r
      BY <1>2 DEF CreateSteps
    <3> QED
      BY <1>2, <2>5, <3>1
  <2>8. \A q \in Requests : w \notin InHand(q)'
    BY <1>6, <2>3 DEF Drawn
  <2>7. w \in Volumes \ ToSet(rows)' /\ ldevOf' = ldevOf
    BY <1>1, <1>4, <2>4
  <2> QED
    BY <2>2, <2>4, <2>6, <2>7, <2>8 DEF Drawn
<1>9. \A s \in Requests : pc'[s] \in LdevSteps => local'[s].volume \in Volumes
  BY <1>2 DEF LdevInv, LdevSteps, CreateSteps
<1>10. MapsAgree' /\ RecordAgrees'
  BY <1>1, <1>3, <1>4, <1>5 DEF LdevInv, MapsAgree, RecordAgrees, Exists
<1> QED
  BY <1>1, <1>2, <1>4, <1>5, <1>8, <1>9, <1>10, <1>7 DEF LdevInv

\* delete_ldev finds the volume.
LEMMA DeleteLdevKeeps ==
  ASSUME LdevInv, NEW r \in Requests, DeleteLdev(r)
  PROVE  LdevInv'
<1>1. PICK n \in Ldevs :
        LookUp(n) # Null /\ local' = [local EXCEPT ![r] = [Idle EXCEPT !.volume = LookUp(n)]]
  BY DEF DeleteLdev
<1>2. GoTo(r, "unregister") /\ UNCHANGED ldevs
  BY DEF DeleteLdev, tables, mapper, ldevs
<1>3. /\ pc' \in [Requests -> Steps] /\ pc'[r] = "unregister"
      /\ \A s \in Requests \ {r} : pc'[s] = pc[s]
  BY <1>2, MovesOn DEF Steps
<1>4. LookUp(n) \in Volumes
  BY <1>1 DEF LookUp, LdevInv
<1>5. /\ DOMAIN local' = Requests /\ local'[r].volume \in Volumes
      /\ local'[r].order = <<>> /\ local'[r].noted = Nothing /\ local'[r].numbers = Nothing
      /\ \A s \in Requests \ {r} : local'[s] = local[s]
  BY <1>1, <1>4 DEF LdevInv, Idle
<1>6. \A s \in Requests : HandStays(s)
  BY <1>2, <1>5, StepsOutside DEF DeleteLdev, Serves, Refreshing, Steps, RefreshSteps
<1>7. \A s \in Requests : InHand(s)' \subseteq InHand(s)
  BY <1>6, HandsOnlyDrop
<1>8. RefreshInv'
  BY <1>2, <1>6, RefreshStays DEF ldevs
<1>9. \A s \in Requests : pc'[s] \in CreateSteps => Drawn(s)'
  BY <1>2, <1>3, <1>5, <1>7 DEF LdevInv, Drawn, ldevs, CreateSteps
<1>10. \A s \in Requests : pc'[s] \in LdevSteps => local'[s].volume \in Volumes
  BY <1>3, <1>5 DEF LdevInv
<1>11. MapsAgree' /\ RecordAgrees'
  BY <1>2 DEF MapsAgree, RecordAgrees, Exists, LdevInv, ldevs
<1> QED
  BY <1>2, <1>3, <1>5, <1>9, <1>10, <1>11, <1>8 DEF LdevInv, ldevs

\* unregister_ldev drops the volume's number and what it leads to.
LEMMA UnregisterLdevKeeps ==
  ASSUME LdevInv, NEW r \in Requests, UnregisterLdev(r)
  PROVE  LdevInv'
<1> DEFINE v == local[r].volume
<1>1. /\ pc[r] = "unregister" /\ GoTo(r, "erase") /\ UNCHANGED <<rows, recorded, local>>
      /\ ldevOf' = [ldevOf EXCEPT ![v] = Null]
      /\ volumeAt' = IF ldevOf[v] = Null THEN volumeAt ELSE [volumeAt EXCEPT ![ldevOf[v]] = Null]
  BY DEF UnregisterLdev, tables
<1>2. /\ pc' \in [Requests -> Steps] /\ pc'[r] = "erase"
      /\ \A s \in Requests \ {r} : pc'[s] = pc[s]
  BY <1>1, MovesOn DEF Steps
<1>3. \A s \in Requests : HandStays(s) /\ InHand(s)' = InHand(s)
  <2>1. ~Refreshing(r)
    BY <1>1 DEF Refreshing, RefreshSteps
  <2>2. "erase" \in Steps \ RefreshSteps
    BY DEF Steps, RefreshSteps
  <2> QED
    BY <1>1, <2>1, <2>2, StepsOutside DEF InHand
<1>4. v \in Volumes
  BY <1>1 DEF LdevInv, LdevSteps, CreateSteps
<1> HIDE DEF v
<1>5. /\ ldevOf' \in [Volumes -> Ldevs \cup {Null}] /\ ldevOf'[v] = Null
      /\ \A w \in Volumes \ {v} : ldevOf'[w] = ldevOf[w]
      /\ volumeAt' \in [Ldevs -> Volumes \cup {Null}]
      /\ \A n \in Ldevs : volumeAt'[n] = IF n = ldevOf[v] THEN Null ELSE volumeAt[n]
  BY <1>1, <1>4, Nulls DEF LdevInv
<1>6. \A s \in Requests : pc'[s] \in CreateSteps => Drawn(s)'
  BY <1>1, <1>2, <1>5, <1>3 DEF LdevInv, Drawn, CreateSteps
<1>7. \A s \in Requests : pc'[s] \in LdevSteps => local'[s].volume \in Volumes
  BY <1>1, <1>2, <1>4 DEF LdevInv, v
<1>8. ASSUME NEW n \in Ldevs, volumeAt'[n] # Null PROVE ldevOf'[volumeAt'[n]] = n
  BY <1>4, <1>5, <1>8 DEF LdevInv, MapsAgree
<1>9. RecordAgrees'
  BY <1>1, <1>4, <1>5 DEF LdevInv, RecordAgrees, Exists
<1>10. \A s \in Requests : InHand(s) \subseteq Volumes
  BY DEF LdevInv, RefreshInv, ReadOK, NumbersOK, InHand
<1>11. RefreshInv'
  BY <1>1, <1>5, <1>3, <1>10, RefreshStays
<1> QED
  BY <1>1, <1>2, <1>5, <1>6, <1>7, <1>8, <1>9, <1>11 DEF LdevInv, MapsAgree

\* A row that is erased takes its record along.
LEMMA EraseRowKeeps ==
  ASSUME LdevInv, NEW v \in Volumes, EraseRow(v), UNCHANGED <<ldevOf, volumeAt>>,
         pc' \in [Requests -> Steps], DOMAIN local' = Requests,
         \A r \in Requests : pc'[r] \in LdevSteps => pc'[r] = pc[r] /\ local'[r] = local[r],
         \A r \in Requests : HandStays(r)
  PROVE  LdevInv'
<1>1. rows' = RemoveFirst(rows, v) /\ recorded' = [recorded EXCEPT ![v] = Null]
  BY DEF EraseRow
<1>2. /\ rows' \in Seq(Volumes) /\ IsInjective(rows') /\ ToSet(rows') = ToSet(rows) \ {v}
  BY <1>1, RemoveRow DEF LdevInv
<1>3. /\ recorded' \in [Volumes -> Ldevs \cup {Null}] /\ recorded'[v] = Null
      /\ \A w \in Volumes \ {v} : recorded'[w] = recorded[w]
  BY <1>1 DEF LdevInv
<1>4. \A s \in Requests : InHand(s)' \subseteq InHand(s) /\ InHand(s) \subseteq Volumes
  BY HandsOnlyDrop DEF LdevInv, RefreshInv, ReadOK, NumbersOK, InHand
<1>5. RefreshInv'
  BY <1>2, <1>3, <1>4, RefreshStays
<1>6. \A s \in Requests : pc'[s] \in CreateSteps => Drawn(s)'
  BY <1>2, <1>4 DEF LdevInv, Drawn, CreateSteps, LdevSteps
<1>7. \A s \in Requests : pc'[s] \in LdevSteps => local'[s].volume \in Volumes
  BY DEF LdevInv
<1>8. MapsAgree' /\ RecordAgrees'
  BY <1>2, <1>3 DEF LdevInv, MapsAgree, RecordAgrees, Exists
<1> QED
  BY <1>2, <1>3, <1>6, <1>7, <1>8, <1>5 DEF LdevInv

\* Other APIs make volumes of their own.
LEMMA CreateElsewhereKeeps ==
  ASSUME LdevInv, CreateElsewhere
  PROVE  LdevInv'
<1>1. PICK v \in Volumes : Unused(v) /\ rows' = Append(rows, v)
  BY DEF CreateElsewhere
<1>2. UNCHANGED <<recorded, ldevOf, volumeAt, pc, local>>
  BY DEF CreateElsewhere, mapper, requests
<1>3. /\ v \notin ToSet(rows) /\ ldevOf[v] = Null
      /\ \A s \in Requests : local[s].volume # v /\ v \notin InHand(s)
  BY <1>1 DEF Unused, Exists
<1>4. /\ rows' \in Seq(Volumes) /\ IsInjective(rows') /\ ToSet(rows') = ToSet(rows) \cup {v}
  BY <1>1, <1>3, InsertRow DEF LdevInv
<1>5. \A s \in Requests : HandStays(s) /\ InHand(s)' = InHand(s)
  BY <1>2 DEF HandStays, InHand
<1>6. RefreshInv'
  BY <1>2, <1>3, <1>4, <1>5, RefreshStays
<1>7. \A s \in Requests : pc'[s] \in CreateSteps => Drawn(s)'
  BY <1>2, <1>3, <1>4, <1>5 DEF LdevInv, Drawn, CreateSteps
<1>8. MapsAgree' /\ RecordAgrees'
  BY <1>2, <1>3, <1>4 DEF LdevInv, MapsAgree, RecordAgrees, Exists
<1> QED
  BY <1>2, <1>4, <1>7, <1>8, <1>6 DEF LdevInv

\* A request that goes on with nothing to do with LDEVs.
LEMMA NoLdevSteps ==
  ASSUME LdevInv, NEW r \in Requests, NEW step \in Steps \ LdevSteps, GoTo(r, step),
         UNCHANGED ldevs, DOMAIN local' = Requests,
         \A s \in Requests \ {r} : local'[s] = local[s], HandStays(r)
  PROVE  LdevInv'
<1>1. /\ pc' \in [Requests -> Steps] /\ pc'[r] = step
      /\ \A s \in Requests \ {r} : pc'[s] = pc[s]
  BY MovesOn
<1>2. \A s \in Requests : pc'[s] \in LdevSteps => pc'[s] = pc[s] /\ local'[s] = local[s]
  BY <1>1
<1>3. \A s \in Requests : HandStays(s)
  BY <1>1, OthersStay
<1> QED
  BY <1>1, <1>2, <1>3, LdevsStay

\* A request that ends and has done nothing to LDEVs.
LEMMA EndsWithoutLdevs ==
  ASSUME LdevInv, NEW r \in Requests, Finish(r), UNCHANGED ldevs
  PROVE  LdevInv'
BY Ends, NoLdevSteps DEF Finish, Steps, RefreshSteps, LdevSteps, CreateSteps

\* The requests of groups.
LEMMA GroupsKeepLdevs ==
  ASSUME LdevInv, NEW r \in Requests, NEW k \in Kinds,
         CreateGroup(r, k) \/ DeleteGroup(r, k) \/ AddInitiator(r, k)
  PROVE  LdevInv'
<1>1. CASE AddInitiator(r, k)
  BY <1>1, EndsWithoutLdevs DEF AddInitiator, ldevs, mapper
<1>2. ~Refreshing(r)
  BY DEF CreateGroup, DeleteGroup, AddInitiator, Serves, Refreshing, RefreshSteps
<1>3. ASSUME NEW h, NEW number, NEW grants, NEW dropped, Save(r, h, number, grants, dropped)
      PROVE  LdevInv'
  <2>1. GoTo(r, "save") /\ UNCHANGED ldevs
    BY <1>3 DEF Save, tables, mapper, ldevs
  <2>2. /\ DOMAIN local' = Requests /\ \A s \in Requests \ {r} : local'[s] = local[s]
        /\ local'[r].order = <<>> /\ local'[r].noted = Nothing /\ local'[r].numbers = Nothing
    BY <1>3 DEF Save, Idle, LdevInv
  <2>3. HandStays(r)
    BY <1>2, <2>1, <2>2, StepsOutside DEF Steps, RefreshSteps
  <2> QED
    BY <2>1, <2>2, <2>3, NoLdevSteps DEF Steps, RefreshSteps, LdevSteps, CreateSteps
<1>4. CASE CreateGroup(r, k)
  BY <1>3, <1>4 DEF CreateGroup
<1>5. CASE DeleteGroup(r, k)
  BY <1>3, <1>5 DEF DeleteGroup
<1> QED
  BY <1>1, <1>4, <1>5

\* A refresh that starts: no other has anything in hand, and the maps know
\* nothing that is not recorded.
LEMMA StartRefreshKeepsLdevs ==
  ASSUME LdevInv, NEW r \in Requests, StartRefresh(r)
  PROVE  LdevInv'
<1>1. /\ pc[r] = "idle" /\ UNCHANGED <<rows, recorded, local>> /\ DOMAIN local' = Requests
      /\ \A s \in Requests : ~Refreshing(s)
  BY DEF StartRefresh, tables, LdevInv
<1>2. CASE GoTo(r, "serve") /\ UNCHANGED mapper
  <2>1. HandStays(r)
    BY <1>1, <1>2, StepsOutside DEF Steps, RefreshSteps
  <2> QED
    BY <1>1, <1>2, <2>1, NoLdevSteps DEF mapper, ldevs, Steps, RefreshSteps, LdevSteps, CreateSteps
<1>3. CASE GoTo(r, "select") /\ ldevOf' = NoLdevs /\ volumeAt' = NoVolumes
  <2>1. /\ pc' \in [Requests -> Steps] /\ pc'[r] = "select"
        /\ \A s \in Requests \ {r} : pc'[s] = pc[s]
    BY <1>3, MovesOn DEF Steps, RefreshSteps
  <2>2. /\ ldevOf' \in [Volumes -> Ldevs \cup {Null}] /\ \A v \in Volumes : ldevOf'[v] = Null
        /\ volumeAt' \in [Ldevs -> Volumes \cup {Null}] /\ \A n \in Ldevs : volumeAt'[n] = Null
    BY <1>3 DEF NoLdevs, NoVolumes
  <2>3. \A s \in Requests : InHand(s)' = {} /\ InHand(s) = {}
    BY <1>1 DEF LdevInv, RefreshInv, InHand
  <2>4. \A s \in Requests : pc'[s] \in CreateSteps => Drawn(s)'
    BY <1>1, <2>1, <2>2, <2>3 DEF LdevInv, Drawn, CreateSteps
  <2>5. \A s \in Requests : pc'[s] \in LdevSteps => local'[s].volume \in Volumes
    BY <1>1, <2>1 DEF LdevInv, LdevSteps, CreateSteps
  <2>6. MapsAgree' /\ RecordAgrees'
    BY <1>1, <2>2 DEF LdevInv, MapsAgree, RecordAgrees, Exists
  <2>7. OneRefresh' /\ SinceEmptied'
    BY <1>1, <2>1, <2>2 DEF OneRefresh, SinceEmptied, Refreshing
  <2>8. ASSUME NEW s \in Requests PROVE ReadOK(s)' /\ NumbersOK(s)'
    <3>1. ReadOK(s) /\ DOMAIN local[s].noted = {} /\ DOMAIN local[s].numbers = {}
      BY <2>3 DEF LdevInv, RefreshInv, InHand
    <3> QED
      BY <1>1, <3>1 DEF ReadOK, NumbersOK
  <2>9. RefreshInv'
    BY <2>3, <2>7, <2>8 DEF RefreshInv
  <2> QED
    BY <1>1, <2>1, <2>2, <2>4, <2>5, <2>6, <2>9 DEF LdevInv
<1> QED
  BY <1>2, <1>3 DEF StartRefresh

\* The row of a volume that was deleted goes.
LEMMA EraseLdevKeeps ==
  ASSUME LdevInv, NEW r \in Requests, EraseLdev(r)
  PROVE  LdevInv'
<1>1. /\ pc[r] = "erase" /\ EraseRow(local[r].volume) /\ Finish(r)
      /\ UNCHANGED <<ldevOf, volumeAt>>
  BY DEF EraseLdev, mapper
<1>2. local[r].volume \in Volumes
  BY <1>1 DEF LdevInv, LdevSteps
<1>3. /\ pc' \in [Requests -> Steps] /\ pc'[r] = "idle" /\ DOMAIN local' = Requests
      /\ \A s \in Requests \ {r} : pc'[s] = pc[s] /\ local'[s] = local[s]
      /\ \A s \in Requests : HandStays(s)
  BY <1>1, Ends
<1>4. \A s \in Requests : pc'[s] \in LdevSteps => pc'[s] = pc[s] /\ local'[s] = local[s]
  BY <1>3 DEF LdevSteps, CreateSteps
<1> QED
  BY <1>1, <1>2, <1>3, <1>4, EraseRowKeeps

\* Other APIs delete any volume that is not mapped.
LEMMA DeleteElsewhereKeeps ==
  ASSUME LdevInv, DeleteElsewhere
  PROVE  LdevInv'
<1>1. PICK v \in ToSet(rows) : EraseRow(v)
  BY DEF DeleteElsewhere
<1>2. v \in Volumes
  BY DEF LdevInv, ToSet
<1>3. UNCHANGED <<ldevOf, volumeAt, pc, local>>
  BY DEF DeleteElsewhere, mapper, requests
<1>4. \A r \in Requests : HandStays(r)
  BY <1>3 DEF HandStays
<1> QED
  BY <1>1, <1>2, <1>3, <1>4, EraseRowKeeps DEF LdevInv

\* A crash forgets the mapper and the requests.
LEMMA CrashKeepsLdevs ==
  ASSUME LdevInv, Crash
  PROVE  LdevInv'
<1>1. /\ ldevOf' = NoLdevs /\ volumeAt' = NoVolumes /\ UNCHANGED <<rows, recorded>>
      /\ pc' = [r \in Requests |-> "idle"] /\ local' = [r \in Requests |-> Idle]
  BY DEF Crash, tables
<1>2. /\ ldevOf' \in [Volumes -> Ldevs \cup {Null}] /\ \A v \in Volumes : ldevOf'[v] = Null
      /\ volumeAt' \in [Ldevs -> Volumes \cup {Null}] /\ \A n \in Ldevs : volumeAt'[n] = Null
  BY <1>1 DEF NoLdevs, NoVolumes
<1>3. pc' \in [Requests -> Steps] /\ \A r \in Requests : pc'[r] \notin LdevSteps
  BY <1>1 DEF Steps, LdevSteps, CreateSteps
<1>4. MapsAgree' /\ RecordAgrees'
  BY <1>1, <1>2 DEF LdevInv, MapsAgree, RecordAgrees, Exists
<1>5. \A r \in Requests : HandStays(r)
  BY <1>1 DEF HandStays, Idle, RefreshSteps
<1>6. \A r \in Requests : InHand(r)' = {}
  BY <1>1 DEF InHand, Idle, Nothing
<1>7. RefreshInv'
  BY <1>2, <1>5, <1>6, RefreshStays
<1> QED
  BY <1>1, <1>2, <1>3, <1>4, <1>7 DEF LdevInv, LdevSteps

\* Every step keeps LdevInv.
LEMMA NextLdevs ==
  ASSUME LdevInv, [Next]_vars
  PROVE  LdevInv'
<1>1. ASSUME NEW r \in Requests, StartRefresh(r) PROVE LdevInv'
  BY <1>1, StartRefreshKeepsLdevs
<1>2. ASSUME NEW r \in Requests, FillLdevs(r) PROVE LdevInv'
  BY <1>2, FillLdevsKeeps
<1>3. ASSUME NEW r \in Requests, ReadVolumes(r) \/ ReadAll(r) PROVE LdevInv'
  BY <1>3, ReadsKeepLdevs
<1>4. ASSUME NEW r \in Requests, FlushLdevs(r) \/ FillPorts(r) PROVE LdevInv'
  BY <1>4, FlushKeepsLdevs
<1>5. ASSUME NEW r \in Requests, CommitRefresh(r) PROVE LdevInv'
  BY <1>5, CommitKeepsLdevs
<1>6. ASSUME NEW r \in Requests, CreateLdev(r) PROVE LdevInv'
  BY <1>6, CreateLdevKeeps
<1>7. ASSUME NEW r \in Requests, RegisterLdev(r) PROVE LdevInv'
  BY <1>7, RegisterLdevKeeps
<1>8. ASSUME NEW r \in Requests, InsertLdev(r) PROVE LdevInv'
  BY <1>8, InsertLdevKeeps
<1>9. ASSUME NEW r \in Requests, LdevFails(r) PROVE LdevInv'
  BY <1>9, EndsWithoutLdevs DEF LdevFails, tables, mapper, ldevs
<1>10. ASSUME NEW r \in Requests, DeleteLdev(r) PROVE LdevInv'
  BY <1>10, DeleteLdevKeeps
<1>11. ASSUME NEW r \in Requests, UnregisterLdev(r) PROVE LdevInv'
  BY <1>11, UnregisterLdevKeeps
<1>12. ASSUME NEW r \in Requests, EraseLdev(r) PROVE LdevInv'
  BY <1>12, EraseLdevKeeps
<1>13. ASSUME NEW r \in Requests, SaveHost(r) \/ CreateLun(r) \/ DeleteLun(r) PROVE LdevInv'
  BY <1>13, EndsWithoutLdevs DEF SaveHost, CreateLun, DeleteLun, mapper, ldevs
<1>14. ASSUME NEW r \in Requests, NEW k \in Kinds,
              CreateGroup(r, k) \/ DeleteGroup(r, k) \/ AddInitiator(r, k)
       PROVE  LdevInv'
  BY <1>14, GroupsKeepLdevs
<1>15. CASE TimePasses \/ UNCHANGED vars
  BY <1>15, LdevsStay DEF HandStays, TimePasses, LdevInv, vars, tables, mapper, requests, ldevs
<1>16. CASE CreateElsewhere
  BY <1>16, CreateElsewhereKeeps
<1>17. CASE DeleteElsewhere
  BY <1>17, DeleteElsewhereKeeps
<1>18. CASE Crash
  BY <1>18, CrashKeepsLdevs
<1> QED
  BY <1>1, <1>2, <1>3, <1>6, <1>7, <1>8, <1>9, <1>10, <1>11, <1>12, <1>13, <1>14, <1>15,
     <1>16, <1>17, <1>18, <1>4, <1>5 DEF Next

\* The mapper, the rows and what creations and the refresh hold agree, however
\* many requests there are: a refresh is six steps, of which others come in
\* between, and only adds to what they register in the emptied maps
\* (translate.py:117-137, routes.py:439).
THEOREM LdevInvariance == Spec => []LdevInv
<1>1. Init => LdevInv
  <2> SUFFICES ASSUME Init PROVE LdevInv
    OBVIOUS
  <2>1. rows = <<>> /\ rows \in Seq(Volumes) /\ IsInjective(rows) /\ ToSet(rows) = {}
    BY DEF Init, IsInjective, ToSet
  <2>2. pc \in [Requests -> Steps] /\ \A r \in Requests : pc[r] = "idle"
    BY DEF Init, Steps
  <2>3. MapsAgree /\ RecordAgrees
    BY <2>1 DEF Init, MapsAgree, RecordAgrees, Exists, NoLdevs, NoVolumes
  <2>4. RefreshInv
    BY <2>1, <2>2 DEF Init, RefreshInv, OneRefresh, SinceEmptied, ReadOK, NumbersOK, Refreshing,
                     InHand, Idle, Nothing, RefreshSteps, EmptySteps
  <2> QED
    BY <2>1, <2>2, <2>3, <2>4 DEF Init, LdevInv, NoLdevs, NoVolumes, LdevSteps, CreateSteps
<1>2. LdevInv /\ [Next]_vars => LdevInv'
  BY NextLdevs
<1> QED
  BY <1>1, <1>2, PTL DEF Spec

\* An LDEV number never leads to a volume that records another one
\* (routes.py:429-431, translate.py:134-135).
THEOREM NumberAlwaysLeadsToItsVolume == Spec => []NumberLeadsToItsVolume
<1>1. LdevInv => NumberLeadsToItsVolume
  BY LookUpAgrees
<1> QED
  BY <1>1, LdevInvariance, PTL

\* A row that stays keeps the number that it records.
LEMMA RecordsStay ==
  ASSUME LdevInv, [Next]_vars, NEW v \in Volumes, recorded[v] # Null, v \in ToSet(rows')
  PROVE  recorded'[v] = recorded[v]
<1>1. ASSUME NEW w \in Volumes, EraseRow(w) PROVE recorded'[v] = recorded[v]
  <2>1. rows' = RemoveFirst(rows, w) /\ recorded' = [recorded EXCEPT ![w] = Null]
    BY <1>1 DEF EraseRow
  <2>2. ToSet(rows') = ToSet(rows) \ {w}
    BY <2>1, RemoveRow DEF LdevInv
  <2> QED
    BY <2>1, <2>2 DEF LdevInv
<1>2. ASSUME NEW r \in Requests, CommitRefresh(r) PROVE recorded'[v] = recorded[v]
  <2> DEFINE numbers == local[r].numbers
  <2>1. v \in DOMAIN numbers => recorded[v] = Null \/ ~Exists(v)
    BY DEF LdevInv, RefreshInv, NumbersOK
  <2>2. \/ recorded' = recorded
        \/ recorded' = [w \in Volumes |->
              IF w \in DOMAIN numbers /\ Exists(w) THEN numbers[w] ELSE recorded[w]]
    BY <1>2 DEF CommitRefresh
  <2> QED
    BY <2>1, <2>2
<1>3. ASSUME NEW r \in Requests, InsertLdev(r) PROVE recorded'[v] = recorded[v]
  <2>1. local[r].volume \in Volumes \ ToSet(rows)
    BY <1>3 DEF InsertLdev, LdevInv, Drawn, CreateSteps
  <2>2. local[r].volume # v
    BY <2>1 DEF LdevInv, RecordAgrees, Exists
  <2>3. recorded' = [recorded EXCEPT ![local[r].volume] = InsertedNumber(r)]
    BY <1>3 DEF InsertLdev
  <2> QED
    BY <2>2, <2>3 DEF LdevInv
<1>4. ASSUME NEW r \in Requests, EraseLdev(r) PROVE recorded'[v] = recorded[v]
  <2>1. local[r].volume \in Volumes /\ EraseRow(local[r].volume)
    BY <1>4 DEF EraseLdev, LdevInv, LdevSteps
  <2> QED
    BY <1>1, <2>1
<1>5. CASE DeleteElsewhere
  BY <1>1, <1>5 DEF DeleteElsewhere, LdevInv, ToSet
<1>6. ASSUME NEW r \in Requests,
             CreateLdev(r) \/ RegisterLdev(r) \/ LdevFails(r) \/ DeleteLdev(r)
               \/ UnregisterLdev(r) \/ SaveHost(r) \/ CreateLun(r) \/ DeleteLun(r)
      PROVE  recorded' = recorded
  BY <1>6 DEF CreateLdev, RegisterLdev, LdevFails, DeleteLdev, UnregisterLdev, SaveHost,
              CreateLun, DeleteLun, tables
<1>7. ASSUME NEW r \in Requests,
             StartRefresh(r) \/ ReadVolumes(r) \/ ReadAll(r) \/ FillLdevs(r) \/ FlushLdevs(r)
               \/ FillPorts(r)
      PROVE  recorded' = recorded
  BY <1>7 DEF StartRefresh, ReadVolumes, ReadAll, FillLdevs, FlushLdevs, FillPorts, tables
<1>8. ASSUME NEW r \in Requests, NEW k \in Kinds,
             CreateGroup(r, k) \/ DeleteGroup(r, k) \/ AddInitiator(r, k)
      PROVE  recorded' = recorded
  <2>1. ASSUME NEW h, NEW number, NEW grants, NEW dropped, Save(r, h, number, grants, dropped)
        PROVE  recorded' = recorded
    BY <2>1 DEF Save, tables
  <2> QED
    BY <1>8, <2>1 DEF CreateGroup, DeleteGroup, AddInitiator
<1>9. CASE TimePasses \/ CreateElsewhere \/ Crash \/ UNCHANGED vars
  BY <1>9 DEF TimePasses, CreateElsewhere, Crash, vars, tables
<1> QED
  BY <1>2, <1>3, <1>4, <1>5, <1>6, <1>8, <1>9, <1>7 DEF Next

\* An LDEV number that a row records stays its number, and the volume is listed
\* under no other (translate.py:128-133).
THEOREM RecordedNumbersAlwaysKept == Spec => RecordedNumbersKept
<1>1. LdevInv /\ LdevInv' /\ [Next]_vars =>
        [\A v \in Volumes : recorded[v] # Null /\ v \in ToSet(rows') =>
            /\ recorded'[v] = recorded[v]
            /\ \A x \in ListLdevs' : x[1] = v => x[2] = recorded[v]]_vars
  <2> SUFFICES ASSUME LdevInv, LdevInv', [Next]_vars, NEW v \in Volumes,
                      recorded[v] # Null, v \in ToSet(rows')
               PROVE  /\ recorded'[v] = recorded[v]
                      /\ \A x \in ListLdevs' : x[1] = v => x[2] = recorded[v]
    OBVIOUS
  <2>1. recorded'[v] = recorded[v]
    BY RecordsStay
  <2>2. ldevOf'[v] \in {Null, recorded'[v]}
    BY <2>1 DEF LdevInv, RecordAgrees, Exists
  <2>3. ASSUME NEW x \in ListLdevs', x[1] = v PROVE x[2] = recorded[v]
    BY <2>1, <2>2, <2>3 DEF ListLdevs
  <2> QED
    BY <2>1, <2>3
<1> QED
  BY <1>1, LdevInvariance, PTL DEF Spec, RecordedNumbersKept

-----------------------------------------------------------------------------
\* Ports, hosts and LUNs.

NumberMaps == [Kinds -> [Ports -> Nat \cup {Null}]]

\* The endpoints of the array are given their ports all at once.
PortsOK ==
  LET own == OwnOf(SetToSeq(Endpoints))
  IN /\ port \in [Endpoints -> Ports \cup {Null}]
     /\ \/ \A e \in own : port[e] = Null
        \/ \A e \in own : port[e] # Null
     /\ endpointAt \in [Ports -> Endpoints \cup {Null}]

HostsOK ==
  /\ hosts \in Seq(Hosts) /\ IsInjective(hosts)
  /\ meta \in [Hosts -> NumberMaps]
  /\ ports \in [Hosts -> SUBSET Initiators]
  /\ granted \subseteq Grant
  /\ \A r \in Requests : pc[r] = "save" =>
       local[r].host \in Hosts /\ local[r].number \in NumberMaps /\ local[r].grants \subseteq Grant

LunsOK == luns \subseteq Lun /\ IsFiniteSet(luns) /\ LunsWithinArray

FlagsOK == due \in BOOLEAN /\ unnumberedPools \in BOOLEAN

HostInv == PortsOK /\ HostsOK /\ LunsOK /\ FlagsOK

\* The size of a port's range.
LEMMA PortsAre == Ports = 1..(Cardinality(Endpoints) + 2) /\ IsFiniteSet(Ports) /\ Null \notin Ports
<1>1. Cardinality(Endpoints) + 2 \in Nat
  BY HitachiAssumption, FS_CardinalityType
<1> QED
  BY <1>1, Nulls, FS_Interval DEF Ports

\* The values of a function of a finite set are finitely many.
LEMMA FiniteRange ==
  ASSUME NEW S, IsFiniteSet(S), NEW f, DOMAIN f = S
  PROVE  IsFiniteSet({f[x] : x \in S})
<1> DEFINE T == {f[x] : x \in S}
           g == [x \in S |-> f[x]]
<1>1. g \in [S -> T] /\ \A y \in T : \E x \in S : g[x] = y
  OBVIOUS
<1> HIDE DEF T, g
<1>2. g \in Surjection(S, T)
  BY <1>1 DEF Surjection
<1>3. IsFiniteSet(T)
  BY <1>2, FS_Surjection
<1> QED
  BY <1>3 DEF T

\* The number of a new group is a number that the host has on no other port.
LEMMA GroupNumberFree ==
  ASSUME NEW numberAt \in [Ports -> Nat \cup {Null}]
  PROVE  NextGroupNumber(numberAt) \in Nat /\ \A p \in Ports : numberAt[p] # NextGroupNumber(numberAt)
<1> DEFINE image == {numberAt[p] : p \in Ports}
           used == image \ {Null}
<1>1. IsFiniteSet(image)
  <2>1. IsFiniteSet(Ports) /\ DOMAIN numberAt = Ports
    BY PortsAre
  <2> QED
    BY <2>1, FiniteRange
<1>2. IsFiniteSet(used)
  BY <1>1, FS_Subset
<1>3. NextGroupNumber(numberAt) = AllocateLun(used)
  BY DEF NextGroupNumber, AllocateLun
<1>4. AllocateLun(used) \in Nat /\ AllocateLun(used) \notin used
  BY <1>2, AllocateLunCorrect
<1>5. AllocateLun(used) # Null
  BY <1>4, Nulls
<1> QED
  BY <1>3, <1>4, <1>5

\* The host that a number leads to.
LEMMA HostFound ==
  ASSUME HostInv, NEW kinds, NEW p, NEW n, HostWith(kinds, p, n) # Null
  PROVE  HostWith(kinds, p, n) \in Hosts
BY FirstOfRow DEF HostWith, HostInv, HostsOK

\* The volume that a number leads to.
LEMMA VolumeFound ==
  ASSUME LdevInv, NEW n \in Ldevs, VolumeToMap(n) # Null
  PROVE  VolumeToMap(n) \in Volumes
<1> DEFINE S == {v \in Volumes : ArrayOf[v] = Own /\ recorded[v] = n}
<1>1. FirstOf(rows, S) = Null \/ FirstOf(rows, S) \in Volumes
  BY FirstOfRow DEF LdevInv
<1>2. LookUp(n) = Null \/ LookUp(n) \in Volumes
  BY DEF LookUp, LdevInv
<1> QED
  BY <1>1, <1>2 DEF VolumeToMap

\* The endpoint that a port leads to is of the array asked for.
LEMMA EndpointFound ==
  ASSUME HostInv, NEW p \in Ports, NEW array, EndpointToMap(p, array) # Null
  PROVE  EndpointToMap(p, array) \in Endpoints /\ ArrayOf[EndpointToMap(p, array)] = array
<1> DEFINE mine == {e \in Endpoints : ArrayOf[e] = array}
           recordsPort == {e \in mine : port[e] = p}
           iscsi == {e \in mine : ~IsFc[e]}
<1>1. EndpointToMap(p, array) =
        CASE endpointAt[p] \in mine -> endpointAt[p]
          [] endpointAt[p] \notin mine /\ recordsPort # {} -> CHOOSE e \in recordsPort : TRUE
          [] endpointAt[p] \notin mine /\ recordsPort = {} /\ Cardinality(iscsi) = 1 ->
               CHOOSE e \in iscsi : TRUE
          [] OTHER -> Null
  BY DEF EndpointToMap
<1>2. iscsi \subseteq mine /\ recordsPort \subseteq mine
  OBVIOUS
<1>3. Cardinality(iscsi) = 1 => iscsi # {}
  BY FS_EmptySet
<1> HIDE DEF iscsi, recordsPort, mine
<1>4. EndpointToMap(p, array) \in mine
  <2>1. CASE endpointAt[p] \in mine
    BY <1>1, <2>1
  <2>2. CASE endpointAt[p] \notin mine /\ recordsPort # {}
    <3>1. EndpointToMap(p, array) = CHOOSE e \in recordsPort : TRUE
      BY <1>1, <2>2
    <3>2. (CHOOSE e \in recordsPort : TRUE) \in recordsPort
      BY <2>2
    <3> QED
      BY <1>2, <3>1, <3>2
  <2>3. CASE endpointAt[p] \notin mine /\ recordsPort = {} /\ Cardinality(iscsi) = 1
    <3>1. EndpointToMap(p, array) = CHOOSE e \in iscsi : TRUE
      BY <1>1, <2>3
    <3>2. (CHOOSE e \in iscsi : TRUE) \in iscsi
      BY <1>3, <2>3
    <3> QED
      BY <1>2, <3>1, <3>2
  <2>4. CASE endpointAt[p] \notin mine /\ recordsPort = {} /\ Cardinality(iscsi) # 1
    BY <1>1, <2>4
  <2> QED
    BY <2>1, <2>2, <2>3, <2>4
<1> QED
  BY <1>4 DEF mine

\* A LUN that is free is a number.
LEMMA LunIsNumber ==
  ASSUME HostInv, NEW h, NEW e
  PROVE  FreeLun(h, e) \in Nat
<1> DEFINE S == {x \in luns : x.host = h /\ x.endpoint = e}
<1>1. IsFiniteSet(S)
  BY FS_Subset DEF HostInv, LunsOK
<1>2. IsFiniteSet({m.lun : m \in S})
  <2> DEFINE f == [m \in S |-> m.lun]
  <2>1. DOMAIN f = S /\ {f[m] : m \in S} = {m.lun : m \in S}
    OBVIOUS
  <2> HIDE DEF S, f
  <2>2. IsFiniteSet({f[m] : m \in S})
    BY <1>1, <2>1, FiniteRange
  <2> QED
    BY <2>1, <2>2
<1> QED
  BY <1>2, AllocateLunCorrect DEF FreeLun

\* Steps that write none of it.
LEMMA HostsStay ==
  ASSUME HostInv, UNCHANGED <<port, endpointAt, hosts, meta, ports, luns, granted>>, FlagsOK',
         \A r \in Requests : pc'[r] = "save" => pc[r] = "save" /\ local'[r] = local[r]
  PROVE  HostInv'
BY DEF HostInv, PortsOK, HostsOK, LunsOK, LunsWithinArray

\* Every handler but those of SaveHost's ends with no host in hand.
LEMMA NotSaving ==
  ASSUME LdevInv, NEW r \in Requests, NEW step \in Steps \ {"save"}, GoTo(r, step),
         \A s \in Requests \ {r} : local'[s] = local[s]
  PROVE  \A s \in Requests : pc'[s] = "save" => pc[s] = "save" /\ local'[s] = local[s]
BY MovesOn

\* The numbers that the ports of the array get, once and for all.
LEMMA OwnPorts ==
  ASSUME HostInv
  PROVE  LET all == SetToSeq(Endpoints)
             numbering == PortNumbering(all, port)
         IN  /\ all \in Seq(Endpoints) /\ ToSet(all) \subseteq Endpoints
             /\ OwnOf(all) \subseteq Endpoints
             /\ DOMAIN numbering = OwnOf(all)
             /\ \A e \in OwnOf(all) : numbering[e] \in Ports
<1> DEFINE all == SetToSeq(Endpoints)
           numbering == PortNumbering(all, port)
           own == OwnOf(all)
<1>1. all \in Seq(Endpoints) /\ Len(all) = Cardinality(Endpoints) /\ ToSet(all) \subseteq Endpoints
  BY EndpointRows
<1>2. own \subseteq Endpoints
  BY <1>1 DEF OwnOf
<1>3. \/ \A e \in own : port[e] = Null
      \/ \A e \in own : port[e] # Null /\ port[e] \in Ports
  BY <1>2 DEF HostInv, PortsOK
<1>4. Ports = 1..(Len(all) + 2)
  BY <1>1, PortsAre
<1> HIDE DEF all
<1>5. DOMAIN numbering = own /\ \A e \in own : numbering[e] \in Ports
  BY <1>1, <1>3, <1>4, PortNumbers
<1> QED
  BY <1>1, <1>2, <1>5 DEF all

\* The steps of a refresh that empty the port maps, or fill them.
LEMMA PortMapsKeepHosts ==
  ASSUME LdevInv, HostInv, NEW r \in Requests,
         FillLdevs(r) \/ FlushLdevs(r) \/ FillPorts(r)
  PROVE  HostInv'
<1> DEFINE all == SetToSeq(Endpoints)
           numbering == PortNumbering(all, port)
<1>1. UNCHANGED <<port, hosts, meta, ports, luns, unnumberedPools, due, granted>>
  BY DEF FillLdevs, FlushLdevs, FillPorts, tables
<1>2. \/ endpointAt' = endpointAt
      \/ endpointAt' = NoEndpoints
      \/ endpointAt' = [p \in Ports |-> LastWith(all, numbering, p)]
  BY DEF FillLdevs, FlushLdevs, FillPorts, ToPorts
<1>3. all \in Seq(Endpoints) /\ ToSet(all) \subseteq Endpoints
  BY OwnPorts
<1> HIDE DEF all, numbering
<1>4. \A p \in Ports : LastWith(all, numbering, p) # Null => LastWith(all, numbering, p) \in Endpoints
  BY <1>3, LastWithRow
<1>5. endpointAt' \in [Ports -> Endpoints \cup {Null}]
  BY <1>2, <1>4 DEF NoEndpoints, HostInv, PortsOK
<1>6. \E step \in Steps \ {"save"} : GoTo(r, step)
  BY DEF FillLdevs, FlushLdevs, FillPorts, ToPorts, Steps, RefreshSteps
<1>7. \A s \in Requests \ {r} : local'[s] = local[s]
  BY DEF FillLdevs, FlushLdevs, FillPorts, Drop, LdevInv
<1>8. \A s \in Requests : pc'[s] = "save" => pc[s] = "save" /\ local'[s] = local[s]
  BY <1>6, <1>7, NotSaving
<1>9. PortsOK'
  BY <1>1, <1>5 DEF HostInv, PortsOK
<1>10. HostsOK' /\ LunsOK' /\ FlagsOK'
  BY <1>1, <1>8 DEF HostInv, HostsOK, LunsOK, LunsWithinArray, FlagsOK
<1> QED
  BY <1>9, <1>10 DEF HostInv

\* The commit of a refresh, or its failure.
LEMMA CommitKeepsHosts ==
  ASSUME LdevInv, HostInv, NEW r \in Requests, CommitRefresh(r)
  PROVE  HostInv'
<1> DEFINE all == SetToSeq(Endpoints)
           numbering == PortNumbering(all, port)
           own == OwnOf(all)
<1>1. /\ \/ UNCHANGED <<port, unnumberedPools, due>>
         \/ /\ port' = [e \in Endpoints |-> IF e \in own THEN numbering[e] ELSE port[e]]
            /\ unnumberedPools' = FALSE /\ due' = FALSE
      /\ GoTo(r, "serve") /\ Drop(r) /\ UNCHANGED <<hosts, meta, ports, luns, endpointAt, granted>>
  BY DEF CommitRefresh
<1>2. own \subseteq Endpoints /\ \A e \in own : numbering[e] \in Ports
  BY OwnPorts
<1> HIDE DEF numbering, own
<1>3. port' \in [Endpoints -> Ports \cup {Null}]
  BY <1>1, <1>2 DEF HostInv, PortsOK
<1>4. (\A e \in own : port'[e] = Null) \/ (\A e \in own : port'[e] # Null)
  BY <1>1, <1>2, PortsAre DEF HostInv, PortsOK, own, all
<1>5. PortsOK'
  BY <1>1, <1>3, <1>4 DEF HostInv, PortsOK, own, all
<1>6. \A s \in Requests \ {r} : local'[s] = local[s]
  BY <1>1 DEF Drop, LdevInv
<1>7. \A s \in Requests : pc'[s] = "save" => pc[s] = "save" /\ local'[s] = local[s]
  BY <1>1, <1>6, NotSaving DEF Steps
<1>8. HostsOK' /\ LunsOK' /\ FlagsOK'
  BY <1>1, <1>7 DEF HostInv, HostsOK, LunsOK, LunsWithinArray, FlagsOK
<1> QED
  BY <1>5, <1>8 DEF HostInv

\* The metadata that is written with one number more is metadata.
LEMMA AssignedNumbers ==
  ASSUME NEW number \in NumberMaps, NEW k \in Kinds, NEW p \in Ports
  PROVE  /\ Assigned(number, k, p) \in NumberMaps
         /\ Assigned(number, k, p)[k][p] \in Nat
         /\ \A j \in Kinds, q \in Ports :
              number[j][q] # Null => Assigned(number, k, p)[j][q] = number[j][q]
<1>1. NextGroupNumber(number[k]) \in Nat
  BY GroupNumberFree DEF NumberMaps
<1> QED
  BY <1>1 DEF Assigned, NumberMaps

\* create_host_group and create_iscsi_target, up to the save.
LEMMA CreateGroupKeepsHosts ==
  ASSUME LdevInv, HostInv, NEW r \in Requests, NEW k \in Kinds, CreateGroup(r, k)
  PROVE  HostInv'
<1>1. PICK h \in Hosts, p \in Ports :
        Save(r, h, Assigned(meta[h], k, p),
             {[host |-> h, kind |-> k, port |-> p, number |-> Assigned(meta[h], k, p)[k][p]]}, {})
  BY DEF CreateGroup
<1> DEFINE number == Assigned(meta[h], k, p)
           grant == [host |-> h, kind |-> k, port |-> p, number |-> number[k][p]]
<1>2. number \in NumberMaps /\ number[k][p] \in Nat
  BY AssignedNumbers DEF HostInv, HostsOK
<1> HIDE DEF number
<1>3. grant \in Grant
  BY <1>2 DEF Grant
<1>4. /\ local' = [local EXCEPT ![r] = [Idle EXCEPT !.host = h, !.number = number,
                                          !.grants = {grant}, !.dropped = {}]]
      /\ GoTo(r, "save") /\ UNCHANGED <<tables, mapper, granted>>
  BY <1>1 DEF Save, number
<1> HIDE DEF grant
<1>5. /\ local'[r].host = h /\ local'[r].number = number /\ local'[r].grants = {grant}
      /\ \A s \in Requests \ {r} : local'[s] = local[s]
  BY <1>4 DEF LdevInv, Idle
<1>6. \A s \in Requests \ {r} : pc'[s] = pc[s]
  BY <1>4, MovesOn DEF Steps
<1>7. HostsOK'
  BY <1>2, <1>3, <1>4, <1>5, <1>6 DEF HostInv, HostsOK, tables
<1>8. PortsOK' /\ LunsOK' /\ FlagsOK'
  BY <1>4 DEF HostInv, PortsOK, LunsOK, LunsWithinArray, FlagsOK, tables, mapper
<1> QED
  BY <1>7, <1>8 DEF HostInv

\* Deleting a group, up to the save.
LEMMA DeleteGroupKeepsHosts ==
  ASSUME LdevInv, HostInv, NEW r \in Requests, NEW k \in Kinds, DeleteGroup(r, k)
  PROVE  HostInv'
<1>1. PICK p \in Ports, n \in Numbers(k) :
        /\ HostWith({k}, p, n) # Null
        /\ Save(r, HostWith({k}, p, n), [meta[HostWith({k}, p, n)] EXCEPT ![k][p] = Null], {},
                {g \in granted : g.kind = k /\ g.port = p /\ g.host = HostWith({k}, p, n)})
  BY DEF DeleteGroup
<1> DEFINE h == HostWith({k}, p, n)
           number == [meta[h] EXCEPT ![k][p] = Null]
           dropped == {g \in granted : g.kind = k /\ g.port = p /\ g.host = h}
<1>2. h \in Hosts
  BY <1>1, HostFound
<1> HIDE DEF h
<1>3. number \in NumberMaps
  BY <1>2 DEF HostInv, HostsOK, NumberMaps
<1>4. /\ local' = [local EXCEPT ![r] = [Idle EXCEPT !.host = h, !.number = number,
                                          !.grants = {}, !.dropped = dropped]]
      /\ GoTo(r, "save") /\ UNCHANGED <<tables, mapper, granted>>
  BY <1>1 DEF Save, h
<1> HIDE DEF number, dropped
<1>5. /\ local'[r].host = h /\ local'[r].number = number /\ local'[r].grants = {}
      /\ \A s \in Requests \ {r} : local'[s] = local[s]
  BY <1>4 DEF LdevInv, Idle
<1>6. \A s \in Requests \ {r} : pc'[s] = pc[s]
  BY <1>4, MovesOn DEF Steps
<1>7. HostsOK'
  BY <1>2, <1>3, <1>4, <1>5, <1>6 DEF HostInv, HostsOK, tables
<1>8. PortsOK' /\ LunsOK' /\ FlagsOK'
  BY <1>4 DEF HostInv, PortsOK, LunsOK, LunsWithinArray, FlagsOK, tables, mapper
<1> QED
  BY <1>7, <1>8 DEF HostInv

\* The save itself.
LEMMA SaveHostKeepsHosts ==
  ASSUME LdevInv, HostInv, NEW r \in Requests, SaveHost(r)
  PROVE  HostInv'
<1> DEFINE h == local[r].host
<1>1. /\ pc[r] = "save" /\ hosts' = HostRows(h) /\ meta' = [meta EXCEPT ![h] = local[r].number]
      /\ granted' = (granted \ local[r].dropped) \cup local[r].grants
      /\ Finish(r) /\ UNCHANGED <<port, ports, luns, unnumberedPools, mapper>>
  BY DEF SaveHost
<1>2. h \in Hosts /\ local[r].number \in NumberMaps /\ local[r].grants \subseteq Grant
  BY <1>1 DEF HostInv, HostsOK
<1> HIDE DEF h
<1>3. /\ pc'[r] = "idle"
      /\ \A s \in Requests \ {r} : pc'[s] = pc[s] /\ local'[s] = local[s]
  BY <1>1, Ends
<1>4. hosts' \in Seq(Hosts) /\ IsInjective(hosts')
  <2>1. CASE h \in ToSet(hosts)
    BY <1>1, <2>1 DEF HostRows, HostInv, HostsOK
  <2>2. CASE h \notin ToSet(hosts)
    BY <1>1, <1>2, <2>2, InsertRow DEF HostRows, HostInv, HostsOK
  <2> QED
    BY <2>1, <2>2
<1>5. meta' \in [Hosts -> NumberMaps]
  BY <1>1, <1>2 DEF HostInv, HostsOK
<1>6. HostsOK'
  BY <1>1, <1>2, <1>3, <1>4, <1>5 DEF HostInv, HostsOK
<1>7. PortsOK' /\ LunsOK' /\ FlagsOK'
  BY <1>1 DEF HostInv, PortsOK, LunsOK, LunsWithinArray, FlagsOK, mapper
<1> QED
  BY <1>6, <1>7 DEF HostInv

\* A LUN that is created: its volume and its endpoint are of one array.
LEMMA CreateLunKeepsHosts ==
  ASSUME LdevInv, HostInv, NEW r \in Requests, CreateLun(r)
  PROVE  HostInv'
<1>1. PICK n \in Ldevs, p \in Ports, g \in {x.number : x \in granted} :
        /\ VolumeToMap(n) # Null /\ EndpointToMap(p, ArrayOf[VolumeToMap(n)]) # Null
        /\ HostWith(Kinds, p, g) # Null
        /\ luns' = luns \cup
             {[volume |-> VolumeToMap(n), host |-> HostWith(Kinds, p, g),
               endpoint |-> EndpointToMap(p, ArrayOf[VolumeToMap(n)]),
               lun |-> FreeLun(HostWith(Kinds, p, g), EndpointToMap(p, ArrayOf[VolumeToMap(n)]))]}
  BY DEF CreateLun
<1> DEFINE v == VolumeToMap(n)
           e == EndpointToMap(p, ArrayOf[v])
           h == HostWith(Kinds, p, g)
           l == FreeLun(h, e)
           m == [volume |-> v, host |-> h, endpoint |-> e, lun |-> l]
<1>2. v \in Volumes
  BY <1>1, VolumeFound
<1>3. e \in Endpoints /\ ArrayOf[e] = ArrayOf[v]
  BY <1>1, EndpointFound
<1>4. h \in Hosts /\ l \in Nat
  BY <1>1, HostFound, LunIsNumber
<1>5. luns' = luns \cup {m}
  BY <1>1
<1>6. Finish(r) /\ UNCHANGED <<port, hosts, meta, ports, unnumberedPools, mapper, granted>>
  BY DEF CreateLun
<1> HIDE DEF v, e, h, l
<1>7. m \in Lun /\ ArrayOf[m.volume] = ArrayOf[m.endpoint]
  BY <1>2, <1>3, <1>4 DEF Lun
<1> HIDE DEF m
<1>8. IsFiniteSet(luns')
  BY <1>5, FS_AddElement DEF HostInv, LunsOK
<1>9. LunsOK'
  BY <1>5, <1>7, <1>8 DEF HostInv, LunsOK, LunsWithinArray
<1>10. pc'[r] = "idle" /\ \A s \in Requests \ {r} : pc'[s] = pc[s] /\ local'[s] = local[s]
  BY <1>6, Ends
<1>11. HostsOK'
  BY <1>6, <1>10 DEF HostInv, HostsOK
<1>12. PortsOK' /\ FlagsOK'
  BY <1>6 DEF HostInv, PortsOK, FlagsOK, mapper
<1> QED
  BY <1>9, <1>11, <1>12 DEF HostInv

\* Deleting LUNs, and adding initiators.
LEMMA OthersKeepHosts ==
  ASSUME LdevInv, HostInv, NEW r \in Requests,
         DeleteLun(r) \/ \E k \in Kinds : AddInitiator(r, k)
  PROVE  HostInv'
<1>1. Finish(r) /\ UNCHANGED <<port, hosts, meta, unnumberedPools, mapper, granted>>
  BY DEF DeleteLun, AddInitiator
<1>2. luns' \subseteq luns
  BY DEF DeleteLun, AddInitiator
<1>3. ports' \in [Hosts -> SUBSET Initiators]
  <2>1. CASE DeleteLun(r)
    BY <2>1 DEF DeleteLun, HostInv, HostsOK
  <2>2. ASSUME NEW h, NEW i \in Initiators, ports' = [ports EXCEPT ![h] = @ \cup {i}]
        PROVE  ports' \in [Hosts -> SUBSET Initiators]
    BY <2>2 DEF HostInv, HostsOK
  <2>3. ASSUME NEW k \in Kinds, AddInitiator(r, k)
        PROVE  ports' \in [Hosts -> SUBSET Initiators]
    BY <2>2, <2>3 DEF AddInitiator
  <2> QED
    BY <2>1, <2>3
<1>4. LunsOK'
  BY <1>2, FS_Subset DEF HostInv, LunsOK, LunsWithinArray
<1>5. pc'[r] = "idle" /\ \A s \in Requests \ {r} : pc'[s] = pc[s] /\ local'[s] = local[s]
  BY <1>1, Ends
<1>6. HostsOK'
  BY <1>1, <1>3, <1>5 DEF HostInv, HostsOK
<1>7. PortsOK' /\ FlagsOK'
  BY <1>1 DEF HostInv, PortsOK, FlagsOK, mapper
<1> QED
  BY <1>4, <1>6, <1>7 DEF HostInv

\* Every step keeps HostInv.
LEMMA NextHosts ==
  ASSUME LdevInv, HostInv, [Next]_vars
  PROVE  HostInv'
<1>1. ASSUME NEW r \in Requests, StartRefresh(r) PROVE HostInv'
  <2>1. \E step \in Steps \ {"save"} : GoTo(r, step)
    BY <1>1 DEF StartRefresh, Steps, RefreshSteps
  <2>2. UNCHANGED <<tables, local, granted, endpointAt, due>>
    BY <1>1 DEF StartRefresh, mapper
  <2> QED
    BY <2>1, <2>2, NotSaving, HostsStay DEF tables, FlagsOK, HostInv
<1>2. ASSUME NEW r \in Requests, ReadVolumes(r) \/ ReadAll(r) PROVE HostInv'
  <2>1. \E step \in Steps \ {"save"} : GoTo(r, step)
    BY <1>2 DEF ReadVolumes, ReadAll, Steps, RefreshSteps
  <2>2. UNCHANGED <<tables, mapper, granted>> /\ \A s \in Requests \ {r} : local'[s] = local[s]
    BY <1>2 DEF ReadVolumes, ReadAll, Take, LdevInv
  <2> QED
    BY <2>1, <2>2, NotSaving, HostsStay DEF tables, mapper, FlagsOK, HostInv
<1>3. ASSUME NEW r \in Requests, FillLdevs(r) \/ FlushLdevs(r) \/ FillPorts(r) PROVE HostInv'
  BY <1>3, PortMapsKeepHosts
<1>4. ASSUME NEW r \in Requests, CommitRefresh(r) PROVE HostInv'
  BY <1>4, CommitKeepsHosts
<1>5. ASSUME NEW r \in Requests, CreateLdev(r) \/ DeleteLdev(r) PROVE HostInv'
  <2>1. \E step \in Steps \ {"save"} : GoTo(r, step)
    BY <1>5 DEF CreateLdev, DeleteLdev, Steps
  <2>2. UNCHANGED <<tables, mapper, granted>> /\ \A s \in Requests \ {r} : local'[s] = local[s]
    BY <1>5 DEF CreateLdev, DeleteLdev, LdevInv
  <2> QED
    BY <2>1, <2>2, NotSaving, HostsStay DEF tables, mapper, FlagsOK, HostInv
<1>6. ASSUME NEW r \in Requests, RegisterLdev(r) \/ UnregisterLdev(r) PROVE HostInv'
  <2>1. \E step \in Steps \ {"save"} : GoTo(r, step)
    BY <1>6 DEF RegisterLdev, UnregisterLdev, Steps
  <2>2. UNCHANGED <<tables, endpointAt, due, local, granted>>
    BY <1>6 DEF RegisterLdev, UnregisterLdev, Register
  <2> QED
    BY <2>1, <2>2, NotSaving, HostsStay DEF tables, FlagsOK, HostInv
<1>7. ASSUME NEW r \in Requests, InsertLdev(r) \/ EraseLdev(r) \/ LdevFails(r) PROVE HostInv'
  <2>1. Finish(r) /\ UNCHANGED <<port, hosts, meta, ports, luns, unnumberedPools, mapper, granted>>
    BY <1>7 DEF InsertLdev, EraseLdev, LdevFails, EraseRow, tables
  <2>2. \A s \in Requests : pc'[s] = "save" => pc[s] = "save" /\ local'[s] = local[s]
    BY <2>1, Ends
  <2> QED
    BY <2>1, <2>2, HostsStay DEF mapper, FlagsOK, HostInv
<1>8. ASSUME NEW r \in Requests, SaveHost(r) PROVE HostInv'
  BY <1>8, SaveHostKeepsHosts
<1>9. ASSUME NEW r \in Requests, CreateLun(r) PROVE HostInv'
  BY <1>9, CreateLunKeepsHosts
<1>10. ASSUME NEW r \in Requests, DeleteLun(r) PROVE HostInv'
  BY <1>10, OthersKeepHosts
<1>11. ASSUME NEW r \in Requests, NEW k \in Kinds, CreateGroup(r, k) PROVE HostInv'
  BY <1>11, CreateGroupKeepsHosts
<1>12. ASSUME NEW r \in Requests, NEW k \in Kinds, DeleteGroup(r, k) PROVE HostInv'
  BY <1>12, DeleteGroupKeepsHosts
<1>13. ASSUME NEW r \in Requests, NEW k \in Kinds, AddInitiator(r, k) PROVE HostInv'
  BY <1>13, OthersKeepHosts
<1>14. CASE TimePasses
  BY <1>14, HostsStay DEF TimePasses, tables, requests, FlagsOK, HostInv
<1>15. CASE CreateElsewhere \/ DeleteElsewhere
  BY <1>15, HostsStay DEF CreateElsewhere, DeleteElsewhere, EraseRow, mapper, requests, FlagsOK, HostInv
<1>16. CASE Crash
  <2>1. endpointAt' \in [Ports -> Endpoints \cup {Null}] /\ due' \in BOOLEAN
    BY <1>16 DEF Crash, NoEndpoints
  <2>2. UNCHANGED <<port, hosts, meta, ports, luns, unnumberedPools, granted>>
    BY <1>16 DEF Crash, tables
  <2>3. \A r \in Requests : pc'[r] # "save"
    BY <1>16 DEF Crash
  <2> QED
    BY <2>1, <2>2, <2>3 DEF HostInv, PortsOK, HostsOK, LunsOK, LunsWithinArray, FlagsOK
<1>17. CASE UNCHANGED vars
  BY <1>17, HostsStay DEF vars, tables, mapper, requests, FlagsOK, HostInv
<1> QED
  BY <1>1, <1>2, <1>3, <1>5, <1>6, <1>7, <1>8, <1>9, <1>10, <1>11, <1>12, <1>13, <1>14,
     <1>15, <1>16, <1>17, <1>4 DEF Next

\* Ports, hosts and LUNs, for any number of requests.
THEOREM HostInvariance == Spec => []HostInv
<1>1. Init => HostInv
  <2> SUFFICES ASSUME Init PROVE HostInv
    OBVIOUS
  <2>1. OwnOf(SetToSeq(Endpoints)) \subseteq Endpoints
    BY EndpointRows DEF OwnOf
  <2>2. PortsOK
    BY <2>1 DEF Init, PortsOK, NoEndpoints
  <2>3. hosts = <<>> /\ hosts \in Seq(Hosts) /\ IsInjective(hosts)
    BY DEF Init, IsInjective
  <2>4. HostsOK
    BY <2>3 DEF Init, HostsOK, NumberMaps, NoNumbers
  <2>5. LunsOK
    BY FS_EmptySet DEF Init, LunsOK, LunsWithinArray
  <2> QED
    BY <2>2, <2>4, <2>5 DEF Init, HostInv, FlagsOK
<1>2. LdevInv /\ HostInv /\ [Next]_vars => HostInv'
  BY NextHosts
<1> QED
  BY <1>1, <1>2, LdevInvariance, PTL DEF Spec

\* The personality's state has the types it is given, for any number of
\* requests, volumes, endpoints and hosts.
THEOREM HitachiTyped == Spec => []TypeOK
<1>1. LdevInv /\ HostInv => TypeOK
  BY DEF LdevInv, HostInv, PortsOK, HostsOK, LunsOK, FlagsOK, NumberMaps, TypeOK, Steps, RefreshSteps
<1> QED
  BY <1>1, LdevInvariance, HostInvariance, PTL

\* Every LUN is on an endpoint of its volume's array (routes.py:1215-1241).
THEOREM LunsAlwaysWithinArray == Spec => []LunsWithinArray
<1>1. HostInv => LunsWithinArray
  BY DEF HostInv, LunsOK
<1> QED
  BY <1>1, HostInvariance, PTL

-----------------------------------------------------------------------------
\* Groups.

\* Requests that write the metadata of hosts, of which there is one at most.
Saves(r) == \E k \in Kinds : {"create_" \o k, "delete_" \o k} \cap Operations[r] # {}
OneSaver == \A r, s \in Requests : Saves(r) /\ Saves(s) => r = s

\* What a save leaves where it was, and what it writes.
NumberAfter(r, g) ==
  IF g.host = local[r].host THEN local[r].number[g.kind][g.port] ELSE meta[g.host][g.kind][g.port]

\* A save in hand keeps what clients were told, and tells them what it writes.
GrantInv ==
  /\ GrantsKept
  /\ \A r \in Requests : pc[r] = "save" =>
       /\ Saves(r)
       /\ \A g \in (granted \ local[r].dropped) \cup local[r].grants : NumberAfter(r, g) = g.number

\* Steps that have nothing to do with groups.
LEMMA GrantsStay ==
  ASSUME GrantInv, UNCHANGED <<meta, granted>>,
         \A r \in Requests : pc'[r] = "save" => pc[r] = "save" /\ local'[r] = local[r]
  PROVE  GrantInv'
BY DEF GrantInv, GrantsKept, NumberAfter

\* While one request saves no other does.
LEMMA SavesAlone ==
  ASSUME OneSaver, GrantInv, NEW r \in Requests, Saves(r), pc' = [pc EXCEPT ![r] = "save"]
  PROVE  \A s \in Requests : pc'[s] = "save" => s = r
BY DEF OneSaver, GrantInv

\* create_host_group and create_iscsi_target tell a number that the save writes,
\* next to those that the metadata had.
LEMMA CreateGroupKeepsGrants ==
  ASSUME OneSaver, LdevInv, HostInv, GrantInv, NEW r \in Requests, NEW k \in Kinds,
         CreateGroup(r, k)
  PROVE  GrantInv'
<1>1. PICK h \in Hosts, p \in Ports :
        Save(r, h, Assigned(meta[h], k, p),
             {[host |-> h, kind |-> k, port |-> p, number |-> Assigned(meta[h], k, p)[k][p]]}, {})
  BY DEF CreateGroup
<1> DEFINE number == Assigned(meta[h], k, p)
           grant == [host |-> h, kind |-> k, port |-> p, number |-> number[k][p]]
<1>2. \A j \in Kinds, q \in Ports : meta[h][j][q] # Null => number[j][q] = meta[h][j][q]
  <2> DEFINE old == meta[h]
  <2>1. old \in NumberMaps
    BY DEF HostInv, HostsOK
  <2> HIDE DEF old
  <2>2. \A j \in Kinds, q \in Ports :
          old[j][q] # Null => Assigned(old, k, p)[j][q] = old[j][q]
    BY <2>1, AssignedNumbers
  <2> QED
    BY <2>2 DEF old
<1>3. /\ local' = [local EXCEPT ![r] = [Idle EXCEPT !.host = h, !.number = number,
                                          !.grants = {grant}, !.dropped = {}]]
      /\ UNCHANGED <<meta, granted>>
  BY <1>1 DEF Save, tables
<1>4. grant.host = h /\ grant.number = number[grant.kind][grant.port]
  OBVIOUS
<1> HIDE DEF number, grant
<1>5. /\ local'[r].host = h /\ local'[r].number = number /\ local'[r].grants = {grant}
      /\ local'[r].dropped = {}
  BY <1>3 DEF LdevInv, Idle
<1>6. ASSUME NEW g \in granted PROVE NumberAfter(r, g)' = g.number
  <2>1. g.kind \in Kinds /\ g.port \in Ports /\ g.number # Null
    BY Nulls DEF HostInv, HostsOK, Grant
  <2>2. meta[g.host][g.kind][g.port] = g.number
    BY DEF GrantInv, GrantsKept
  <2> QED
    BY <1>2, <1>3, <1>5, <2>1, <2>2 DEF NumberAfter
<1>7. ASSUME NEW g \in {grant} PROVE NumberAfter(r, g)' = g.number
  BY <1>4, <1>5 DEF NumberAfter
<1>8. Saves(r) /\ pc' = [pc EXCEPT ![r] = "save"]
  BY <1>1 DEF CreateGroup, Serves, Saves, Save, GoTo
<1>9. \A s \in Requests : pc'[s] = "save" => s = r
  BY <1>8, SavesAlone
<1> QED
  BY <1>3, <1>5, <1>6, <1>7, <1>8, <1>9 DEF GrantInv, GrantsKept

\* Deleting a group takes back what was told of it, and of nothing else.
LEMMA DeleteGroupKeepsGrants ==
  ASSUME OneSaver, LdevInv, HostInv, GrantInv, NEW r \in Requests, NEW k \in Kinds,
         DeleteGroup(r, k)
  PROVE  GrantInv'
<1>1. PICK p \in Ports, n \in Numbers(k) :
        /\ HostWith({k}, p, n) # Null
        /\ Save(r, HostWith({k}, p, n), [meta[HostWith({k}, p, n)] EXCEPT ![k][p] = Null], {},
                {g \in granted : g.kind = k /\ g.port = p /\ g.host = HostWith({k}, p, n)})
  BY DEF DeleteGroup
<1> DEFINE h == HostWith({k}, p, n)
           number == [meta[h] EXCEPT ![k][p] = Null]
           dropped == {g \in granted : g.kind = k /\ g.port = p /\ g.host = h}
<1>2. h \in Hosts
  BY <1>1, HostFound
<1> HIDE DEF h
<1>3. \A j \in Kinds, q \in Ports : ~(j = k /\ q = p) => number[j][q] = meta[h][j][q]
  BY <1>2 DEF HostInv, HostsOK, NumberMaps
<1>4. /\ local' = [local EXCEPT ![r] = [Idle EXCEPT !.host = h, !.number = number,
                                          !.grants = {}, !.dropped = dropped]]
      /\ UNCHANGED <<meta, granted>>
  BY <1>1 DEF Save, h, tables
<1> HIDE DEF number
<1>5. /\ local'[r].host = h /\ local'[r].number = number /\ local'[r].grants = {}
      /\ local'[r].dropped = dropped
  BY <1>4 DEF LdevInv, Idle
<1>6. ASSUME NEW g \in granted \ dropped PROVE NumberAfter(r, g)' = g.number
  <2>1. g.kind \in Kinds /\ g.port \in Ports
    BY DEF HostInv, HostsOK, Grant
  <2>2. meta[g.host][g.kind][g.port] = g.number
    BY DEF GrantInv, GrantsKept
  <2> QED
    BY <1>3, <1>4, <1>5, <2>1, <2>2 DEF NumberAfter
<1> HIDE DEF dropped
<1>7. Saves(r) /\ pc' = [pc EXCEPT ![r] = "save"]
  BY <1>1 DEF DeleteGroup, Serves, Saves, Save, GoTo
<1>8. \A s \in Requests : pc'[s] = "save" => s = r
  BY <1>7, SavesAlone
<1> QED
  BY <1>4, <1>5, <1>6, <1>7, <1>8 DEF GrantInv, GrantsKept

\* The save makes what it holds true.
LEMMA SaveHostKeepsGrants ==
  ASSUME OneSaver, LdevInv, HostInv, GrantInv, NEW r \in Requests, SaveHost(r)
  PROVE  GrantInv'
<1>1. /\ pc[r] = "save" /\ meta' = [meta EXCEPT ![local[r].host] = local[r].number]
      /\ granted' = (granted \ local[r].dropped) \cup local[r].grants
      /\ Finish(r)
  BY DEF SaveHost
<1>2. \A s \in Requests : pc'[s] # "save"
  BY <1>1, Ends DEF GrantInv, OneSaver
<1>3. local[r].host \in Hosts /\ granted' \subseteq Grant
  BY <1>1 DEF HostInv, HostsOK
<1>4. ASSUME NEW g \in granted' PROVE meta'[g.host][g.kind][g.port] = g.number
  <2>1. NumberAfter(r, g) = g.number
    BY <1>1 DEF GrantInv
  <2>2. g.host \in Hosts
    BY <1>3 DEF Grant
  <2> QED
    BY <1>1, <1>3, <2>1, <2>2 DEF NumberAfter, HostInv, HostsOK
<1> QED
  BY <1>2, <1>4 DEF GrantInv, GrantsKept

\* Every step keeps GrantInv, where no other request writes the same metadata.
LEMMA NextGrants ==
  ASSUME OneSaver, LdevInv, HostInv, GrantInv, [Next]_vars
  PROVE  GrantInv'
<1>1. ASSUME NEW r \in Requests, NEW k \in Kinds, CreateGroup(r, k) PROVE GrantInv'
  BY <1>1, CreateGroupKeepsGrants
<1>2. ASSUME NEW r \in Requests, NEW k \in Kinds, DeleteGroup(r, k) PROVE GrantInv'
  BY <1>2, DeleteGroupKeepsGrants
<1>3. ASSUME NEW r \in Requests, SaveHost(r) PROVE GrantInv'
  BY <1>3, SaveHostKeepsGrants
<1>4. ASSUME NEW r \in Requests,
             CreateLdev(r) \/ DeleteLdev(r) \/ RegisterLdev(r) \/ UnregisterLdev(r)
      PROVE  GrantInv'
  <2>1. \E step \in Steps \ {"save"} : GoTo(r, step)
    BY <1>4 DEF CreateLdev, DeleteLdev, RegisterLdev, UnregisterLdev, Steps
  <2>2. UNCHANGED <<meta, granted>> /\ \A s \in Requests \ {r} : local'[s] = local[s]
    BY <1>4 DEF CreateLdev, DeleteLdev, RegisterLdev, UnregisterLdev, tables, LdevInv
  <2> QED
    BY <2>1, <2>2, NotSaving, GrantsStay
<1>5. ASSUME NEW r \in Requests,
             StartRefresh(r) \/ ReadVolumes(r) \/ ReadAll(r) \/ FillLdevs(r) \/ FlushLdevs(r)
               \/ FillPorts(r) \/ CommitRefresh(r)
      PROVE  GrantInv'
  <2>1. \E step \in Steps \ {"save"} : GoTo(r, step)
    BY <1>5 DEF StartRefresh, ReadVolumes, ReadAll, FillLdevs, FlushLdevs, FillPorts,
                CommitRefresh, ToPorts, Steps, RefreshSteps
  <2>2. UNCHANGED <<meta, granted>>
    BY <1>5 DEF StartRefresh, ReadVolumes, ReadAll, FillLdevs, FlushLdevs, FillPorts,
                CommitRefresh, tables
  <2>3. \A s \in Requests \ {r} : local'[s] = local[s]
    BY <1>5 DEF StartRefresh, ReadVolumes, ReadAll, FillLdevs, FlushLdevs, FillPorts,
                CommitRefresh, Take, Drop, LdevInv
  <2> QED
    BY <2>1, <2>2, <2>3, NotSaving, GrantsStay
<1>6. ASSUME NEW r \in Requests, NEW k \in Kinds,
             InsertLdev(r) \/ EraseLdev(r) \/ LdevFails(r) \/ CreateLun(r) \/ DeleteLun(r)
               \/ AddInitiator(r, k)
      PROVE  GrantInv'
  <2>1. Finish(r) /\ UNCHANGED <<meta, granted>>
    BY <1>6 DEF InsertLdev, EraseLdev, LdevFails, CreateLun, DeleteLun, AddInitiator, EraseRow, tables
  <2>2. \A s \in Requests : pc'[s] = "save" => pc[s] = "save" /\ local'[s] = local[s]
    BY <2>1, Ends
  <2> QED
    BY <2>1, <2>2, GrantsStay
<1>7. CASE TimePasses \/ CreateElsewhere \/ DeleteElsewhere \/ UNCHANGED vars
  BY <1>7, GrantsStay DEF TimePasses, CreateElsewhere, DeleteElsewhere, EraseRow, vars, tables, requests
<1>8. CASE Crash
  <2>1. UNCHANGED <<meta, granted>> /\ \A s \in Requests : pc'[s] # "save"
    BY <1>8 DEF Crash, tables
  <2> QED
    BY <2>1, GrantsStay
<1>9. "group" \in Kinds
  BY DEF Kinds
<1> QED
  BY <1>1, <1>2, <1>3, <1>4, <1>6, <1>7, <1>8, <1>9, <1>5 DEF Next

\* With one request at a time that makes or deletes them, what a client was told of
\* its groups and targets stays true until it deletes them, whatever other requests
\* do (routes.py:654-676).  Of two such requests the later save undoes the earlier.
THEOREM GrantsAlwaysKept ==
  ASSUME OneSaver
  PROVE  Spec => []GrantsKept
<1>1. Init => GrantInv
  BY DEF Init, GrantInv, GrantsKept
<1>2. LdevInv /\ HostInv /\ GrantInv /\ [Next]_vars => GrantInv'
  BY NextGrants
<1>3. GrantInv => GrantsKept
  BY DEF GrantInv
<1> QED
  BY <1>1, <1>2, <1>3, LdevInvariance, HostInvariance, PTL DEF Spec
=============================================================================
