---------------------------- MODULE CommandsProofs ----------------------------
(***************************************************************************)
(* What the inventory keeps, for any number of clients, rows, crashes and  *)
(* refused RPCs, whatever commands are mixed (Commands) and whoever        *)
(* applies a topology (Apply).                                             *)
(***************************************************************************)
EXTENDS Apply, TLAPS

-----------------------------------------------------------------------------
\* Types.

TableSet ==
  [arrays : SUBSET Arrays, iscsi : [Arrays -> 0..MaxTwins],
   pools : [Pools -> PoolRow \cup {Null}],
   hosts : SUBSET Hosts, ports : [Hosts -> SUBSET Ports],
   volumes : [Volumes -> VolumeRow \cup {Null}],
   maps : [Hosts \X Volumes -> 0..MaxTwins]]

ArrayCalls == {"create_array", "delete_array", "create_endpoint", "ensure_endpoint"}
PoolCalls == {"create_pool", "delete_pool", "attach_pool", "detach_pool"}
HostCalls == {"create_host", "add_host_port", "update_host", "delete_host"}
VolumeCalls == {"create_volume", "delete_volume"}
PairCalls == {"find_none", "create_mapping", "delete_mapping"}

\* A call names what its service needs.
GoodCall ==
  {call \in [do : ArrayCalls \cup PoolCalls \cup HostCalls \cup VolumeCalls \cup PairCalls,
             once : BOOLEAN, array : Arrays \cup {Null}, pool : Pools \cup {Null},
             group : PoolNames \cup {Null}, volume : Volumes \cup {Null},
             name : VolumeNames \cup {Null}, host : Hosts \cup {Null}, ports : SUBSET Ports] :
     /\ call.do \in ArrayCalls \cup {"create_pool", "attach_pool", "detach_pool"} => call.array \in Arrays
     /\ call.do = "create_pool" => call.group \in PoolNames
     /\ call.do \in PoolCalls \ {"create_pool"} => call.pool \in Pools
     /\ call.do \in HostCalls \cup PairCalls => call.host \in Hosts
     /\ call.do = "create_volume" => call.name \in VolumeNames}

SeenSet ==
  [pool : Pools \cup {Null}, group : PoolNames \cup {Null}, volume : Volumes \cup {Null},
   array : Arrays \cup {Null}, ports : SUBSET Ports]

RequestSet ==
  [step : {"idle", "check", "write", "provision"}, calls : Seq(GoodCall), at : Nat,
   seen : SeenSet \cup {Null}, keeps : BOOLEAN, result : {Null, "ok", "error", "lost"},
   made : Pools \cup {Null}]

\* What a call that was not refused has found.
Found(call, seen) ==
  /\ seen \in SeenSet /\ call.do # "find_none"
  /\ call.do = "create_volume" => seen.pool \in Pools /\ seen.array \in Arrays
  /\ call.do \in {"delete_volume", "create_mapping", "delete_mapping"} => seen.volume \in Volumes

\* The row that is provisioned is in the writer's tables.
Underway(call) ==
  \/ call.do = "create_pool" /\ issued.pools \in Pools
  \/ call.do = "create_volume" /\ issued.volumes \in Rows(txn.volumes)
  \/ call.do = "ensure_endpoint"

RequestOK(c) ==
  LET q == request[c]
  IN /\ q.at \in 1..(Len(q.calls) + 1)
     /\ q.step \in {"write", "provision"} => q.at <= Len(q.calls) /\ Found(Current(c), q.seen)
     /\ q.step = "provision" => writer = c /\ Underway(Current(c))
     /\ q.step = "idle" => writer # c
     /\ q.result # Null => q.step = "idle"

StorageOK ==
  /\ spdk \in [backing : SUBSET Pools, lvstores : [Arrays \X PoolNames -> Pools \cup {Null}]]
  /\ \A an \in Arrays \X PoolNames : spdk.lvstores[an] \in spdk.backing \cup {Null}

TypeInv ==
  /\ db \in TableSet /\ txn \in TableSet
  /\ writer \in Clients \cup {Null}
  /\ request \in [Clients -> RequestSet] /\ \A c \in Clients : RequestOK(c)
  /\ StorageOK /\ up \in BOOLEAN
  /\ issued \in [pools : 0..MaxPools, volumes : 0..MaxVolumes]
  /\ faults \in 0..MaxFaults

\* The marker of what is missing is no value.
LEMMA Nulls ==
  /\ Null \notin Nat /\ Null \notin Arrays /\ Null \notin PoolNames /\ Null \notin VolumeNames
  /\ Null \notin Hosts /\ Null \notin PoolRow /\ Null \notin VolumeRow
  /\ Null \notin Pools /\ Null \notin Volumes /\ Null \notin Clients
  /\ Null \notin {"ok", "error", "lost"}
BY NullAssumption, RequestsAssumption DEF Pools, Volumes

\* Every service leaves tables, where the database takes its statement.
LEMMA WrittenTables ==
  ASSUME TypeInv, NEW t \in TableSet, NEW call \in GoodCall, NEW seen, Found(call, seen),
         ~Conflict(call, seen, t),
         call.do = "create_pool" => issued.pools < MaxPools,
         call.do = "create_volume" => issued.volumes < MaxVolumes,
         call.do = "create_mapping" => t.maps[<<call.host, seen.volume>>] < MaxTwins,
         call.do \in {"create_endpoint", "ensure_endpoint"} => t.iscsi[call.array] < MaxTwins
  PROVE  Written(call, seen, t) \in TableSet
<1>1. CASE call.do = "create_array"
  <2>1. call.array \in Arrays
    BY <1>1 DEF GoodCall, ArrayCalls
  <2> QED
    BY <1>1, <2>1 DEF Written, ArrayAdded, TableSet
<1>2. CASE call.do = "delete_array"
  BY <1>2 DEF Written, ArrayDeleted, TableSet
<1>3. CASE call.do \in {"create_endpoint", "ensure_endpoint"}
  <2>1. call.array \in Arrays
    BY <1>3 DEF GoodCall, ArrayCalls
  <2>2. t.iscsi[call.array] + 1 \in 0..MaxTwins
    BY <1>3, <2>1, TablesAssumption DEF TableSet
  <2>3. Written(call, seen, t) = EndpointAdded(t, call.array)
    BY <1>3 DEF Written
  <2> DEFINE a == call.array
  <2> HIDE DEF a
  <2>4. EndpointAdded(t, a) \in TableSet
    BY <2>1, <2>2 DEF EndpointAdded, TableSet, a
  <2> QED
    BY <2>3, <2>4 DEF a
<1>4. CASE call.do = "create_pool"
  <2>1. call.array \in Arrays /\ call.group \in PoolNames
    BY <1>4 DEF GoodCall
  <2>2. issued.pools + 1 \in Pools
    BY <1>4, TablesAssumption DEF TypeInv, Pools
  <2>3. [name |-> call.group, array |-> call.array] \in PoolRow
    BY <2>1 DEF PoolRow
  <2> QED
    BY <1>4, <2>2, <2>3 DEF Written, PoolAdded, TableSet
<1>5. CASE call.do = "delete_pool"
  BY <1>5 DEF Written, PoolDeleted, TableSet
<1>6. CASE call.do \in {"attach_pool", "detach_pool"}
  <2>1. call.array \in Arrays /\ call.pool \in Pools
    BY <1>6 DEF GoodCall, PoolCalls
  <2>2. t.pools[call.pool] \in PoolRow
    BY <1>6, <2>1 DEF Conflict, TableSet
  <2>3. ASSUME NEW a \in Arrays PROVE PoolMoved(t, call.pool, a) \in TableSet
    <3>1. [t.pools[call.pool] EXCEPT !.array = a] \in PoolRow
      BY <2>2 DEF PoolRow
    <3> DEFINE pools == [t.pools EXCEPT ![call.pool] = [t.pools[call.pool] EXCEPT !.array = a]]
    <3>2. PoolMoved(t, call.pool, a) = [t EXCEPT !.pools = pools]
      BY DEF PoolMoved
    <3>3. pools \in [Pools -> PoolRow \cup {Null}]
      BY <2>1, <3>1 DEF TableSet
    <3> HIDE DEF pools
    <3> QED
      BY <3>2, <3>3 DEF TableSet
  <2> QED
    BY <1>6, <2>1, <2>3, TablesAssumption DEF Written
<1>7. CASE call.do = "create_host"
  <2>1. call.host \in Hosts /\ call.ports \subseteq Ports
    BY <1>7 DEF GoodCall, HostCalls
  <2> QED
    BY <1>7, <2>1 DEF Written, HostAdded, TableSet
<1>8. CASE call.do \in {"add_host_port", "update_host"}
  <2>1. call.host \in Hosts /\ seen.ports \subseteq Ports
    BY <1>8 DEF GoodCall, HostCalls, Found, SeenSet
  <2> QED
    BY <1>8, <2>1 DEF Written, HostPortsWritten, TableSet
<1>9. CASE call.do = "delete_host"
  BY <1>9 DEF Written, HostDeleted, TableSet
<1>10. CASE call.do = "create_volume"
  <2>1. issued.volumes + 1 \in Volumes
    BY <1>10, TablesAssumption DEF TypeInv, Volumes
  <2>2. [name |-> call.name, pool |-> seen.pool, array |-> seen.array, status |-> "creating"] \in VolumeRow
    BY <1>10 DEF GoodCall, Found, VolumeRow
  <2> QED
    BY <1>10, <2>1, <2>2 DEF Written, VolumeAdded, TableSet
<1>11. CASE call.do = "delete_volume"
  BY <1>11 DEF Written, VolumeDeleted, TableSet
<1>12. CASE call.do = "create_mapping"
  <2>1. <<call.host, seen.volume>> \in Hosts \X Volumes
    BY <1>12 DEF GoodCall, PairCalls, Found
  <2>2. t.maps[<<call.host, seen.volume>>] + 1 \in 0..MaxTwins
    BY <1>12, <2>1, TablesAssumption DEF TableSet
  <2> QED
    BY <1>12, <2>1, <2>2 DEF Written, MappingAdded, TableSet
<1>13. CASE call.do = "delete_mapping"
  <2>1. <<call.host, seen.volume>> \in Hosts \X Volumes
    BY <1>13 DEF GoodCall, PairCalls, Found
  <2>2. t.maps[<<call.host, seen.volume>>] # 0
    BY <1>13 DEF Conflict
  <2>3. t.maps[<<call.host, seen.volume>>] \in 0..MaxTwins
    BY <2>1 DEF TableSet
  <2>4. t.maps[<<call.host, seen.volume>>] - 1 \in 0..MaxTwins
    BY <2>2, <2>3, TablesAssumption
  <2> QED
    BY <1>13, <2>1, <2>4 DEF Written, MappingDeleted, TableSet
<1> QED
  BY <1>1, <1>2, <1>3, <1>4, <1>5, <1>6, <1>7, <1>8, <1>9, <1>10, <1>11, <1>12, <1>13
     DEF GoodCall, Found, ArrayCalls, PoolCalls, HostCalls, VolumeCalls, PairCalls

\* A call that is not refused has found what it writes about.
LEMMA SeenFound ==
  ASSUME NEW t \in TableSet, NEW call \in GoodCall, ~Refused(call, t), call.do # "find_none"
  PROVE  Found(call, Seen(call, t))
<1> DEFINE p == TheOne(PoolsFor(call, t))
           v == TheOne(VolumesFor(call, t))
<1>1. PoolsFor(call, t) \subseteq Pools /\ \A x \in PoolsFor(call, t) : t.pools[x] \in PoolRow
  BY DEF PoolsFor, PoolCalled, PoolsOf, Rows, TableSet
<1>2. VolumesFor(call, t) \subseteq Volumes
  BY DEF VolumesFor, VolumeCalled, VolumesOf, Rows, TableSet
<1>3. PoolsFor(call, t) # {} => p \in PoolsFor(call, t)
  BY DEF TheOne
<1>4. VolumesFor(call, t) # {} => v \in VolumesFor(call, t)
  BY DEF TheOne
<1>5. PoolsFor(call, t) = {} => p = Null
  BY DEF TheOne
<1>6. VolumesFor(call, t) = {} => v = Null
  BY DEF TheOne
<1>7. call.do = "create_volume" => PoolsFor(call, t) # {}
  BY DEF Refused
<1>8. call.do \in {"delete_volume", "create_mapping", "delete_mapping"} => VolumesFor(call, t) # {}
  BY DEF Refused
<1> HIDE DEF p, v
<1>9. call.do = "create_volume" => p \in Pools /\ ArrayOf(call, t) \in Arrays
  BY <1>1, <1>3, <1>7 DEF ArrayOf, p, PoolRow
<1>10. ArrayOf(call, t) \in Arrays \cup {Null}
  BY <1>9 DEF ArrayOf, GoodCall
<1>11. PortsOf(call, t) \subseteq Ports
  BY DEF PortsOf, GoodCall, TableSet, HostCalls
<1>12. p \in Pools \cup {Null} /\ v \in Volumes \cup {Null}
  BY <1>1, <1>2, <1>3, <1>4, <1>5, <1>6
<1>13. Seen(call, t).group \in PoolNames \cup {Null}
  BY <1>1, <1>3 DEF Seen, GoodCall, PoolRow, p
<1>14. Seen(call, t) \in SeenSet
  BY <1>10, <1>11, <1>12, <1>13 DEF Seen, SeenSet, p, v
<1> QED
  BY <1>2, <1>4, <1>8, <1>9, <1>14 DEF Found, Seen, p, v

-----------------------------------------------------------------------------
\* A step of one request, on the others.
LEMMA OthersOK ==
  ASSUME TypeInv, NEW c \in Clients, NEW d \in Clients, d # c, request'[d] = request[d],
         writer' \in {writer, c, Null}, 
         writer \in {c, Null} \/ UNCHANGED <<writer, txn, issued>>
  PROVE  RequestOK(d)'
<1>1. RequestOK(d)
  BY DEF TypeInv
<1>2. Null \notin Clients
  BY Nulls
<1>3. CASE writer \in {c, Null}
  BY <1>1, <1>2, <1>3 DEF RequestOK, Current
<1>4. CASE UNCHANGED <<writer, txn, issued>>
  BY <1>1, <1>4 DEF RequestOK, Current, Underway
<1> QED
  BY <1>3, <1>4

\* The tables an empty session sees.
LEMMA NoTablesTyped == NoTables \in TableSet
BY TablesAssumption DEF NoTables, TableSet, Pools, Volumes

LEMMA IdleTyped ==
  /\ Idle \in RequestSet /\ Idle.at = 1 /\ Len(Idle.calls) = 0
  /\ Idle.step = "idle" /\ Idle.result = Null
BY DEF Idle, RequestSet

\* A request that fails, or is answered, leaves good requests.
LEMMA EndedKeeps ==
  ASSUME TypeInv, NEW c \in Clients, NEW result \in {"ok", "error", "lost"},
         request' = Ended(c, result),
         writer' = (IF writer = c THEN Null ELSE writer),
         txn' = (IF writer = c THEN NoTables ELSE txn),
         db' \in TableSet, UNCHANGED issued, faults' \in 0..MaxFaults, StorageOK',
         up' \in BOOLEAN
  PROVE  TypeInv'
<1> USE DEF TypeInv
<1>1. /\ Replied(c, result) \in RequestSet /\ Replied(c, result).step = "idle"
      /\ Replied(c, result).at = 1 /\ Len(Replied(c, result).calls) = 0
  BY IdleTyped DEF Replied, Idle, RequestSet
<1>2. request' \in [Clients -> RequestSet]
  BY <1>1 DEF Ended
<1>3. request'[c] = Replied(c, result)
  BY DEF Ended
<1>4. writer' # c /\ writer' \in Clients \cup {Null} /\ writer' \in {writer, c, Null}
  BY Nulls
<1>5. RequestOK(c)'
  BY <1>1, <1>3, <1>4 DEF RequestOK
<1>6. ASSUME NEW d \in Clients, d # c PROVE RequestOK(d)'
  <2>1. request'[d] = request[d]
    BY <1>6 DEF Ended
  <2>2. writer \in {c, Null} \/ UNCHANGED <<writer, txn, issued>>
    OBVIOUS
  <2> QED
    BY <1>4, <1>6, <2>1, <2>2, OthersOK
<1>7. txn' \in TableSet
  BY NoTablesTyped
<1> QED
  BY <1>2, <1>4, <1>5, <1>6, <1>7

\* A call is done: the request goes on to its next one.
LEMMA OnwardKeeps ==
  ASSUME TypeInv, NEW c \in Clients, request[c].at <= Len(request[c].calls),
         request[c].step # "idle", request' = Onward(c),
         writer' \in {writer, c}, writer \in {c, Null} \/ UNCHANGED <<writer, txn, issued>>,
         db' \in TableSet, txn' \in TableSet, faults' \in 0..MaxFaults, StorageOK',
         issued' \in [pools : 0..MaxPools, volumes : 0..MaxVolumes], up' \in BOOLEAN
  PROVE  TypeInv'
<1> USE DEF TypeInv
<1>1. request[c] \in RequestSet /\ RequestOK(c)
  OBVIOUS
<1>2. /\ request' \in [Clients -> RequestSet]
      /\ request'[c] = [request[c] EXCEPT !.step = "check", !.at = @ + 1, !.seen = Null]
  <2> DEFINE q == [request[c] EXCEPT !.step = "check", !.at = @ + 1, !.seen = Null]
  <2>1. q \in RequestSet
    <3>1. request[c].at + 1 \in Nat
      BY <1>1 DEF RequestSet
    <3>2. q = [request[c] EXCEPT !.step = "check", !.at = request[c].at + 1, !.seen = Null]
      OBVIOUS
    <3> HIDE DEF q
    <3> QED
      BY <1>1, <3>1, <3>2 DEF RequestSet
  <2>2. request' = [request EXCEPT ![c] = q]
    BY DEF Onward
  <2> QED
    BY <2>1, <2>2
<1>3. RequestOK(c)'
  <2>1. request[c].at \in Nat /\ Len(request[c].calls) \in Nat
    BY <1>1 DEF RequestSet
  <2>2. /\ request'[c].step = "check" /\ request'[c].at = request[c].at + 1
        /\ request'[c].calls = request[c].calls /\ request'[c].result = request[c].result
    BY <1>1, <1>2 DEF RequestSet
  <2>3. request[c].at \in 1..(Len(request[c].calls) + 1) /\ request[c].result = Null
    BY <1>1 DEF RequestOK
  <2>4. request'[c].at \in 1..(Len(request'[c].calls) + 1)
    <3> DEFINE at == request[c].at
               n == Len(request[c].calls)
    <3>1. at \in Nat /\ n \in Nat /\ 1 <= at /\ at <= n
      BY <2>1, <2>3
    <3> HIDE DEF at, n, TypeInv
    <3>2. at + 1 \in 1..(n + 1)
      BY <3>1
    <3> QED
      BY <2>2, <3>2 DEF at, n
  <2>5. /\ request'[c].step \notin {"write", "provision", "idle"}
        /\ request'[c].result = Null
    BY <2>2, <2>3
  <2> QED
    BY <2>4, <2>5 DEF RequestOK
<1>4. ASSUME NEW d \in Clients, d # c PROVE RequestOK(d)'
  <2>1. request'[d] = request[d]
    BY <1>4 DEF Onward
  <2> QED
    BY <1>4, <2>1, OthersOK
<1> QED
  BY <1>2, <1>3, <1>4

-----------------------------------------------------------------------------
LEMMA AskKeeps ==
  ASSUME TypeInv, NEW c \in Clients, NEW calls \in Seq(GoodCall), NEW keeps \in BOOLEAN,
         Ask(c, calls, keeps)
  PROVE  TypeInv'
<1> USE DEF TypeInv
<1>1. request'[c] = [Idle EXCEPT !.step = "check", !.calls = calls, !.keeps = keeps]
  BY DEF Ask
<1>2. request' \in [Clients -> RequestSet]
  BY DEF Ask, Idle, RequestSet
<1>3. RequestOK(c)'
  BY <1>1 DEF RequestOK, Idle
<1>4. ASSUME NEW d \in Clients, d # c PROVE RequestOK(d)'
  BY <1>4, OthersOK DEF Ask
<1> QED
  BY <1>2, <1>3, <1>4 DEF Ask, StorageOK

LEMMA CheckKeeps ==
  ASSUME TypeInv, NEW c \in Clients, Check(c)
  PROVE  TypeInv'
<1> USE DEF TypeInv
<1>1. /\ request[c] \in RequestSet /\ RequestOK(c) /\ request[c].step = "check"
      /\ request[c].at <= Len(request[c].calls) /\ Current(c) \in GoodCall
  BY DEF Check, RequestSet, Current, RequestOK
<1>2. View(c) \in TableSet /\ StorageOK'
  BY DEF View, Check, StorageOK
<1>3. CASE request' = Onward(c) /\ UNCHANGED <<writer, txn>>
  BY <1>1, <1>2, <1>3, OnwardKeeps DEF Check
<1>4. CASE Fail(c)
  BY <1>2, <1>4, EndedKeeps DEF Check, Fail
<1>5. CASE /\ ~Refused(Current(c), View(c)) /\ ~NothingToWrite(Current(c), View(c))
           /\ request' = [request EXCEPT ![c].step = "write", ![c].seen = Seen(Current(c), View(c))]
           /\ UNCHANGED <<writer, txn>>
  <2>1. Found(Current(c), Seen(Current(c), View(c)))
    BY <1>1, <1>2, <1>5, SeenFound DEF NothingToWrite
  <2>2. request'[c] = [request[c] EXCEPT !.step = "write", !.seen = Seen(Current(c), View(c))]
    BY <1>5
  <2>3. request' \in [Clients -> RequestSet]
    BY <1>1, <1>5, <2>1 DEF RequestSet, Found
  <2>4. RequestOK(c)'
    BY <1>1, <2>1, <2>2 DEF RequestOK, Current, RequestSet
  <2>5. ASSUME NEW d \in Clients, d # c PROVE RequestOK(d)'
    BY <1>5, <2>5, OthersOK DEF Check
  <2> QED
    BY <1>2, <1>5, <2>3, <2>4, <2>5 DEF Check
<1> QED
  BY <1>3, <1>4, <1>5 DEF Check

\* What a request holds when it writes.
LEMMA WriteState ==
  ASSUME TypeInv, NEW c \in Clients, request[c].step = "write"
  PROVE  /\ request[c] \in RequestSet /\ RequestOK(c) /\ View(c) \in TableSet
         /\ request[c].at \in Nat /\ 1 <= request[c].at /\ request[c].at <= Len(request[c].calls)
         /\ Current(c) \in GoodCall /\ Found(Current(c), request[c].seen)
<1>1. request[c] \in RequestSet /\ RequestOK(c) /\ View(c) \in TableSet
  BY DEF TypeInv, View
<1>2. /\ request[c].calls \in Seq(GoodCall) /\ request[c].at \in Nat /\ 1 <= request[c].at
      /\ request[c].at <= Len(request[c].calls) /\ Found(Current(c), request[c].seen)
  BY <1>1 DEF RequestOK, RequestSet
<1>3. Current(c) \in GoodCall
  BY <1>2 DEF Current
<1> QED
  BY <1>1, <1>2, <1>3

LEMMA WriteStep ==
  ASSUME NEW c, Write(c)
  PROVE  request[c].step = "write" /\ writer \in {c, Null}
BY DEF Write

LEMMA WriteKeeps ==
  ASSUME TypeInv, NEW c \in Clients, Write(c)
  PROVE  TypeInv'
<1> USE DEF TypeInv
<1> DEFINE call == Current(c)
           seen == request[c].seen
<1>1. /\ request[c] \in RequestSet /\ RequestOK(c) /\ request[c].step = "write"
      /\ request[c].at <= Len(request[c].calls) /\ call \in GoodCall /\ Found(call, seen)
  BY WriteState, WriteStep
<1>2. View(c) \in TableSet /\ StorageOK' /\ writer \in {c, Null}
  BY DEF View, Write, StorageOK
<1>3. CASE Fail(c) /\ UNCHANGED issued
  BY <1>2, <1>3, EndedKeeps DEF Write, Fail
<1>4. CASE ~Conflict(call, seen, View(c))
  <2>1. txn' = Written(call, seen, View(c)) /\ txn' \in TableSet /\ writer' = c
    BY <1>1, <1>2, <1>4, WrittenTables DEF Write
  <2>2. /\ issued' \in [pools : 0..MaxPools, volumes : 0..MaxVolumes]
        /\ call.do = "create_pool" => issued'.pools = issued.pools + 1 /\ issued'.pools \in Pools
        /\ call.do = "create_volume" => issued'.volumes = issued.volumes + 1 /\ issued'.volumes \in Volumes
    BY <1>4, TablesAssumption DEF Write, Pools, Volumes
  <2>3. CASE request' = Onward(c)
    BY <1>1, <1>2, <2>1, <2>2, <2>3, OnwardKeeps DEF Write
  <2>4. CASE /\ call.do \in {"create_pool", "create_volume", "ensure_endpoint"}
             /\ request' = IF call.do = "create_pool"
                             THEN [request EXCEPT ![c].step = "provision", ![c].made = issued.pools + 1]
                             ELSE [request EXCEPT ![c].step = "provision"]
    <3>1. request' \in [Clients -> RequestSet]
      BY <1>1, <2>2, <2>4 DEF RequestSet
    <3>2. /\ request'[c].step = "provision" /\ request'[c].calls = request[c].calls
          /\ request'[c].at = request[c].at /\ request'[c].seen = seen
          /\ request'[c].result = request[c].result
      BY <1>1, <2>4 DEF RequestSet
    <3>3. call.do = "create_volume" => issued'.volumes \in Rows(txn'.volumes)
      <4>2. CASE call.do = "create_volume"
        <5>1. txn'.volumes[issued.volumes + 1] =
                [name |-> call.name, pool |-> seen.pool, array |-> seen.array, status |-> "creating"]
          BY <1>2, <2>1, <2>2, <4>2 DEF Written, VolumeAdded, TableSet
        <5>2. txn'.volumes[issued.volumes + 1] \in VolumeRow
          BY <1>1, <4>2, <5>1 DEF VolumeRow, GoodCall, Found
        <5> QED
          BY <2>1, <2>2, <4>2, <5>2, Nulls DEF Rows, TableSet
      <4> QED
        BY <4>2
    <3>4. RequestOK(c)'
      <4>1. Current(c)' = call
        BY <3>2 DEF Current
      <4>2. Underway(call)'
        <5>1. CASE call.do = "create_pool"
          BY <2>2, <4>1, <5>1 DEF Underway
        <5>2. CASE call.do = "create_volume"
          BY <3>3, <4>1, <5>2 DEF Underway
        <5> QED
          BY <2>4, <4>1, <5>1, <5>2 DEF Underway
      <4>3. (Found(call, seen))' = Found(call, seen) /\ (Underway(Current(c)))' = (Underway(call))'
        BY <3>2, <4>1 DEF Underway, Found
      <4> QED
        BY <1>1, <2>1, <3>2, <4>1, <4>2, <4>3 DEF RequestOK
    <3>5. ASSUME NEW d \in Clients, d # c PROVE RequestOK(d)'
      <4>1. request'[d] = request[d]
        BY <2>4, <3>5
      <4> QED
        BY <1>2, <2>1, <3>5, <4>1, OthersOK
    <3> QED
      BY <1>2, <2>1, <2>2, <3>1, <3>4, <3>5 DEF Write
  <2> QED
    BY <1>4, <2>3, <2>4 DEF Write
<1> QED
  BY <1>3, <1>4 DEF Write

LEMMA ProvisionKeeps ==
  ASSUME TypeInv, NEW c \in Clients, Provision(c)
  PROVE  TypeInv'
<1> USE DEF TypeInv
<1> DEFINE call == Current(c)
           seen == request[c].seen
<1>1. /\ request[c] \in RequestSet /\ RequestOK(c) /\ request[c].step = "provision"
      /\ request[c].at <= Len(request[c].calls) /\ call \in GoodCall /\ Found(call, seen)
      /\ writer = c /\ Underway(call)
  BY DEF Provision, RequestSet, Current, RequestOK
<1>2. faults' \in 0..MaxFaults
  BY RequestsAssumption DEF Provision, EnsurePool, EnsureLvol, EnsureExport
<1>3. CASE call.do = "create_pool" /\ EnsurePool(c) /\ UNCHANGED db
  <2>1. issued.pools \in Pools
    BY <1>1, <1>3 DEF Underway
  <2>2. CASE /\ spdk' = [backing |-> spdk.backing \cup {issued.pools},
                          lvstores |-> Lvstore(issued.pools, <<call.array, call.group>>)]
             /\ request' = Onward(c) /\ UNCHANGED <<writer, txn, faults>>
    <3>1. Lvstore(issued.pools, <<call.array, call.group>>)
            \in [Arrays \X PoolNames -> Pools \cup {Null}]
      BY <2>1 DEF Lvstore, StorageOK
    <3>2. \A an \in Arrays \X PoolNames :
            Lvstore(issued.pools, <<call.array, call.group>>)[an] \in spdk.backing \cup {issued.pools, Null}
      BY DEF Lvstore, StorageOK
    <3>3. StorageOK'
      BY <2>1, <2>2, <3>1, <3>2 DEF StorageOK
    <3> QED
      BY <1>1, <1>2, <1>3, <2>2, <3>3, OnwardKeeps DEF Provision
  <2>3. CASE \E made \in SUBSET {issued.pools} :
               spdk' = [spdk EXCEPT !.backing = @ \cup made] /\ Fail(c)
    <3>1. PICK made \in SUBSET {issued.pools} : spdk' = [spdk EXCEPT !.backing = @ \cup made] /\ Fail(c)
      BY <2>3
    <3>2. StorageOK'
      BY <2>1, <3>1 DEF StorageOK
    <3> QED
      BY <1>1, <1>2, <1>3, <3>1, <3>2, EndedKeeps DEF Provision, Fail
  <2> QED
    BY <1>3, <2>2, <2>3 DEF EnsurePool
<1>4. CASE call.do = "create_volume" /\ EnsureLvol(c) /\ UNCHANGED spdk
  <2> DEFINE v == issued.volumes
  <2>1. v \in Volumes /\ txn.volumes[v] \in VolumeRow
    BY <1>1, <1>4, Nulls DEF Underway, Rows, TableSet
  <2>2. ASSUME NEW status \in {"available", "error"} PROVE VolumeMade(v, status) \in TableSet
    <3> DEFINE row == [txn.volumes[v] EXCEPT !.status = status]
               volumes == [txn.volumes EXCEPT ![v] = row]
    <3>1. row \in VolumeRow
      BY <2>1 DEF VolumeRow
    <3>2. VolumeMade(v, status) = [txn EXCEPT !.volumes = volumes]
      BY DEF VolumeMade
    <3>3. volumes \in [Volumes -> VolumeRow \cup {Null}]
      BY <3>1 DEF TableSet
    <3> HIDE DEF volumes
    <3> QED
      BY <3>2, <3>3 DEF TableSet
  <2>3. StorageOK'
    BY <1>4 DEF StorageOK
  <2>4. CASE txn' = VolumeMade(v, "available") /\ request' = Onward(c) /\ UNCHANGED <<db, writer, faults>>
    BY <1>1, <1>2, <2>2, <2>3, <2>4, OnwardKeeps DEF Provision
  <2>5. CASE db' = (IF request[c].keeps THEN VolumeMade(v, "error") ELSE db) /\ Fail(c)
    <3>1. db' \in TableSet
      BY <2>2, <2>5
    <3> QED
      BY <1>1, <1>2, <2>3, <2>5, <3>1, EndedKeeps DEF Provision, Fail
  <2> QED
    BY <1>4, <2>4, <2>5 DEF EnsureLvol
<1>5. CASE EnsureExport(c) /\ UNCHANGED <<db, spdk>>
  <2>1. StorageOK'
    BY <1>5 DEF StorageOK
  <2>2. CASE request' = Onward(c) /\ UNCHANGED <<writer, txn, faults>>
    BY <1>1, <1>2, <1>5, <2>1, <2>2, OnwardKeeps DEF Provision
  <2>3. CASE Fail(c)
    BY <1>1, <1>2, <1>5, <2>1, <2>3, EndedKeeps DEF Provision, Fail
  <2> QED
    BY <1>5, <2>2, <2>3 DEF EnsureExport
<1> QED
  BY <1>3, <1>4, <1>5 DEF Provision

LEMMA ServeKeeps ==
  ASSUME TypeInv, NEW c \in Clients, Serve(c)
  PROVE  TypeInv'
<1>1. CASE LockFails(c)
  <2>1. StorageOK'
    BY <1>1 DEF LockFails, StorageOK, TypeInv
  <2> QED
    BY <1>1, <2>1, EndedKeeps DEF LockFails, Fail, TypeInv
<1>2. CASE Commit(c)
  <2>1. StorageOK' /\ db' \in TableSet
    BY <1>2 DEF Commit, StorageOK, TypeInv
  <2> QED
    BY <1>2, <2>1, EndedKeeps DEF Commit, TypeInv
<1> QED
  BY <1>1, <1>2, CheckKeeps, WriteKeeps, ProvisionKeeps DEF Serve

LEMMA CrashKeeps ==
  ASSUME TypeInv, Crash
  PROVE  TypeInv'
<1> USE DEF TypeInv
<1>1. \A c \in Clients : /\ request'[c] \in RequestSet /\ request'[c].step = "idle"
                         /\ request'[c].at = 1 /\ Len(request'[c].calls) = 0
  <2>1. ASSUME NEW c \in Clients
        PROVE  /\ Replied(c, "lost") \in RequestSet /\ Replied(c, "lost").step = "idle"
               /\ Replied(c, "lost").at = 1 /\ Len(Replied(c, "lost").calls) = 0
    BY IdleTyped DEF Replied, Idle, RequestSet
  <2> QED
    BY <2>1, IdleTyped DEF Crash
<1>2. \A c \in Clients : RequestOK(c)'
  BY <1>1, Nulls DEF RequestOK, Crash
<1>3. request' \in [Clients -> RequestSet]
  BY <1>1 DEF Crash
<1>4. StorageOK'
  BY DEF Crash, StorageOK, NoStorage
<1>5. faults' \in 0..MaxFaults
  BY RequestsAssumption DEF Crash
<1> QED
  BY <1>2, <1>3, <1>4, <1>5, NoTablesTyped DEF Crash

LEMMA RestartKeeps ==
  ASSUME TypeInv, Restart
  PROVE  TypeInv'
<1> USE DEF TypeInv
<1>1. ASSUME NEW an \in Arrays \X PoolNames
      PROVE  TheOne({p \in PoolCalled(db, an[2], an[1]) : ~Claimed(p)}) \in Rows(db.pools) \cup {Null}
  BY DEF TheOne, PoolCalled, PoolsOf
<1>2. Rows(db.pools) \subseteq Pools
  BY DEF Rows, TableSet
<1>3. StorageOK'
  BY <1>1, <1>2 DEF Restart, Reconciled, StorageOK
<1>4. \A c \in Clients : RequestOK(c)'
  BY DEF Restart, RequestOK, Current, Underway
<1> QED
  BY <1>3, <1>4 DEF Restart

-----------------------------------------------------------------------------
\* What the routes and the vendors' commands call.


\* A call before it has names of what its service needs.
Draft ==
  [do : {Null} \cup ArrayCalls \cup PoolCalls \cup HostCalls \cup VolumeCalls \cup PairCalls,
   once : BOOLEAN, array : Arrays \cup {Null}, pool : Pools \cup {Null},
   group : PoolNames \cup {Null}, volume : Volumes \cup {Null},
   name : VolumeNames \cup {Null}, host : Hosts \cup {Null}, ports : SUBSET Ports]

Known == ArrayCalls \cup PoolCalls \cup HostCalls \cup VolumeCalls \cup PairCalls

LEMMA DraftIsGood ==
  ASSUME NEW call \in Draft, call.do \in Known,
         call.do \in ArrayCalls \cup {"create_pool", "attach_pool", "detach_pool"} => call.array \in Arrays,
         call.do = "create_pool" => call.group \in PoolNames,
         call.do \in PoolCalls \ {"create_pool"} => call.pool \in Pools,
         call.do \in HostCalls \cup PairCalls => call.host \in Hosts,
         call.do = "create_volume" => call.name \in VolumeNames
  PROVE  call \in GoodCall
BY DEF Draft, Known, GoodCall

LEMMA DoDrafts ==
  ASSUME NEW what \in Known
  PROVE  Do(what) \in Draft /\ Do(what).do = what
<1>1. Call \in Draft
  BY DEF Call, Draft
<1> QED
  BY <1>1 DEF Do, Draft, Known

\* A call before it names what it is about.
LEMMA DoIs ==
  ASSUME NEW what \in Known
  PROVE  /\ Do(what) \in Draft /\ Do(what).do = what /\ ~Do(what).once
         /\ Do(what).pool = Null /\ Do(what).volume = Null
<1>1. Do(what) \in Draft
  BY DoDrafts
<1> QED
  BY <1>1 DEF Do, Call

\* A draft with one more name is a draft, and is the same but for that name.
LEMMA WithOnce ==
  ASSUME NEW d \in Draft, NEW once \in BOOLEAN
  PROVE  LET e == [d EXCEPT !.once = once]
         IN  /\ e \in Draft
             /\ e.do = d.do /\ e.array = d.array /\ e.pool = d.pool /\ e.group = d.group
             /\ e.volume = d.volume /\ e.name = d.name /\ e.host = d.host
BY DEF Draft

LEMMA WithArray ==
  ASSUME NEW d \in Draft, NEW a \in Arrays \cup {Null}
  PROVE  LET e == [d EXCEPT !.array = a]
         IN  /\ e \in Draft /\ e.array = a
             /\ e.do = d.do /\ (~d.once => ~e.once) /\ e.pool = d.pool /\ e.group = d.group
             /\ e.volume = d.volume /\ e.name = d.name /\ e.host = d.host
BY DEF Draft

LEMMA WithPool ==
  ASSUME NEW d \in Draft, NEW p \in Pools \cup {Null}
  PROVE  LET e == [d EXCEPT !.pool = p]
         IN  /\ e \in Draft /\ e.pool = p
             /\ e.do = d.do /\ (~d.once => ~e.once) /\ e.array = d.array /\ e.group = d.group
             /\ e.volume = d.volume /\ e.name = d.name /\ e.host = d.host
BY DEF Draft

LEMMA WithGroup ==
  ASSUME NEW d \in Draft, NEW g \in PoolNames \cup {Null}
  PROVE  LET e == [d EXCEPT !.group = g]
         IN  /\ e \in Draft /\ e.group = g
             /\ e.do = d.do /\ (~d.once => ~e.once) /\ e.array = d.array /\ e.pool = d.pool
             /\ e.volume = d.volume /\ e.name = d.name /\ e.host = d.host
BY DEF Draft

LEMMA WithVolume ==
  ASSUME NEW d \in Draft, NEW v \in Volumes \cup {Null}
  PROVE  LET e == [d EXCEPT !.volume = v]
         IN  /\ e \in Draft /\ e.volume = v
             /\ e.do = d.do /\ (~d.once => ~e.once) /\ e.array = d.array /\ e.pool = d.pool
             /\ e.group = d.group /\ e.name = d.name /\ e.host = d.host
BY DEF Draft

LEMMA WithName ==
  ASSUME NEW d \in Draft, NEW n \in VolumeNames \cup {Null}
  PROVE  LET e == [d EXCEPT !.name = n]
         IN  /\ e \in Draft /\ e.name = n
             /\ e.do = d.do /\ (~d.once => ~e.once) /\ e.array = d.array /\ e.pool = d.pool
             /\ e.group = d.group /\ e.volume = d.volume /\ e.host = d.host
BY DEF Draft

LEMMA WithHost ==
  ASSUME NEW d \in Draft, NEW h \in Hosts \cup {Null}
  PROVE  LET e == [d EXCEPT !.host = h]
         IN  /\ e \in Draft /\ e.host = h
             /\ e.do = d.do /\ (~d.once => ~e.once) /\ e.array = d.array /\ e.pool = d.pool
             /\ e.group = d.group /\ e.volume = d.volume /\ e.name = d.name
BY DEF Draft

LEMMA WithPorts ==
  ASSUME NEW d \in Draft, NEW xs \in SUBSET Ports
  PROVE  LET e == [d EXCEPT !.ports = xs]
         IN  /\ e \in Draft
             /\ e.do = d.do /\ (~d.once => ~e.once) /\ e.array = d.array /\ e.pool = d.pool
             /\ e.group = d.group /\ e.volume = d.volume /\ e.name = d.name /\ e.host = d.host
BY DEF Draft

\* Calls the model writes out where they are made.
OnGroup(what, a, g) == [Do(what) EXCEPT !.array = a, !.group = g]
OnNew(what, a, g, name) == [OnVolume(what, a, name) EXCEPT !.group = g]
OnName(what, p, name) == [Do(what) EXCEPT !.pool = p, !.name = name]
OnMap(what, h, v) == [Do(what) EXCEPT !.host = h, !.volume = v]

\* Calls that name an array, a pool, a host, a volume.
LEMMA ArrayDraft ==
  ASSUME NEW what \in Known, NEW a \in Arrays
  PROVE  LET call == [Do(what) EXCEPT !.array = a]
         IN  /\ call \in Draft /\ call.do = what /\ ~call.once /\ call.pool = Null /\ call.volume = Null
             /\ call.array = a
BY DoIs, WithArray

LEMMA PoolDraft ==
  ASSUME NEW what \in Known, NEW p \in Pools, NEW a \in Arrays \cup {Null}
  PROVE  LET call == OnPool(what, p, a)
         IN  /\ call \in Draft /\ call.do = what /\ ~call.once /\ call.volume = Null /\ call.pool = p
             /\ call.array = a
<1> DEFINE one == [Do(what) EXCEPT !.pool = p]
<1>1. /\ one \in Draft /\ one.do = what /\ ~one.once /\ one.volume = Null /\ one.pool = p
  BY DoIs, WithPool
<1>2. OnPool(what, p, a) = [one EXCEPT !.array = a]
  BY DoIs DEF OnPool, Draft
<1> HIDE DEF one
<1> QED
  BY <1>1, <1>2, WithArray

LEMMA GroupDraft ==
  ASSUME NEW what \in Known, NEW a \in Arrays, NEW g \in PoolNames
  PROVE  LET call == OnGroup(what, a, g)
         IN  /\ call \in Draft /\ call.do = what /\ ~call.once /\ call.pool = Null /\ call.volume = Null
             /\ call.array = a /\ call.group = g
<1> DEFINE one == [Do(what) EXCEPT !.array = a]
<1>1. /\ one \in Draft /\ one.do = what /\ ~one.once /\ one.pool = Null /\ one.volume = Null
      /\ one.array = a
  BY DoIs, WithArray
<1>2. OnGroup(what, a, g) = [one EXCEPT !.group = g]
  BY DoIs DEF OnGroup, Draft
<1> HIDE DEF one
<1> QED
  BY <1>1, <1>2, WithGroup

LEMMA HostDraft ==
  ASSUME NEW what \in Known, NEW h \in Hosts, NEW xs \in SUBSET Ports
  PROVE  LET call == OnHost(what, h, xs)
         IN  /\ call \in Draft /\ call.do = what /\ ~call.once /\ call.pool = Null /\ call.volume = Null
             /\ call.host = h
<1> DEFINE one == [Do(what) EXCEPT !.host = h]
<1>1. /\ one \in Draft /\ one.do = what /\ ~one.once /\ one.pool = Null /\ one.volume = Null
      /\ one.host = h
  BY DoIs, WithHost
<1>2. OnHost(what, h, xs) = [one EXCEPT !.ports = xs]
  BY DoIs DEF OnHost, Draft
<1> HIDE DEF one
<1> QED
  BY <1>1, <1>2, WithPorts

LEMMA VolumeDraft ==
  ASSUME NEW what \in Known, NEW v \in Volumes
  PROVE  LET call == [Do(what) EXCEPT !.volume = v]
         IN  /\ call \in Draft /\ call.do = what /\ ~call.once /\ call.pool = Null /\ call.volume = v
BY DoIs, WithVolume

LEMMA NamedDraft ==
  ASSUME NEW what \in Known, NEW p \in Pools, NEW n \in VolumeNames
  PROVE  LET call == OnName(what, p, n)
         IN  /\ call \in Draft /\ call.do = what /\ ~call.once /\ call.volume = Null /\ call.pool = p
             /\ call.name = n
<1> DEFINE one == [Do(what) EXCEPT !.pool = p]
<1>1. /\ one \in Draft /\ one.do = what /\ ~one.once /\ one.volume = Null /\ one.pool = p
  BY DoIs, WithPool
<1>2. OnName(what, p, n) = [one EXCEPT !.name = n]
  BY DoIs DEF OnName, Draft
<1> HIDE DEF one
<1> QED
  BY <1>1, <1>2, WithName

LEMMA MappedDraft ==
  ASSUME NEW what \in Known, NEW h \in Hosts, NEW v \in Volumes
  PROVE  LET call == OnMap(what, h, v)
         IN  /\ call \in Draft /\ call.do = what /\ ~call.once /\ call.pool = Null /\ call.host = h
             /\ call.volume = v
<1> DEFINE one == [Do(what) EXCEPT !.host = h]
<1>1. /\ one \in Draft /\ one.do = what /\ ~one.once /\ one.pool = Null /\ one.volume = Null
      /\ one.host = h
  BY DoIs, WithHost
<1>2. OnMap(what, h, v) = [one EXCEPT !.volume = v]
  BY DoIs DEF OnMap, Draft
<1> HIDE DEF one
<1> QED
  BY <1>1, <1>2, WithVolume

LEMMA NameDraft ==
  ASSUME NEW what \in Known, NEW a \in Arrays, NEW n \in VolumeNames
  PROVE  LET call == OnVolume(what, a, n)
         IN  /\ call \in Draft /\ call.do = what /\ ~call.once /\ call.pool = Null /\ call.volume = Null
             /\ call.array = a /\ call.name = n
<1> DEFINE one == [Do(what) EXCEPT !.array = a]
<1>1. /\ one \in Draft /\ one.do = what /\ ~one.once /\ one.pool = Null /\ one.volume = Null
      /\ one.array = a
  BY DoIs, WithArray
<1>2. OnVolume(what, a, n) = [one EXCEPT !.name = n]
  BY DoIs DEF OnVolume, Draft
<1> HIDE DEF one
<1> QED
  BY <1>1, <1>2, WithName

LEMMA GroupedDraft ==
  ASSUME NEW what \in Known, NEW a \in Arrays, NEW g \in PoolNames, NEW n \in VolumeNames
  PROVE  LET call == OnNew(what, a, g, n)
         IN  /\ call \in Draft /\ call.do = what /\ ~call.once /\ call.pool = Null /\ call.volume = Null
             /\ call.array = a /\ call.name = n /\ call.group = g
BY NameDraft, WithGroup DEF OnNew

LEMMA PairDraft ==
  ASSUME NEW what \in Known, NEW a \in Arrays, NEW h \in Hosts, NEW n \in VolumeNames
  PROVE  LET call == OnPair(what, a, h, n)
         IN  /\ call \in Draft /\ call.do = what /\ ~call.once /\ call.pool = Null /\ call.volume = Null
             /\ call.array = a /\ call.name = n /\ call.host = h
BY NameDraft, WithHost DEF OnPair

\* A draft that names what its service needs is a good call.
LEMMA GoodDrafts ==
  ASSUME NEW call \in Draft
  PROVE  /\ call.do \in ArrayCalls /\ call.array \in Arrays => call \in GoodCall
         /\ call.do = "create_pool" /\ call.array \in Arrays /\ call.group \in PoolNames => call \in GoodCall
         /\ call.do \in {"attach_pool", "detach_pool"} /\ call.array \in Arrays /\ call.pool \in Pools => call \in GoodCall
         /\ call.do = "delete_pool" /\ call.pool \in Pools => call \in GoodCall
         /\ call.do \in HostCalls \cup PairCalls /\ call.host \in Hosts => call \in GoodCall
         /\ call.do = "create_volume" /\ call.name \in VolumeNames => call \in GoodCall
         /\ call.do = "delete_volume" => call \in GoodCall
<1>1. CASE call.do \in ArrayCalls
  BY <1>1, DraftIsGood DEF Known, ArrayCalls, PoolCalls, HostCalls, PairCalls
<1>2. CASE call.do \in PoolCalls
  BY <1>2, DraftIsGood DEF Known, ArrayCalls, PoolCalls, HostCalls, PairCalls
<1>3. CASE call.do \in HostCalls
  BY <1>3, DraftIsGood DEF Known, ArrayCalls, PoolCalls, HostCalls, PairCalls
<1>4. CASE call.do \in PairCalls
  BY <1>4, DraftIsGood DEF Known, ArrayCalls, PoolCalls, HostCalls, PairCalls
<1>5. CASE call.do \in VolumeCalls
  BY <1>5, DraftIsGood DEF Known, ArrayCalls, PoolCalls, HostCalls, PairCalls, VolumeCalls
<1> QED
  BY <1>1, <1>2, <1>3, <1>4, <1>5 DEF ArrayCalls, PoolCalls, HostCalls, PairCalls, VolumeCalls

\* A good call is a draft, and stays good when it is to find what exists.
LEMMA OnceGood ==
  ASSUME NEW call \in GoodCall, NEW once \in BOOLEAN
  PROVE  [call EXCEPT !.once = once] \in GoodCall
<1> DEFINE e == [call EXCEPT !.once = once]
<1>1. call \in Draft
  BY DEF GoodCall, Draft
<1>2. e \in Draft /\ e.do = call.do
  BY <1>1, WithOnce
<1>3. e.array = call.array /\ e.pool = call.pool /\ e.group = call.group /\ e.name = call.name /\ e.host = call.host
  BY <1>1, WithOnce
<1> HIDE DEF e
<1>4. e \in GoodCall
  BY <1>2, <1>3 DEF GoodCall, Draft
<1> QED
  BY <1>4 DEF e

LEMMA PairGood ==
  ASSUME NEW what \in PairCalls, NEW a \in Arrays, NEW h \in Hosts, NEW n \in VolumeNames
  PROVE  OnPair(what, a, h, n) \in GoodCall
<1>1. OnPair(what, a, h, n) \in Draft /\ OnPair(what, a, h, n).do = what /\ OnPair(what, a, h, n).host = h
  BY PairDraft DEF Known
<1> QED
  BY <1>1, GoodDrafts

LEMMA CallsTyped ==
  /\ \A a \in Arrays, g \in PoolNames, n \in VolumeNames : Mkvdisk(a, g, n) \in Seq(GoodCall)
  /\ \A a \in Arrays, n \in VolumeNames : Rmvdisk(a, n) \in Seq(GoodCall)
  /\ \A h \in Hosts, xs \in SUBSET Ports : Mkhost(h, xs) \in Seq(GoodCall)
  /\ \A h \in Hosts : DeleteHost(h) \in Seq(GoodCall)
  /\ \A h \in Hosts, xs \in SUBSET Ports : <<OnHost("add_host_port", h, xs)>> \in Seq(GoodCall)
  /\ \A a \in Arrays, h \in Hosts, n \in VolumeNames :
       /\ Mkvdiskhostmap(a, h, n) \in Seq(GoodCall)
       /\ Rmvdiskhostmap(a, h, n) \in Seq(GoodCall)
       /\ WsapiCreateVlun(a, h, n) \in Seq(GoodCall)
  /\ \A g \in PoolNames : PostPool(g) \in Seq(GoodCall)
  /\ \A p \in Pools : DeletePool(p) \in Seq(GoodCall)
  /\ \A p \in Pools, a \in Arrays : AttachPool(p, a) \in Seq(GoodCall) /\ DetachPool(p, a) \in Seq(GoodCall)
  /\ \A a \in Arrays :
       PostArray(a) \in Seq(GoodCall) /\ DeleteArray(a) \in Seq(GoodCall) /\ PostEndpoint(a) \in Seq(GoodCall)
  /\ \A p \in Pools, n \in VolumeNames : PostVolume(p, n) \in Seq(GoodCall)
  /\ \A v \in Volumes : DeleteVolume(v) \in Seq(GoodCall)
  /\ \A h \in Hosts, xs \in SUBSET Ports : PostHost(h, xs) \in Seq(GoodCall) /\ PatchHost(h, xs) \in Seq(GoodCall)
  /\ \A h \in Hosts, v \in Volumes : PostMapping(h, v) \in Seq(GoodCall) /\ DeleteMapping(h, v) \in Seq(GoodCall)
<1>0. ArrayCalls \cup PoolCalls \cup HostCalls \cup VolumeCalls \cup PairCalls = Known
  BY DEF Known
<1>1. ASSUME NEW a \in Arrays, NEW g \in PoolNames, NEW n \in VolumeNames
      PROVE  Mkvdisk(a, g, n) \in Seq(GoodCall)
  <2> DEFINE call == OnNew("create_volume", a, g, n)
  <2>1. call \in Draft /\ call.do = "create_volume" /\ call.name = n
    BY <1>0, GroupedDraft DEF VolumeCalls
  <2>2. Mkvdisk(a, g, n) = <<call>>
    BY DEF Mkvdisk, OnNew
  <2> HIDE DEF call
  <2>3. call \in GoodCall
    BY <2>1, GoodDrafts
  <2> QED
    BY <2>2, <2>3
<1>2. ASSUME NEW a \in Arrays, NEW n \in VolumeNames
      PROVE  Rmvdisk(a, n) \in Seq(GoodCall)
  <2>1. OnVolume("delete_volume", a, n) \in Draft /\ OnVolume("delete_volume", a, n).do = "delete_volume"
    BY <1>0, NameDraft DEF VolumeCalls
  <2>2. OnVolume("delete_volume", a, n) \in GoodCall
    BY <2>1, GoodDrafts
  <2> QED
    BY <2>2 DEF Rmvdisk
<1>3. ASSUME NEW what \in HostCalls, NEW h \in Hosts, NEW xs \in SUBSET Ports
      PROVE  OnHost(what, h, xs) \in GoodCall
  <2>1. OnHost(what, h, xs) \in Draft /\ OnHost(what, h, xs).do = what /\ OnHost(what, h, xs).host = h
    BY <1>0, HostDraft
  <2> QED
    BY <2>1, GoodDrafts
<1>4. ASSUME NEW h \in Hosts, NEW xs \in SUBSET Ports
      PROVE  /\ Mkhost(h, xs) \in Seq(GoodCall) /\ DeleteHost(h) \in Seq(GoodCall)
             /\ <<OnHost("add_host_port", h, xs)>> \in Seq(GoodCall)
             /\ PostHost(h, xs) \in Seq(GoodCall) /\ PatchHost(h, xs) \in Seq(GoodCall)
  BY <1>3 DEF HostCalls, Mkhost, DeleteHost, PostHost, PatchHost
<1>5. ASSUME NEW what \in ArrayCalls, NEW a \in Arrays
      PROVE  [Do(what) EXCEPT !.array = a] \in GoodCall
  <2> DEFINE call == [Do(what) EXCEPT !.array = a]
  <2>1. call \in Draft /\ call.do = what /\ call.array = a
    BY <1>0, ArrayDraft
  <2> HIDE DEF call
  <2>2. call \in GoodCall
    BY <2>1, GoodDrafts
  <2> QED
    BY <2>2 DEF call
<1>6. ASSUME NEW what \in PairCalls, NEW a \in Arrays, NEW h \in Hosts, NEW n \in VolumeNames
      PROVE  OnPair(what, a, h, n) \in GoodCall
  BY PairGood
<1>7. ASSUME NEW a \in Arrays, NEW h \in Hosts, NEW n \in VolumeNames
      PROVE  /\ Mkvdiskhostmap(a, h, n) \in Seq(GoodCall) /\ Rmvdiskhostmap(a, h, n) \in Seq(GoodCall)
             /\ WsapiCreateVlun(a, h, n) \in Seq(GoodCall)
  <2>1. EnsureIscsiEndpoint(a) \in GoodCall
    BY <1>5 DEF EnsureIscsiEndpoint, ArrayCalls
  <2> QED
    BY <1>6, <2>1 DEF PairCalls, Mkvdiskhostmap, Rmvdiskhostmap, WsapiCreateVlun
<1>8. ASSUME NEW what \in PairCalls, NEW h \in Hosts, NEW v \in Volumes
      PROVE  OnMap(what, h, v) \in GoodCall
  <2>1. OnMap(what, h, v) \in Draft /\ OnMap(what, h, v).do = what /\ OnMap(what, h, v).host = h
    BY <1>0, MappedDraft
  <2> QED
    BY <2>1, GoodDrafts
<1>9. ASSUME NEW g \in PoolNames PROVE PostPool(g) \in Seq(GoodCall)
  <2> DEFINE call == OnGroup("create_pool", Default, g)
  <2>1. call \in Draft /\ call.do = "create_pool" /\ call.array = Default /\ call.group = g
    BY <1>0, GroupDraft, TablesAssumption DEF PoolCalls
  <2>2. call \in GoodCall
    BY <2>1, GoodDrafts, TablesAssumption
  <2> QED
    BY <2>2 DEF PostPool, OnGroup
<1>10. ASSUME NEW what \in PoolCalls \ {"create_pool"}, NEW p \in Pools, NEW a \in Arrays \cup {Null},
              what # "delete_pool" => a \in Arrays
       PROVE  OnPool(what, p, a) \in GoodCall
  <2>1. /\ OnPool(what, p, a) \in Draft /\ OnPool(what, p, a).do = what
        /\ OnPool(what, p, a).pool = p /\ OnPool(what, p, a).array = a
    BY <1>0, PoolDraft
  <2>2. CASE what = "delete_pool"
    BY <2>1, <2>2, GoodDrafts
  <2>3. CASE what \in {"attach_pool", "detach_pool"}
    BY <1>10, <2>1, <2>3, GoodDrafts
  <2> QED
    BY <2>2, <2>3 DEF PoolCalls
<1>11. ASSUME NEW p \in Pools, NEW n \in VolumeNames PROVE PostVolume(p, n) \in Seq(GoodCall)
  <2> DEFINE call == OnName("create_volume", p, n)
  <2>1. call \in Draft /\ call.do = "create_volume" /\ call.name = n
    BY <1>0, NamedDraft DEF VolumeCalls
  <2>2. call \in GoodCall
    BY <2>1, GoodDrafts
  <2> QED
    BY <2>2 DEF PostVolume, OnName
<1>12. ASSUME NEW v \in Volumes PROVE DeleteVolume(v) \in Seq(GoodCall)
  <2> DEFINE call == [Do("delete_volume") EXCEPT !.volume = v]
  <2>1. call \in Draft /\ call.do = "delete_volume"
    BY <1>0, VolumeDraft DEF VolumeCalls
  <2>2. DeleteVolume(v) = <<call>>
    BY DEF DeleteVolume
  <2> HIDE DEF call
  <2>3. call \in GoodCall
    BY <2>1, GoodDrafts
  <2> QED
    BY <2>2, <2>3
<1>13. ASSUME NEW p \in Pools
       PROVE  /\ DeletePool(p) \in Seq(GoodCall)
              /\ \A a \in Arrays : AttachPool(p, a) \in Seq(GoodCall) /\ DetachPool(p, a) \in Seq(GoodCall)
  BY <1>10 DEF PoolCalls, DeletePool, AttachPool, DetachPool
<1>14. ASSUME NEW h \in Hosts, NEW v \in Volumes
       PROVE  PostMapping(h, v) \in Seq(GoodCall) /\ DeleteMapping(h, v) \in Seq(GoodCall)
  <2>1. OnMap("create_mapping", h, v) \in GoodCall /\ OnMap("delete_mapping", h, v) \in GoodCall
    BY <1>8 DEF PairCalls
  <2> QED
    BY <2>1 DEF PostMapping, DeleteMapping, OnMap
<1>15. ASSUME NEW a \in Arrays
       PROVE PostArray(a) \in Seq(GoodCall) /\ DeleteArray(a) \in Seq(GoodCall) /\ PostEndpoint(a) \in Seq(GoodCall)
  BY <1>5 DEF ArrayCalls, PostArray, DeleteArray, PostEndpoint
<1> QED
  BY <1>1, <1>2, <1>4, <1>7, <1>9, <1>11, <1>12, <1>13, <1>14, <1>15

\* A vendor's commands are tables of good calls.
LEMMA CommandTyped ==
  SvcTasks \cup CommandHandlers \cup WsapiRoutes \subseteq Seq(GoodCall)
<1>1. SvcTasks \subseteq Seq(GoodCall)
  <2>1. /\ \A h \in Hosts : Rmhost(h) \in Seq(GoodCall)
        /\ \A h \in Hosts, x \in Ports : Mkhost(h, {x}) \in Seq(GoodCall)
        /\ \A h \in Hosts, x \in Ports : Addhostport(h, x) \in Seq(GoodCall)
    BY CallsTyped DEF Addhostport, Rmhost
  <2> DEFINE A == {Mkvdisk(a, g, n) : a \in Arrays, g \in PoolNames, n \in VolumeNames}
             B == {Rmvdisk(a, n) : a \in Arrays, n \in VolumeNames}
             C == {Mkhost(h, {x}) : h \in Hosts, x \in Ports}
             D == {Rmhost(h) : h \in Hosts}
             E == {Addhostport(h, x) : h \in Hosts, x \in Ports}
             F == {Mkvdiskhostmap(a, h, n) : a \in Arrays, h \in Hosts, n \in VolumeNames}
             G == {Rmvdiskhostmap(a, h, n) : a \in Arrays, h \in Hosts, n \in VolumeNames}
  <2>10. SvcTasks = A \cup B \cup C \cup D \cup E \cup F \cup G
    BY DEF SvcTasks
  <2>11. A \subseteq Seq(GoodCall)
    BY <2>1, CallsTyped
  <2>12. B \subseteq Seq(GoodCall)
    BY <2>1, CallsTyped
  <2>13. ASSUME NEW calls \in C PROVE calls \in Seq(GoodCall)
    <3>1. PICK h \in Hosts, x \in Ports : calls = Mkhost(h, {x})
      OBVIOUS
    <3> QED
      BY <2>1, <3>1
  <2>14. D \subseteq Seq(GoodCall)
    BY <2>1, CallsTyped
  <2>15. E \subseteq Seq(GoodCall)
    BY <2>1
  <2>16. F \subseteq Seq(GoodCall)
    BY <2>1, CallsTyped
  <2>17. G \subseteq Seq(GoodCall)
    BY <2>1, CallsTyped
  <2> HIDE DEF A, B, C, D, E, F, G
  <2> QED
    BY <2>10, <2>11, <2>12, <2>13, <2>14, <2>15, <2>16, <2>17
<1>2. CommandHandlers \subseteq Seq(GoodCall)
  <2>1. \A a \in Arrays, h \in Hosts, n \in VolumeNames : Createvlun(a, h, n) = Mkvdiskhostmap(a, h, n)
    BY DEF Createvlun, Mkvdiskhostmap, ParEnsureIscsiEndpoint
  <2>2. \A a \in Arrays, n \in VolumeNames :
          /\ Removevv(a, n) \in Seq(GoodCall)
          /\ \A g \in PoolNames : Createvv(a, g, n) \in Seq(GoodCall)
          /\ \A h \in Hosts : Createvlun(a, h, n) \in Seq(GoodCall) /\ Removevlun(a, h, n) \in Seq(GoodCall)
    BY <2>1, CallsTyped DEF Createvv, Removevv, Removevlun
  <2>3. \A h \in Hosts : /\ Removehost(h) \in Seq(GoodCall)
                         /\ \A x \in Ports : Sethost(h, x) \in Seq(GoodCall)
                         /\ \A xs \in SUBSET Ports : Createhost(h, xs) \in Seq(GoodCall)
    BY CallsTyped DEF Removehost, Sethost, Addhostport, Createhost
  <2> DEFINE A == {Createvv(a, g, n) : a \in Arrays, g \in PoolNames, n \in VolumeNames}
             B == {Removevv(a, n) : a \in Arrays, n \in VolumeNames}
             C == {Createhost(h, xs) : h \in Hosts, xs \in SUBSET Ports}
             D == {Removehost(h) : h \in Hosts}
             E == {Sethost(h, x) : h \in Hosts, x \in Ports}
             F == {Createvlun(a, h, n) : a \in Arrays, h \in Hosts, n \in VolumeNames}
             G == {Removevlun(a, h, n) : a \in Arrays, h \in Hosts, n \in VolumeNames}
  <2>10. CommandHandlers = A \cup B \cup C \cup D \cup E \cup F \cup G
    BY DEF CommandHandlers
  <2>11. A \subseteq Seq(GoodCall)
    BY <2>2, <2>3
  <2>12. B \subseteq Seq(GoodCall)
    BY <2>2, <2>3
  <2>13. C \subseteq Seq(GoodCall)
    BY <2>2, <2>3
  <2>14. D \subseteq Seq(GoodCall)
    BY <2>2, <2>3
  <2>15. E \subseteq Seq(GoodCall)
    BY <2>2, <2>3
  <2>16. F \subseteq Seq(GoodCall)
    BY <2>2, <2>3
  <2>17. G \subseteq Seq(GoodCall)
    BY <2>2, <2>3
  <2> HIDE DEF A, B, C, D, E, F, G
  <2> QED
    BY <2>10, <2>11, <2>12, <2>13, <2>14, <2>15, <2>16, <2>17
<1>3. WsapiRoutes \subseteq Seq(GoodCall)
  <2>1. \A a \in Arrays, n \in VolumeNames :
          /\ WsapiDeleteVolume(a, n) \in Seq(GoodCall)
          /\ \A g \in PoolNames : WsapiCreateVolume(a, g, n) \in Seq(GoodCall)
          /\ \A h \in Hosts : /\ WsapiCreateVlun(a, h, n) \in Seq(GoodCall)
                               /\ WsapiDeleteVlun(a, h, n) \in Seq(GoodCall)
    BY CallsTyped DEF WsapiDeleteVolume, WsapiCreateVolume, WsapiDeleteVlun
  <2>2. \A h \in Hosts : /\ WsapiDeleteHost(h) \in Seq(GoodCall)
                         /\ \A xs \in SUBSET Ports : /\ WsapiCreateHost(h, xs) \in Seq(GoodCall)
                                                      /\ WsapiModifyHost(h, xs) \in Seq(GoodCall)
    BY CallsTyped DEF WsapiDeleteHost, WsapiCreateHost, WsapiModifyHost
  <2> DEFINE A == {WsapiCreateVolume(a, g, n) : a \in Arrays, g \in PoolNames, n \in VolumeNames}
             B == {WsapiDeleteVolume(a, n) : a \in Arrays, n \in VolumeNames}
             C == {WsapiCreateHost(h, xs) : h \in Hosts, xs \in SUBSET Ports}
             D == {WsapiModifyHost(h, xs) : h \in Hosts, xs \in SUBSET Ports \ {{}}}
             E == {WsapiDeleteHost(h) : h \in Hosts}
             F == {WsapiCreateVlun(a, h, n) : a \in Arrays, h \in Hosts, n \in VolumeNames}
             G == {WsapiDeleteVlun(a, h, n) : a \in Arrays, h \in Hosts, n \in VolumeNames}
  <2>10. WsapiRoutes = A \cup B \cup C \cup D \cup E \cup F \cup G
    BY DEF WsapiRoutes
  <2>11. A \subseteq Seq(GoodCall)
    BY <2>1, <2>2
  <2>12. B \subseteq Seq(GoodCall)
    BY <2>1, <2>2
  <2>13. C \subseteq Seq(GoodCall)
    BY <2>1, <2>2
  <2>14. D \subseteq Seq(GoodCall)
    BY <2>1, <2>2
  <2>15. E \subseteq Seq(GoodCall)
    BY <2>1, <2>2
  <2>16. F \subseteq Seq(GoodCall)
    BY <2>1, <2>2
  <2>17. G \subseteq Seq(GoodCall)
    BY <2>1, <2>2
  <2> HIDE DEF A, B, C, D, E, F, G
  <2> QED
    BY <2>10, <2>11, <2>12, <2>13, <2>14, <2>15, <2>16, <2>17
<1> QED
  BY <1>1, <1>2, <1>3

\* And what an administrator sends about the rows there are.
LEMMA AdministerTyped ==
  ASSUME TypeInv, NEW c \in Clients, Administer(c)
  PROVE  \E calls \in Seq(GoodCall), keeps \in BOOLEAN : Ask(c, calls, keeps)
<1>1. Rows(db.pools) \subseteq Pools /\ Rows(db.volumes) \subseteq Volumes
  BY DEF Rows, TypeInv, TableSet
<1>2. ToolRequests \subseteq Seq(GoodCall)
  <2>1. \A g \in PoolNames, a \in Arrays : PoolRm(g, a) \subseteq Seq(GoodCall)
    BY <1>1, CallsTyped DEF PoolRm, PoolCalled, PoolsOf
  <2>2. \A n \in VolumeNames, a \in Arrays : VolumeRm(n, a) \subseteq Seq(GoodCall)
    BY <1>1, CallsTyped DEF VolumeRm, VolumeCalled, VolumesOf
  <2>3. \A h \in Hosts : HostRm(h) \subseteq Seq(GoodCall)
    BY CallsTyped DEF HostRm
  <2>4. \A a \in Arrays, h \in Hosts, n \in VolumeNames : MapRm(a, h, n) \subseteq Seq(GoodCall)
    BY <1>1, CallsTyped DEF MapRm, VolumeCalled, VolumesOf
  <2>5. \A a \in Arrays : ArrayCreate(a) \in Seq(GoodCall) /\ ArrayRm(a) \in Seq(GoodCall)
    BY CallsTyped DEF ArrayCreate, ArrayRm
  <2> DEFINE A == {ArrayCreate(a) : a \in Arrays}
             B == {ArrayRm(a) : a \in Arrays}
             C == UNION {PoolRm(g, a) : g \in PoolNames, a \in Arrays}
             D == UNION {VolumeRm(n, a) : n \in VolumeNames, a \in Arrays}
             E == UNION {HostRm(h) : h \in Hosts}
             F == UNION {MapRm(a, h, n) : a \in Arrays, h \in Hosts, n \in VolumeNames}
  <2>10. ToolRequests = A \cup B \cup C \cup D \cup E \cup F
    BY DEF ToolRequests
  <2>11. A \subseteq Seq(GoodCall)
    BY <2>1, <2>2, <2>3, <2>4, <2>5
  <2>12. B \subseteq Seq(GoodCall)
    BY <2>1, <2>2, <2>3, <2>4, <2>5
  <2>13. C \subseteq Seq(GoodCall)
    BY <2>1, <2>2, <2>3, <2>4, <2>5
  <2>14. D \subseteq Seq(GoodCall)
    BY <2>1, <2>2, <2>3, <2>4, <2>5
  <2>15. E \subseteq Seq(GoodCall)
    BY <2>1, <2>2, <2>3, <2>4, <2>5
  <2>16. F \subseteq Seq(GoodCall)
    BY <2>1, <2>2, <2>3, <2>4, <2>5
  <2> HIDE DEF A, B, C, D, E, F
  <2> QED
    BY <2>10, <2>11, <2>12, <2>13, <2>14, <2>15, <2>16
<1>3. CASE \E calls \in ToolRequests : Ask(c, calls, FALSE)
  BY <1>2, <1>3
<1>4. CASE \E g \in PoolNames, n \in VolumeNames :
             \E calls \in VolumeCreate(n, g) : Ask(c, calls, TRUE)
  <2>1. \A g \in PoolNames, n \in VolumeNames : VolumeCreate(n, g) \subseteq Seq(GoodCall)
    BY <1>1, CallsTyped DEF VolumeCreate
  <2> QED
    BY <1>4, <2>1
<1>5. CASE \E g \in PoolNames : Ask(c, PostPool(g), FALSE)
  BY <1>5, CallsTyped
<1>6. CASE \E p \in Rows(db.pools), a \in Arrays :
             Ask(c, AttachPool(p, a), FALSE) \/ Ask(c, DetachPool(p, a), FALSE)
  BY <1>1, <1>6, CallsTyped
<1>7. CASE \E h \in Hosts, xs \in SUBSET Ports :
             Ask(c, PostHost(h, xs), FALSE) \/ Ask(c, PatchHost(h, xs), FALSE)
  BY <1>7, CallsTyped
<1> QED
  BY <1>3, <1>4, <1>5, <1>6, <1>7 DEF Administer

-----------------------------------------------------------------------------
LEMMA InitTyped ==
  ASSUME Init
  PROVE  TypeInv
<1>1. NoStorage \in [backing : SUBSET Pools, lvstores : [Arrays \X PoolNames -> Pools \cup {Null}]]
  BY DEF NoStorage
<1>2. StorageOK
  BY <1>1 DEF Init, StorageOK, NoStorage
<1>3. \A c \in Clients : RequestOK(c)
  BY IdleTyped, Nulls DEF RequestOK, Init
<1> QED
  BY <1>2, <1>3, NoTablesTyped, IdleTyped, TablesAssumption, RequestsAssumption DEF Init, TypeInv

LEMMA NextTyped ==
  ASSUME TypeInv, [Next]_vars
  PROVE  TypeInv'
<1>1. ASSUME NEW c \in Clients, Administer(c) PROVE TypeInv'
  BY <1>1, AdministerTyped, AskKeeps
<1>2. ASSUME NEW c \in Clients, Command(c) PROVE TypeInv'
  BY <1>2, CommandTyped, AskKeeps DEF Command
<1>3. CASE UNCHANGED vars
  BY <1>3 DEF vars, TypeInv, RequestOK, Current, Underway, StorageOK
<1> QED
  BY <1>1, <1>2, <1>3, ServeKeeps, CrashKeeps, RestartKeeps DEF Next

\* The invariant says of the tables what TypeOK says.
LEMMA TypesAgree ==
  ASSUME TypeInv
  PROVE  TypeOK
<1>1. ASSUME NEW t \in TableSet PROVE TablesOK(t)
  BY DEF TableSet, TablesOK, Rows
<1>2. \A c \in Clients : /\ request[c].step \in {"idle", "check", "write", "provision"}
                         /\ request[c].result \in {Null, "ok", "error", "lost"}
  BY DEF TypeInv, RequestSet
<1>3. \A c \in Clients : request[c].at \in 1..(Len(request[c].calls) + 1)
  BY DEF TypeInv, RequestOK
<1> QED
  BY <1>1, <1>2, <1>3 DEF TypeOK, TypeInv, StorageOK

\* The tables, the requests and the storage keep their types.
THEOREM CommandsTyped == Spec => []TypeOK
<1>1. Init => TypeInv
  BY InitTyped
<1>2. TypeInv /\ [Next]_vars => TypeInv'
  BY NextTyped
<1>3. TypeInv => TypeOK
  BY TypesAgree
<1> QED
  BY <1>1, <1>2, <1>3, PTL DEF Spec

-----------------------------------------------------------------------------
\* A pool that is being provisioned is the only one without its bdev.

Provisioned(c) == request[c].step = "provision" /\ Current(c).do = "create_pool"

BackedInv ==
  /\ PoolBacked
  /\ \A c \in Clients :
       up /\ writer = c => \A p \in Rows(txn.pools) :
                            p \in spdk.backing \/ (Provisioned(c) /\ p = issued.pools)
  /\ ~up => writer = Null /\ \A c \in Clients : request[c].step = "idle"

\* Where no bdev goes, and the tables gain no pool.
LEMMA BackedStays ==
  ASSUME BackedInv, TypeInv, NEW c \in Clients, request[c].step # "idle",
         spdk.backing \subseteq spdk'.backing,
         Rows(db'.pools) \subseteq spdk'.backing,
         writer' \in {writer, c, Null}, writer \in {c, Null} \/ UNCHANGED <<writer, txn>>,
         \A d \in Clients \ {c} : request'[d] = request[d],
         UNCHANGED up,
         writer' = c => \A p \in Rows(txn'.pools) :
                          p \in spdk'.backing \/ ((Provisioned(c))' /\ p = issued'.pools),
         writer' \notin {c, Null} => UNCHANGED <<txn, issued>>
  PROVE  BackedInv'
<1>1. up /\ up' /\ PoolBacked'
  BY DEF BackedInv, PoolBacked, TypeInv
<1>2. ASSUME NEW d \in Clients, d # c, writer' = d
      PROVE  \A p \in Rows(txn'.pools) : p \in spdk'.backing \/ ((Provisioned(d))' /\ p = issued'.pools)
  <2>1. writer = d /\ UNCHANGED <<txn, issued>> /\ request'[d] = request[d]
    BY <1>2, Nulls
  <2>2. \A p \in Rows(txn.pools) : p \in spdk.backing \/ (Provisioned(d) /\ p = issued.pools)
    BY <1>1, <2>1 DEF BackedInv
  <2>3. (Provisioned(d))' = Provisioned(d)
    BY <2>1 DEF Provisioned, Current
  <2> QED
    BY <2>1, <2>2, <2>3
<1> QED
  BY <1>1, <1>2 DEF BackedInv

\* A service leaves the pools there were, but for the one it creates.
LEMMA PoolsWritten ==
  ASSUME NEW t \in TableSet, NEW call \in GoodCall, NEW seen, Found(call, seen),
         ~Conflict(call, seen, t)
  PROVE  \A p \in Rows(Written(call, seen, t).pools) :
           p \in Rows(t.pools) \/ (call.do = "create_pool" /\ p = issued.pools + 1)
<1> DEFINE w == Written(call, seen, t)
<1>1. CASE call.do = "create_pool"
  BY <1>1 DEF Written, PoolAdded, Rows, TableSet
<1>2. CASE call.do = "delete_pool"
  BY <1>2 DEF Written, PoolDeleted, Rows, TableSet
<1>3. CASE call.do \in {"attach_pool", "detach_pool"}
  <2>1. t.pools[call.pool] # Null
    BY <1>3 DEF Conflict
  <2> QED
    BY <1>3, <2>1 DEF Written, PoolMoved, Rows, TableSet
<1>4. CASE call.do \notin PoolCalls
  <2>1. CASE call.do \in ArrayCalls
    BY <2>1 DEF Written, ArrayCalls, ArrayAdded, ArrayDeleted, EndpointAdded, TableSet
  <2>2. CASE call.do \in HostCalls
    BY <2>2 DEF Written, HostCalls, HostAdded, HostPortsWritten, HostDeleted, TableSet
  <2>3. CASE call.do \in VolumeCalls \cup {"create_mapping", "delete_mapping"}
    BY <2>3 DEF Written, VolumeCalls, VolumeAdded, VolumeDeleted, MappingAdded, MappingDeleted, TableSet
  <2> QED
    BY <1>4, <2>1, <2>2, <2>3 DEF GoodCall, Found, PairCalls
<1> QED
  BY <1>1, <1>2, <1>3, <1>4 DEF PoolCalls

LEMMA EndedBacked ==
  ASSUME BackedInv, TypeInv, NEW c \in Clients, request[c].step # "idle", Fail(c),
         spdk.backing \subseteq spdk'.backing, Rows(db'.pools) \subseteq spdk'.backing,
         UNCHANGED <<up, issued>>
  PROVE  BackedInv'
<1>1. writer' # c
  BY Nulls DEF Fail
<1>2. \A d \in Clients \ {c} : request'[d] = request[d]
  BY DEF Fail, Ended, TypeInv
<1>3. writer' \in {writer, c, Null} /\ (writer \in {c, Null} \/ UNCHANGED <<writer, txn>>)
      /\ (writer' \notin {c, Null} => UNCHANGED <<txn, issued>>)
  BY DEF Fail
<1> QED
  BY <1>1, <1>2, <1>3, BackedStays

LEMMA ServeBacked ==
  ASSUME BackedInv, TypeInv, NEW c \in Clients, Serve(c)
  PROVE  BackedInv'
<1> DEFINE call == Current(c)
           seen == request[c].seen
<1>1. request[c].step # "idle" /\ up /\ Rows(db.pools) \subseteq spdk.backing
  BY DEF Serve, Check, Write, LockFails, Provision, Commit, BackedInv, PoolBacked, TypeInv
<1>2. writer = c => \A p \in Rows(txn.pools) :
                      p \in spdk.backing \/ (Provisioned(c) /\ p = issued.pools)
  BY <1>1 DEF BackedInv
<1>3. CASE Check(c)
  <2>1. CASE Fail(c)
    BY <1>1, <1>3, <2>1, EndedBacked DEF Check
  <2>2. CASE /\ UNCHANGED <<writer, txn>>
             /\ \A d \in Clients \ {c} : request'[d] = request[d]
    <3>1. ~Provisioned(c)
      BY <1>3 DEF Check, Provisioned
    <3> QED
      BY <1>1, <1>2, <1>3, <2>2, <3>1, BackedStays DEF Check
  <2> QED
    BY <1>3, <2>1, <2>2 DEF Check, Onward, TypeInv
<1>4. CASE Write(c)
  <2>0. /\ writer \in {c, Null} /\ ~Provisioned(c) /\ call \in GoodCall /\ Found(call, seen)
        /\ View(c) \in TableSet /\ request[c] \in RequestSet
    <3>1. request[c].step = "write" /\ writer \in {c, Null}
      BY <1>4, WriteStep
    <3> QED
      BY <3>1, WriteState DEF Provisioned
  <2>1. CASE Fail(c) /\ UNCHANGED issued
    BY <1>1, <1>4, <2>1, EndedBacked DEF Write
  <2>2. CASE ~Conflict(call, seen, View(c))
    <3>1. writer' = c /\ txn' = Written(call, seen, View(c))
      BY <1>4, <2>2 DEF Write
    <3>2. \A p \in Rows(View(c).pools) : p \in spdk.backing
      BY <1>1, <1>2, <2>0 DEF View
    <3>3. \A p \in Rows(txn'.pools) :
            p \in Rows(View(c).pools) \/ (call.do = "create_pool" /\ p = issued.pools + 1)
      BY <2>0, <2>2, <3>1, PoolsWritten
    <3>4. call.do = "create_pool" => (Provisioned(c))' /\ issued'.pools = issued.pools + 1
      <4>1. CASE call.do = "create_pool"
        <5>1. /\ request' = [request EXCEPT ![c].step = "provision", ![c].made = issued.pools + 1]
              /\ issued'.pools = issued.pools + 1
          BY <1>4, <2>2, <4>1 DEF Write
        <5>2. /\ request'[c].step = "provision" /\ request'[c].calls = request[c].calls
              /\ request'[c].at = request[c].at
          BY <2>0, <5>1 DEF TypeInv, RequestSet
        <5> QED
          BY <4>1, <5>1, <5>2 DEF Provisioned, Current
      <4> QED
        BY <4>1
    <3>5. \A d \in Clients \ {c} : request'[d] = request[d]
      BY <1>4, <2>2 DEF Write, Onward, TypeInv
    <3> QED
      BY <1>1, <1>4, <2>0, <3>1, <3>2, <3>3, <3>4, <3>5, BackedStays DEF Write
  <2> QED
    BY <1>4, <2>1, <2>2 DEF Write
<1>5. CASE LockFails(c)
  BY <1>1, <1>5, EndedBacked DEF LockFails
<1>6. CASE Provision(c)
  <2>0. /\ writer = c /\ Underway(call) /\ request[c].step = "provision"
        /\ UNCHANGED <<up, issued>>
    BY <1>6 DEF Provision, TypeInv, RequestOK
  <2>1. CASE call.do = "create_pool" /\ EnsurePool(c) /\ UNCHANGED db
    <3>1. spdk.backing \subseteq spdk'.backing
      BY <2>1 DEF EnsurePool, TypeInv, StorageOK
    <3>2. CASE Fail(c)
      BY <1>1, <2>0, <2>1, <3>1, <3>2, EndedBacked
    <3>3. CASE /\ spdk' = [backing |-> spdk.backing \cup {issued.pools},
                            lvstores |-> Lvstore(issued.pools, <<call.array, call.group>>)]
               /\ request' = Onward(c) /\ UNCHANGED <<writer, txn>>
      <4>1. \A d \in Clients \ {c} : request'[d] = request[d]
        BY <3>3 DEF Onward, TypeInv
      <4>2. \A p \in Rows(txn'.pools) : p \in spdk'.backing
        BY <1>2, <2>0, <3>3
      <4> QED
        BY <1>1, <2>0, <2>1, <3>1, <3>3, <4>1, <4>2, BackedStays
    <3> QED
      BY <2>1, <3>2, <3>3 DEF EnsurePool
  <2>2. CASE call.do = "create_volume" /\ EnsureLvol(c) /\ UNCHANGED spdk
    <3>1. ~Provisioned(c)
      BY <2>2 DEF Provisioned
    <3>2. \A status : VolumeMade(issued.volumes, status).pools = txn.pools
      BY DEF VolumeMade, TypeInv, TableSet
    <3>3. Rows(db'.pools) \subseteq spdk'.backing
      <4>1. CASE request[c].keeps /\ db' = VolumeMade(issued.volumes, "error")
        BY <1>2, <2>0, <2>2, <3>1, <3>2, <4>1
      <4> QED
        BY <1>1, <2>2, <4>1 DEF EnsureLvol
    <3>4. CASE Fail(c)
      BY <1>1, <2>0, <2>2, <3>3, <3>4, EndedBacked
    <3>5. CASE /\ txn' = VolumeMade(issued.volumes, "available")
               /\ request' = Onward(c) /\ UNCHANGED <<db, writer>>
      <4>1. \A d \in Clients \ {c} : request'[d] = request[d]
        BY <3>5 DEF Onward, TypeInv
      <4>2. \A p \in Rows(txn'.pools) : p \in spdk'.backing
        BY <1>2, <2>0, <2>2, <3>1, <3>2, <3>5
      <4> QED
        BY <1>1, <2>0, <2>2, <3>3, <3>5, <4>1, <4>2, BackedStays
    <3> QED
      BY <2>2, <3>4, <3>5 DEF EnsureLvol
  <2>3. CASE call.do = "ensure_endpoint" /\ EnsureExport(c) /\ UNCHANGED <<db, spdk>>
    <3>1. ~Provisioned(c)
      BY <2>3 DEF Provisioned
    <3>2. CASE Fail(c)
      BY <1>1, <2>0, <2>3, <3>2, EndedBacked
    <3>3. CASE request' = Onward(c) /\ UNCHANGED <<writer, txn>>
      <4>1. \A d \in Clients \ {c} : request'[d] = request[d]
        BY <3>3 DEF Onward, TypeInv
      <4> QED
        BY <1>1, <1>2, <2>0, <2>3, <3>1, <3>3, <4>1, BackedStays
    <3> QED
      BY <2>3, <3>2, <3>3 DEF EnsureExport
  <2> QED
    BY <1>6, <2>1, <2>2, <2>3 DEF Provision
<1>7. CASE Commit(c)
  <2>1. ~Provisioned(c) /\ UNCHANGED <<spdk, up, issued>>
    BY <1>7 DEF Commit, Provisioned
  <2>2. \A d \in Clients \ {c} : request'[d] = request[d]
    BY <1>7 DEF Commit, Ended, TypeInv
  <2>3. Rows(db'.pools) \subseteq spdk'.backing
    BY <1>1, <1>2, <1>7, <2>1 DEF Commit
  <2>4. writer' # c /\ writer' \in {writer, Null} /\ (writer \in {c, Null} \/ UNCHANGED <<writer, txn>>)
        /\ (writer' \notin {c, Null} => UNCHANGED txn)
    BY <1>7, Nulls DEF Commit, TypeInv
  <2> QED
    BY <1>1, <2>1, <2>2, <2>3, <2>4, BackedStays
<1> QED
  BY <1>3, <1>4, <1>5, <1>6, <1>7 DEF Serve

\* Asking, dying and starting again.
LEMMA AskBacked ==
  ASSUME BackedInv, TypeInv, NEW c \in Clients, NEW calls, NEW keeps, Ask(c, calls, keeps)
  PROVE  BackedInv'
<1>1. ASSUME NEW d \in Clients, writer = d PROVE (Provisioned(d))' = Provisioned(d)
  <2>1. d # c
    BY <1>1 DEF TypeInv, RequestOK, Ask
  <2>2. request'[d] = request[d]
    BY <2>1 DEF Ask, TypeInv
  <2> QED
    BY <2>2 DEF Provisioned, Current
<1> QED
  BY <1>1 DEF BackedInv, PoolBacked, Ask

LEMMA CrashBacked ==
  ASSUME BackedInv, TypeInv, Crash
  PROVE  BackedInv'
<1>1. \A c \in Clients : request'[c].step = "idle"
  BY IdleTyped DEF Crash, Replied, Idle
<1>2. ~up' /\ writer' = Null
  BY DEF Crash
<1> QED
  BY <1>1, <1>2 DEF BackedInv, PoolBacked

LEMMA RestartBacked ==
  ASSUME BackedInv, TypeInv, Restart
  PROVE  BackedInv'
<1>1. writer' = Null /\ Rows(db'.pools) \subseteq spdk'.backing /\ up'
  BY DEF Restart, Reconciled, BackedInv
<1> QED
  BY <1>1, Nulls DEF BackedInv, PoolBacked

LEMMA InitBacked ==
  ASSUME Init
  PROVE  BackedInv
<1>1. Rows(db.pools) = {} /\ writer = Null
  BY DEF Init, NoTables, Rows
<1> QED
  BY <1>1, Nulls DEF BackedInv, PoolBacked, Init

\* A pool in the tables has its backing bdev while the gateway serves, whichever
\* commands are mixed and whatever SPDK refuses.
THEOREM PoolsAlwaysBacked == Spec => []PoolBacked
<1>1. Init => TypeInv /\ BackedInv
  BY InitTyped, InitBacked
<1>2. TypeInv /\ BackedInv /\ [Next]_vars => (TypeInv /\ BackedInv)'
  <2> SUFFICES ASSUME TypeInv, BackedInv, [Next]_vars PROVE BackedInv'
    BY NextTyped
  <2>1. ASSUME NEW c \in Clients, Administer(c) \/ Command(c) PROVE BackedInv'
    BY <2>1, AdministerTyped, AskBacked DEF Command
  <2>2. CASE UNCHANGED vars
    BY <2>2 DEF vars, BackedInv, PoolBacked, Provisioned, Current
  <2> QED
    BY <2>1, <2>2, ServeBacked, CrashBacked, RestartBacked DEF Next
<1>3. BackedInv => PoolBacked
  BY DEF BackedInv
<1> QED
  BY <1>1, <1>2, <1>3, PTL DEF Spec

-----------------------------------------------------------------------------
(***************************************************************************)
(* Apply: what a run of the tool is about to post                          *)
(***************************************************************************)
RunSet == [way : {"cli", "session"},
           step : {"start", "look", "misplaced", "created", "await", "load", "applied"},
           at : Nat, arrays : SUBSET Arrays]

RunOK(c) ==
  /\ op[c].at \in 1..(Len(Topology) + 1)
  /\ op[c].step \in {"misplaced", "created", "await"} => op[c].at <= Len(Topology)
  /\ op[c].step \in {"misplaced", "created"} => Item(c).kind = "pool"

\* The pool a run asked for is in the reply, once there is one.
CreatedOK(c) ==
  op[c].step = "created" =>
    /\ request[c].result = "ok" => request[c].made \in Pools
    /\ request[c].step # "idle" =>
         /\ \E g \in PoolNames : request[c].calls = PostPool(g)
         /\ (request[c].step = "provision" \/ request[c].at > 1) => request[c].made \in Pools

RunInv ==
  /\ op \in [Readers -> RunSet]
  /\ \A c \in Readers : RunOK(c) /\ CreatedOK(c)

\* What an item declares, by its kind.
LEMMA ItemDeclared ==
  ASSUME NEW i \in DOMAIN Topology
  PROVE  LET item == Topology[i]
         IN  /\ item.kind \in {"array", "endpoint", "pool", "host", "volume", "mapping"}
             /\ item.kind \in {"array", "endpoint"} => item.array \in Arrays
             /\ item.kind = "pool" => item.name \in PoolNames /\ item.array \in Arrays
             /\ item.kind = "host" => item.name \in Hosts
             /\ item.kind = "volume" => item.name \in VolumeNames /\ item.pool \in PoolNames /\ item.array \in Arrays
             /\ item.kind = "mapping" => item.host \in Hosts /\ item.name \in VolumeNames /\ item.array \in Arrays
<1>1. Topology[i] \in Declared
  BY ApplyAssumption
<1> QED
  BY <1>1 DEF Declared

\* The call that creates a pool to be attached.
LEMMA PostPoolIs ==
  ASSUME NEW g \in PoolNames
  PROVE  /\ Len(PostPool(g)) = 1 /\ PostPool(g)[1].do = "create_pool" /\ ~PostPool(g)[1].once
         /\ PostPool(g)[1].group = g /\ PostPool(g)[1].array = Default
         /\ PostPool(g)[1] \in Draft /\ PostPool(g)[1].pool = Null
<1> DEFINE call == OnGroup("create_pool", Default, g)
<1>1. /\ call \in Draft /\ call.do = "create_pool" /\ ~call.once /\ call.pool = Null
      /\ call.group = g /\ call.array = Default
  BY GroupDraft, TablesAssumption DEF Known, PoolCalls
<1>2. PostPool(g) = <<call>>
  BY DEF PostPool, OnGroup
<1> HIDE DEF call
<1> QED
  BY <1>1, <1>2

\* What the gateway's own function calls for an item.
LEMMA EnsuredGood ==
  ASSUME NEW i \in DOMAIN Topology
  PROVE  Ensured(Topology[i]) \in GoodCall
<1> DEFINE item == Topology[i]
<1>0. ASSUME NEW call \in GoodCall PROVE [call EXCEPT !.once = TRUE] \in GoodCall
  BY OnceGood
<1>1. ASSUME NEW calls \in Seq(GoodCall), Len(calls) = 1 PROVE calls[1] \in GoodCall
  <2>1. 1 \in 1..Len(calls)
    BY <1>1
  <2> QED
    BY <2>1
<1>2. CASE item.kind = "array"
  <2>1. item.array \in Arrays
    BY <1>2, ItemDeclared
  <2>2. PostArray(item.array) \in Seq(GoodCall) /\ Len(PostArray(item.array)) = 1
    BY <2>1, CallsTyped DEF PostArray
  <2> QED
    BY <1>0, <1>1, <1>2, <2>2 DEF Ensured
<1>3. CASE item.kind = "endpoint"
  <2>1. item.array \in Arrays
    BY <1>3, ItemDeclared
  <2>2. PostEndpoint(item.array) \in Seq(GoodCall) /\ Len(PostEndpoint(item.array)) = 1
    BY <2>1, CallsTyped DEF PostEndpoint
  <2> QED
    BY <1>0, <1>1, <1>3, <2>2 DEF Ensured
<1>4. CASE item.kind = "pool"
  <2> DEFINE call == PostPool(item.name)[1]
  <2>1. item.name \in PoolNames /\ item.array \in Arrays
    BY <1>4, ItemDeclared
  <2>2. call \in Draft /\ call.do = "create_pool" /\ call.group = item.name
    BY <2>1, PostPoolIs
  <2>3. Ensured(item) = [[call EXCEPT !.array = item.array] EXCEPT !.once = TRUE]
    BY <1>4 DEF Ensured
  <2> HIDE DEF call
  <2> DEFINE here == [call EXCEPT !.array = item.array]
  <2>4. here \in Draft /\ here.do = "create_pool" /\ here.group = item.name /\ here.array = item.array
    BY <2>1, <2>2, WithArray
  <2> HIDE DEF here
  <2>5. here \in GoodCall
    BY <2>1, <2>4, GoodDrafts
  <2> QED
    BY <1>0, <2>3, <2>5 DEF here
<1>5. CASE item.kind = "host"
  <2>1. item.name \in Hosts
    BY <1>5, ItemDeclared
  <2>2. PostHost(item.name, {}) \in Seq(GoodCall) /\ Len(PostHost(item.name, {})) = 1
    BY <2>1, CallsTyped DEF PostHost
  <2> QED
    BY <1>0, <1>1, <1>5, <2>2 DEF Ensured
<1>6. CASE item.kind = "volume"
  <2>1. item.name \in VolumeNames /\ item.pool \in PoolNames /\ item.array \in Arrays
    BY <1>6, ItemDeclared
  <2>2. Mkvdisk(item.array, item.pool, item.name) \in Seq(GoodCall) /\ Len(Mkvdisk(item.array, item.pool, item.name)) = 1
    BY <2>1, CallsTyped DEF Mkvdisk
  <2> QED
    BY <1>0, <1>1, <1>6, <2>2 DEF Ensured
<1>7. CASE item.kind = "mapping"
  <2>1. item.host \in Hosts /\ item.name \in VolumeNames /\ item.array \in Arrays
    BY <1>7, ItemDeclared
  <2>2. OnPair("create_mapping", item.array, item.host, item.name) \in GoodCall
    BY <2>1, PairGood DEF PairCalls
  <2> QED
    BY <1>0, <1>7, <2>2 DEF Ensured
<1> QED
  BY <1>2, <1>3, <1>4, <1>5, <1>6, <1>7, ItemDeclared

\* A run goes on, starts again, or takes the next item.
LEMMA RunSteps ==
  ASSUME RunInv, NEW c \in Readers,
         \/ Again(c)
         \/ Onto(c) /\ op[c].at <= Len(Topology)
         \/ \E step \in {"misplaced", "created", "await", "load", "applied"} :
              /\ Run(c, step)
              /\ step \in {"misplaced", "created", "await"} => op[c].at <= Len(Topology)
              /\ step \in {"misplaced", "created"} => Item(c).kind = "pool"
         \/ op' = [op EXCEPT ![c] = [NewRun(@.way) EXCEPT !.step = "look", !.arrays = db.arrays]]
              /\ db.arrays \subseteq Arrays
  PROVE  /\ op' \in [Readers -> RunSet] /\ \A d \in Readers : RunOK(d)'
         /\ \A d \in Readers \ {c} : op'[d] = op[d]
         /\ op'[c].step = "created" => Run(c, "created")
<1>0. Len(Topology) \in Nat
  BY ApplyAssumption
<1>1. op[c] \in RunSet /\ NewRun(op[c].way) \in RunSet
  BY DEF RunInv, RunSet, NewRun
<1>2. CASE Again(c)
  BY <1>0, <1>1, <1>2 DEF Again, NewRun, RunInv, RunOK, Item, RunSet
<1>3. CASE Onto(c) /\ op[c].at <= Len(Topology)
  <2>1. /\ op'[c].at = op[c].at + 1 /\ op'[c].step = "look" /\ op'[c] \in RunSet
    <3> DEFINE run == [op[c] EXCEPT !.at = op[c].at + 1, !.step = "look"]
    <3>1. op' = [op EXCEPT ![c] = run]
      BY <1>3 DEF Onto
    <3>2. op[c].at + 1 \in Nat
      BY <1>1 DEF RunSet
    <3>3. run \in RunSet /\ run.at = op[c].at + 1 /\ run.step = "look"
      BY <1>1, <3>2 DEF RunSet
    <3> QED
      BY <3>1, <3>3 DEF RunInv
  <2>2. \A d \in Readers \ {c} : op'[d] = op[d]
    BY <1>3 DEF Onto, RunInv
  <2>3. op' \in [Readers -> RunSet]
    BY <1>3, <2>1, <2>2 DEF RunInv, Onto
  <2>4. RunOK(c)'
    BY <1>0, <1>1, <1>3, <2>1 DEF RunOK, RunSet
  <2> QED
    BY <2>1, <2>2, <2>3, <2>4 DEF RunInv, RunOK, Item
<1>4. CASE \E step \in {"misplaced", "created", "await", "load", "applied"} :
             /\ Run(c, step)
             /\ step \in {"misplaced", "created", "await"} => op[c].at <= Len(Topology)
             /\ step \in {"misplaced", "created"} => Item(c).kind = "pool"
  <2>1. PICK step \in {"misplaced", "created", "await", "load", "applied"} :
               /\ Run(c, step)
               /\ step \in {"misplaced", "created", "await"} => op[c].at <= Len(Topology)
               /\ step \in {"misplaced", "created"} => Item(c).kind = "pool"
    BY <1>4
  <2>2. /\ op'[c].at = op[c].at /\ op'[c].step = step /\ op'[c] \in RunSet
        /\ \A d \in Readers \ {c} : op'[d] = op[d]
    BY <1>1, <2>1 DEF Run, RunInv, RunSet
  <2>3. op' \in [Readers -> RunSet]
    BY <2>1, <2>2 DEF RunInv, Run
  <2>4. RunOK(c)'
    BY <1>0, <2>1, <2>2 DEF RunInv, RunOK, Item
  <2> QED
    BY <2>1, <2>2, <2>3, <2>4 DEF RunInv, RunOK, Item
<1>5. CASE /\ op' = [op EXCEPT ![c] = [NewRun(@.way) EXCEPT !.step = "look", !.arrays = db.arrays]]
           /\ db.arrays \subseteq Arrays
  <2>1. /\ op'[c].at = 1 /\ op'[c].step = "look" /\ op'[c] \in RunSet
        /\ \A d \in Readers \ {c} : op'[d] = op[d]
    BY <1>1, <1>5 DEF RunInv, RunSet, NewRun
  <2>2. op' \in [Readers -> RunSet]
    BY <1>5, <2>1 DEF RunInv
  <2>3. RunOK(c)'
    BY <1>0, <2>1 DEF RunOK
  <2> QED
    BY <2>1, <2>2, <2>3 DEF RunInv, RunOK, Item
<1> QED
  BY <1>2, <1>3, <1>4, <1>5

\* A step of the tool, or of the function, asks for something good, or for nothing.
LEMMA ToolAsks ==
  ASSUME TypeInv, RunInv, NEW c \in Readers, Tool(c) \/ ApplySpec(c) \/ Read(c)
  PROVE  /\ \/ UNCHANGED vars
            \/ \E calls \in Seq(GoodCall), keeps \in BOOLEAN : Ask(c, calls, keeps)
            \/ Read(c)
         /\ op' \in [Readers -> RunSet] /\ \A d \in Readers : RunOK(d)'
         /\ \A d \in Readers \ {c} : op'[d] = op[d]
         /\ op'[c].step = "created" =>
              \E g \in PoolNames : Ask(c, PostPool(g), FALSE)
<1> DEFINE Goal == /\ \/ UNCHANGED vars
                      \/ \E calls \in Seq(GoodCall), keeps \in BOOLEAN : Ask(c, calls, keeps)
                      \/ Read(c)
                   /\ op' \in [Readers -> RunSet] /\ \A d \in Readers : RunOK(d)'
                   /\ \A d \in Readers \ {c} : op'[d] = op[d]
                   /\ op'[c].step = "created" =>
                        \E g \in PoolNames : Ask(c, PostPool(g), FALSE)
<1>0. /\ Rows(db.pools) \subseteq Pools /\ Rows(db.volumes) \subseteq Volumes /\ db.arrays \subseteq Arrays
      /\ op[c] \in RunSet /\ RunOK(c) /\ Len(Topology) \in Nat /\ DOMAIN Topology = 1..Len(Topology)
  BY ApplyAssumption DEF Rows, TypeInv, TableSet, RunInv
<1>1. op[c].at <= Len(Topology) => op[c].at \in DOMAIN Topology
  BY <1>0 DEF RunOK
<1>2. ASSUME (Onto(c) /\ op[c].at <= Len(Topology)) \/ Again(c), UNCHANGED vars \/ Read(c)
      PROVE  Goal
  <2>1. op'[c].step # "created"
    BY <1>2 DEF Onto, Again, NewRun, RunInv, RunSet
  <2> QED
    BY <1>2, <2>1, RunSteps
<1>3. ASSUME NEW calls \in Seq(GoodCall), NEW keeps \in BOOLEAN, NEW step \in {"await", "load"},
             Post(c, calls, keeps, step), step = "await" => op[c].at <= Len(Topology)
      PROVE  Goal
  <2>1. op'[c].step # "created"
    BY <1>3 DEF Post, Run, RunInv, RunSet
  <2>2. Ask(c, calls, keeps) /\ Run(c, step)
    BY <1>3 DEF Post
  <2> QED
    BY <1>3, <2>1, <2>2, RunSteps
<1>4. ASSUME NEW step \in {"misplaced", "applied"}, Run(c, step), UNCHANGED vars \/ Read(c),
             step = "misplaced" => op[c].at <= Len(Topology) /\ Item(c).kind = "pool"
      PROVE  Goal
  <2>1. op'[c].step # "created"
    BY <1>4 DEF Run, RunInv, RunSet
  <2> QED
    BY <1>4, <2>1, RunSteps
<1>5. CASE Begin(c)
  <2>1. op' = [op EXCEPT ![c] = [NewRun(@.way) EXCEPT !.step = "look", !.arrays = db.arrays]]
    BY <1>5 DEF Begin
  <2>2. op'[c].step = "look"
    BY <2>1 DEF RunInv, NewRun
  <2> QED
    BY <1>0, <1>5, <2>1, <2>2, RunSteps DEF Begin
<1>6. CASE ApplyArray(c)
  <2>1. op[c].at <= Len(Topology) /\ PostArray(Item(c).array) \in Seq(GoodCall)
    BY <1>1, <1>6, ItemDeclared, CallsTyped DEF ApplyArray, Listing, Item
  <2> QED
    BY <1>2, <1>3, <1>6, <2>1 DEF ApplyArray
<1>7. CASE ApplyEndpoint(c)
  <2>1. op[c].at <= Len(Topology) /\ PostEndpoint(Item(c).array) \in Seq(GoodCall)
    BY <1>1, <1>7, ItemDeclared, CallsTyped DEF ApplyEndpoint, Listing, Item
  <2> QED
    BY <1>2, <1>3, <1>7, <2>1 DEF ApplyEndpoint
<1>8. CASE ApplyPool(c)
  <2>1. op[c].at <= Len(Topology) /\ PostPool(Item(c).name) \in Seq(GoodCall) /\ Item(c).kind = "pool"
    BY <1>1, <1>8, ItemDeclared, CallsTyped DEF ApplyPool, Listing, Item
  <2> QED
    BY <1>2, <1>3, <1>4, <1>8, <2>1 DEF ApplyPool
<1>9. CASE CreatePool(c)
  <2>1. /\ op[c].at <= Len(Topology) /\ Item(c).kind = "pool"
        /\ Item(c).name \in PoolNames /\ Item(c).array \in Arrays
    BY <1>0, <1>1, <1>9, ItemDeclared DEF CreatePool, Listing, Item, RunOK
  <2>2. PostPool(Item(c).name) \in Seq(GoodCall)
    BY <2>1, CallsTyped
  <2>3. CASE Post(c, PostPool(Item(c).name), FALSE, "created")
    BY <2>1, <2>2, <2>3, RunSteps DEF Post
  <2>4. CASE \E p \in MisplacedPool(Item(c).name) : Post(c, AttachPool(p, Item(c).array), FALSE, "await")
    <3>1. PICK p \in MisplacedPool(Item(c).name) : Post(c, AttachPool(p, Item(c).array), FALSE, "await")
      BY <2>4
    <3>2. p \in Pools
      BY <1>0 DEF MisplacedPool, ResolvePool, PoolCalled, PoolsOf
    <3>3. AttachPool(p, Item(c).array) \in Seq(GoodCall)
      BY <2>1, <3>2, CallsTyped
    <3> QED
      BY <1>3, <2>1, <3>1, <3>3
  <2> QED
    BY <1>9, <2>3, <2>4 DEF CreatePool
<1>10. CASE AttachCreated(c)
  <2>1. /\ op[c].at <= Len(Topology) /\ Item(c).array \in Arrays
    BY <1>0, <1>1, <1>10, ItemDeclared DEF AttachCreated, Item, RunOK
  <2>2. request[c].made \in Pools
    BY <1>10 DEF AttachCreated, RunInv, CreatedOK
  <2>3. AttachPool(request[c].made, Item(c).array) \in Seq(GoodCall)
    BY <2>1, <2>2, CallsTyped
  <2> QED
    BY <1>3, <1>10, <2>1, <2>3 DEF AttachCreated
<1>11. CASE ApplyHost(c)
  <2>1. op[c].at <= Len(Topology) /\ PostHost(Item(c).name, {}) \in Seq(GoodCall)
    BY <1>1, <1>11, ItemDeclared, CallsTyped DEF ApplyHost, Listing, Item
  <2> QED
    BY <1>2, <1>3, <1>11, <2>1 DEF ApplyHost
<1>12. CASE ApplyVolume(c)
  <2>1. op[c].at <= Len(Topology) /\ Item(c).name \in VolumeNames
    BY <1>1, <1>12, ItemDeclared DEF ApplyVolume, Listing, Item
  <2>2. ASSUME NEW p \in ResolvePool(Item(c).pool, Item(c).array)
        PROVE  PostVolume(p, Item(c).name) \in Seq(GoodCall)
    <3>1. p \in Pools
      BY <1>0 DEF ResolvePool, PoolCalled, PoolsOf
    <3> QED
      BY <2>1, <3>1, CallsTyped
  <2> QED
    BY <1>2, <1>3, <1>12, <2>1, <2>2 DEF ApplyVolume
<1>13. CASE ApplyMapping(c)
  <2>1. op[c].at <= Len(Topology) /\ Item(c).host \in Hosts
    BY <1>1, <1>13, ItemDeclared DEF ApplyMapping, Listing, Item
  <2>2. ASSUME NEW v \in ResolveVolume(Item(c).name, Item(c).array)
        PROVE  PostMapping(Item(c).host, v) \in Seq(GoodCall)
    <3>1. v \in Volumes
      BY <1>0 DEF ResolveVolume, VolumeCalled, VolumesOf
    <3> QED
      BY <2>1, <3>1, CallsTyped
  <2> QED
    BY <1>2, <1>3, <1>13, <2>1, <2>2 DEF ApplyMapping
<1>14. CASE Finish(c)
  BY <1>4, <1>14 DEF Finish
<1>15. CASE Read(c)
  <2>1. op[c].step = "await" => op[c].at <= Len(Topology)
    BY <1>0 DEF RunOK
  <2> QED
    BY <1>2, <1>4, <1>15, <2>1 DEF Read
<1>16. CASE Unanswered(c)
  BY <1>2, <1>16 DEF Unanswered
<1>17. CASE ApplySpec(c)
  <2> DEFINE calls == [i \in DOMAIN Topology |-> Ensured(Topology[i])]
  <2>1. calls \in Seq(GoodCall)
    BY <1>0, EnsuredGood
  <2> QED
    BY <1>3, <1>17, <2>1 DEF ApplySpec
<1> QED
  BY <1>5, <1>6, <1>7, <1>8, <1>9, <1>10, <1>11, <1>12, <1>13, <1>14, <1>15, <1>16, <1>17 DEF Tool

\* What it asks and reads are its own.
LEMMA ToolAlone ==
  ASSUME TypeInv, RunInv, NEW c \in Readers, Tool(c) \/ ApplySpec(c) \/ Read(c)
  PROVE  /\ UNCHANGED <<db, writer, txn, issued>>
         /\ \A d \in Readers \ {c} : request'[d] = request[d] /\ op'[d] = op[d]
<1>0. Readers \subseteq Clients /\ DOMAIN request = Clients
  BY RequestsAssumption DEF TypeInv
<1> DEFINE Alone == UNCHANGED <<db, writer, txn, issued>> /\ \A d \in Readers \ {c} : request'[d] = request[d]
<1>1. ASSUME UNCHANGED vars PROVE Alone
  BY <1>1 DEF vars
<1>2. ASSUME NEW calls, NEW keeps, Ask(c, calls, keeps) PROVE Alone
  BY <1>0, <1>2 DEF Ask
<1>3. ASSUME Read(c) PROVE Alone
  BY <1>0, <1>3 DEF Read
<1>4. Alone
  BY <1>1, <1>2, <1>3, ToolAsks
<1> HIDE DEF Alone
<1>5. \A d \in Readers \ {c} : op'[d] = op[d]
  BY ToolAsks
<1> QED
  BY <1>4, <1>5 DEF Alone

\* A request that a reader has read is gone.
LEMMA ReadKeeps ==
  ASSUME TypeInv, BackedInv, NEW c \in Readers, Read(c)
  PROVE  TypeInv' /\ BackedInv'
<1>0. c \in Clients
  BY RequestsAssumption
<1>1. request[c].step = "idle" /\ writer # c
  BY <1>0 DEF Read, TypeInv, RequestOK
<1>2. request' \in [Clients -> RequestSet] /\ request'[c] = Idle
      /\ \A d \in Clients \ {c} : request'[d] = request[d]
  BY <1>0, IdleTyped DEF Read, TypeInv
<1>3. RequestOK(c)'
  BY <1>0, <1>1, <1>2, IdleTyped DEF RequestOK, Read
<1>4. ASSUME NEW d \in Clients, d # c PROVE RequestOK(d)'
  BY <1>0, <1>2, <1>4, OthersOK DEF Read
<1>5. TypeInv'
  BY <1>2, <1>3, <1>4 DEF Read, TypeInv, StorageOK
<1>6. \A d \in Clients : writer = d => (Provisioned(d))' = Provisioned(d)
  BY <1>1, <1>2 DEF Provisioned, Current
<1>7. BackedInv'
  BY <1>2, <1>6, IdleTyped DEF Read, BackedInv, PoolBacked
<1> QED
  BY <1>5, <1>7

\* The pool a run asked for is in its reply.
LEMMA ServeCreates ==
  ASSUME TypeInv, RunInv, NEW c \in Readers, Serve(c), UNCHANGED op
  PROVE  CreatedOK(c)'
<1>0. c \in Clients /\ request[c] \in RequestSet /\ RequestOK(c) /\ CreatedOK(c)
  BY RequestsAssumption DEF TypeInv, RunInv
<1> SUFFICES ASSUME op[c].step = "created"
             PROVE  /\ request'[c].result = "ok" => request'[c].made \in Pools
                    /\ request'[c].step # "idle" =>
                         /\ \E g \in PoolNames : request'[c].calls = PostPool(g)
                         /\ (request'[c].step = "provision" \/ request'[c].at > 1) => request'[c].made \in Pools
  BY DEF CreatedOK
<1>1. request[c].step # "idle" /\ request[c].result = Null
  BY <1>0 DEF Serve, Check, Write, LockFails, Provision, Commit, RequestOK
<1>2. PICK g \in PoolNames : request[c].calls = PostPool(g)
  BY <1>0, <1>1 DEF CreatedOK
<1>3. Len(request[c].calls) = 1 /\ request[c].at \in {1, 2}
  BY <1>0, <1>2 DEF PostPool, RequestOK
<1>4. request[c].calls[1].do = "create_pool" /\ ~request[c].calls[1].once
  BY <1>2, PostPoolIs
<1>5. CASE Fail(c)
  BY <1>0, <1>5 DEF Fail, Ended, Replied, Idle, TypeInv
<1>6. CASE Onward(c) = request' /\ request[c].made \in Pools
  <2>1. /\ request'[c].calls = request[c].calls /\ request'[c].made = request[c].made
        /\ request'[c].result = request[c].result
    BY <1>0, <1>6 DEF Onward, TypeInv, RequestSet
  <2> QED
    BY <1>1, <1>2, <1>6, <2>1
<1>7. CASE Check(c)
  <2>1. Current(c).do = "create_pool" /\ ~Current(c).once
    BY <1>3, <1>4, <1>7 DEF Check, Current
  <2>2. ~NothingToWrite(Current(c), View(c))
    BY <2>1 DEF NothingToWrite
  <2>3. CASE request' = [request EXCEPT ![c].step = "write", ![c].seen = Seen(Current(c), View(c))]
    <3>1. /\ request'[c].calls = request[c].calls /\ request'[c].made = request[c].made
          /\ request'[c].result = request[c].result /\ request'[c].step = "write"
          /\ request'[c].at = request[c].at
      BY <1>0, <2>3 DEF TypeInv, RequestSet
    <3> QED
      BY <1>0, <1>1, <1>2, <3>1 DEF CreatedOK
  <2> QED
    BY <1>5, <1>7, <2>1, <2>2, <2>3 DEF Check
<1>8. CASE Write(c)
  <2>1. Current(c).do = "create_pool"
    <3>1. request[c].step = "write"
      BY <1>8, WriteStep
    <3>0. request[c].at <= Len(request[c].calls)
      BY <1>0, <3>1 DEF RequestOK
    <3>2. request[c].at = 1
      BY <1>3, <3>0
    <3> QED
      BY <1>4, <3>2 DEF Current
  <2>2. CASE /\ request' = [request EXCEPT ![c].step = "provision", ![c].made = issued.pools + 1]
             /\ issued.pools < MaxPools
    <3>1. issued.pools + 1 \in Pools
      BY <2>2, TablesAssumption DEF TypeInv, Pools
    <3>2. /\ request'[c].calls = request[c].calls /\ request'[c].made = issued.pools + 1
          /\ request'[c].result = request[c].result
      BY <1>0, <2>2 DEF TypeInv, RequestSet
    <3> QED
      BY <1>1, <1>2, <3>1, <3>2
  <2> QED
    BY <1>5, <1>8, <2>1, <2>2 DEF Write
<1>9. CASE LockFails(c)
  BY <1>5, <1>9 DEF LockFails
<1>10. CASE Provision(c)
  <2>1. request[c].made \in Pools
    BY <1>0, <1>1, <1>10 DEF CreatedOK, Provision
  <2> QED
    BY <1>5, <1>6, <1>10, <2>1 DEF Provision, EnsurePool, EnsureLvol, EnsureExport
<1>11. CASE Commit(c)
  <2>1. request[c].made \in Pools
    BY <1>0, <1>1, <1>3, <1>11 DEF CreatedOK, Commit
  <2>2. request'[c] = [Idle EXCEPT !.result = "ok", !.made = request[c].made]
    BY <1>0, <1>11 DEF Commit, Ended, Replied, TypeInv
  <2> QED
    BY <2>1, <2>2 DEF Idle
<1> QED
  BY <1>7, <1>8, <1>9, <1>10, <1>11 DEF Serve

\* A step that changes nothing.
LEMMA NothingHappens ==
  ASSUME TypeInv, BackedInv, UNCHANGED vars
  PROVE  (TypeInv /\ BackedInv)'
<1>1. TypeInv'
  BY NextTyped
<1>2. BackedInv'
  BY DEF vars, BackedInv, PoolBacked, Provisioned, Current
<1> QED
  BY <1>1, <1>2

\* Serving one request leaves the others alone.
LEMMA ServeAlone ==
  ASSUME TypeInv, NEW c \in Clients, Serve(c), NEW d \in Clients \ {c}
  PROVE  request'[d] = request[d]
<1>1. DOMAIN request = Clients
  BY DEF TypeInv
<1>2. Onward(c)[d] = request[d]
  BY <1>1 DEF Onward
<1>3. CASE Check(c)
  BY <1>1, <1>2, <1>3 DEF Check, Fail, Ended
<1>4. CASE Write(c)
  BY <1>1, <1>2, <1>4 DEF Write, Fail, Ended
<1>5. CASE LockFails(c) \/ Commit(c)
  BY <1>1, <1>5 DEF LockFails, Commit, Fail, Ended
<1>6. CASE Provision(c)
  BY <1>1, <1>2, <1>6 DEF Provision, EnsurePool, EnsureLvol, EnsureExport, Fail, Ended
<1> QED
  BY <1>3, <1>4, <1>5, <1>6 DEF Serve

-----------------------------------------------------------------------------
LEMMA ApplySteps ==
  ASSUME TypeInv, BackedInv, RunInv, [ApplyNext]_opVars
  PROVE  (TypeInv /\ BackedInv /\ RunInv)'
<1>1. ASSUME NEW c \in Readers, Tool(c) \/ ApplySpec(c) \/ Read(c)
      PROVE  (TypeInv /\ BackedInv /\ RunInv)'
  <2>0. c \in Clients
    BY RequestsAssumption
  <2>1. (TypeInv /\ BackedInv)'
    <3>1. CASE UNCHANGED vars
      BY <3>1, NothingHappens
    <3>2. CASE \E calls \in Seq(GoodCall), keeps \in BOOLEAN : Ask(c, calls, keeps)
      BY <2>0, <3>2, AskKeeps, AskBacked
    <3> QED
      BY <1>1, <3>1, <3>2, ToolAsks, ReadKeeps
  <2>2. \A d \in Readers \ {c} : request'[d] = request[d]
    BY <1>1, ToolAlone
  <2>3. \A d \in Readers \ {c} : CreatedOK(d)'
    BY <1>1, <2>2, ToolAsks DEF RunInv, CreatedOK
  <2>4. CreatedOK(c)'
    <3> SUFFICES ASSUME op'[c].step = "created" PROVE CreatedOK(c)'
      BY DEF CreatedOK
    <3>1. PICK g \in PoolNames : Ask(c, PostPool(g), FALSE)
      BY <1>1, ToolAsks
    <3>2. request'[c] = [Idle EXCEPT !.step = "check", !.calls = PostPool(g), !.keeps = FALSE]
      BY <2>0, <3>1 DEF Ask, TypeInv
    <3>3. /\ request'[c].result = Null /\ request'[c].step = "check" /\ request'[c].at = 1
          /\ request'[c].calls = PostPool(g)
      BY <3>2 DEF Idle
    <3> QED
      BY <3>3, Nulls DEF CreatedOK
  <2> QED
    BY <1>1, <2>1, <2>3, <2>4, ToolAsks DEF RunInv
<1>2. ASSUME NEW c \in Readers, Serve(c) /\ UNCHANGED op
      PROVE  (TypeInv /\ BackedInv /\ RunInv)'
  <2>0. c \in Clients
    BY RequestsAssumption
  <2>1. \A d \in Readers \ {c} : request'[d] = request[d]
    BY <1>2, <2>0, ServeAlone, RequestsAssumption
  <2>2. \A d \in Readers \ {c} : CreatedOK(d)'
    BY <1>2, <2>1 DEF RunInv, CreatedOK
  <2>3. CreatedOK(c)'
    BY <1>2, ServeCreates
  <2> QED
    BY <1>2, <2>0, <2>2, <2>3, ServeKeeps, ServeBacked DEF RunInv, RunOK, Item
<1>3. CASE (Crash \/ Restart) /\ UNCHANGED op
  <2>1. \A c \in Readers : CreatedOK(c)'
    <3>1. CASE Restart
      BY <1>3, <3>1 DEF Restart, RunInv, CreatedOK
    <3>2. CASE Crash
      <4>1. \A c \in Readers : request'[c].step = "idle" /\ request'[c].result # "ok"
        BY <3>2, IdleTyped, Nulls, RequestsAssumption DEF Crash, Replied, Idle
      <4> QED
        BY <1>3, <4>1 DEF CreatedOK
    <3> QED
      BY <1>3, <3>1, <3>2
  <2> QED
    BY <1>3, <2>1, CrashKeeps, RestartKeeps, CrashBacked, RestartBacked DEF RunInv, RunOK, Item
<1>4. CASE UNCHANGED opVars
  <2>1. UNCHANGED vars /\ op' = op /\ request' = request
    BY <1>4 DEF opVars, vars
  <2>2. (TypeInv /\ BackedInv)'
    BY <2>1, NothingHappens
  <2>3. RunInv'
    BY <2>1 DEF RunInv, RunOK, CreatedOK, Item
  <2> QED
    BY <2>2, <2>3
<1> QED
  BY <1>1, <1>2, <1>3, <1>4 DEF ApplyNext

\* A run that has not begun.
LEMMA RunStarts ==
  ASSUME ApplyInit
  PROVE  /\ TypeInv /\ BackedInv /\ RunInv
         /\ \A c \in Readers : op[c].at = 1 /\ op[c].step = "start" /\ op[c].arrays = {}
<1>1. PICK way \in [Readers -> {"cli", "session"}] : op = [c \in Readers |-> NewRun(way[c])]
  BY DEF ApplyInit
<1>2. \A c \in Readers : /\ op[c] \in RunSet /\ op[c].at = 1 /\ op[c].step = "start"
                         /\ op[c].arrays = {}
  BY <1>1 DEF NewRun, RunSet
<1>3. Len(Topology) \in Nat
  BY ApplyAssumption
<1>4. RunInv
  BY <1>1, <1>2, <1>3 DEF RunInv, RunOK, CreatedOK
<1>5. TypeInv /\ BackedInv
  BY InitTyped, InitBacked DEF ApplyInit
<1> QED
  BY <1>2, <1>4, <1>5

\* And whoever applies a topology, by the tool or in a session.
THEOREM DeclaredPoolsBacked == ApplySpecification => []PoolBacked
<1>1. ApplyInit => TypeInv /\ BackedInv /\ RunInv
  BY RunStarts
<1>2. TypeInv /\ BackedInv /\ RunInv /\ [ApplyNext]_opVars => (TypeInv /\ BackedInv /\ RunInv)'
  BY ApplySteps
<1>3. BackedInv => PoolBacked
  BY DEF BackedInv
<1> QED
  BY <1>1, <1>2, <1>3, PTL DEF ApplySpecification

-----------------------------------------------------------------------------
(***************************************************************************)
(* What is applied stays in place                                          *)
(***************************************************************************)
\* The pool that an item declares or names, on the item's array in t.
PoolNamed(item) == IF item.kind = "pool" THEN item.name ELSE item.pool
NamesPool == {i \in DOMAIN Topology : Topology[i].kind \in {"pool", "volume"}}
AtHome(t, item) == PoolCalled(t, PoolNamed(item), item.array)

\* The file has no pool name on two arrays: the tool would attach the pool of one
\* array to the other.
OneArrayEach ==
  \A i, j \in NamesPool :
    PoolNamed(Topology[i]) = PoolNamed(Topology[j]) => Topology[i].array = Topology[j].array

\* The item is in tables t.
Has(t, item) ==
  \/ item.kind = "array" /\ item.array \in t.arrays
  \/ item.kind = "endpoint" /\ t.iscsi[item.array] > 0
  \/ item.kind = "pool" /\ PoolCalled(t, item.name, item.array) # {}
  \/ item.kind = "host" /\ item.name \in t.hosts
  \/ item.kind = "volume" /\ VolumeCalled(t, item.name, item.array) # {}
  \/ /\ item.kind = "mapping" /\ item.host \in t.hosts
     /\ \E v \in VolumeCalled(t, item.name, item.array) : t.maps[<<item.host, v>>] > 0

\* Tables u have whatever t have, pools where they are declared.
Grows(t, u) ==
  /\ t.arrays \subseteq u.arrays /\ t.hosts \subseteq u.hosts
  /\ \A a \in Arrays : t.iscsi[a] > 0 => u.iscsi[a] > 0
  /\ \A p \in Rows(t.pools) : p \in Rows(u.pools) /\ u.pools[p].name = t.pools[p].name
  /\ \A i \in NamesPool : AtHome(t, Topology[i]) \subseteq AtHome(u, Topology[i])
  /\ \A v \in Rows(t.volumes) : /\ v \in Rows(u.volumes)
                                /\ u.volumes[v].name = t.volumes[v].name
                                /\ u.volumes[v].array = t.volumes[v].array
  /\ \A h \in Hosts, v \in Volumes : t.maps[<<h, v>>] > 0 => u.maps[<<h, v>>] > 0

\* Rows have UUIDs that were handed out, and mappings a host.
Proper(t, ids) ==
  /\ \A p \in Rows(t.pools) : p <= ids.pools
  /\ \A v \in Rows(t.volumes) : v <= ids.volumes
  /\ \A h \in Hosts, v \in Volumes : t.maps[<<h, v>>] > 0 => h \in t.hosts

\* The call puts the item in place, when t is what was looked up.
Serves(call, item, t) ==
  \/ item.kind = "array" /\ call.do = "create_array" /\ call.array = item.array
  \/ item.kind = "endpoint" /\ call.do = "create_endpoint" /\ call.array = item.array
  \/ /\ item.kind = "pool" /\ call.do = "create_pool"
     /\ call.group = item.name /\ call.array = item.array
  \/ /\ item.kind = "pool" /\ call.do = "attach_pool" /\ call.array = item.array /\ ~call.once
     /\ call.pool \in Rows(t.pools) /\ t.pools[call.pool].name = item.name
  \/ item.kind = "host" /\ call.do = "create_host" /\ call.host = item.name
  \/ /\ item.kind = "volume" /\ call.do = "create_volume" /\ call.name = item.name
     /\ IF call.pool = Null THEN call.group = item.pool /\ call.array = item.array
                            ELSE call.pool \in AtHome(t, item) /\ ~call.once
  \/ /\ item.kind = "mapping" /\ call.do = "create_mapping" /\ call.host = item.host
     /\ IF call.volume = Null THEN call.name = item.name /\ call.array = item.array
                              ELSE call.volume \in VolumeCalled(t, item.name, item.array)

\* What the call has found is what the item needs.
SeenServes(call, seen, item, t) ==
  /\ call.do = "create_volume" => seen.array = item.array
  /\ call.do = "create_mapping" =>
       seen.volume \in VolumeCalled(t, item.name, item.array) /\ item.host \in t.hosts

Holds(t, p, name) == p \in Rows(t.pools) /\ t.pools[p].name = name

\* The items that a request's calls are for, one by one.
Goals(c) == IF op[c].step = "load" THEN Topology ELSE <<Item(c)>>

\* A request serves its run's items, and has put those in place that it is past.
Serving(c) ==
  LET q == request[c] IN
  /\ q.step # "idle" =>
       /\ Len(q.calls) = Len(Goals(c))
       /\ \A i \in DOMAIN Goals(c) :
            /\ Serves(q.calls[i], Goals(c)[i], db)
            /\ i < q.at \/ (i = q.at /\ q.step = "provision") => Has(View(c), Goals(c)[i])
            /\ i = q.at /\ q.step = "write" => SeenServes(q.calls[i], q.seen, Goals(c)[i], View(c))
  /\ q.result = "ok" => \A i \in DOMAIN Goals(c) : Has(db, Goals(c)[i])

\* A pool that is still to be attached has the name that is declared.
Creating(c) ==
  LET q == request[c] IN
  /\ q.step # "idle" =>
       /\ q.calls = PostPool(Item(c).name)
       /\ q.step = "provision" \/ q.at > 1 => Holds(View(c), q.made, Item(c).name)
  /\ q.result = "ok" => Holds(db, q.made, Item(c).name)

ServedOK(c) ==
  /\ request[c].step # "idle" => op[c].step \in {"await", "load", "created"}
  /\ op[c].step \in {"await", "load"} => Serving(c)
  /\ op[c].step = "created" => Creating(c)

\* A run has put in place what it is past.
DoneOK(c) ==
  /\ op[c].arrays \subseteq db.arrays
  /\ \A i \in DOMAIN Topology : i < op[c].at \/ op[c].step = "applied" => Has(db, Topology[i])

TablesGrow ==
  /\ Proper(db, issued)
  /\ writer # Null => Proper(txn, issued) /\ Grows(db, txn)

AppliedInv == TablesGrow /\ \A c \in Readers : ServedOK(c) /\ DoneOK(c)

-----------------------------------------------------------------------------
\* What grows keeps what was there.
LEMMA GrowsStays ==
  ASSUME NEW t \in TableSet, NEW u, Grows(t, u), NEW i \in DOMAIN Topology
  PROVE  Has(t, Topology[i]) => Has(u, Topology[i])
<1> DEFINE item == Topology[i]
<1>1. ASSUME NEW name, NEW a PROVE VolumeCalled(t, name, a) \subseteq VolumeCalled(u, name, a)
  BY DEF Grows, VolumeCalled, VolumesOf
<1>2. CASE item.kind = "pool"
  <2>1. i \in NamesPool /\ PoolNamed(item) = item.name
    BY <1>2 DEF NamesPool, PoolNamed
  <2>2. PoolCalled(t, item.name, item.array) \subseteq PoolCalled(u, item.name, item.array)
    BY <2>1 DEF Grows, AtHome
  <2> QED
    BY <1>2, <2>2 DEF Has
<1>3. CASE item.kind = "volume"
  BY <1>1, <1>3 DEF Has
<1>4. CASE item.kind = "mapping"
  <2>1. VolumeCalled(t, item.name, item.array) \subseteq Volumes
    BY DEF VolumeCalled, VolumesOf, Rows, TableSet
  <2> QED
    BY <1>1, <1>4, <2>1, ItemDeclared DEF Has, Grows
<1>5. CASE item.kind \in {"array", "endpoint", "host"}
  BY <1>5, ItemDeclared DEF Has, Grows
<1> QED
  BY <1>2, <1>3, <1>4, <1>5, ItemDeclared

LEMMA GrowsServes ==
  ASSUME NEW t, NEW u, Grows(t, u), NEW i \in DOMAIN Topology, NEW call, NEW seen
  PROVE  /\ Serves(call, Topology[i], t) => Serves(call, Topology[i], u)
         /\ SeenServes(call, seen, Topology[i], t) => SeenServes(call, seen, Topology[i], u)
<1>1. ASSUME NEW name, NEW a PROVE VolumeCalled(t, name, a) \subseteq VolumeCalled(u, name, a)
  BY DEF Grows, VolumeCalled, VolumesOf
<1>2. Topology[i].kind = "volume" => AtHome(t, Topology[i]) \subseteq AtHome(u, Topology[i])
  BY DEF NamesPool, Grows
<1>3. SeenServes(call, seen, Topology[i], t) => SeenServes(call, seen, Topology[i], u)
  BY <1>1 DEF SeenServes, Grows
<1>4. Serves(call, Topology[i], t) => Serves(call, Topology[i], u)
  BY <1>1, <1>2 DEF Serves, Grows
<1> QED
  BY <1>3, <1>4

\* Growing is transitive, and reflexive.
LEMMA GrowsOn ==
  ASSUME NEW t, NEW u, NEW w, Grows(t, u), Grows(u, w)
  PROVE  Grows(t, w)
BY DEF Grows

LEMMA GrowsItself == ASSUME NEW t PROVE Grows(t, t)
BY DEF Grows

\* The tables a declared item is in are those the smoke test looks at.
LEMMA HasIsPresent ==
  ASSUME TypeInv, NEW i \in DOMAIN Topology, Has(db, Topology[i])
  PROVE  Present(Topology[i])
BY ItemDeclared DEF Has, Present, SmokeTest, ResolvePool, ResolveVolume, ResolveMapping

-----------------------------------------------------------------------------
\* A call that takes nothing away: it creates, or attaches a pool where it is not
\* where the file has it.
Builds(call, t) ==
  /\ call.do \in {"create_array", "create_endpoint", "create_pool", "attach_pool", "create_host",
                  "create_volume", "create_mapping"}
  /\ call.do = "attach_pool" =>
       /\ call.pool \in Rows(t.pools)
       /\ \A i \in NamesPool : call.pool \in AtHome(t, Topology[i]) => Topology[i].array = call.array
  /\ call.do = "create_mapping" => call.host \in t.hosts

\* The UUIDs handed out once the call has written.
IdsAfter(call) ==
  [pools   |-> issued.pools + IF call.do = "create_pool" THEN 1 ELSE 0,
   volumes |-> issued.volumes + IF call.do = "create_volume" THEN 1 ELSE 0]

LEMMA WrittenGrows ==
  ASSUME TypeInv, NEW t \in TableSet, Proper(t, issued), NEW call \in GoodCall, NEW seen,
         Found(call, seen), Builds(call, t),
         call.do = "create_pool" => issued.pools < MaxPools,
         call.do = "create_volume" => issued.volumes < MaxVolumes
  PROVE  Grows(t, Written(call, seen, t)) /\ Proper(Written(call, seen, t), IdsAfter(call))
<1> DEFINE u == Written(call, seen, t)
           ids == IdsAfter(call)
<1>0. /\ issued.pools \in Nat /\ issued.volumes \in Nat /\ issued.pools <= ids.pools /\ issued.volumes <= ids.volumes
      /\ Rows(t.pools) \subseteq Nat /\ Rows(t.volumes) \subseteq Nat
      /\ ids.pools \in Nat /\ ids.volumes \in Nat
  <2>1. issued.pools \in Nat /\ issued.volumes \in Nat
    BY TablesAssumption DEF TypeInv
  <2>2. Rows(t.pools) \subseteq Nat /\ Rows(t.volumes) \subseteq Nat
    BY TablesAssumption DEF Rows, TableSet, Pools, Volumes
  <2>3. /\ ids.pools \in {issued.pools, issued.pools + 1}
        /\ ids.volumes \in {issued.volumes, issued.volumes + 1}
    BY <2>1 DEF IdsAfter
  <2> HIDE DEF ids
  <2> QED
    BY <2>1, <2>2, <2>3
<1>1. ASSUME u.pools = t.pools
      PROVE  /\ \A p \in Rows(t.pools) : p \in Rows(u.pools) /\ u.pools[p].name = t.pools[p].name
             /\ \A i \in NamesPool : AtHome(t, Topology[i]) \subseteq AtHome(u, Topology[i])
             /\ \A p \in Rows(u.pools) : p <= ids.pools
  <2> HIDE DEF u, ids
  <2> QED
    BY <1>0, <1>1 DEF Proper, AtHome, PoolCalled, PoolsOf
<1>2. ASSUME u.volumes = t.volumes
      PROVE  /\ \A v \in Rows(t.volumes) : /\ v \in Rows(u.volumes)
                                           /\ u.volumes[v].name = t.volumes[v].name
                                           /\ u.volumes[v].array = t.volumes[v].array
             /\ \A v \in Rows(u.volumes) : v <= ids.volumes
  <2> HIDE DEF u, ids
  <2> QED
    BY <1>0, <1>2 DEF Proper
<1>3. ASSUME u.maps = t.maps, t.hosts \subseteq u.hosts
      PROVE  /\ \A h \in Hosts, v \in Volumes : t.maps[<<h, v>>] > 0 => u.maps[<<h, v>>] > 0
             /\ \A h \in Hosts, v \in Volumes : u.maps[<<h, v>>] > 0 => h \in u.hosts
  <2> HIDE DEF u, ids
  <2> QED
    BY <1>3 DEF Proper
<1>4. ASSUME u.iscsi = t.iscsi PROVE \A a \in Arrays : t.iscsi[a] > 0 => u.iscsi[a] > 0
  BY <1>4
<1>5. CASE call.do = "create_array"
  <2>1. /\ t.arrays \subseteq u.arrays /\ u.hosts = t.hosts /\ u.pools = t.pools
        /\ u.volumes = t.volumes /\ u.maps = t.maps /\ u.iscsi = t.iscsi
    BY <1>5 DEF Written, ArrayAdded, TableSet
  <2> HIDE DEF u, ids
  <2> QED
    BY <1>1, <1>2, <1>3, <1>4, <2>1 DEF Grows, Proper, u, ids
<1>6. CASE call.do = "create_endpoint"
  <2>1. /\ u.arrays = t.arrays /\ u.hosts = t.hosts /\ u.pools = t.pools
        /\ u.volumes = t.volumes /\ u.maps = t.maps
        /\ u.iscsi = [t.iscsi EXCEPT ![call.array] = @ + 1]
    BY <1>6 DEF Written, EndpointAdded, TableSet
  <2>2. \A a \in Arrays : t.iscsi[a] \in Nat
    BY TablesAssumption DEF TableSet
  <2>3. \A a \in Arrays : t.iscsi[a] > 0 => u.iscsi[a] > 0
    <3> HIDE DEF u, ids
    <3> QED
      BY <2>1, <2>2 DEF TableSet
  <2> HIDE DEF u, ids
  <2> QED
    BY <1>1, <1>2, <1>3, <2>1, <2>3 DEF Grows, Proper, u, ids
<1>7. CASE call.do = "create_host"
  <2>1. /\ u.arrays = t.arrays /\ t.hosts \subseteq u.hosts /\ u.pools = t.pools
        /\ u.volumes = t.volumes /\ u.maps = t.maps /\ u.iscsi = t.iscsi
    BY <1>7 DEF Written, HostAdded, TableSet
  <2> HIDE DEF u, ids
  <2> QED
    BY <1>1, <1>2, <1>3, <1>4, <2>1 DEF Grows, Proper, u, ids
<1>8. CASE call.do = "create_pool"
  <2> DEFINE p == issued.pools + 1
             row == [name |-> call.group, array |-> call.array]
  <2>1. /\ u.arrays = t.arrays /\ u.hosts = t.hosts /\ u.volumes = t.volumes
        /\ u.maps = t.maps /\ u.iscsi = t.iscsi
        /\ u.pools = [t.pools EXCEPT ![p] = row]
    BY <1>8 DEF Written, PoolAdded, TableSet
  <2>2. p \notin Rows(t.pools) /\ ids.pools = p /\ p \in Nat
    BY <1>0, <1>8 DEF Proper, IdsAfter
  <2>3. DOMAIN u.pools = DOMAIN t.pools /\ \A q \in DOMAIN t.pools \ {p} : u.pools[q] = t.pools[q]
    BY <2>1
  <2> HIDE DEF u, ids, p, row
  <2>4. \A q \in Rows(t.pools) : q \in Rows(u.pools) /\ u.pools[q] = t.pools[q]
    BY <2>2, <2>3 DEF Rows
  <2>5. Rows(u.pools) \subseteq Rows(t.pools) \cup {p}
    BY <2>3 DEF Rows
  <2>6. /\ \A q \in Rows(t.pools) : q \in Rows(u.pools) /\ u.pools[q].name = t.pools[q].name
        /\ \A i \in NamesPool : AtHome(t, Topology[i]) \subseteq AtHome(u, Topology[i])
    BY <2>4 DEF AtHome, PoolCalled, PoolsOf
  <2>7. \A q \in Rows(u.pools) : q <= ids.pools
    BY <1>0, <2>2, <2>5 DEF Proper
  <2> QED
    BY <1>2, <1>3, <1>4, <2>1, <2>6, <2>7 DEF Grows, Proper, u, ids
<1>9. CASE call.do = "attach_pool"
  <2> DEFINE p == call.pool
  <2>1. /\ u.arrays = t.arrays /\ u.hosts = t.hosts /\ u.volumes = t.volumes
        /\ u.maps = t.maps /\ u.iscsi = t.iscsi
        /\ u.pools = [t.pools EXCEPT ![p].array = call.array]
    BY <1>9 DEF Written, PoolMoved, TableSet
  <2>2. p \in Rows(t.pools) /\ t.pools[p] \in PoolRow /\ p \in DOMAIN t.pools
    BY <1>9 DEF Builds, Rows, TableSet
  <2>3. u.pools[p] = [t.pools[p] EXCEPT !.array = call.array]
    BY <2>1, <2>2
  <2>4. u.pools[p].name = t.pools[p].name /\ u.pools[p].array = call.array /\ u.pools[p] \in PoolRow
    BY <1>9, <2>2, <2>3 DEF PoolRow, GoodCall
  <2>5. DOMAIN u.pools = DOMAIN t.pools /\ \A q \in DOMAIN t.pools \ {p} : u.pools[q] = t.pools[q]
    BY <2>1
  <2> HIDE DEF u, ids, p
  <2>6. Rows(u.pools) = Rows(t.pools)
    BY <2>2, <2>4, <2>5, Nulls DEF Rows
  <2>7. \A q \in Rows(t.pools) : u.pools[q].name = t.pools[q].name
    BY <2>4, <2>5 DEF Rows
  <2>8. ASSUME NEW i \in NamesPool, NEW q \in AtHome(t, Topology[i]) PROVE q \in AtHome(u, Topology[i])
    <3>1. q \in Rows(t.pools) /\ t.pools[q].array = Topology[i].array /\ t.pools[q].name = PoolNamed(Topology[i])
      BY <2>8 DEF AtHome, PoolCalled, PoolsOf
    <3>2. u.pools[q].array = Topology[i].array
      BY <1>9, <2>4, <2>5, <2>8, <3>1 DEF Builds, Rows, p
    <3> QED
      BY <2>6, <2>7, <3>1, <3>2 DEF AtHome, PoolCalled, PoolsOf
  <2>9. \A q \in Rows(u.pools) : q <= ids.pools
    BY <1>0, <2>6 DEF Proper
  <2> QED
    BY <1>2, <1>3, <1>4, <2>1, <2>6, <2>7, <2>8, <2>9 DEF Grows, Proper, u, ids
<1>10. CASE call.do = "create_volume"
  <2> DEFINE v == issued.volumes + 1
             row == [name |-> call.name, pool |-> seen.pool, array |-> seen.array, status |-> "creating"]
  <2>1. /\ u.arrays = t.arrays /\ u.hosts = t.hosts /\ u.pools = t.pools
        /\ u.maps = t.maps /\ u.iscsi = t.iscsi
        /\ u.volumes = [t.volumes EXCEPT ![v] = row]
    BY <1>10 DEF Written, VolumeAdded, TableSet
  <2>2. v \notin Rows(t.volumes) /\ ids.volumes = v /\ v \in Nat
    BY <1>0, <1>10 DEF Proper, IdsAfter
  <2>3. DOMAIN u.volumes = DOMAIN t.volumes /\ \A w \in DOMAIN t.volumes \ {v} : u.volumes[w] = t.volumes[w]
    BY <2>1
  <2> HIDE DEF u, ids, v, row
  <2>4. \A w \in Rows(t.volumes) : w \in Rows(u.volumes) /\ u.volumes[w] = t.volumes[w]
    BY <2>2, <2>3 DEF Rows
  <2>5. Rows(u.volumes) \subseteq Rows(t.volumes) \cup {v}
    BY <2>3 DEF Rows
  <2>6. \A w \in Rows(u.volumes) : w <= ids.volumes
    BY <1>0, <2>2, <2>5 DEF Proper
  <2> QED
    BY <1>1, <1>3, <1>4, <2>1, <2>4, <2>6 DEF Grows, Proper, u, ids
<1>11. CASE call.do = "create_mapping"
  <2> DEFINE pair == <<call.host, seen.volume>>
  <2>1. /\ u.arrays = t.arrays /\ u.hosts = t.hosts /\ u.pools = t.pools /\ u.volumes = t.volumes
        /\ u.iscsi = t.iscsi /\ u.maps = [t.maps EXCEPT ![pair] = @ + 1]
    BY <1>11 DEF Written, MappingAdded, TableSet
  <2>2. call.host \in t.hosts
    BY <1>11 DEF Builds
  <2>3. ASSUME NEW h \in Hosts, NEW v \in Volumes
        PROVE  /\ t.maps[<<h, v>>] > 0 => u.maps[<<h, v>>] > 0
               /\ u.maps[<<h, v>>] > 0 => h \in u.hosts
    <3>1. t.maps[<<h, v>>] \in Nat /\ DOMAIN t.maps = Hosts \X Volumes /\ <<h, v>> \in Hosts \X Volumes
      BY TablesAssumption DEF TableSet
    <3>2. u.maps[<<h, v>>] = IF <<h, v>> = pair THEN t.maps[<<h, v>>] + 1 ELSE t.maps[<<h, v>>]
      <4> HIDE DEF u, pair
      <4> QED
        BY <2>1, <3>1
    <3>3. CASE <<h, v>> = pair
      BY <2>1, <2>2, <3>1, <3>2, <3>3
    <3>4. CASE <<h, v>> # pair
      BY <2>1, <3>1, <3>2, <3>4 DEF Proper
    <3> QED
      BY <3>3, <3>4
  <2> HIDE DEF u, ids
  <2> QED
    BY <1>1, <1>2, <1>4, <2>1, <2>3 DEF Grows, Proper, u, ids
<1> QED
  BY <1>5, <1>6, <1>7, <1>8, <1>9, <1>10, <1>11 DEF Builds

\* A call that serves an item puts it in place.
LEMMA WrittenHas ==
  ASSUME TypeInv, NEW t \in TableSet, NEW call \in GoodCall, NEW seen, Found(call, seen),
         NEW i \in DOMAIN Topology, Serves(call, Topology[i], t),
         SeenServes(call, seen, Topology[i], t),
         call.do = "create_pool" => issued.pools < MaxPools,
         call.do = "create_volume" => issued.volumes < MaxVolumes
  PROVE  Has(Written(call, seen, t), Topology[i])
<1> DEFINE u == Written(call, seen, t)
           item == Topology[i]
<1>0. /\ issued.pools \in Nat /\ issued.volumes \in Nat
  BY TablesAssumption DEF TypeInv
<1>1. CASE call.do = "create_array"
  BY <1>1 DEF Written, ArrayAdded, TableSet, Serves, Has
<1>2. CASE call.do = "create_endpoint"
  <2>1. u.iscsi = [t.iscsi EXCEPT ![call.array] = @ + 1] /\ call.array \in Arrays
    BY <1>2 DEF Written, EndpointAdded, TableSet, GoodCall, ArrayCalls
  <2>2. t.iscsi[call.array] \in Nat /\ DOMAIN t.iscsi = Arrays
    BY <2>1, TablesAssumption DEF TableSet
  <2>3. u.iscsi[call.array] = t.iscsi[call.array] + 1
    <3> HIDE DEF u
    <3> QED
      BY <2>1, <2>2
  <2> HIDE DEF u
  <2> QED
    BY <1>2, <2>2, <2>3 DEF Serves, Has, u
<1>3. CASE call.do = "create_host"
  BY <1>3 DEF Written, HostAdded, TableSet, Serves, Has
<1>4. CASE call.do = "create_pool"
  <2> DEFINE p == issued.pools + 1
             row == [name |-> call.group, array |-> call.array]
  <2>1. u.pools = [t.pools EXCEPT ![p] = row] /\ DOMAIN t.pools = Pools
    BY <1>4 DEF Written, PoolAdded, TableSet
  <2>2. p \in Pools
    BY <1>0, <1>4, TablesAssumption DEF Pools
  <2>3. row \in PoolRow
    BY <1>4 DEF GoodCall, PoolRow
  <2>4. u.pools[p] = row /\ p \in Rows(u.pools)
    <3> HIDE DEF u, row, p
    <3> QED
      BY <2>1, <2>2, <2>3, Nulls DEF Rows
  <2>5. p \in PoolCalled(u, call.group, call.array)
    BY <2>4 DEF PoolCalled, PoolsOf
  <2> HIDE DEF u
  <2> QED
    BY <1>4, <2>5 DEF Serves, Has, u
<1>5. CASE call.do = "attach_pool"
  <2> DEFINE p == call.pool
  <2>1. u.pools = [t.pools EXCEPT ![p].array = call.array] /\ DOMAIN t.pools = Pools
    BY <1>5 DEF Written, PoolMoved, TableSet
  <2>2. p \in Rows(t.pools) /\ t.pools[p] \in PoolRow /\ p \in Pools /\ t.pools[p].name = item.name
        /\ call.array \in Arrays
    BY <1>5 DEF Serves, Rows, TableSet, GoodCall
  <2>3. u.pools[p] = [t.pools[p] EXCEPT !.array = call.array]
    <3> HIDE DEF u
    <3> QED
      BY <2>1, <2>2
  <2>4. u.pools[p] \in PoolRow /\ u.pools[p].array = call.array /\ u.pools[p].name = item.name
    <3> HIDE DEF u
    <3> QED
      BY <2>2, <2>3 DEF PoolRow
  <2>5. p \in PoolCalled(u, item.name, call.array)
    <3> HIDE DEF u
    <3> QED
      BY <2>1, <2>2, <2>4, Nulls DEF PoolCalled, PoolsOf, Rows
  <2> HIDE DEF u
  <2> QED
    BY <1>5, <2>5 DEF Serves, Has, u
<1>6. CASE call.do = "create_volume"
  <2> DEFINE v == issued.volumes + 1
             row == [name |-> call.name, pool |-> seen.pool, array |-> seen.array, status |-> "creating"]
  <2>1. u.volumes = [t.volumes EXCEPT ![v] = row] /\ DOMAIN t.volumes = Volumes
    BY <1>6 DEF Written, VolumeAdded, TableSet
  <2>2. v \in Volumes
    BY <1>0, <1>6, TablesAssumption DEF Volumes
  <2>3. row \in VolumeRow
    BY <1>6 DEF GoodCall, VolumeRow, Found
  <2>4. u.volumes[v] = row /\ v \in Rows(u.volumes)
    <3> HIDE DEF u, row, v
    <3> QED
      BY <2>1, <2>2, <2>3, Nulls DEF Rows
  <2>5. v \in VolumeCalled(u, call.name, seen.array)
    BY <2>4 DEF VolumeCalled, VolumesOf
  <2> HIDE DEF u
  <2> QED
    BY <1>6, <2>5 DEF Serves, SeenServes, Has, u
<1>7. CASE call.do = "create_mapping"
  <2> DEFINE pair == <<call.host, seen.volume>>
  <2>1. u.hosts = t.hosts /\ u.volumes = t.volumes /\ u.maps = [t.maps EXCEPT ![pair] = @ + 1]
    BY <1>7 DEF Written, MappingAdded, TableSet
  <2>2. /\ seen.volume \in VolumeCalled(t, item.name, item.array) /\ item.host \in t.hosts
        /\ call.host = item.host /\ item.kind = "mapping"
    BY <1>7 DEF SeenServes, Serves
  <2>3. pair \in Hosts \X Volumes
    BY <1>7, <2>2 DEF Found, TableSet
  <2>4. t.maps[pair] \in Nat /\ DOMAIN t.maps = Hosts \X Volumes
    BY <2>3, TablesAssumption DEF TableSet
  <2>5. u.maps[pair] = t.maps[pair] + 1
    <3> HIDE DEF u, pair
    <3> QED
      BY <2>1, <2>3, <2>4
  <2>6. seen.volume \in VolumeCalled(u, item.name, item.array)
    <3> HIDE DEF u
    <3> QED
      BY <2>1, <2>2 DEF VolumeCalled, VolumesOf
  <2>7. u.maps[<<item.host, seen.volume>>] > 0
    <3> HIDE DEF u
    <3> QED
      BY <2>2, <2>4, <2>5
  <2> HIDE DEF u
  <2> QED
    BY <2>1, <2>2, <2>6, <2>7 DEF Has, u
<1> QED
  BY <1>1, <1>2, <1>3, <1>4, <1>5, <1>6, <1>7 DEF Serves

\* A volume that is provisioned gets another status, and nothing else.
LEMMA MadeGrows ==
  ASSUME TypeInv, issued.volumes \in Rows(txn.volumes), Proper(txn, issued),
         NEW status \in {"available", "error"}
  PROVE  /\ Grows(txn, VolumeMade(issued.volumes, status))
         /\ Proper(VolumeMade(issued.volumes, status), issued)
<1> DEFINE v == issued.volumes
           u == VolumeMade(v, status)
<1>1. txn \in TableSet /\ v \in DOMAIN txn.volumes /\ txn.volumes[v] \in VolumeRow
  BY DEF TypeInv, Rows, TableSet
<1>2. /\ u.arrays = txn.arrays /\ u.hosts = txn.hosts /\ u.pools = txn.pools
      /\ u.iscsi = txn.iscsi /\ u.maps = txn.maps
      /\ u.volumes = [txn.volumes EXCEPT ![v].status = status]
  BY <1>1 DEF VolumeMade, TableSet
<1>3. u.volumes[v] = [txn.volumes[v] EXCEPT !.status = status]
  BY <1>1, <1>2
<1>4. /\ u.volumes[v].name = txn.volumes[v].name /\ u.volumes[v].array = txn.volumes[v].array
      /\ u.volumes[v] \in VolumeRow
  BY <1>1, <1>3 DEF VolumeRow
<1>5. DOMAIN u.volumes = DOMAIN txn.volumes /\ \A w \in DOMAIN txn.volumes \ {v} : u.volumes[w] = txn.volumes[w]
  BY <1>2
<1> HIDE DEF u, v
<1>6. Rows(u.volumes) = Rows(txn.volumes)
  BY <1>1, <1>4, <1>5, Nulls DEF Rows
<1>7. \A w \in Rows(txn.volumes) : u.volumes[w].name = txn.volumes[w].name /\ u.volumes[w].array = txn.volumes[w].array
  BY <1>4, <1>5 DEF Rows
<1>8. Grows(txn, u)
  BY <1>2, <1>6, <1>7 DEF Grows, AtHome, PoolCalled, PoolsOf
<1>9. Proper(u, issued)
  BY <1>2, <1>6 DEF Proper
<1> QED
  BY <1>8, <1>9 DEF u, v

-----------------------------------------------------------------------------
\* What a service finds when its call serves an item.
LEMMA CheckServes ==
  ASSUME TypeInv, NEW t \in TableSet, Proper(t, issued), NEW call \in GoodCall,
         NEW i \in DOMAIN Topology, Serves(call, Topology[i], t)
  PROVE  /\ call.once /\ There(call, t) => Has(t, Topology[i])
         /\ ~Refused(call, t) /\ NothingToWrite(call, t) => Has(t, Topology[i])
         /\ ~Refused(call, t) => SeenServes(call, Seen(call, t), Topology[i], t)
<1> DEFINE item == Topology[i]
<1>1. VolumesFor(call, t) \subseteq Volumes
  BY DEF VolumesFor, VolumeCalled, VolumesOf, Rows, TableSet
<1>2. call.do = "create_mapping" => /\ VolumesFor(call, t) \subseteq VolumeCalled(t, item.name, item.array)
                                    /\ call.host = item.host /\ call.host \in Hosts /\ item.kind = "mapping"
  BY DEF Serves, VolumesFor, GoodCall, PairCalls
<1>3. call.do = "create_volume" => /\ \A p \in PoolsFor(call, t) : t.pools[p].array = item.array
                                   /\ item.kind = "volume" /\ call.name = item.name
                                   /\ call.once => call.array = item.array
  BY DEF Serves, PoolsFor, AtHome, PoolCalled, PoolsOf
<1>4. ASSUME call.once, There(call, t) PROVE Has(t, item)
  <2>1. CASE call.do \in {"create_array", "create_endpoint", "create_pool", "create_host"}
    BY <1>4, <2>1 DEF Serves, There, Has
  <2>2. CASE call.do = "create_volume"
    BY <1>3, <1>4, <2>2 DEF There, Has
  <2>3. CASE call.do = "create_mapping"
    <3>1. PICK v \in VolumesFor(call, t) : t.maps[<<call.host, v>>] = 1
      BY <1>4, <2>3 DEF There
    <3>2. call.host \in t.hosts /\ t.maps[<<call.host, v>>] > 0
      BY <1>1, <1>2, <2>3, <3>1 DEF Proper
    <3> QED
      BY <1>2, <2>3, <3>1, <3>2 DEF Has
  <2> QED
    BY <1>4, <2>1, <2>2, <2>3 DEF Serves
<1>5. ASSUME NothingToWrite(call, t) PROVE Has(t, item)
  <2>1. /\ call.do = "attach_pool" /\ call.array = t.pools[call.pool].array
    BY <1>5 DEF NothingToWrite, Serves
  <2>2. call.pool \in PoolCalled(t, item.name, item.array) /\ item.kind = "pool"
    BY <2>1 DEF Serves, PoolCalled, PoolsOf
  <2> QED
    BY <2>2 DEF Has
<1>6. ASSUME ~Refused(call, t) PROVE SeenServes(call, Seen(call, t), item, t)
  <2>1. ASSUME call.do = "create_volume" PROVE Seen(call, t).array = item.array
    <3>1. PoolsFor(call, t) # {}
      BY <1>6, <2>1 DEF Refused
    <3>2. TheOne(PoolsFor(call, t)) \in PoolsFor(call, t)
      BY <3>1 DEF TheOne
    <3> QED
      BY <1>3, <2>1, <3>2 DEF Seen, ArrayOf
  <2>2. ASSUME call.do = "create_mapping"
        PROVE  Seen(call, t).volume \in VolumeCalled(t, item.name, item.array) /\ item.host \in t.hosts
    <3>1. PICK v \in VolumesFor(call, t) : ~CreateMappingRefused(t, call.host, v)
      BY <1>6, <2>2 DEF Refused
    <3>2. TheOne(VolumesFor(call, t)) \in VolumesFor(call, t)
      BY <3>1 DEF TheOne
    <3>3. call.host \in t.hosts
      BY <3>1 DEF CreateMappingRefused
    <3> QED
      BY <1>2, <2>2, <3>2, <3>3 DEF Seen
  <2> QED
    BY <2>1, <2>2 DEF SeenServes
<1> QED
  BY <1>4, <1>5, <1>6

\* Such a call takes nothing away.
LEMMA ServesBuilds ==
  ASSUME OneArrayEach, NEW t, NEW call, NEW seen, NEW i \in DOMAIN Topology,
         Serves(call, Topology[i], t), SeenServes(call, seen, Topology[i], t)
  PROVE  Builds(call, t)
<1>1. ASSUME call.do = "attach_pool", NEW j \in NamesPool, call.pool \in AtHome(t, Topology[j])
      PROVE  Topology[j].array = call.array
  <2>1. Topology[i].kind = "pool" /\ t.pools[call.pool].name = Topology[i].name /\ call.array = Topology[i].array
    BY <1>1 DEF Serves
  <2>2. t.pools[call.pool].name = PoolNamed(Topology[j])
    BY <1>1 DEF AtHome, PoolCalled
  <2>3. i \in NamesPool /\ PoolNamed(Topology[i]) = Topology[i].name
    BY <2>1 DEF NamesPool, PoolNamed
  <2> QED
    BY <2>1, <2>2, <2>3 DEF OneArrayEach
<1> QED
  BY <1>1 DEF Serves, SeenServes, Builds

\* The items of a request are the file's.
LEMMA GoalsAreItems ==
  ASSUME RunInv, NEW c \in Readers, op[c].step \in {"await", "load"}, NEW i \in DOMAIN Goals(c)
  PROVE  \E j \in DOMAIN Topology : Goals(c)[i] = Topology[j] /\ (op[c].step = "load" => i = j)
                                    /\ (op[c].step = "await" => i = 1 /\ j = op[c].at)
<1>1. Len(Topology) \in Nat /\ DOMAIN Topology = 1..Len(Topology) /\ RunOK(c)
  BY ApplyAssumption DEF RunInv
<1>2. CASE op[c].step = "load"
  BY <1>2 DEF Goals
<1>3. CASE op[c].step = "await"
  BY <1>1, <1>3 DEF Goals, Item, RunOK
<1> QED
  BY <1>2, <1>3

-----------------------------------------------------------------------------
\* The tables a request sees.
LEMMA ViewGrows ==
  ASSUME TypeInv, TablesGrow, NEW c \in Clients
  PROVE  View(c) \in TableSet /\ Proper(View(c), issued) /\ Grows(db, View(c))
BY GrowsItself, Nulls DEF View, TypeInv, TablesGrow

\* The call at which a request is, and the item that it serves.
LEMMA CallServes ==
  ASSUME TypeInv, RunInv, AppliedInv, NEW c \in Readers, op[c].step \in {"await", "load"},
         request[c].step # "idle", request[c].at <= Len(request[c].calls)
  PROVE  LET i == request[c].at
         IN  /\ i \in DOMAIN Goals(c) /\ \E j \in DOMAIN Topology : Goals(c)[i] = Topology[j]
             /\ Current(c) \in GoodCall
             /\ Serves(Current(c), Goals(c)[i], View(c))
             /\ request[c].step = "write" => SeenServes(Current(c), request[c].seen, Goals(c)[i], View(c))
<1> DEFINE i == request[c].at
<1>0. c \in Clients /\ request[c] \in RequestSet /\ RequestOK(c) /\ Serving(c)
  BY RequestsAssumption DEF TypeInv, AppliedInv, ServedOK
<1>1. Goals(c) \in Seq(Declared) /\ Len(Goals(c)) = Len(request[c].calls)
  <2>1. op[c].step = "await" => Item(c) \in Declared
    BY ApplyAssumption DEF RunInv, RunOK, Item
  <2>2. Goals(c) \in Seq(Declared)
    BY <2>1, ApplyAssumption DEF Goals
  <2> QED
    BY <1>0, <2>2 DEF Serving
<1>2. i \in DOMAIN Goals(c) /\ i \in DOMAIN request[c].calls
  BY <1>0, <1>1 DEF RequestOK, RequestSet
<1>3. PICK j \in DOMAIN Topology : Goals(c)[i] = Topology[j]
  BY <1>2, GoalsAreItems
<1>4. Current(c) \in GoodCall
  BY <1>0, <1>2 DEF Current, RequestSet
<1>5. Serves(Current(c), Goals(c)[i], db)
  BY <1>0, <1>2 DEF Serving, Current
<1>6. Serves(Current(c), Goals(c)[i], View(c))
  BY <1>0, <1>3, <1>5, ViewGrows, GrowsServes DEF AppliedInv
<1>7. request[c].step = "write" => SeenServes(Current(c), request[c].seen, Goals(c)[i], View(c))
  BY <1>0, <1>2 DEF Serving, Current
<1> QED
  BY <1>2, <1>3, <1>4, <1>6, <1>7

\* The one call of a request for a pool that is to be attached.
LEMMA CreatingAt ==
  ASSUME TypeInv, RunInv, AppliedInv, NEW c \in Readers, op[c].step = "created", request[c].step # "idle"
  PROVE  /\ Item(c).kind = "pool" /\ Item(c).name \in PoolNames
         /\ request[c].calls = PostPool(Item(c).name) /\ Len(request[c].calls) = 1
         /\ request[c].at \in {1, 2}
         /\ request[c].step \in {"write", "provision"} => request[c].at = 1
         /\ request[c].at = 1 => Current(c).do = "create_pool" /\ ~Current(c).once /\ Current(c).group = Item(c).name
<1>0. c \in Clients /\ RequestOK(c) /\ RunOK(c) /\ Creating(c)
  BY RequestsAssumption DEF TypeInv, AppliedInv, ServedOK, RunInv
<1>1. op[c].at \in DOMAIN Topology /\ Item(c).kind = "pool"
  BY <1>0, ApplyAssumption DEF RunOK
<1>2. Item(c).name \in PoolNames
  BY <1>1, ItemDeclared DEF Item
<1>3. request[c].calls = PostPool(Item(c).name)
  BY <1>0 DEF Creating
<1>4. Len(request[c].calls) = 1
  BY <1>2, <1>3, PostPoolIs
<1>5. /\ request[c].at \in {1, 2}
      /\ request[c].step \in {"write", "provision"} => request[c].at = 1
  BY <1>0, <1>4 DEF RequestOK
<1> QED
  BY <1>1, <1>2, <1>3, <1>4, <1>5, PostPoolIs DEF Current

\* What a request is about to write takes nothing away.
LEMMA WriteBuilds ==
  ASSUME TypeInv, RunInv, AppliedInv, OneArrayEach, NEW c \in Readers, request[c].step = "write"
  PROVE  Builds(Current(c), View(c)) /\ Current(c) \in GoodCall /\ Found(Current(c), request[c].seen)
<1>0. c \in Clients /\ request[c] \in RequestSet /\ RequestOK(c) /\ ServedOK(c)
  BY RequestsAssumption DEF TypeInv, AppliedInv
<1>1. request[c].at <= Len(request[c].calls) /\ Found(Current(c), request[c].seen)
  BY <1>0 DEF RequestOK
<1>2. Current(c) \in GoodCall
  BY <1>0, <1>1 DEF Current, RequestSet, RequestOK
<1>3. CASE op[c].step \in {"await", "load"}
  BY <1>1, <1>2, <1>3, CallServes, ServesBuilds
<1>4. CASE op[c].step = "created"
  BY <1>1, <1>2, <1>4, CreatingAt DEF Builds
<1> QED
  BY <1>0, <1>3, <1>4 DEF ServedOK

\* What the step of a request does to the tables.
LEMMA ServeGrows ==
  ASSUME TypeInv, RunInv, AppliedInv, OneArrayEach, NEW c \in Readers, Serve(c)
  PROVE  /\ Grows(db, db') /\ TablesGrow'
         /\ writer \in {c, Null} \/ UNCHANGED <<writer, txn, db>>
         /\ writer' \in {writer, c, Null}
         /\ request'[c].step # "idle" => Grows(View(c), View(c)')
         /\ request'[c].result = "ok" => Grows(View(c), db')
<1> DEFINE Goal == /\ Grows(db, db') /\ TablesGrow'
                   /\ writer \in {c, Null} \/ UNCHANGED <<writer, txn, db>>
                   /\ writer' \in {writer, c, Null}
                   /\ request'[c].step # "idle" => Grows(View(c), View(c)')
                   /\ request'[c].result = "ok" => Grows(View(c), db')
<1>0. /\ c \in Clients /\ request[c] \in RequestSet /\ RequestOK(c) /\ TablesGrow /\ c # Null
      /\ View(c) \in TableSet /\ Proper(View(c), issued) /\ Grows(db, View(c)) /\ c \in DOMAIN request
  BY RequestsAssumption, ViewGrows, Nulls DEF TypeInv, AppliedInv
<1>1. ASSUME Fail(c), UNCHANGED <<db, issued>> PROVE Goal
  <2>1. request'[c].step = "idle" /\ request'[c].result = "error"
    BY <1>0, <1>1, RequestsAssumption DEF Fail, Ended, Replied, Idle
  <2>2. TablesGrow'
    BY <1>0, <1>1 DEF Fail, TablesGrow
  <2>3. Grows(db, db')
    BY <1>1, GrowsItself
  <2> QED
    BY <1>1, <2>1, <2>2, <2>3, Nulls DEF Fail
<1>2. ASSUME UNCHANGED <<db, writer, txn, issued>>, request'[c].result # "ok" PROVE Goal
  <2>1. TablesGrow' /\ Grows(db, db') /\ Grows(View(c), View(c)')
    BY <1>0, <1>2, GrowsItself DEF TablesGrow, View
  <2> QED
    BY <1>2, <2>1
<1>3. request[c].step # "idle" /\ request[c].result = Null
  BY <1>0 DEF Serve, Check, Write, LockFails, Provision, Commit, RequestOK
<1>4. request' = Onward(c) => request'[c].result # "ok"
  BY <1>0, <1>3, RequestsAssumption, Nulls DEF Onward, RequestSet
<1>5. CASE Check(c)
  <2>1. ASSUME request' = [request EXCEPT ![c].step = "write", ![c].seen = Seen(Current(c), View(c))]
        PROVE  request'[c].result # "ok"
    BY <1>0, <1>3, <2>1, Nulls DEF RequestSet
  <2> QED
    BY <1>1, <1>2, <1>4, <1>5, <2>1 DEF Check
<1>6. CASE Write(c)
  <2> DEFINE call == Current(c)
             seen == request[c].seen
  <2>1. CASE Fail(c) /\ UNCHANGED issued
    BY <1>1, <1>6, <2>1 DEF Write
  <2>2. CASE /\ call.do = "create_pool" => issued.pools < MaxPools
             /\ call.do = "create_volume" => issued.volumes < MaxVolumes
             /\ writer' = c /\ txn' = Written(call, seen, View(c)) /\ issued' = IdsAfter(call)
             /\ \/ request' = [request EXCEPT ![c].step = "provision", ![c].made = issued.pools + 1]
                \/ request' = [request EXCEPT ![c].step = "provision"]
                \/ request' = Onward(c)
    <3>1. Grows(View(c), txn') /\ Proper(txn', issued')
      BY <1>0, <1>6, <2>2, WriteBuilds, WrittenGrows DEF Write
    <3>2. Grows(db, txn')
      BY <1>0, <3>1, GrowsOn
    <3>3. issued'.pools >= issued.pools /\ issued'.volumes >= issued.volumes
          /\ {issued'.pools, issued'.volumes, issued.pools, issued.volumes} \subseteq Nat
      BY <2>2, TablesAssumption DEF IdsAfter, TypeInv
    <3>4. Rows(db.pools) \subseteq Nat /\ Rows(db.volumes) \subseteq Nat
      <4>1. db.pools \in [Pools -> PoolRow \cup {Null}] /\ db.volumes \in [Volumes -> VolumeRow \cup {Null}]
        BY DEF TypeInv, TableSet
      <4> QED
        BY <4>1, TablesAssumption DEF Rows, Pools, Volumes
    <3>5. Proper(db, issued')
      BY <1>0, <3>3, <3>4 DEF TablesGrow, Proper
    <3>6. db' = db /\ writer \in {c, Null} /\ request'[c].result # "ok"
      <4>1. db' = db /\ writer \in {c, Null}
        BY <1>6 DEF Write
      <4>2. request'[c].result = request[c].result
        BY <1>0, <2>2 DEF Onward, RequestSet
      <4> QED
        BY <4>1, <4>2, <1>3, Nulls
    <3>7. View(c)' = txn'
      BY <2>2 DEF View
    <3> QED
      BY <2>2, <3>1, <3>2, <3>5, <3>6, <3>7, GrowsItself DEF TablesGrow
  <2> QED
    BY <1>6, <2>1, <2>2 DEF Write, IdsAfter
<1>7. CASE LockFails(c)
  BY <1>1, <1>7 DEF LockFails
<1>8. CASE Provision(c)
  <2>1. writer = c /\ Underway(Current(c)) /\ UNCHANGED issued
    BY <1>0, <1>8 DEF Provision, RequestOK
  <2>2. CASE Fail(c) /\ UNCHANGED db
    BY <1>1, <2>1, <2>2
  <2>3. CASE request' = Onward(c) /\ UNCHANGED <<db, writer, txn>>
    BY <1>2, <1>4, <2>1, <2>3
  <2>4. CASE Current(c).do = "create_volume" /\ EnsureLvol(c)
    <3>1. issued.volumes \in Rows(txn.volumes) /\ Proper(txn, issued) /\ Grows(db, txn)
      BY <1>0, <2>1, <2>4 DEF Underway, TablesGrow
    <3>2. CASE txn' = VolumeMade(issued.volumes, "available") /\ request' = Onward(c) /\ UNCHANGED <<db, writer>>
      <4>1. Grows(txn, txn') /\ Proper(txn', issued)
        BY <3>1, <3>2, MadeGrows
      <4>2. Grows(db, txn')
        BY <3>1, <4>1, GrowsOn
      <4>3. TablesGrow'
        BY <1>0, <2>1, <3>2, <4>1, <4>2 DEF TablesGrow
      <4>4. View(c) = txn /\ View(c)' = txn'
        BY <2>1, <3>2 DEF View
      <4> QED
        BY <1>4, <2>1, <3>2, <4>1, <4>3, <4>4, GrowsItself
    <3>3. CASE Fail(c) /\ db' = VolumeMade(issued.volumes, "error")
      <4>1. Grows(txn, db') /\ Proper(db', issued)
        BY <3>1, <3>3, MadeGrows
      <4>2. Grows(db, db')
        BY <3>1, <4>1, GrowsOn
      <4>3. writer' = Null
        BY <2>1, <3>3 DEF Fail
      <4>4. request'[c].step = "idle" /\ request'[c].result = "error"
        BY <1>0, <3>3, RequestsAssumption DEF Fail, Ended, Replied, Idle
      <4> QED
        BY <2>1, <4>1, <4>2, <4>3, <4>4 DEF TablesGrow
    <3> QED
      BY <2>2, <2>4, <3>2, <3>3 DEF EnsureLvol
  <2> QED
    BY <1>8, <2>2, <2>3, <2>4 DEF Provision, EnsurePool, EnsureExport
<1>9. CASE Commit(c)
  <2>1. request'[c].step = "idle" /\ UNCHANGED issued
    BY <1>0, <1>9 DEF Commit, Ended, Replied, Idle
  <2>2. CASE writer = c /\ db' = txn /\ writer' = Null
    BY <1>0, <2>1, <2>2, GrowsItself DEF TablesGrow, View
  <2>3. CASE writer # c /\ UNCHANGED <<db, writer, txn>>
    BY <1>0, <2>1, <2>3, GrowsItself DEF TablesGrow, View
  <2> QED
    BY <1>9, <2>2, <2>3 DEF Commit
<1> QED
  BY <1>5, <1>6, <1>7, <1>8, <1>9 DEF Serve

\* Where the tables grow, what a run is past stays done.
LEMMA DoneStays ==
  ASSUME TypeInv, Grows(db, db'), NEW d \in Readers, op'[d] = op[d], DoneOK(d)
  PROVE  DoneOK(d)'
<1>1. \A i \in DOMAIN Topology : Has(db, Topology[i]) => Has(db', Topology[i])
  BY GrowsStays DEF TypeInv
<1> QED
  BY <1>1 DEF DoneOK, Grows

\* And so does what a request has done that does not move.
LEMMA ServedStays ==
  ASSUME TypeInv, RunInv, AppliedInv, Grows(db, db'), NEW d \in Readers,
         op'[d] = op[d], request'[d] = request[d],
         request[d].step # "idle" => Grows(View(d), View(d)')
  PROVE  ServedOK(d)'
<1>0. d \in Clients /\ ServedOK(d) /\ db \in TableSet /\ View(d) \in TableSet
  BY RequestsAssumption, ViewGrows DEF AppliedInv, TypeInv
<1>1. Item(d)' = Item(d) /\ Goals(d)' = Goals(d)
  BY DEF Item, Goals
<1>2. ASSUME op[d].step \in {"await", "load"} PROVE Serving(d)'
  <2>1. Serving(d)
    BY <1>0, <1>2 DEF ServedOK
  <2>2. ASSUME request[d].step # "idle", NEW i \in DOMAIN Goals(d)
        PROVE  /\ Serves(request[d].calls[i], Goals(d)[i], db')
               /\ i < request[d].at \/ (i = request[d].at /\ request[d].step = "provision")
                    => Has(View(d)', Goals(d)[i])
               /\ i = request[d].at /\ request[d].step = "write"
                    => SeenServes(request[d].calls[i], request[d].seen, Goals(d)[i], View(d)')
    <3>1. PICK j \in DOMAIN Topology : Goals(d)[i] = Topology[j]
      BY <1>2, <2>2, GoalsAreItems
    <3>2. Grows(View(d), View(d)')
      BY <2>2
    <3>3. Serves(request[d].calls[i], Topology[j], db) => Serves(request[d].calls[i], Topology[j], db')
      BY GrowsServes
    <3>4. Has(View(d), Topology[j]) => Has(View(d)', Topology[j])
      BY <1>0, <3>2, GrowsStays
    <3>5. SeenServes(request[d].calls[i], request[d].seen, Topology[j], View(d))
            => SeenServes(request[d].calls[i], request[d].seen, Topology[j], View(d)')
      BY <3>2, GrowsServes
    <3> QED
      BY <2>1, <2>2, <3>1, <3>3, <3>4, <3>5 DEF Serving
  <2>3. ASSUME NEW i \in DOMAIN Goals(d), Has(db, Goals(d)[i]) PROVE Has(db', Goals(d)[i])
    <3>1. PICK j \in DOMAIN Topology : Goals(d)[i] = Topology[j]
      BY <1>2, <2>3, GoalsAreItems
    <3> QED
      BY <1>0, <2>3, <3>1, GrowsStays
  <2> QED
    BY <1>1, <2>1, <2>2, <2>3 DEF Serving
<1>3. ASSUME op[d].step = "created" PROVE Creating(d)'
  <2>1. Creating(d)
    BY <1>0, <1>3 DEF ServedOK
  <2> QED
    BY <1>1, <2>1 DEF Creating, Holds, Grows
<1> QED
  BY <1>0, <1>2, <1>3 DEF ServedOK

\* A request that goes on to its next step has done what it says.
LEMMA ServingOn ==
  ASSUME TypeInv, RunInv, AppliedInv, NEW c \in Readers, op[c].step \in {"await", "load"}, UNCHANGED op,
         Grows(db, db'), Grows(View(c), View(c)'), request[c].step # "idle",
         request'[c].calls = request[c].calls, request'[c].result # "ok",
         \/ request'[c].at = request[c].at /\ request'[c].step \in {"write", "provision"}
         \/ request'[c].at = request[c].at + 1 /\ request'[c].step = "check",
         request'[c].step \in {"check", "provision"} => Has(View(c)', Goals(c)[request[c].at]),
         request'[c].step = "write" =>
           SeenServes(Current(c), request'[c].seen, Goals(c)[request[c].at], View(c)')
  PROVE  Serving(c)'
<1>0. /\ c \in Clients /\ Serving(c) /\ View(c) \in TableSet /\ Goals(c)' = Goals(c)
      /\ request[c].at \in Nat /\ Goals(c) \in Seq(Declared)
  <2>1. op[c].step = "await" => Item(c) \in Declared
    BY ApplyAssumption DEF RunInv, RunOK, Item
  <2>2. Goals(c) \in Seq(Declared)
    BY <2>1, ApplyAssumption DEF Goals
  <2>3. Goals(c)' = Goals(c)
    BY DEF Goals, Item
  <2> QED
    BY <2>2, <2>3, RequestsAssumption, ViewGrows DEF AppliedInv, ServedOK, TypeInv, RequestSet
<1>1. ASSUME NEW i \in DOMAIN Goals(c)
      PROVE  /\ Serves(request'[c].calls[i], Goals(c)[i], db')
             /\ i < request'[c].at \/ (i = request'[c].at /\ request'[c].step = "provision")
                  => Has(View(c)', Goals(c)[i])
             /\ i = request'[c].at /\ request'[c].step = "write"
                  => SeenServes(request'[c].calls[i], request'[c].seen, Goals(c)[i], View(c)')
  <2>1. PICK j \in DOMAIN Topology : Goals(c)[i] = Topology[j]
    BY <1>1, GoalsAreItems
  <2>2. Serves(request'[c].calls[i], Goals(c)[i], db')
    <3>1. Serves(request'[c].calls[i], Goals(c)[i], db)
      BY <1>0, <1>1 DEF Serving
    <3> QED
      BY <2>1, <3>1, GrowsServes
  <2>3. i < request[c].at => Has(View(c)', Goals(c)[i])
    BY <1>0, <1>1, <2>1, GrowsStays DEF Serving
  <2>4. i \in Nat
    BY <1>0
  <2>5. i = request[c].at => request'[c].calls[i] = Current(c)
    BY DEF Current
  <2> QED
    BY <1>0, <2>2, <2>3, <2>4, <2>5
<1>2. Len(request'[c].calls) = Len(Goals(c))
  BY <1>0 DEF Serving
<1> QED
  BY <1>0, <1>1, <1>2 DEF Serving

\* A request that ends has done everything, or does not say so.
LEMMA EndedServed ==
  ASSUME TypeInv, RunInv, AppliedInv, NEW c \in Readers, op[c].step \in {"await", "load"}, UNCHANGED op,
         request[c].step # "idle", request'[c].step = "idle",
         request'[c].result = "ok" => request[c].at > Len(request[c].calls) /\ Grows(View(c), db')
  PROVE  Serving(c)'
<1>0. /\ c \in Clients /\ Serving(c) /\ View(c) \in TableSet /\ Goals(c)' = Goals(c)
      /\ request[c].at \in Nat /\ Goals(c) \in Seq(Declared)
  <2>1. op[c].step = "await" => Item(c) \in Declared
    BY ApplyAssumption DEF RunInv, RunOK, Item
  <2>2. Goals(c) \in Seq(Declared)
    BY <2>1, ApplyAssumption DEF Goals
  <2>3. Goals(c)' = Goals(c)
    BY DEF Goals, Item
  <2> QED
    BY <2>2, <2>3, RequestsAssumption, ViewGrows DEF AppliedInv, ServedOK, TypeInv, RequestSet
<1>1. ASSUME request'[c].result = "ok", NEW i \in DOMAIN Goals(c) PROVE Has(db', Goals(c)[i])
  <2>1. PICK j \in DOMAIN Topology : Goals(c)[i] = Topology[j]
    BY <1>1, GoalsAreItems
  <2>2. i < request[c].at
    BY <1>0, <1>1 DEF Serving
  <2>3. Has(View(c), Goals(c)[i])
    BY <1>0, <1>1, <2>2 DEF Serving
  <2> QED
    BY <1>0, <1>1, <2>1, <2>3, GrowsStays
<1> QED
  BY <1>0, <1>1 DEF Serving

\* The step of a request, for one that serves items.
LEMMA ServeServes ==
  ASSUME TypeInv, RunInv, AppliedInv, OneArrayEach, NEW c \in Readers, Serve(c), UNCHANGED op,
         op[c].step \in {"await", "load"}
  PROVE  Serving(c)'
<1> DEFINE n == request[c].at
           goal == Goals(c)[n]
<1>0. /\ c \in Clients /\ request[c] \in RequestSet /\ RequestOK(c) /\ c \in DOMAIN request
      /\ View(c) \in TableSet /\ Proper(View(c), issued)
  BY RequestsAssumption, ViewGrows DEF TypeInv, AppliedInv
<1>1. request[c].step # "idle" /\ request[c].result = Null /\ n \in Nat
  BY <1>0 DEF Serve, Check, Write, LockFails, Provision, Commit, RequestOK, RequestSet
<1>2. /\ Grows(db, db')
      /\ request'[c].step # "idle" => Grows(View(c), View(c)')
      /\ request'[c].result = "ok" => Grows(View(c), db')
  BY ServeGrows
<1>3. ASSUME Fail(c) PROVE Serving(c)'
  <2>1. request'[c].step = "idle" /\ request'[c].result = "error"
    BY <1>0, <1>3, RequestsAssumption DEF Fail, Ended, Replied, Idle
  <2> QED
    BY <1>1, <2>1, EndedServed
<1>4. ASSUME request' = Onward(c), Has(View(c)', goal) PROVE Serving(c)'
  <2>1. /\ request'[c].step = "check" /\ request'[c].at = n + 1
        /\ request'[c].calls = request[c].calls /\ request'[c].result = Null
    BY <1>0, <1>1, <1>4 DEF Onward, RequestSet
  <2> QED
    BY <1>1, <1>2, <1>4, <2>1, ServingOn, Nulls
<1>5. n <= Len(request[c].calls) =>
        \E j \in DOMAIN Topology :
          /\ goal = Topology[j] /\ Current(c) \in GoodCall /\ Serves(Current(c), Topology[j], View(c))
          /\ request[c].step = "write" => SeenServes(Current(c), request[c].seen, Topology[j], View(c))
  BY <1>1, CallServes
<1>6. CASE Check(c)
  <2> DEFINE call == Current(c)
  <2>1. PICK j \in DOMAIN Topology : goal = Topology[j] /\ call \in GoodCall /\ Serves(call, Topology[j], View(c))
    BY <1>5, <1>6 DEF Check
  <2>2. /\ call.once /\ There(call, View(c)) => Has(View(c), goal)
        /\ ~Refused(call, View(c)) /\ NothingToWrite(call, View(c)) => Has(View(c), goal)
        /\ ~Refused(call, View(c)) => SeenServes(call, Seen(call, View(c)), goal, View(c))
    BY <1>0, <2>1, CheckServes
  <2>3. ASSUME request' = [request EXCEPT ![c].step = "write", ![c].seen = Seen(call, View(c))],
               ~Refused(call, View(c)), UNCHANGED <<writer, txn>>
        PROVE  Serving(c)'
    <3>1. /\ request'[c].step = "write" /\ request'[c].at = n /\ request'[c].calls = request[c].calls
          /\ request'[c].result = Null /\ request'[c].seen = Seen(call, View(c))
      BY <1>0, <1>1, <2>3 DEF RequestSet
    <3>2. View(c)' = View(c)
      BY <1>6, <2>3 DEF Check, View
    <3> QED
      BY <1>1, <1>2, <2>2, <2>3, <3>1, <3>2, ServingOn, Nulls
  <2>4. ASSUME request' = Onward(c), UNCHANGED <<writer, txn>> PROVE View(c)' = View(c)
    BY <1>6, <2>4 DEF Check, View
  <2> QED
    BY <1>3, <1>4, <1>6, <2>2, <2>3, <2>4 DEF Check
<1>7. CASE Write(c)
  <2> DEFINE call == Current(c)
             seen == request[c].seen
  <2>1. CASE Fail(c)
    BY <1>3, <2>1
  <2>2. CASE /\ call.do = "create_pool" => issued.pools < MaxPools
             /\ call.do = "create_volume" => issued.volumes < MaxVolumes
             /\ writer' = c /\ txn' = Written(call, seen, View(c))
             /\ \/ request' = [request EXCEPT ![c].step = "provision", ![c].made = issued.pools + 1]
                \/ request' = [request EXCEPT ![c].step = "provision"]
                \/ request' = Onward(c)
    <3>1. View(c)' = Written(call, seen, View(c))
      BY <2>2 DEF View
    <3>2. n <= Len(request[c].calls) /\ Found(call, seen) /\ request[c].step = "write"
      BY <1>0, <1>7, WriteStep DEF RequestOK
    <3>3. PICK j \in DOMAIN Topology :
            /\ goal = Topology[j] /\ call \in GoodCall /\ Serves(call, Topology[j], View(c))
            /\ SeenServes(call, seen, Topology[j], View(c))
      BY <1>5, <3>2
    <3>4. Has(View(c)', goal)
      BY <1>0, <2>2, <3>1, <3>2, <3>3, WrittenHas
    <3>5. CASE request' = Onward(c)
      BY <1>4, <3>4, <3>5
    <3>6. CASE \/ request' = [request EXCEPT ![c].step = "provision", ![c].made = issued.pools + 1]
               \/ request' = [request EXCEPT ![c].step = "provision"]
      <4>1. /\ request'[c].step = "provision" /\ request'[c].at = n
            /\ request'[c].calls = request[c].calls /\ request'[c].result = Null
        BY <1>0, <1>1, <3>6 DEF RequestSet
      <4> QED
        BY <1>1, <1>2, <3>4, <4>1, ServingOn, Nulls
    <3> QED
      BY <2>2, <3>5, <3>6
  <2> QED
    BY <1>7, <2>1, <2>2 DEF Write
<1>8. CASE LockFails(c)
  BY <1>3, <1>8 DEF LockFails
<1>9. CASE Provision(c)
  <2>1. n <= Len(request[c].calls) /\ request[c].step = "provision"
    BY <1>0, <1>9 DEF Provision, RequestOK
  <2>2. n \in DOMAIN Goals(c) /\ \E j \in DOMAIN Topology : goal = Topology[j]
    BY <1>1, <2>1, CallServes
  <2>3. Has(View(c), goal)
    BY <2>1, <2>2 DEF AppliedInv, ServedOK, Serving
  <2>4. request'[c].step # "idle" => Has(View(c)', goal)
    BY <1>0, <1>2, <2>2, <2>3, GrowsStays
  <2>5. request' = Onward(c) => request'[c].step = "check"
    BY <1>0 DEF Onward, RequestSet
  <2> QED
    BY <1>3, <1>4, <1>9, <2>4, <2>5 DEF Provision, EnsurePool, EnsureLvol, EnsureExport
<1>10. CASE Commit(c)
  <2>1. request'[c].step = "idle" /\ n > Len(request[c].calls)
    BY <1>0, <1>10, IdleTyped DEF Commit, Ended, Replied, Idle
  <2> QED
    BY <1>1, <1>2, <2>1, EndedServed
<1> QED
  BY <1>6, <1>7, <1>8, <1>9, <1>10 DEF Serve

\* The step of a request, for one that creates a pool to be attached.
LEMMA ServeCreating ==
  ASSUME TypeInv, RunInv, AppliedInv, OneArrayEach, NEW c \in Readers, Serve(c), UNCHANGED op,
         op[c].step = "created"
  PROVE  Creating(c)'
<1> DEFINE name == Item(c).name
<1>0. /\ c \in Clients /\ request[c] \in RequestSet /\ RequestOK(c) /\ c \in DOMAIN request
      /\ View(c) \in TableSet /\ Creating(c) /\ Item(c)' = Item(c)
  BY RequestsAssumption, ViewGrows DEF TypeInv, AppliedInv, ServedOK, Item
<1>1. request[c].step # "idle" /\ request[c].result = Null
  BY <1>0 DEF Serve, Check, Write, LockFails, Provision, Commit, RequestOK
<1>2. /\ request'[c].step # "idle" => Grows(View(c), View(c)')
      /\ request'[c].result = "ok" => Grows(View(c), db')
  BY ServeGrows
<1>3. /\ name \in PoolNames /\ request[c].calls = PostPool(name) /\ Len(request[c].calls) = 1
      /\ request[c].at \in {1, 2}
      /\ request[c].at = 1 => Current(c).do = "create_pool" /\ ~Current(c).once /\ Current(c).group = name
  BY <1>1, CreatingAt
<1>4. ASSUME Fail(c) PROVE Creating(c)'
  <2>1. request'[c].step = "idle" /\ request'[c].result = "error"
    BY <1>0, <1>4, RequestsAssumption DEF Fail, Ended, Replied, Idle
  <2> QED
    BY <2>1 DEF Creating
<1>5. CASE Check(c)
  <2>1. Current(c).do = "create_pool" /\ ~Current(c).once
    BY <1>3, <1>5 DEF Check
  <2>2. ~NothingToWrite(Current(c), View(c))
    BY <2>1 DEF NothingToWrite
  <2>3. CASE request' = [request EXCEPT ![c].step = "write", ![c].seen = Seen(Current(c), View(c))]
    <3>1. /\ request'[c].calls = request[c].calls /\ request'[c].result = Null
          /\ request'[c].step = "write" /\ request'[c].at = request[c].at
      BY <1>0, <1>1, <2>3 DEF RequestSet
    <3>2. request[c].at = 1
      BY <1>3, <1>5 DEF Check
    <3> QED
      BY <1>0, <1>3, <3>1, <3>2, Nulls DEF Creating
  <2> QED
    BY <1>4, <1>5, <2>1, <2>2, <2>3 DEF Check
<1>6. CASE Write(c)
  <2>1. Current(c).do = "create_pool" /\ Current(c).group = name /\ Current(c) \in GoodCall
    BY <1>1, <1>3, <1>6, WriteBuilds, CreatingAt DEF Write
  <2>2. CASE /\ request' = [request EXCEPT ![c].step = "provision", ![c].made = issued.pools + 1]
             /\ issued.pools < MaxPools /\ writer' = c
             /\ txn' = Written(Current(c), request[c].seen, View(c))
    <3> DEFINE p == issued.pools + 1
               row == [name |-> name, array |-> Current(c).array]
    <3>1. p \in Pools /\ DOMAIN View(c).pools = Pools
      BY <1>0, <2>2, TablesAssumption DEF TypeInv, Pools, TableSet
    <3>2. View(c)' = txn' /\ txn'.pools = [View(c).pools EXCEPT ![p] = row]
      BY <1>0, <2>1, <2>2 DEF Written, PoolAdded, View, TableSet
    <3>3. row \in PoolRow
      BY <1>3, <2>1 DEF PoolRow, GoodCall
    <3>4. txn'.pools[p] = row /\ p \in DOMAIN txn'.pools
      BY <3>1, <3>2
    <3>5. Holds(View(c)', p, name)
      <4> HIDE DEF p, row
      <4>1. p \in Rows(txn'.pools)
        BY <3>3, <3>4, Nulls DEF Rows
      <4>2. txn'.pools[p].name = name
        BY <3>4 DEF row
      <4> QED
        BY <3>2, <4>1, <4>2 DEF Holds
    <3>6. /\ request'[c].calls = request[c].calls /\ request'[c].made = p
          /\ request'[c].result = Null
      BY <1>0, <1>1, <2>2 DEF RequestSet
    <3> QED
      BY <1>0, <1>3, <3>5, <3>6, Nulls DEF Creating
  <2> QED
    BY <1>4, <1>6, <2>1, <2>2 DEF Write
<1>7. CASE LockFails(c)
  BY <1>4, <1>7 DEF LockFails
<1>8. CASE Provision(c)
  <2>1. Holds(View(c), request[c].made, name)
    BY <1>0, <1>8 DEF Creating, Provision
  <2>2. CASE request' = Onward(c)
    <3>1. /\ request'[c].calls = request[c].calls /\ request'[c].made = request[c].made
          /\ request'[c].step = "check" /\ request'[c].result = Null
      BY <1>0, <1>1, <2>2 DEF Onward, RequestSet
    <3>2. Holds(View(c)', request[c].made, name)
      BY <1>2, <2>1, <3>1 DEF Holds, Grows
    <3> QED
      BY <1>0, <1>3, <3>1, <3>2, Nulls DEF Creating
  <2> QED
    BY <1>4, <1>8, <2>2 DEF Provision, EnsurePool, EnsureLvol, EnsureExport
<1>9. CASE Commit(c)
  <2>1. Holds(View(c), request[c].made, name)
    BY <1>0, <1>1, <1>3, <1>9 DEF Creating, Commit
  <2>2. request'[c] = [Idle EXCEPT !.result = "ok", !.made = request[c].made]
    BY <1>0, <1>9 DEF Commit, Ended, Replied
  <2>3. request'[c].step = "idle" /\ request'[c].result = "ok" /\ request'[c].made = request[c].made
    BY <2>2 DEF Idle
  <2>4. Holds(db', request[c].made, name)
    BY <1>2, <2>1, <2>3 DEF Holds, Grows
  <2> QED
    BY <1>0, <2>3, <2>4 DEF Creating
<1> QED
  BY <1>5, <1>6, <1>7, <1>8, <1>9 DEF Serve

-----------------------------------------------------------------------------
\* One call, which serves the item by the names it has.
Posted(calls, item, t) ==
  \E call \in Draft : /\ calls = <<call>> /\ Serves(call, item, t)
                      /\ call.do # "attach_pool" /\ call.pool = Null

\* What is posted serves its item.
LEMMA PostsServe ==
  ASSUME NEW i \in DOMAIN Topology, NEW t
  PROVE  LET item == Topology[i]
         IN  /\ item.kind = "array" => Posted(PostArray(item.array), item, t)
             /\ item.kind = "endpoint" => Posted(PostEndpoint(item.array), item, t)
             /\ item.kind = "host" => Posted(PostHost(item.name, {}), item, t)
             /\ item.kind = "volume" => Posted(Mkvdisk(item.array, item.pool, item.name), item, t)
             /\ item.kind = "mapping" => Posted(<<OnPair("create_mapping", item.array, item.host, item.name)>>, item, t)
             /\ item.kind = "pool" => \E call \in Draft :
                  /\ PostPool(item.name) = <<call>> /\ call.do = "create_pool" /\ call.pool = Null
                  /\ call.group = item.name /\ call.array = Default
<1> DEFINE item == Topology[i]
<1>0. /\ {"create_array", "create_endpoint", "create_host", "create_volume", "create_mapping"} \subseteq Known
      /\ {} \in SUBSET Ports
  BY DEF Known, ArrayCalls, HostCalls, VolumeCalls, PairCalls
<1>1. ASSUME item.kind = "array"
      PROVE  Posted(PostArray(item.array), item, t)
  <2> DEFINE call == [Do("create_array") EXCEPT !.array = item.array]
  <2>1. item.array \in Arrays
    BY <1>1, ItemDeclared
  <2>2. call \in Draft /\ call.do = "create_array" /\ call.pool = Null
    BY <1>0, <2>1, ArrayDraft
  <2>3. call.array = item.array
    BY <1>0, <2>1, ArrayDraft
  <2>4. PostArray(item.array) = <<call>>
    BY DEF PostArray
  <2> HIDE DEF call
  <2> QED
    BY <1>1, <2>2, <2>3, <2>4 DEF Serves, Posted
<1>2. ASSUME item.kind = "endpoint"
      PROVE  Posted(PostEndpoint(item.array), item, t)
  <2> DEFINE call == [Do("create_endpoint") EXCEPT !.array = item.array]
  <2>1. item.array \in Arrays
    BY <1>2, ItemDeclared
  <2>2. call \in Draft /\ call.do = "create_endpoint" /\ call.pool = Null
    BY <1>0, <2>1, ArrayDraft
  <2>3. call.array = item.array
    BY <1>0, <2>1, ArrayDraft
  <2>4. PostEndpoint(item.array) = <<call>>
    BY DEF PostEndpoint
  <2> HIDE DEF call
  <2> QED
    BY <1>2, <2>2, <2>3, <2>4 DEF Serves, Posted
<1>3. ASSUME item.kind = "host"
      PROVE  Posted(PostHost(item.name, {}), item, t)
  <2> DEFINE call == OnHost("create_host", item.name, {})
  <2>1. item.name \in Hosts
    BY <1>3, ItemDeclared
  <2>2. call \in Draft /\ call.do = "create_host" /\ call.pool = Null
    BY <1>0, <2>1, HostDraft
  <2>3. call.host = item.name
    BY <1>0, <2>1, HostDraft
  <2>4. PostHost(item.name, {}) = <<call>>
    BY DEF PostHost
  <2> HIDE DEF call
  <2> QED
    BY <1>3, <2>2, <2>3, <2>4 DEF Serves, Posted
<1>4. ASSUME item.kind = "volume"
      PROVE  Posted(Mkvdisk(item.array, item.pool, item.name), item, t)
  <2> DEFINE call == OnNew("create_volume", item.array, item.pool, item.name)
  <2>1. item.name \in VolumeNames /\ item.pool \in PoolNames /\ item.array \in Arrays
    BY <1>4, ItemDeclared
  <2>2. call \in Draft /\ call.do = "create_volume" /\ call.pool = Null
    BY <1>0, <2>1, GroupedDraft
  <2>3. call.name = item.name /\ call.group = item.pool /\ call.array = item.array
    BY <1>0, <2>1, GroupedDraft
  <2>4. Mkvdisk(item.array, item.pool, item.name) = <<call>>
    BY DEF Mkvdisk, OnNew
  <2> HIDE DEF call
  <2> QED
    BY <1>4, <2>2, <2>3, <2>4 DEF Serves, Posted
<1>5. ASSUME item.kind = "mapping"
      PROVE  Posted(<<OnPair("create_mapping", item.array, item.host, item.name)>>, item, t)
  <2> DEFINE call == OnPair("create_mapping", item.array, item.host, item.name)
  <2>1. item.host \in Hosts /\ item.name \in VolumeNames /\ item.array \in Arrays
    BY <1>5, ItemDeclared
  <2>2. call \in Draft /\ call.do = "create_mapping" /\ call.pool = Null
    BY <1>0, <2>1, PairDraft
  <2>3. call.name = item.name /\ call.host = item.host /\ call.array = item.array /\ call.volume = Null
    BY <1>0, <2>1, PairDraft
  <2> HIDE DEF call
  <2>4. Posted(<<call>>, item, t)
    BY <1>5, <2>2, <2>3 DEF Serves, Posted
  <2> QED
    BY <2>4 DEF call
<1>6. ASSUME item.kind = "pool"
      PROVE  \E call \in Draft : /\ PostPool(item.name) = <<call>> /\ call.do = "create_pool" /\ call.pool = Null
                                 /\ call.group = item.name /\ call.array = Default
  <2>1. item.name \in PoolNames
    BY <1>6, ItemDeclared
  <2> DEFINE call == OnGroup("create_pool", Default, item.name)
  <2>2. /\ call \in Draft /\ call.do = "create_pool" /\ call.pool = Null
        /\ call.group = item.name /\ call.array = Default
    BY <2>1, GroupDraft, TablesAssumption DEF Known, PoolCalls
  <2>3. PostPool(item.name) = <<call>>
    BY DEF PostPool, OnGroup
  <2> HIDE DEF call
  <2> QED
    BY <2>2, <2>3
<1> QED
  BY <1>1, <1>2, <1>3, <1>4, <1>5, <1>6

\* What the gateway's own function calls for an item serves it.
LEMMA EnsuredServes ==
  ASSUME NEW i \in DOMAIN Topology, NEW t
  PROVE  Serves(Ensured(Topology[i]), Topology[i], t)
<1> DEFINE item == Topology[i]
<1>1. ASSUME NEW calls, Posted(calls, item, t)
      PROVE  Serves([calls[1] EXCEPT !.once = TRUE], item, t)
  <2>1. PICK call \in Draft : /\ calls = <<call>> /\ Serves(call, item, t)
                              /\ call.do # "attach_pool" /\ call.pool = Null
    BY <1>1 DEF Posted
  <2> DEFINE e == [call EXCEPT !.once = TRUE]
  <2>2. /\ e.do = call.do /\ e.array = call.array /\ e.pool = call.pool /\ e.group = call.group
        /\ e.volume = call.volume /\ e.name = call.name /\ e.host = call.host
    BY WithOnce
  <2>3. calls[1] = call
    BY <2>1
  <2> HIDE DEF e
  <2>4. Serves(e, item, t)
    BY <2>1, <2>2 DEF Serves
  <2> QED
    BY <2>3, <2>4 DEF e
<1>2. CASE item.kind = "array"
  <2>1. Ensured(item) = [PostArray(item.array)[1] EXCEPT !.once = TRUE]
    BY <1>2 DEF Ensured
  <2>2. Posted(PostArray(item.array), item, t)
    BY <1>2, PostsServe
  <2> QED
    BY <1>1, <2>1, <2>2
<1>3. CASE item.kind = "endpoint"
  <2>1. Ensured(item) = [PostEndpoint(item.array)[1] EXCEPT !.once = TRUE]
    BY <1>3 DEF Ensured
  <2>2. Posted(PostEndpoint(item.array), item, t)
    BY <1>3, PostsServe
  <2> QED
    BY <1>1, <2>1, <2>2
<1>4. CASE item.kind = "host"
  <2>1. Ensured(item) = [PostHost(item.name, {})[1] EXCEPT !.once = TRUE]
    BY <1>4 DEF Ensured
  <2>2. Posted(PostHost(item.name, {}), item, t)
    BY <1>4, PostsServe
  <2> QED
    BY <1>1, <2>1, <2>2
<1>5. CASE item.kind = "volume"
  <2>1. Ensured(item) = [Mkvdisk(item.array, item.pool, item.name)[1] EXCEPT !.once = TRUE]
    BY <1>5 DEF Ensured
  <2>2. Posted(Mkvdisk(item.array, item.pool, item.name), item, t)
    BY <1>5, PostsServe
  <2> QED
    BY <1>1, <2>1, <2>2
<1>6. CASE item.kind = "mapping"
  <2> DEFINE call == OnPair("create_mapping", item.array, item.host, item.name)
  <2>1. Ensured(item) = [call EXCEPT !.once = TRUE]
    BY <1>6 DEF Ensured
  <2>2. Posted(<<call>>, item, t)
    BY <1>6, PostsServe
  <2> HIDE DEF call
  <2> QED
    BY <1>1, <2>1, <2>2
<1>7. CASE item.kind = "pool"
  <2>1. PICK call \in Draft : /\ PostPool(item.name) = <<call>> /\ call.do = "create_pool" /\ call.pool = Null
                              /\ call.group = item.name
    BY <1>7, PostsServe
  <2> DEFINE here == [call EXCEPT !.array = item.array]
  <2>2. Ensured(item) = [here EXCEPT !.once = TRUE]
    BY <1>7, <2>1 DEF Ensured
  <2>3. item.array \in Arrays
    BY <1>7, ItemDeclared
  <2>4. here \in Draft /\ here.do = "create_pool" /\ here.pool = Null /\ here.group = item.name /\ here.array = item.array
    BY <2>1, <2>3, WithArray
  <2> HIDE DEF here
  <2>5. Posted(<<here>>, item, t) /\ <<here>>[1] = here
    BY <1>7, <2>4 DEF Serves, Posted
  <2> QED
    BY <1>1, <2>2, <2>5
<1> QED
  BY <1>2, <1>3, <1>4, <1>5, <1>6, <1>7, ItemDeclared

\* What names a row that was looked up.
LEMMA LookedUpServes ==
  ASSUME NEW i \in DOMAIN Topology, NEW t \in TableSet
  PROVE  LET item == Topology[i]
         IN  /\ \A p \in Pools : item.kind = "pool" /\ Holds(t, p, item.name) =>
                  Len(AttachPool(p, item.array)) = 1 /\ Serves(AttachPool(p, item.array)[1], item, t)
             /\ \A p \in Pools : item.kind = "volume" /\ p \in PoolCalled(t, item.pool, item.array) =>
                  Len(PostVolume(p, item.name)) = 1 /\ Serves(PostVolume(p, item.name)[1], item, t)
             /\ \A v \in Volumes : item.kind = "mapping" /\ v \in VolumeCalled(t, item.name, item.array) =>
                  Len(PostMapping(item.host, v)) = 1 /\ Serves(PostMapping(item.host, v)[1], item, t)
<1> DEFINE item == Topology[i]
<1>0. {"attach_pool", "create_volume", "create_mapping"} \subseteq Known
  BY DEF Known, VolumeCalls, PairCalls, PoolCalls
<1>1. ASSUME NEW p \in Pools, item.kind = "pool", Holds(t, p, item.name)
      PROVE  Len(AttachPool(p, item.array)) = 1 /\ Serves(AttachPool(p, item.array)[1], item, t)
  <2> DEFINE call == OnPool("attach_pool", p, item.array)
  <2>0. item.array \in Arrays
    BY <1>1, ItemDeclared
  <2>1. call.do = "attach_pool" /\ call.pool = p /\ call.array = item.array /\ ~call.once
    BY <1>0, <2>0, PoolDraft
  <2>2. AttachPool(p, item.array) = <<call>>
    BY DEF AttachPool
  <2> HIDE DEF call
  <2>3. AttachPool(p, item.array)[1] = call /\ Len(AttachPool(p, item.array)) = 1
    BY <2>2
  <2> QED
    BY <1>1, <2>1, <2>3 DEF Serves, Holds
<1>2. ASSUME NEW p \in Pools, item.kind = "volume", p \in PoolCalled(t, item.pool, item.array)
      PROVE  Len(PostVolume(p, item.name)) = 1 /\ Serves(PostVolume(p, item.name)[1], item, t)
  <2> DEFINE call == OnName("create_volume", p, item.name)
  <2>0. item.name \in VolumeNames
    BY <1>2, ItemDeclared
  <2>1. call.do = "create_volume" /\ call.pool = p /\ call.name = item.name /\ ~call.once
    BY <1>0, <2>0, NamedDraft
  <2>2. PostVolume(p, item.name) = <<call>>
    BY DEF PostVolume, OnName
  <2> HIDE DEF call
  <2>3. PostVolume(p, item.name)[1] = call /\ Len(PostVolume(p, item.name)) = 1
    BY <2>2
  <2>4. p # Null /\ p \in AtHome(t, item)
    BY <1>2, Nulls, TablesAssumption DEF AtHome, PoolNamed, Pools
  <2> QED
    BY <1>2, <2>1, <2>3, <2>4 DEF Serves
<1>3. ASSUME NEW v \in Volumes, item.kind = "mapping", v \in VolumeCalled(t, item.name, item.array)
      PROVE  Len(PostMapping(item.host, v)) = 1 /\ Serves(PostMapping(item.host, v)[1], item, t)
  <2> DEFINE call == OnMap("create_mapping", item.host, v)
  <2>0. item.host \in Hosts
    BY <1>3, ItemDeclared
  <2>1. call.do = "create_mapping" /\ call.volume = v /\ call.host = item.host
    BY <1>0, <2>0, MappedDraft
  <2>2. PostMapping(item.host, v) = <<call>>
    BY DEF PostMapping, OnMap
  <2> HIDE DEF call
  <2>3. PostMapping(item.host, v)[1] = call /\ Len(PostMapping(item.host, v)) = 1
    BY <2>2
  <2>4. v # Null
    BY <1>3, Nulls, TablesAssumption DEF Volumes
  <2> QED
    BY <1>3, <2>1, <2>3, <2>4 DEF Serves
<1> QED
  BY <1>1, <1>2, <1>3

-----------------------------------------------------------------------------
\* A request that is posted serves its run's items.
LEMMA PostServed ==
  ASSUME TypeInv, RunInv, NEW c \in Readers, NEW calls, NEW keeps, DoneOK(c),
         NEW step \in {"await", "load", "created"}, Post(c, calls, keeps, step),
         step = "await" => Len(calls) = 1 /\ Serves(calls[1], Item(c), db),
         step = "load" => Len(calls) = Len(Topology)
                            /\ \A i \in DOMAIN Topology : Serves(calls[i], Topology[i], db),
         step = "created" => calls = PostPool(Item(c).name)
  PROVE  ServedOK(c)' /\ DoneOK(c)'
<1>0. c \in Clients /\ DOMAIN Topology = 1..Len(Topology) /\ Len(Topology) \in Nat
  BY RequestsAssumption, ApplyAssumption
<1>1. /\ request'[c] = [Idle EXCEPT !.step = "check", !.calls = calls, !.keeps = keeps]
      /\ UNCHANGED <<db, writer, txn, issued>>
  BY <1>0 DEF Post, Ask, TypeInv
<1>2. /\ request'[c].step = "check" /\ request'[c].calls = calls /\ request'[c].at = 1
      /\ request'[c].result = Null
  BY <1>1 DEF Idle
<1>3. op'[c].step = step /\ op'[c].at = op[c].at /\ op'[c].arrays = op[c].arrays
  BY DEF Post, Run, RunInv, RunSet
<1>4. Item(c)' = Item(c) /\ Goals(c)' = IF step = "load" THEN Topology ELSE <<Item(c)>>
  BY <1>3 DEF Goals, Item
<1>5. ASSUME step \in {"await", "load"} PROVE Serving(c)'
  <2>1. Len(calls) = Len(Goals(c)')
    BY <1>4, <1>5
  <2>2. ASSUME NEW i \in DOMAIN Goals(c)' PROVE Serves(calls[i], Goals(c)'[i], db) /\ ~(i < 1)
    <3>1. CASE step = "await"
      BY <1>4, <2>2, <3>1
    <3>2. CASE step = "load"
      BY <1>0, <1>4, <2>2, <3>2
    <3> QED
      BY <1>5, <3>1, <3>2
  <2> QED
    BY <1>1, <1>2, <2>1, <2>2, Nulls DEF Serving
<1>6. step = "created" => Creating(c)'
  BY <1>1, <1>2, <1>4, Nulls DEF Creating
<1>7. ServedOK(c)'
  BY <1>2, <1>3, <1>5, <1>6 DEF ServedOK
<1>8. DoneOK(c)'
  BY <1>1, <1>3 DEF DoneOK
<1> QED
  BY <1>7, <1>8

\* A run that waits for no reply has no request.
LEMMA RestsServed ==
  ASSUME NEW c \in Readers, op'[c].step \in {"start", "look", "misplaced", "applied"},
         request'[c].step = "idle"
  PROVE  ServedOK(c)'
BY DEF ServedOK

\* A run that goes on has the item it leaves; one that starts again has none.
LEMMA OntoDone ==
  ASSUME TypeInv, RunInv, NEW c \in Readers, DoneOK(c), UNCHANGED db,
         \/ Onto(c) /\ (op[c].at \in DOMAIN Topology => Has(db, Item(c)))
         \/ Again(c)
         \/ Run(c, "misplaced")
         \/ Run(c, "applied") /\ \A i \in DOMAIN Topology : Has(db, Topology[i])
         \/ op' = [op EXCEPT ![c] = [NewRun(@.way) EXCEPT !.step = "look", !.arrays = db.arrays]]
  PROVE  DoneOK(c)' /\ op'[c].step \in {"start", "look", "misplaced", "applied"}
<1>0. op[c] \in RunSet /\ c \in DOMAIN op /\ DOMAIN Topology = 1..Len(Topology) /\ Len(Topology) \in Nat
  BY ApplyAssumption DEF RunInv
<1>1. CASE Onto(c) /\ (op[c].at \in DOMAIN Topology => Has(db, Item(c)))
  <2>1. op'[c].step = "look" /\ op'[c].arrays = op[c].arrays /\ op'[c].at = op[c].at + 1 /\ op[c].at \in Nat
    BY <1>0, <1>1 DEF Onto, RunSet
  <2>2. ASSUME NEW i \in DOMAIN Topology, i < op[c].at + 1 PROVE Has(db, Topology[i])
    <3>1. i < op[c].at \/ i = op[c].at
      BY <1>0, <2>1, <2>2
    <3> QED
      BY <1>1, <3>1 DEF DoneOK, Item
  <2> QED
    BY <2>1, <2>2 DEF DoneOK
<1>2. CASE Again(c)
  <2>1. op'[c].step = "start" /\ op'[c].arrays = {} /\ op'[c].at = 1
    BY <1>0, <1>2 DEF Again, NewRun
  <2> QED
    BY <1>0, <2>1 DEF DoneOK
<1>3. CASE Run(c, "misplaced")
  <2>1. op'[c].step = "misplaced" /\ op'[c].arrays = op[c].arrays /\ op'[c].at = op[c].at
    BY <1>0, <1>3 DEF Run, RunSet
  <2> QED
    BY <2>1 DEF DoneOK
<1>4. CASE Run(c, "applied") /\ \A i \in DOMAIN Topology : Has(db, Topology[i])
  <2>1. op'[c].step = "applied" /\ op'[c].arrays = op[c].arrays
    BY <1>0, <1>4 DEF Run, RunSet
  <2> QED
    BY <1>4, <2>1 DEF DoneOK
<1>5. CASE op' = [op EXCEPT ![c] = [NewRun(@.way) EXCEPT !.step = "look", !.arrays = db.arrays]]
  <2>1. op'[c].step = "look" /\ op'[c].arrays = db.arrays /\ op'[c].at = 1
    BY <1>0, <1>5 DEF NewRun
  <2> QED
    BY <1>0, <2>1 DEF DoneOK
<1> QED
  BY <1>1, <1>2, <1>3, <1>4, <1>5

\* A step of the tool, or of the function.
LEMMA ToolServed ==
  ASSUME TypeInv, RunInv, AppliedInv, NEW c \in Readers, Tool(c) \/ ApplySpec(c) \/ Read(c)
  PROVE  ServedOK(c)' /\ DoneOK(c)'
<1> DEFINE Goal == ServedOK(c)' /\ DoneOK(c)'
<1>0. /\ c \in Clients /\ ServedOK(c) /\ DoneOK(c) /\ db \in TableSet /\ RunOK(c) /\ op[c] \in RunSet
      /\ Len(Topology) \in Nat /\ DOMAIN Topology = 1..Len(Topology)
      /\ Rows(db.pools) \subseteq Pools /\ Rows(db.volumes) \subseteq Volumes
  BY RequestsAssumption, ApplyAssumption DEF TypeInv, AppliedInv, RunInv, Rows, TableSet
<1>1. op[c].at <= Len(Topology) => op[c].at \in DOMAIN Topology
  BY <1>0 DEF RunOK
<1>2. ASSUME UNCHANGED vars, op[c].step \in {"start", "look", "misplaced"},
             \/ Onto(c) /\ (op[c].at \in DOMAIN Topology => Has(db, Item(c)))
             \/ Again(c)
             \/ Run(c, "misplaced")
             \/ Run(c, "applied") /\ \A i \in DOMAIN Topology : Has(db, Topology[i])
             \/ op' = [op EXCEPT ![c] = [NewRun(@.way) EXCEPT !.step = "look", !.arrays = db.arrays]]
      PROVE  Goal
  <2>1. UNCHANGED db /\ request'[c].step = "idle"
    BY <1>0, <1>2 DEF ServedOK, vars
  <2>2. DoneOK(c)' /\ op'[c].step \in {"start", "look", "misplaced", "applied"}
    BY <1>0, <1>2, <2>1, OntoDone
  <2> QED
    BY <2>1, <2>2, RestsServed
<1>3. ASSUME NEW calls, NEW keeps, Post(c, calls, keeps, "await"),
             Len(calls) = 1, Serves(calls[1], Item(c), db)
      PROVE  Goal
  BY <1>0, <1>3, PostServed
<1>5. CASE Begin(c)
  BY <1>2, <1>5 DEF Begin
<1>6. CASE ApplyArray(c)
  <2>1. /\ op[c].at \in DOMAIN Topology /\ Item(c).kind = "array" /\ op[c].step = "look"
        /\ Item(c) = Topology[op[c].at]
    BY <1>1, <1>6 DEF ApplyArray, Listing, Item
  <2>2. PICK call \in Draft : PostArray(Item(c).array) = <<call>> /\ Serves(call, Item(c), db)
    BY <2>1, PostsServe DEF Posted
  <2>3. Len(PostArray(Item(c).array)) = 1 /\ Serves(PostArray(Item(c).array)[1], Item(c), db)
    BY <2>2
  <2>4. Item(c).array \in op[c].arrays => Has(db, Item(c))
    BY <1>0, <2>1 DEF DoneOK, Has
  <2> QED
    BY <1>2, <1>3, <1>6, <2>1, <2>3, <2>4 DEF ApplyArray
<1>7. CASE ApplyEndpoint(c)
  <2>1. /\ op[c].at \in DOMAIN Topology /\ Item(c).kind = "endpoint" /\ op[c].step = "look"
        /\ Item(c) = Topology[op[c].at]
    BY <1>1, <1>7 DEF ApplyEndpoint, Listing, Item
  <2>2. PICK call \in Draft : PostEndpoint(Item(c).array) = <<call>> /\ Serves(call, Item(c), db)
    BY <2>1, PostsServe DEF Posted
  <2>3. Len(PostEndpoint(Item(c).array)) = 1 /\ Serves(PostEndpoint(Item(c).array)[1], Item(c), db)
    BY <2>2
  <2>4. db.iscsi[Item(c).array] > 0 => Has(db, Item(c))
    BY <2>1 DEF Has
  <2> QED
    BY <1>2, <1>3, <1>7, <2>1, <2>3, <2>4 DEF ApplyEndpoint
<1>8. CASE ApplyPool(c)
  <2>1. /\ op[c].at \in DOMAIN Topology /\ Item(c).kind = "pool" /\ op[c].step = "look"
        /\ Item(c) = Topology[op[c].at]
    BY <1>1, <1>8 DEF ApplyPool, Listing, Item
  <2>2. ASSUME Item(c).array = Default
        PROVE  Len(PostPool(Item(c).name)) = 1 /\ Serves(PostPool(Item(c).name)[1], Item(c), db)
    <3>1. PICK call \in Draft : /\ PostPool(Item(c).name) = <<call>> /\ call.do = "create_pool"
                                /\ call.group = Item(c).name /\ call.array = Default
      BY <2>1, PostsServe
    <3> QED
      BY <2>1, <2>2, <3>1 DEF Serves
  <2>3. ResolvePool(Item(c).name, Item(c).array) # {} => Has(db, Item(c))
    BY <2>1 DEF Has, ResolvePool
  <2> QED
    BY <1>2, <1>3, <1>8, <2>1, <2>2, <2>3 DEF ApplyPool
<1>9. CASE CreatePool(c)
  <2>1. /\ op[c].at \in DOMAIN Topology /\ Item(c).kind = "pool" /\ Item(c) = Topology[op[c].at]
    BY <1>0, <1>1, <1>9 DEF CreatePool, Listing, Item, RunOK
  <2>2. CASE Post(c, PostPool(Item(c).name), FALSE, "created")
    BY <1>0, <2>2, PostServed
  <2>3. CASE \E p \in MisplacedPool(Item(c).name) : Post(c, AttachPool(p, Item(c).array), FALSE, "await")
    <3>1. PICK p \in MisplacedPool(Item(c).name) : Post(c, AttachPool(p, Item(c).array), FALSE, "await")
      BY <2>3
    <3>2. p \in Pools /\ Holds(db, p, Item(c).name)
      BY <1>0 DEF MisplacedPool, ResolvePool, PoolCalled, PoolsOf, Holds
    <3> QED
      BY <1>0, <1>3, <2>1, <3>1, <3>2, LookedUpServes
  <2> QED
    BY <1>9, <2>2, <2>3 DEF CreatePool
<1>10. CASE AttachCreated(c)
  <2>1. /\ op[c].at \in DOMAIN Topology /\ Item(c).kind = "pool" /\ Item(c) = Topology[op[c].at]
    BY <1>0, <1>1, <1>10 DEF AttachCreated, Item, RunOK
  <2>2. request[c].made \in Pools /\ Holds(db, request[c].made, Item(c).name)
    BY <1>0, <1>10 DEF AttachCreated, ServedOK, Creating, Holds
  <2> QED
    BY <1>0, <1>3, <1>10, <2>1, <2>2, LookedUpServes DEF AttachCreated
<1>11. CASE ApplyHost(c)
  <2>1. /\ op[c].at \in DOMAIN Topology /\ Item(c).kind = "host" /\ op[c].step = "look"
        /\ Item(c) = Topology[op[c].at]
    BY <1>1, <1>11 DEF ApplyHost, Listing, Item
  <2>2. PICK call \in Draft : PostHost(Item(c).name, {}) = <<call>> /\ Serves(call, Item(c), db)
    BY <2>1, PostsServe DEF Posted
  <2>3. Len(PostHost(Item(c).name, {})) = 1 /\ Serves(PostHost(Item(c).name, {})[1], Item(c), db)
    BY <2>2
  <2>4. Item(c).name \in db.hosts => Has(db, Item(c))
    BY <2>1 DEF Has
  <2> QED
    BY <1>2, <1>3, <1>11, <2>1, <2>3, <2>4 DEF ApplyHost
<1>12. CASE ApplyVolume(c)
  <2>1. /\ op[c].at \in DOMAIN Topology /\ Item(c).kind = "volume" /\ op[c].step = "look"
        /\ Item(c) = Topology[op[c].at]
    BY <1>1, <1>12 DEF ApplyVolume, Listing, Item
  <2>2. ASSUME NEW p \in ResolvePool(Item(c).pool, Item(c).array)
        PROVE  /\ Len(PostVolume(p, Item(c).name)) = 1
               /\ Serves(PostVolume(p, Item(c).name)[1], Item(c), db)
    <3>1. p \in Pools /\ p \in PoolCalled(db, Item(c).pool, Item(c).array)
      BY <1>0 DEF ResolvePool, PoolCalled, PoolsOf
    <3> QED
      BY <1>0, <2>1, <3>1, LookedUpServes
  <2>3. ResolveVolume(Item(c).name, Item(c).array) # {} => Has(db, Item(c))
    BY <2>1 DEF Has, ResolveVolume
  <2>4. ASSUME NEW p \in ResolvePool(Item(c).pool, Item(c).array),
               Post(c, PostVolume(p, Item(c).name), TRUE, "await")
        PROVE  Goal
    BY <1>3, <2>2, <2>4
  <2> QED
    BY <1>2, <1>12, <2>1, <2>3, <2>4 DEF ApplyVolume
<1>13. CASE ApplyMapping(c)
  <2>1. /\ op[c].at \in DOMAIN Topology /\ Item(c).kind = "mapping" /\ op[c].step = "look"
        /\ Item(c) = Topology[op[c].at]
    BY <1>1, <1>13 DEF ApplyMapping, Listing, Item
  <2>2. ASSUME NEW v \in ResolveVolume(Item(c).name, Item(c).array)
        PROVE  /\ Len(PostMapping(Item(c).host, v)) = 1
               /\ Serves(PostMapping(Item(c).host, v)[1], Item(c), db)
    <3>1. v \in Volumes /\ v \in VolumeCalled(db, Item(c).name, Item(c).array)
      BY <1>0 DEF ResolveVolume, VolumeCalled, VolumesOf
    <3> QED
      BY <1>0, <2>1, <3>1, LookedUpServes
  <2>3. ResolveMapping(Item(c).host, Item(c).name, Item(c).array) # {} => Has(db, Item(c))
    BY <2>1 DEF Has, ResolveMapping, ResolveVolume
  <2>4. ASSUME NEW v \in ResolveVolume(Item(c).name, Item(c).array),
               Post(c, PostMapping(Item(c).host, v), FALSE, "await")
        PROVE  Goal
    BY <1>3, <2>2, <2>4
  <2> QED
    BY <1>2, <1>13, <2>1, <2>3, <2>4 DEF ApplyMapping
<1>14. CASE Finish(c)
  <2>1. \A i \in DOMAIN Topology : Has(db, Topology[i])
    BY <1>0, <1>14 DEF Finish, DoneOK, RunSet
  <2> QED
    BY <1>2, <1>14, <2>1 DEF Finish
<1>15. CASE Read(c)
  <2>1. request'[c].step = "idle" /\ UNCHANGED db
    BY <1>0, <1>15, IdleTyped DEF Read, TypeInv, Idle
  <2>2. ASSUME op[c].step = "await", request[c].result = "ok" PROVE Has(db, Item(c))
    <3>1. Serving(c) /\ Goals(c) = <<Item(c)>>
      BY <1>0, <2>2 DEF ServedOK, Goals
    <3>2. 1 \in DOMAIN Goals(c) /\ Goals(c)[1] = Item(c)
      BY <3>1
    <3> QED
      BY <2>2, <3>1, <3>2 DEF Serving
  <2>3. ASSUME op[c].step = "load", request[c].result = "ok", NEW i \in DOMAIN Topology
        PROVE  Has(db, Topology[i])
    BY <1>0, <2>3 DEF ServedOK, Goals, Serving
  <2>4. DoneOK(c)' /\ op'[c].step \in {"start", "look", "misplaced", "applied"}
    BY <1>0, <1>15, <2>1, <2>2, <2>3, OntoDone DEF Read
  <2> QED
    BY <2>1, <2>4, RestsServed
<1>16. CASE Unanswered(c)
  BY <1>2, <1>16 DEF Unanswered
<1>17. CASE ApplySpec(c)
  <2> DEFINE calls == [i \in DOMAIN Topology |-> Ensured(Topology[i])]
  <2>1. Len(calls) = Len(Topology)
    BY <1>0
  <2>2. \A i \in DOMAIN Topology : Serves(calls[i], Topology[i], db)
    BY EnsuredServes
  <2>3. Post(c, calls, FALSE, "load")
    BY <1>17 DEF ApplySpec
  <2> HIDE DEF calls
  <2> QED
    BY <1>0, <2>1, <2>2, <2>3, PostServed
<1> QED
  BY <1>5, <1>6, <1>7, <1>8, <1>9, <1>10, <1>11, <1>12, <1>13, <1>14, <1>15, <1>16, <1>17 DEF Tool

-----------------------------------------------------------------------------
\* Every step of every run, of every request and of the gateway.
LEMMA AppliedSteps ==
  ASSUME TypeInv, RunInv, AppliedInv, OneArrayEach, [ApplyNext]_opVars
  PROVE  AppliedInv'
<1>1. ASSUME NEW c \in Readers, Tool(c) \/ ApplySpec(c) \/ Read(c) PROVE AppliedInv'
  <2>0. c \in Clients
    BY RequestsAssumption
  <2>1. UNCHANGED <<db, writer, txn, issued>> /\ \A d \in Readers \ {c} : request'[d] = request[d] /\ op'[d] = op[d]
    BY <1>1, ToolAlone
  <2>2. TablesGrow'
    BY <2>1 DEF AppliedInv, TablesGrow
  <2>3. ASSUME NEW d \in Readers, d # c PROVE ServedOK(d)' /\ DoneOK(d)'
    <3>1. Grows(db, db') /\ Grows(View(d), View(d)') /\ request'[d] = request[d] /\ op'[d] = op[d] /\ DoneOK(d)
      BY <2>1, <2>3, GrowsItself DEF View, AppliedInv
    <3> QED
      BY <3>1, ServedStays, DoneStays
  <2>4. ServedOK(c)' /\ DoneOK(c)'
    BY <1>1, ToolServed
  <2> QED
    BY <2>2, <2>3, <2>4 DEF AppliedInv
<1>2. ASSUME NEW c \in Readers, Serve(c), UNCHANGED op PROVE AppliedInv'
  <2>0. c \in Clients /\ Readers \subseteq Clients /\ Null \notin Clients
    BY RequestsAssumption
  <2>1. \A d \in Readers \ {c} : request'[d] = request[d]
    BY <1>2, <2>0, ServeAlone
  <2>2. /\ Grows(db, db') /\ TablesGrow'
        /\ writer \in {c, Null} \/ UNCHANGED <<writer, txn, db>>
        /\ writer' \in {writer, c, Null}
    BY <1>2, ServeGrows
  <2>3. ASSUME NEW d \in Readers PROVE DoneOK(d)'
    BY <1>2, <2>2, DoneStays DEF AppliedInv
  <2>4. ASSUME NEW d \in Readers, d # c PROVE ServedOK(d)'
    <3>1. Grows(View(d), View(d)')
      <4>1. CASE UNCHANGED <<writer, txn, db>>
        BY <4>1, GrowsItself DEF View
      <4>2. CASE writer \in {c, Null}
        <5>1. View(d) = db /\ View(d)' = db'
          BY <2>0, <2>2, <2>4, <4>2 DEF View
        <5> QED
          BY <2>2, <5>1
      <4> QED
        BY <2>2, <4>1, <4>2
    <3> QED
      BY <1>2, <2>1, <2>2, <2>4, <3>1, ServedStays
  <2>5. ServedOK(c)'
    <3>1. op[c].step \in {"await", "load"} => Serving(c)'
      BY <1>2, ServeServes
    <3>2. op[c].step = "created" => Creating(c)'
      BY <1>2, ServeCreating
    <3>3. request[c].step # "idle"
      BY <1>2 DEF Serve, Check, Write, LockFails, Provision, Commit
    <3>4. op[c].step \in {"await", "load", "created"}
      BY <3>3 DEF AppliedInv, ServedOK
    <3> QED
      BY <1>2, <3>1, <3>2, <3>4 DEF ServedOK
  <2> QED
    BY <2>2, <2>3, <2>4, <2>5 DEF AppliedInv
<1>3. CASE Crash /\ UNCHANGED op
  <2>0. Readers \subseteq Clients
    BY RequestsAssumption
  <2>1. /\ UNCHANGED <<db, issued>> /\ writer' = Null
        /\ \A d \in Readers : request'[d].step = "idle" /\ request'[d].result # "ok"
    BY <1>3, <2>0, IdleTyped, Nulls DEF Crash, Replied, Idle
  <2>2. TablesGrow'
    BY <2>1 DEF AppliedInv, TablesGrow
  <2>3. \A d \in Readers : ServedOK(d)'
    BY <2>1 DEF ServedOK, Serving, Creating
  <2>4. \A d \in Readers : DoneOK(d)'
    BY <1>3, <2>1 DEF AppliedInv, DoneOK
  <2> QED
    BY <2>2, <2>3, <2>4 DEF AppliedInv
<1>4. CASE UNCHANGED <<db, writer, txn, request, issued, op>>
  <2>1. TablesGrow'
    BY <1>4 DEF AppliedInv, TablesGrow
  <2>2. ASSUME NEW d \in Readers PROVE ServedOK(d)' /\ DoneOK(d)'
    <3>1. Grows(db, db') /\ Grows(View(d), View(d)') /\ DoneOK(d)
      BY <1>4, GrowsItself DEF View, AppliedInv
    <3> QED
      BY <1>4, <3>1, ServedStays, DoneStays
  <2> QED
    BY <2>1, <2>2 DEF AppliedInv
<1>5. CASE (Restart /\ UNCHANGED op) \/ UNCHANGED opVars
  BY <1>4, <1>5 DEF Restart, opVars, vars
<1> QED
  BY <1>1, <1>2, <1>3, <1>5 DEF ApplyNext

\* Nothing is there, and nothing is done.
LEMMA AppliedStarts ==
  ASSUME ApplyInit
  PROVE  AppliedInv
<1>1. DOMAIN Topology = 1..Len(Topology) /\ Len(Topology) \in Nat /\ Readers \subseteq Clients
  BY ApplyAssumption, RequestsAssumption
<1>2. TablesGrow
  <2>1. /\ Rows(db.pools) = {} /\ Rows(db.volumes) = {} /\ writer = Null
        /\ \A h \in Hosts, v \in Volumes : db.maps[<<h, v>>] = 0
    BY DEF ApplyInit, Init, NoTables, Rows
  <2> QED
    BY <2>1 DEF TablesGrow, Proper
<1>3. \A c \in Readers : ServedOK(c) /\ DoneOK(c)
  <2>1. \A c \in Readers : request[c].step = "idle"
    BY <1>1 DEF ApplyInit, Init, Idle
  <2> QED
    BY <1>1, <2>1, RunStarts DEF ServedOK, DoneOK
<1> QED
  BY <1>2, <1>3 DEF AppliedInv

\* A run that reports success leaves every declared item in place, whoever applies
\* the same file at the same time and wherever the gateway died.
THEOREM ReportedIsAlwaysPresent ==
  ASSUME OneArrayEach
  PROVE  ApplySpecification => []ReportedIsPresent
<1>1. ApplyInit => TypeInv /\ BackedInv /\ RunInv /\ AppliedInv
  BY RunStarts, AppliedStarts
<1>2. TypeInv /\ BackedInv /\ RunInv /\ AppliedInv /\ [ApplyNext]_opVars
        => (TypeInv /\ BackedInv /\ RunInv /\ AppliedInv)'
  BY ApplySteps, AppliedSteps
<1>3. TypeInv /\ AppliedInv => ReportedIsPresent
  BY HasIsPresent DEF AppliedInv, DoneOK, ReportedIsPresent
<1> QED
  BY <1>1, <1>2, <1>3, PTL DEF ApplySpecification

-----------------------------------------------------------------------------
(***************************************************************************)
(* What is applied names what is there                                     *)
(***************************************************************************)
\* The calls of those who apply a topology: they create, or attach.
BuildCalls == {"create_array", "create_endpoint", "create_pool", "attach_pool", "create_host",
               "create_volume", "create_mapping"}
Building(calls) == \A i \in DOMAIN calls : calls[i].do \in BuildCalls

\* Rows of t name rows of t.
Linked(t) ==
  /\ \A p \in Rows(t.pools) : t.pools[p].array \in t.arrays
  /\ \A v \in Rows(t.volumes) : t.volumes[v].pool \in Rows(t.pools)
  /\ \A h \in Hosts, v \in Volumes : t.maps[<<h, v>>] > 0 => h \in t.hosts /\ v \in Rows(t.volumes)

\* What can be named in t can be named in u.
Lasts(t, u) ==
  /\ t.arrays \subseteq u.arrays /\ t.hosts \subseteq u.hosts
  /\ Rows(t.pools) \subseteq Rows(u.pools) /\ Rows(t.volumes) \subseteq Rows(u.volumes)

\* What the call is to name is in t.
LooksUp(call, seen, t) ==
  /\ call.do \in {"create_pool", "attach_pool"} => call.array \in t.arrays
  /\ call.do = "attach_pool" => call.pool \in Rows(t.pools)
  /\ call.do = "create_volume" => seen.pool \in Rows(t.pools)
  /\ call.do = "create_mapping" => call.host \in t.hosts /\ seen.volume \in Rows(t.volumes)

TablesLinked ==
  /\ Linked(db)
  /\ writer # Null => Linked(txn) /\ Lasts(db, txn)

\* A request that waits for the write lock has looked up what it names: nothing
\* is taken away in the meantime.
AskedOK(c) ==
  /\ Building(request[c].calls)
  /\ request[c].step = "write" => LooksUp(Current(c), request[c].seen, View(c))

LinkedInv == TablesLinked /\ \A c \in Readers : AskedOK(c)

-----------------------------------------------------------------------------
LEMMA LastsOn ==
  ASSUME NEW t, NEW u, NEW w, Lasts(t, u), Lasts(u, w)
  PROVE  Lasts(t, w)
BY DEF Lasts

LEMMA LastsItself == ASSUME NEW t PROVE Lasts(t, t)
BY DEF Lasts

LEMMA LooksUpStays ==
  ASSUME NEW t, NEW u, Lasts(t, u), NEW call, NEW seen, LooksUp(call, seen, t)
  PROVE  LooksUp(call, seen, u)
BY DEF Lasts, LooksUp

\* A service looks up what its row is to name.
LEMMA CheckLooksUp ==
  ASSUME NEW t \in TableSet, NEW call \in GoodCall, ~Refused(call, t)
  PROVE  LooksUp(call, Seen(call, t), t)
<1>1. CASE call.do = "create_pool"
  BY <1>1 DEF Refused, CreatePoolRefused, LooksUp
<1>2. CASE call.do = "attach_pool"
  <2>1. call.array \in t.arrays /\ t.pools[call.pool] # Null
    BY <1>2 DEF Refused, AttachRefused
  <2>2. call.pool \in DOMAIN t.pools
    BY <1>2 DEF GoodCall, PoolCalls, TableSet
  <2> QED
    BY <1>2, <2>1, <2>2 DEF LooksUp, Rows
<1>3. CASE call.do = "create_volume"
  <2>1. PoolsFor(call, t) # {}
    BY <1>3 DEF Refused
  <2>2. TheOne(PoolsFor(call, t)) \in PoolsFor(call, t)
    BY <2>1 DEF TheOne
  <2>3. PoolsFor(call, t) \subseteq Rows(t.pools)
    BY DEF PoolsFor, PoolCalled, PoolsOf
  <2>4. Seen(call, t).pool \in Rows(t.pools)
    BY <2>2, <2>3 DEF Seen
  <2> QED
    BY <1>3, <2>4 DEF LooksUp
<1>4. CASE call.do = "create_mapping"
  <2>1. PICK v \in VolumesFor(call, t) : ~CreateMappingRefused(t, call.host, v)
    BY <1>4 DEF Refused
  <2>2. TheOne(VolumesFor(call, t)) \in VolumesFor(call, t)
    BY <2>1 DEF TheOne
  <2>3. VolumesFor(call, t) \subseteq Rows(t.volumes)
    BY DEF VolumesFor, VolumeCalled, VolumesOf
  <2>4. Seen(call, t).volume \in Rows(t.volumes)
    BY <2>2, <2>3 DEF Seen
  <2>5. call.host \in t.hosts
    BY <2>1 DEF CreateMappingRefused
  <2> QED
    BY <1>4, <2>4, <2>5 DEF LooksUp
<1> QED
  BY <1>1, <1>2, <1>3, <1>4 DEF LooksUp

\* A row that is added, or changed in place, leaves the others.
LEMMA RowWritten ==
  ASSUME NEW S, NEW table \in [S -> PoolRow \cup VolumeRow \cup {Null}], NEW id \in S,
         NEW row, row # Null
  PROVE  LET then == [table EXCEPT ![id] = row]
         IN  /\ Rows(then) = Rows(table) \cup {id} /\ then[id] = row
             /\ \A i \in Rows(table) \ {id} : then[i] = table[i]
BY DEF Rows

\* What a call writes names what it looked up.
LEMMA WrittenLinked ==
  ASSUME TypeInv, NEW t \in TableSet, NEW call \in GoodCall, NEW seen,
         Found(call, seen), call.do \in BuildCalls, Linked(t), LooksUp(call, seen, t),
         call.do = "create_pool" => issued.pools < MaxPools,
         call.do = "create_volume" => issued.volumes < MaxVolumes
  PROVE  Lasts(t, Written(call, seen, t)) /\ Linked(Written(call, seen, t))
<1> DEFINE u == Written(call, seen, t)
<1>0. /\ t.pools \in [Pools -> PoolRow \cup VolumeRow \cup {Null}]
      /\ t.volumes \in [Volumes -> PoolRow \cup VolumeRow \cup {Null}]
      /\ issued.pools \in Nat /\ issued.volumes \in Nat
  BY TablesAssumption DEF TableSet, TypeInv
<1>1. CASE call.do = "create_array"
  <2>1. /\ t.arrays \subseteq u.arrays /\ u.hosts = t.hosts /\ u.pools = t.pools
        /\ u.volumes = t.volumes /\ u.maps = t.maps
    BY <1>1 DEF Written, ArrayAdded, TableSet
  <2> HIDE DEF u
  <2> QED
    BY <2>1 DEF Lasts, Linked, u
<1>2. CASE call.do = "create_endpoint"
  <2>1. /\ u.arrays = t.arrays /\ u.hosts = t.hosts /\ u.pools = t.pools
        /\ u.volumes = t.volumes /\ u.maps = t.maps
    BY <1>2 DEF Written, EndpointAdded, TableSet
  <2> HIDE DEF u
  <2> QED
    BY <2>1 DEF Lasts, Linked, u
<1>3. CASE call.do = "create_host"
  <2>1. /\ u.arrays = t.arrays /\ t.hosts \subseteq u.hosts /\ u.pools = t.pools
        /\ u.volumes = t.volumes /\ u.maps = t.maps
    BY <1>3 DEF Written, HostAdded, TableSet
  <2> HIDE DEF u
  <2> QED
    BY <2>1 DEF Lasts, Linked, u
<1>4. CASE call.do \in {"create_pool", "attach_pool"}
  <2> DEFINE p == IF call.do = "create_pool" THEN issued.pools + 1 ELSE call.pool
             row == IF call.do = "create_pool" THEN [name |-> call.group, array |-> call.array]
                                               ELSE [t.pools[p] EXCEPT !.array = call.array]
  <2>1. /\ u.arrays = t.arrays /\ u.hosts = t.hosts /\ u.volumes = t.volumes /\ u.maps = t.maps
        /\ u.pools = [t.pools EXCEPT ![p] = row]
    <3>1. CASE call.do = "create_pool"
      BY <3>1 DEF Written, PoolAdded, TableSet
    <3>2. CASE call.do = "attach_pool"
      BY <3>2 DEF Written, PoolMoved, TableSet
    <3> QED
      BY <1>4, <3>1, <3>2
  <2>2. p \in Pools /\ row \in PoolRow /\ row.array \in t.arrays
    <3>1. CASE call.do = "create_pool"
      <4>1. issued.pools + 1 \in Pools
        BY <1>0, <3>1, TablesAssumption DEF Pools
      <4>2. call.group \in PoolNames /\ call.array \in Arrays /\ call.array \in t.arrays
        BY <3>1 DEF GoodCall, LooksUp
      <4> QED
        BY <3>1, <4>1, <4>2 DEF PoolRow
    <3>2. CASE call.do = "attach_pool"
      <4>1. /\ call.pool \in Pools /\ t.pools[call.pool] \in PoolRow
            /\ call.array \in Arrays /\ call.array \in t.arrays
        BY <3>2 DEF LooksUp, Rows, TableSet, GoodCall
      <4> QED
        BY <3>2, <4>1 DEF PoolRow
    <3> QED
      BY <1>4, <3>1, <3>2
  <2> HIDE DEF u, p, row
  <2>3. /\ Rows(u.pools) = Rows(t.pools) \cup {p} /\ u.pools[p].array \in t.arrays
        /\ \A q \in Rows(t.pools) \ {p} : u.pools[q] = t.pools[q]
    BY <1>0, <2>1, <2>2, RowWritten, Nulls
  <2> QED
    BY <2>1, <2>3 DEF Lasts, Linked, u
<1>5. CASE call.do = "create_volume"
  <2> DEFINE v == issued.volumes + 1
             row == [name |-> call.name, pool |-> seen.pool, array |-> seen.array, status |-> "creating"]
  <2>1. /\ u.arrays = t.arrays /\ u.hosts = t.hosts /\ u.pools = t.pools /\ u.maps = t.maps
        /\ u.volumes = [t.volumes EXCEPT ![v] = row]
    BY <1>5 DEF Written, VolumeAdded, TableSet
  <2>2. v \in Volumes
    BY <1>0, <1>5, TablesAssumption DEF Volumes
  <2>3. row \in VolumeRow /\ row.pool \in Rows(t.pools)
    BY <1>5 DEF GoodCall, Found, VolumeRow, LooksUp
  <2> HIDE DEF u, v, row
  <2>4. /\ Rows(u.volumes) = Rows(t.volumes) \cup {v} /\ u.volumes[v].pool \in Rows(t.pools)
        /\ \A w \in Rows(t.volumes) \ {v} : u.volumes[w] = t.volumes[w]
    BY <1>0, <2>1, <2>2, <2>3, RowWritten, Nulls
  <2> QED
    BY <2>1, <2>4 DEF Lasts, Linked, u
<1>6. CASE call.do = "create_mapping"
  <2> DEFINE pair == <<call.host, seen.volume>>
  <2>1. /\ u.arrays = t.arrays /\ u.hosts = t.hosts /\ u.pools = t.pools /\ u.volumes = t.volumes
        /\ u.maps = [t.maps EXCEPT ![pair] = @ + 1]
    BY <1>6 DEF Written, MappingAdded, TableSet
  <2>2. call.host \in t.hosts /\ seen.volume \in Rows(t.volumes)
    BY <1>6 DEF LooksUp
  <2>3. ASSUME NEW h \in Hosts, NEW v \in Volumes, u.maps[<<h, v>>] > 0
        PROVE  h \in t.hosts /\ v \in Rows(t.volumes)
    <3>1. DOMAIN t.maps = Hosts \X Volumes /\ <<h, v>> \in Hosts \X Volumes
      BY DEF TableSet
    <3>2. CASE <<h, v>> = pair
      BY <2>2, <3>2
    <3>3. CASE <<h, v>> # pair
      <4> HIDE DEF u, pair
      <4>1. u.maps[<<h, v>>] = t.maps[<<h, v>>]
        BY <2>1, <3>1, <3>3
      <4> QED
        BY <2>3, <4>1 DEF Linked
    <3> QED
      BY <3>2, <3>3
  <2> HIDE DEF u, pair
  <2> QED
    BY <2>1, <2>3 DEF Lasts, Linked, u
<1> QED
  BY <1>1, <1>2, <1>3, <1>4, <1>5, <1>6 DEF BuildCalls

\* Its status is all that changes of a volume that is made, or could not be.
LEMMA MadeLinked ==
  ASSUME TypeInv, issued.volumes \in Rows(txn.volumes), Linked(txn),
         NEW status \in {"available", "error"}
  PROVE  /\ Lasts(txn, VolumeMade(issued.volumes, status))
         /\ Linked(VolumeMade(issued.volumes, status))
<1> DEFINE v == issued.volumes
           u == VolumeMade(v, status)
           row == [txn.volumes[v] EXCEPT !.status = status]
<1>1. /\ txn \in TableSet /\ v \in Volumes /\ txn.volumes[v] \in VolumeRow
      /\ txn.volumes \in [Volumes -> PoolRow \cup VolumeRow \cup {Null}]
  BY DEF TypeInv, Rows, TableSet
<1>2. /\ u.arrays = txn.arrays /\ u.hosts = txn.hosts /\ u.pools = txn.pools
      /\ u.maps = txn.maps /\ u.volumes = [txn.volumes EXCEPT ![v] = row]
  BY <1>1 DEF VolumeMade, TableSet
<1>3. row \in VolumeRow /\ row.pool = txn.volumes[v].pool
  BY <1>1 DEF VolumeRow
<1> HIDE DEF u, v, row
<1>4. /\ Rows(u.volumes) = Rows(txn.volumes) \cup {v} /\ u.volumes[v].pool = txn.volumes[v].pool
      /\ \A w \in Rows(txn.volumes) \ {v} : u.volumes[w] = txn.volumes[w]
  BY <1>1, <1>2, <1>3, RowWritten, Nulls
<1>5. v \in Rows(txn.volumes)
  BY DEF v
<1> QED
  BY <1>2, <1>4, <1>5 DEF Lasts, Linked, u, v

-----------------------------------------------------------------------------
\* The call at which a reader's request is.
LEMMA AskedNow ==
  ASSUME TypeInv, LinkedInv, NEW c \in Readers
  PROVE  /\ c \in Clients /\ c # Null /\ request[c] \in RequestSet /\ RequestOK(c) /\ c \in DOMAIN request
         /\ Linked(View(c)) /\ Lasts(db, View(c)) /\ View(c) \in TableSet
         /\ request[c].at <= Len(request[c].calls) => Current(c) \in GoodCall /\ Current(c).do \in BuildCalls
         /\ request[c].step = "write" => LooksUp(Current(c), request[c].seen, View(c))
<1>1. /\ c \in Clients /\ c # Null /\ request[c] \in RequestSet /\ RequestOK(c) /\ c \in DOMAIN request
      /\ View(c) \in TableSet
  BY RequestsAssumption, Nulls DEF TypeInv, View
<1>2. Linked(View(c)) /\ Lasts(db, View(c))
  BY <1>1, LastsItself DEF LinkedInv, TablesLinked, View
<1>3. request[c].step = "write" => LooksUp(Current(c), request[c].seen, View(c))
  BY DEF LinkedInv, AskedOK
<1>4. request[c].at <= Len(request[c].calls) => Current(c) \in GoodCall /\ Current(c).do \in BuildCalls
  <2>1. /\ request[c].calls \in Seq(GoodCall) /\ request[c].at \in Nat /\ 1 <= request[c].at
        /\ Building(request[c].calls)
    BY <1>1 DEF RequestOK, RequestSet, LinkedInv, AskedOK
  <2> QED
    BY <2>1 DEF Current, Building
<1> QED
  BY <1>1, <1>2, <1>3, <1>4

\* What the step of a request does to the tables.
LEMMA ServeLinked ==
  ASSUME TypeInv, LinkedInv, NEW c \in Readers, Serve(c)
  PROVE  /\ TablesLinked' /\ Lasts(db, db')
         /\ writer \in {c, Null} \/ UNCHANGED <<writer, txn, db>>
         /\ writer' \in {writer, c, Null}
<1> DEFINE Goal == /\ TablesLinked' /\ Lasts(db, db')
                   /\ writer \in {c, Null} \/ UNCHANGED <<writer, txn, db>>
                   /\ writer' \in {writer, c, Null}
<1>0. /\ c \in Clients /\ c # Null /\ request[c] \in RequestSet /\ RequestOK(c) /\ TablesLinked
      /\ Linked(View(c)) /\ Lasts(db, View(c)) /\ View(c) \in TableSet
  BY AskedNow DEF LinkedInv
<1>1. ASSUME Fail(c), UNCHANGED db PROVE Goal
  <2>1. TablesLinked'
    BY <1>0, <1>1 DEF Fail, TablesLinked
  <2> QED
    BY <1>1, <2>1, LastsItself DEF Fail
<1>2. ASSUME UNCHANGED <<db, writer, txn>> PROVE Goal
  <2>1. TablesLinked'
    BY <1>0, <1>2 DEF TablesLinked
  <2> QED
    BY <1>2, <2>1, LastsItself
<1>3. CASE Check(c)
  BY <1>1, <1>2, <1>3 DEF Check
<1>4. CASE Write(c)
  <2> DEFINE call == Current(c)
             seen == request[c].seen
  <2>1. CASE Fail(c)
    BY <1>1, <1>4, <2>1 DEF Write
  <2>2. CASE /\ call.do = "create_pool" => issued.pools < MaxPools
             /\ call.do = "create_volume" => issued.volumes < MaxVolumes
             /\ writer' = c /\ txn' = Written(call, seen, View(c))
    <3>1. request[c].step = "write" /\ writer \in {c, Null} /\ UNCHANGED db
      BY <1>4 DEF Write
    <3>2. call \in GoodCall /\ Found(call, seen)
      BY <1>0, <3>1, WriteState
    <3>3. call.do \in BuildCalls /\ LooksUp(call, seen, View(c))
      BY <1>0, <3>1, AskedNow DEF RequestOK
    <3>4. Lasts(View(c), txn') /\ Linked(txn')
      BY <1>0, <2>2, <3>2, <3>3, WrittenLinked
    <3>5. Lasts(db, txn')
      BY <1>0, <3>4, LastsOn
    <3>6. TablesLinked'
      BY <1>0, <3>1, <3>4, <3>5 DEF TablesLinked
    <3> QED
      BY <2>2, <3>1, <3>6, LastsItself
  <2> QED
    BY <1>4, <2>1, <2>2 DEF Write
<1>5. CASE LockFails(c)
  BY <1>1, <1>5 DEF LockFails
<1>6. CASE Provision(c)
  <2>1. writer = c /\ Underway(Current(c))
    BY <1>0, <1>6 DEF Provision, RequestOK
  <2>2. CASE Fail(c) /\ UNCHANGED db
    BY <1>1, <2>2
  <2>3. CASE UNCHANGED <<db, writer, txn>>
    BY <1>2, <2>3
  <2>4. CASE Current(c).do = "create_volume" /\ EnsureLvol(c)
    <3>1. issued.volumes \in Rows(txn.volumes) /\ Linked(txn) /\ Lasts(db, txn)
      BY <1>0, <2>1, <2>4 DEF Underway, TablesLinked
    <3>2. ASSUME NEW status \in {"available", "error"}
          PROVE  /\ Linked(VolumeMade(issued.volumes, status))
                 /\ Lasts(db, VolumeMade(issued.volumes, status))
      <4>1. /\ Lasts(txn, VolumeMade(issued.volumes, status))
            /\ Linked(VolumeMade(issued.volumes, status))
        BY <3>1, MadeLinked
      <4> QED
        BY <3>1, <4>1, LastsOn
    <3>3. CASE txn' = VolumeMade(issued.volumes, "available") /\ UNCHANGED <<db, writer>>
      <4>1. TablesLinked'
        BY <1>0, <3>2, <3>3 DEF TablesLinked
      <4> QED
        BY <2>1, <3>3, <4>1, LastsItself
    <3>4. CASE Fail(c) /\ db' = VolumeMade(issued.volumes, "error")
      <4>1. writer' = Null
        BY <2>1, <3>4 DEF Fail
      <4>2. Linked(db') /\ Lasts(db, db')
        BY <3>2, <3>4
      <4> QED
        BY <2>1, <4>1, <4>2 DEF TablesLinked
    <3> QED
      BY <2>2, <2>4, <3>3, <3>4 DEF EnsureLvol
  <2> QED
    BY <1>6, <2>2, <2>3, <2>4 DEF Provision, EnsurePool, EnsureExport
<1>7. CASE Commit(c)
  <2>1. CASE writer = c /\ db' = txn /\ writer' = Null
    BY <1>0, <2>1 DEF TablesLinked
  <2>2. CASE UNCHANGED <<db, writer, txn>>
    BY <1>2, <2>2
  <2> QED
    BY <1>7, <2>1, <2>2 DEF Commit
<1> QED
  BY <1>3, <1>4, <1>5, <1>6, <1>7 DEF Serve

\* A request keeps its calls while it is served, and writes what it looked up.
LEMMA ServeAsked ==
  ASSUME TypeInv, LinkedInv, NEW c \in Readers, Serve(c)
  PROVE  AskedOK(c)'
<1>0. /\ c \in Clients /\ request[c] \in RequestSet /\ RequestOK(c) /\ Building(request[c].calls)
      /\ View(c) \in TableSet /\ c \in DOMAIN request
  BY AskedNow DEF LinkedInv, AskedOK
<1>1. ASSUME NEW result, request' = Ended(c, result) PROVE AskedOK(c)'
  <2>1. request'[c] = Replied(c, result)
    BY <1>0, <1>1 DEF Ended
  <2>2. request'[c].calls = <<>> /\ request'[c].step = "idle"
    BY <2>1 DEF Replied, Idle
  <2> QED
    BY <2>2 DEF AskedOK, Building
<1>2. ASSUME request'[c].calls = request[c].calls, request'[c].step # "write" PROVE AskedOK(c)'
  BY <1>0, <1>2 DEF AskedOK, Building
<1>3. ASSUME request' = Onward(c) PROVE AskedOK(c)'
  <2>1. request'[c].calls = request[c].calls /\ request'[c].step = "check"
    BY <1>0, <1>3 DEF Onward, RequestSet
  <2> QED
    BY <1>2, <2>1
<1>4. CASE Check(c)
  <2> DEFINE call == Current(c)
  <2>1. CASE Fail(c)
    BY <1>1, <2>1 DEF Fail
  <2>2. CASE /\ ~Refused(call, View(c)) /\ UNCHANGED <<writer, txn>>
             /\ request' = [request EXCEPT ![c].step = "write", ![c].seen = Seen(call, View(c))]
    <3>1. /\ request'[c].calls = request[c].calls /\ request'[c].at = request[c].at
          /\ request'[c].seen = Seen(call, View(c))
      BY <1>0, <2>2 DEF RequestSet
    <3>2. View(c)' = View(c) /\ Current(c)' = call
      BY <1>4, <2>2, <3>1 DEF Check, View, Current
    <3>3. call \in GoodCall
      BY <1>4, AskedNow DEF Check
    <3>4. LooksUp(call, Seen(call, View(c)), View(c))
      BY <1>0, <2>2, <3>3, CheckLooksUp
    <3> HIDE DEF call
    <3>5. LooksUp(Current(c)', request'[c].seen, View(c)')
      BY <3>1, <3>2, <3>4
    <3> QED
      BY <1>0, <3>1, <3>5 DEF AskedOK, Building
  <2> QED
    BY <1>3, <1>4, <2>1, <2>2 DEF Check
<1>5. CASE Write(c)
  <2>1. CASE Fail(c)
    BY <1>1, <2>1 DEF Fail
  <2>2. CASE \/ request' = [request EXCEPT ![c].step = "provision", ![c].made = issued.pools + 1]
             \/ request' = [request EXCEPT ![c].step = "provision"]
    <3>1. request'[c].calls = request[c].calls /\ request'[c].step = "provision"
      BY <1>0, <2>2 DEF RequestSet
    <3> QED
      BY <1>2, <3>1
  <2> QED
    BY <1>3, <1>5, <2>1, <2>2 DEF Write
<1>6. CASE LockFails(c)
  BY <1>1, <1>6 DEF LockFails, Fail
<1>7. CASE Provision(c)
  <2>1. Fail(c) \/ request' = Onward(c)
    BY <1>7 DEF Provision, EnsurePool, EnsureLvol, EnsureExport
  <2> QED
    BY <1>1, <1>3, <2>1 DEF Fail
<1>8. CASE Commit(c)
  BY <1>1, <1>8 DEF Commit
<1> QED
  BY <1>4, <1>5, <1>6, <1>7, <1>8 DEF Serve

\* What a request that does not move has looked up is still there.
LEMMA AskedOKStays ==
  ASSUME NEW d \in Readers, AskedOK(d), request'[d] = request[d], Lasts(View(d), View(d)')
  PROVE  AskedOK(d)'
<1>1. Current(d)' = Current(d)
  BY DEF Current
<1>2. LooksUp(Current(d), request[d].seen, View(d)) => LooksUp(Current(d), request[d].seen, View(d)')
  BY LooksUpStays
<1> QED
  BY <1>1, <1>2 DEF AskedOK, Building

-----------------------------------------------------------------------------
\* A call that serves an item is one of those.
LEMMA ServesBuild ==
  ASSUME NEW item, NEW t, NEW calls, Len(calls) = 1, DOMAIN calls = 1..1, Serves(calls[1], item, t)
  PROVE  Building(calls)
<1>1. calls[1].do \in BuildCalls
  BY DEF Serves, BuildCalls
<1>2. \A i \in DOMAIN calls : i = 1
  OBVIOUS
<1> QED
  BY <1>1, <1>2 DEF Building

\* What is posted for the item of a run creates, or attaches.
LEMMA PostsBuild ==
  ASSUME TypeInv, NEW i \in DOMAIN Topology
  PROVE  LET item == Topology[i]
         IN  /\ item.kind = "array" => Building(PostArray(item.array))
             /\ item.kind = "endpoint" => Building(PostEndpoint(item.array))
             /\ item.kind = "host" => Building(PostHost(item.name, {}))
             /\ item.kind = "pool" => Building(PostPool(item.name))
             /\ \A p \in Pools : item.kind = "pool" => Building(AttachPool(p, item.array))
             /\ \A p \in ResolvePool(item.pool, item.array) :
                  item.kind = "volume" => Building(PostVolume(p, item.name))
             /\ \A v \in ResolveVolume(item.name, item.array) :
                  item.kind = "mapping" => Building(PostMapping(item.host, v))
<1> DEFINE item == Topology[i]
<1>0. Rows(db.pools) \subseteq Pools /\ Rows(db.volumes) \subseteq Volumes /\ db \in TableSet
  BY DEF TypeInv, TableSet, Rows
<1>1. ASSUME NEW calls, Posted(calls, item, db) PROVE Building(calls)
  <2>1. PICK call \in Draft : calls = <<call>> /\ Serves(call, item, db)
    BY <1>1 DEF Posted
  <2> QED
    BY <2>1, ServesBuild
<1>2. item.kind = "array" => Building(PostArray(item.array))
  BY <1>1, PostsServe
<1>3. item.kind = "endpoint" => Building(PostEndpoint(item.array))
  BY <1>1, PostsServe
<1>4. item.kind = "host" => Building(PostHost(item.name, {}))
  BY <1>1, PostsServe
<1>5. ASSUME item.kind = "pool" PROVE Building(PostPool(item.name))
  <2>1. PICK call \in Draft : PostPool(item.name) = <<call>> /\ call.do = "create_pool"
    BY <1>5, PostsServe
  <2> QED
    BY <2>1 DEF Building, BuildCalls
<1>6. ASSUME item.kind = "pool", NEW p \in Pools PROVE Building(AttachPool(p, item.array))
  <2> DEFINE call == OnPool("attach_pool", p, item.array)
  <2>1. item.array \in Arrays /\ "attach_pool" \in Known
    BY <1>6, ItemDeclared DEF Known, PoolCalls
  <2>2. call.do = "attach_pool"
    BY <2>1, PoolDraft
  <2>3. AttachPool(p, item.array) = <<call>>
    BY DEF AttachPool
  <2> HIDE DEF call
  <2> QED
    BY <2>2, <2>3 DEF Building, BuildCalls
<1>7. ASSUME item.kind = "volume", NEW p \in ResolvePool(item.pool, item.array)
      PROVE  Building(PostVolume(p, item.name))
  <2>1. p \in Pools /\ p \in PoolCalled(db, item.pool, item.array)
    BY <1>0, <1>7 DEF ResolvePool, PoolCalled, PoolsOf
  <2>2. Len(PostVolume(p, item.name)) = 1 /\ Serves(PostVolume(p, item.name)[1], item, db)
    BY <1>0, <1>7, <2>1, LookedUpServes
  <2>3. DOMAIN PostVolume(p, item.name) = 1..1
    BY DEF PostVolume
  <2> QED
    BY <2>2, <2>3, ServesBuild
<1>8. ASSUME item.kind = "mapping", NEW v \in ResolveVolume(item.name, item.array)
      PROVE  Building(PostMapping(item.host, v))
  <2>1. v \in Volumes /\ v \in VolumeCalled(db, item.name, item.array)
    BY <1>0, <1>8 DEF ResolveVolume, VolumeCalled, VolumesOf
  <2>2. Len(PostMapping(item.host, v)) = 1 /\ Serves(PostMapping(item.host, v)[1], item, db)
    BY <1>0, <1>8, <2>1, LookedUpServes
  <2>3. DOMAIN PostMapping(item.host, v) = 1..1
    BY DEF PostMapping
  <2> QED
    BY <2>2, <2>3, ServesBuild
<1> QED
  BY <1>2, <1>3, <1>4, <1>5, <1>6, <1>7, <1>8

\* So does what the gateway's own function calls.
LEMMA EnsuredBuilds == Building([i \in DOMAIN Topology |-> Ensured(Topology[i])])
<1>1. ASSUME NEW i \in DOMAIN Topology PROVE Ensured(Topology[i]).do \in BuildCalls
  <2>1. Serves(Ensured(Topology[i]), Topology[i], db)
    BY EnsuredServes
  <2> QED
    BY <2>1 DEF Serves, BuildCalls
<1> QED
  BY <1>1 DEF Building

\* A step of a run asks for such calls, or for none.
LEMMA ToolBuilds ==
  ASSUME TypeInv, RunInv, NEW c \in Readers, Tool(c) \/ ApplySpec(c) \/ Read(c)
  PROVE  \/ UNCHANGED request
         \/ \E calls, keeps : Ask(c, calls, keeps) /\ Building(calls)
         \/ Read(c)
<1> DEFINE Goal == \/ UNCHANGED request
                   \/ \E calls, keeps : Ask(c, calls, keeps) /\ Building(calls)
                   \/ Read(c)
<1>0. /\ RunOK(c) /\ CreatedOK(c) /\ op[c].at \in Nat /\ op[c].at >= 1
      /\ Len(Topology) \in Nat /\ DOMAIN Topology = 1..Len(Topology)
      /\ Rows(db.pools) \subseteq Pools
  BY ApplyAssumption DEF RunInv, RunOK, TypeInv, TableSet, Rows
<1>1. ASSUME op[c].at <= Len(Topology) PROVE op[c].at \in DOMAIN Topology /\ Item(c) = Topology[op[c].at]
  BY <1>0, <1>1 DEF Item
<1>2. ASSUME UNCHANGED vars PROVE Goal
  BY <1>2 DEF vars
<1>3. ASSUME NEW calls, NEW keeps, NEW step, Post(c, calls, keeps, step), Building(calls) PROVE Goal
  BY <1>3 DEF Post
<1>4. CASE Begin(c) \/ Finish(c) \/ Unanswered(c)
  BY <1>2, <1>4 DEF Begin, Finish, Unanswered
<1>5. CASE ApplyArray(c)
  <2>1. Building(PostArray(Item(c).array))
    BY <1>1, <1>5, PostsBuild DEF ApplyArray, Listing
  <2> QED
    BY <1>2, <1>3, <1>5, <2>1 DEF ApplyArray
<1>6. CASE ApplyEndpoint(c)
  <2>1. Building(PostEndpoint(Item(c).array))
    BY <1>1, <1>6, PostsBuild DEF ApplyEndpoint, Listing
  <2> QED
    BY <1>2, <1>3, <1>6, <2>1 DEF ApplyEndpoint
<1>7. CASE ApplyPool(c)
  <2>1. Building(PostPool(Item(c).name))
    BY <1>1, <1>7, PostsBuild DEF ApplyPool, Listing
  <2> QED
    BY <1>2, <1>3, <1>7, <2>1 DEF ApplyPool
<1>8. CASE CreatePool(c)
  <2>1. op[c].at <= Len(Topology) /\ Item(c).kind = "pool"
    BY <1>0, <1>8 DEF CreatePool, Listing, RunOK
  <2>2. Building(PostPool(Item(c).name))
    BY <1>1, <2>1, PostsBuild
  <2>3. ASSUME NEW p \in MisplacedPool(Item(c).name) PROVE Building(AttachPool(p, Item(c).array))
    <3>1. p \in Pools
      BY <1>0 DEF MisplacedPool, ResolvePool, PoolCalled, PoolsOf
    <3> QED
      BY <1>1, <2>1, <3>1, PostsBuild
  <2> QED
    BY <1>3, <1>8, <2>2, <2>3 DEF CreatePool
<1>9. CASE AttachCreated(c)
  <2>1. op[c].at <= Len(Topology) /\ Item(c).kind = "pool" /\ request[c].made \in Pools
    BY <1>0, <1>9 DEF AttachCreated, RunOK, CreatedOK
  <2>2. Building(AttachPool(request[c].made, Item(c).array))
    BY <1>1, <2>1, PostsBuild
  <2> QED
    BY <1>3, <1>9, <2>2 DEF AttachCreated
<1>10. CASE ApplyHost(c)
  <2>1. Building(PostHost(Item(c).name, {}))
    BY <1>1, <1>10, PostsBuild DEF ApplyHost, Listing
  <2> QED
    BY <1>2, <1>3, <1>10, <2>1 DEF ApplyHost
<1>11. CASE ApplyVolume(c)
  <2>1. \A p \in ResolvePool(Item(c).pool, Item(c).array) : Building(PostVolume(p, Item(c).name))
    BY <1>1, <1>11, PostsBuild DEF ApplyVolume, Listing
  <2> QED
    BY <1>2, <1>3, <1>11, <2>1 DEF ApplyVolume
<1>12. CASE ApplyMapping(c)
  <2>1. \A v \in ResolveVolume(Item(c).name, Item(c).array) : Building(PostMapping(Item(c).host, v))
    BY <1>1, <1>12, PostsBuild DEF ApplyMapping, Listing
  <2> QED
    BY <1>2, <1>3, <1>12, <2>1 DEF ApplyMapping
<1>13. CASE ApplySpec(c)
  BY <1>3, <1>13, EnsuredBuilds DEF ApplySpec
<1> QED
  BY <1>4, <1>5, <1>6, <1>7, <1>8, <1>9, <1>10, <1>11, <1>12, <1>13 DEF Tool

\* What a run's step leaves a reader with.
LEMMA ToolAsked ==
  ASSUME TypeInv, RunInv, LinkedInv, NEW c \in Readers, Tool(c) \/ ApplySpec(c) \/ Read(c)
  PROVE  AskedOK(c)'
<1>0. c \in DOMAIN request
  BY RequestsAssumption DEF TypeInv
<1>1. CASE UNCHANGED request
  <2>1. Lasts(View(c), View(c)')
    BY ToolAlone, LastsItself DEF View
  <2> QED
    BY <1>1, <2>1, AskedOKStays DEF LinkedInv
<1>2. CASE Read(c)
  <2>1. request'[c].calls = <<>> /\ request'[c].step = "idle"
    BY <1>0, <1>2 DEF Read, Idle
  <2> QED
    BY <2>1 DEF AskedOK, Building
<1>3. ASSUME NEW calls, NEW keeps, Ask(c, calls, keeps), Building(calls) PROVE AskedOK(c)'
  <2>1. request'[c] = [Idle EXCEPT !.step = "check", !.calls = calls, !.keeps = keeps]
    BY <1>0, <1>3 DEF Ask
  <2>2. request'[c].calls = calls /\ request'[c].step = "check"
    BY <2>1 DEF Idle
  <2> QED
    BY <1>3, <2>2 DEF AskedOK, Building
<1> QED
  BY <1>1, <1>2, <1>3, ToolBuilds

\* Every step of every run, of every request and of the gateway.
LEMMA LinkedSteps ==
  ASSUME TypeInv, RunInv, LinkedInv, [ApplyNext]_opVars
  PROVE  LinkedInv'
<1>0. Readers \subseteq Clients /\ Null \notin Clients
  BY RequestsAssumption
<1>1. ASSUME NEW c \in Readers, Tool(c) \/ ApplySpec(c) \/ Read(c) PROVE LinkedInv'
  <2>1. UNCHANGED <<db, writer, txn>> /\ \A d \in Readers \ {c} : request'[d] = request[d]
    BY <1>1, ToolAlone
  <2>2. TablesLinked'
    BY <2>1 DEF LinkedInv, TablesLinked
  <2>3. ASSUME NEW d \in Readers, d # c PROVE AskedOK(d)'
    <3>1. Lasts(View(d), View(d)')
      BY <2>1, LastsItself DEF View
    <3> QED
      BY <2>1, <2>3, <3>1, AskedOKStays DEF LinkedInv
  <2> QED
    BY <1>1, <2>2, <2>3, ToolAsked DEF LinkedInv
<1>2. ASSUME NEW c \in Readers, Serve(c) PROVE LinkedInv'
  <2>1. \A d \in Readers \ {c} : request'[d] = request[d]
    BY <1>0, <1>2, ServeAlone
  <2>2. /\ TablesLinked' /\ Lasts(db, db')
        /\ writer \in {c, Null} \/ UNCHANGED <<writer, txn, db>>
        /\ writer' \in {writer, c, Null}
    BY <1>2, ServeLinked
  <2>3. ASSUME NEW d \in Readers, d # c PROVE AskedOK(d)'
    <3>1. CASE UNCHANGED <<writer, txn, db>>
      <4>1. Lasts(View(d), View(d)')
        BY <3>1, LastsItself DEF View
      <4> QED
        BY <2>1, <2>3, <4>1, AskedOKStays DEF LinkedInv
    <3>2. CASE writer \in {c, Null}
      <4>1. View(d) = db /\ View(d)' = db'
        BY <1>0, <2>2, <2>3, <3>2 DEF View
      <4> QED
        BY <2>1, <2>2, <2>3, <4>1, AskedOKStays DEF LinkedInv
    <3> QED
      BY <2>2, <3>1, <3>2
  <2>4. AskedOK(c)'
    BY <1>2, ServeAsked
  <2> QED
    BY <2>2, <2>3, <2>4 DEF LinkedInv
<1>3. CASE Crash
  <2>1. UNCHANGED db /\ writer' = Null
    BY <1>3 DEF Crash
  <2>2. \A d \in Readers : request'[d].step = "idle" /\ request'[d].calls = <<>>
    BY <1>0, <1>3 DEF Crash, Replied, Idle
  <2>3. TablesLinked'
    BY <2>1 DEF LinkedInv, TablesLinked
  <2> QED
    BY <2>2, <2>3 DEF LinkedInv, AskedOK, Building
<1>4. CASE Restart \/ UNCHANGED opVars
  <2>1. UNCHANGED <<db, writer, txn, request>>
    BY <1>4 DEF Restart, opVars, vars
  <2>2. TablesLinked'
    BY <2>1 DEF LinkedInv, TablesLinked
  <2>3. ASSUME NEW d \in Readers PROVE AskedOK(d)'
    <3>1. Lasts(View(d), View(d)')
      BY <2>1, LastsItself DEF View
    <3> QED
      BY <2>1, <3>1, AskedOKStays DEF LinkedInv
  <2> QED
    BY <2>2, <2>3 DEF LinkedInv
<1> QED
  BY <1>1, <1>2, <1>3, <1>4 DEF ApplyNext

\* There is nothing yet that could name anything.
LEMMA LinkedStarts ==
  ASSUME ApplyInit
  PROVE  LinkedInv
<1>1. /\ Rows(db.pools) = {} /\ Rows(db.volumes) = {} /\ writer = Null
      /\ \A h \in Hosts, v \in Volumes : db.maps[<<h, v>>] = 0
  BY DEF ApplyInit, Init, NoTables, Rows
<1>2. TablesLinked
  BY <1>1 DEF TablesLinked, Linked
<1>3. \A c \in Readers : request[c].step = "idle" /\ request[c].calls = <<>>
  BY RequestsAssumption DEF ApplyInit, Init, Idle
<1> QED
  BY <1>2, <1>3 DEF LinkedInv, AskedOK, Building

\* No pool, volume or mapping of an applied topology names an array, a pool or a
\* host that is not there, whichever runs raced and wherever the gateway died: those
\* who apply take nothing away between what a service looks up and what it writes.
THEOREM DeclaredReferences == ApplySpecification => []References
<1>1. ApplyInit => TypeInv /\ BackedInv /\ RunInv /\ LinkedInv
  BY RunStarts, LinkedStarts
<1>2. TypeInv /\ BackedInv /\ RunInv /\ LinkedInv /\ [ApplyNext]_opVars
        => (TypeInv /\ BackedInv /\ RunInv /\ LinkedInv)'
  BY ApplySteps, LinkedSteps
<1>3. LinkedInv => References
  <2> SUFFICES ASSUME Linked(db) PROVE References
    BY DEF LinkedInv, TablesLinked
  <2> QED
    BY DEF Linked, References, Rows
<1> QED
  BY <1>1, <1>2, <1>3, PTL DEF ApplySpecification

-----------------------------------------------------------------------------
\* What is listed by pools is what is listed by arrays, where rows name rows that are
\* there and a volume is on the array of its pool.
LEMMA LinkedListings ==
  ASSUME db \in TableSet, Linked(db),
         \A v \in Rows(db.volumes) : db.pools[db.volumes[v].pool].array = db.volumes[v].array
  PROVE  \A a \in Arrays :
           /\ Lssystem(a) = Showsys(a)
           /\ Lsmdiskgrp(a) = Showcpg(a) /\ Lsvdisk(a) = WsapiVolumes(a)
           /\ Lshost = Showhost
           /\ UNION {Lshostvdiskmap(a, h) : h \in Hosts} = WsapiVluns(a)
           /\ UNION {Lsvdiskhostmap(v) : v \in VolumesOf(db, a)} = Showvlun(a)
<1> SUFFICES ASSUME NEW a \in Arrays
             PROVE  /\ Lssystem(a) = Showsys(a)
                    /\ Lsmdiskgrp(a) = Showcpg(a) /\ Lsvdisk(a) = WsapiVolumes(a)
                    /\ Lshost = Showhost
                    /\ UNION {Lshostvdiskmap(a, h) : h \in Hosts} = WsapiVluns(a)
                    /\ UNION {Lsvdiskhostmap(v) : v \in VolumesOf(db, a)} = Showvlun(a)
  OBVIOUS
<1>1. \A v \in Rows(db.volumes) : /\ db.pools[db.volumes[v].pool] # Null
                                  /\ db.pools[db.volumes[v].pool].array = db.volumes[v].array
                                  /\ db.volumes[v].pool \in Rows(db.pools)
  BY DEF Linked, Rows
<1>2. \A h \in Hosts, v \in Volumes : db.maps[<<h, v>>] > 0 => h \in db.hosts /\ v \in Rows(db.volumes)
  BY DEF Linked
<1>3. \A v \in VolumesOf(db, a) : v \in Volumes /\ MapsOfVolume(db, v) \subseteq db.hosts
  BY <1>2 DEF MapsOfVolume, VolumesOf, Rows, TableSet
<1>4. Lssystem(a) = Showsys(a)
  BY <1>1 DEF Lssystem, Showsys, VolumesIn, VolumesOf, PoolsOf
<1>5. Lsmdiskgrp(a) = Showcpg(a) /\ Lshost = Showhost
  BY DEF Lsmdiskgrp, Showcpg, Lshost, Showhost
<1>6. Lsvdisk(a) = WsapiVolumes(a)
  <2>1. \A v \in VolumesOf(db, a) : PoolShown(v) = db.pools[db.volumes[v].pool].name
    BY <1>1 DEF PoolShown, VolumesOf
  <2>2. Showvv(a) = {<<db.volumes[v].name, db.pools[db.volumes[v].pool].name, Online(v)>> : v \in VolumesOf(db, a)}
    BY <1>1 DEF Showvv, VolumesOf
  <2> QED
    BY <2>1, <2>2 DEF Lsvdisk, WsapiVolumes
<1>7. Showvlun(a) = UNION {{<<db.volumes[v].name, h>> : h \in MapsOfVolume(db, v)} : v \in VolumesOf(db, a)}
  BY <1>3 DEF Showvlun
<1>8. UNION {Lshostvdiskmap(a, h) : h \in Hosts} = WsapiVluns(a)
  <2> DEFINE shown == UNION {Lshostvdiskmap(a, h) : h \in Hosts}
  <2>1. ASSUME NEW x \in shown PROVE x \in Showvlun(a)
    <3>1. PICK h \in Hosts : x \in Lshostvdiskmap(a, h)
      OBVIOUS
    <3>2. PICK v \in MapsOfHost(db, h) \cap VolumesOf(db, a) : x = <<db.volumes[v].name, h>>
      BY <3>1 DEF Lshostvdiskmap
    <3>3. h \in MapsOfVolume(db, v)
      BY <3>2 DEF MapsOfHost, MapsOfVolume
    <3> QED
      BY <1>7, <3>2, <3>3
  <2>2. ASSUME NEW x \in Showvlun(a) PROVE x \in shown
    <3>1. PICK v \in VolumesOf(db, a) : x \in {<<db.volumes[v].name, h>> : h \in MapsOfVolume(db, v)}
      BY <1>7
    <3>2. PICK h \in MapsOfVolume(db, v) : x = <<db.volumes[v].name, h>>
      BY <3>1
    <3>3. h \in Hosts /\ v \in MapsOfHost(db, h)
      BY <1>3, <3>2 DEF MapsOfHost, MapsOfVolume
    <3>4. x \in Lshostvdiskmap(a, h)
      BY <3>2, <3>3 DEF Lshostvdiskmap
    <3> QED
      BY <3>3, <3>4
  <2> QED
    BY <2>1, <2>2 DEF WsapiVluns
<1>9. UNION {Lsvdiskhostmap(v) : v \in VolumesOf(db, a)} = Showvlun(a)
  BY <1>3, <1>7 DEF Lsvdiskhostmap
<1> QED
  BY <1>4, <1>5, <1>6, <1>8, <1>9

\* A volume is in a pool that the file names, on the array where the file has it.
InPool(p, a, t) == \E i \in NamesPool : Topology[i].array = a /\ p \in AtHome(t, Topology[i])
Housed(t) == \A v \in Rows(t.volumes) : InPool(t.volumes[v].pool, t.volumes[v].array, t)

TablesHoused == Housed(db) /\ (writer # Null => Housed(txn))

\* And a request that is to add one has found such a pool.
FoundHome(c) ==
  request[c].step = "write" /\ Current(c).do = "create_volume" =>
    InPool(request[c].seen.pool, request[c].seen.array, View(c))

HousedInv == TablesHoused /\ \A c \in Readers : FoundHome(c)

\* A pool stays where the file has it.
LEMMA InPoolStays ==
  ASSUME NEW t, NEW u, Grows(t, u), NEW p, NEW a, InPool(p, a, t)
  PROVE  InPool(p, a, u)
BY DEF Grows, InPool

\* The pool that a service takes for a volume of the file is where the file has it.
LEMMA CheckHoused ==
  ASSUME TypeInv, NEW t \in TableSet, Proper(t, issued), NEW call \in GoodCall,
         NEW i \in DOMAIN Topology, Serves(call, Topology[i], t),
         call.do = "create_volume", ~Refused(call, t)
  PROVE  InPool(Seen(call, t).pool, Seen(call, t).array, t)
<1>1. Topology[i].kind = "volume"
  BY DEF Serves
<1>2. i \in NamesPool /\ PoolNamed(Topology[i]) = Topology[i].pool
  BY <1>1 DEF NamesPool, PoolNamed
<1>3. PoolsFor(call, t) \subseteq AtHome(t, Topology[i])
  BY <1>1, <1>2 DEF Serves, PoolsFor, AtHome
<1>4. PoolsFor(call, t) # {}
  BY DEF Refused
<1>5. Seen(call, t).pool \in AtHome(t, Topology[i])
  BY <1>3, <1>4 DEF Seen, TheOne
<1>6. Seen(call, t).array = Topology[i].array
  BY CheckServes DEF SeenServes
<1> QED
  BY <1>2, <1>5, <1>6 DEF InPool

\* What a call writes leaves volumes where they were, and adds them where it found
\* their pool.
LEMMA WrittenHoused ==
  ASSUME TypeInv, NEW t \in TableSet, Housed(t), NEW call \in GoodCall, NEW seen, Found(call, seen),
         call.do \in BuildCalls, Grows(t, Written(call, seen, t)),
         call.do = "create_volume" => issued.volumes < MaxVolumes /\ InPool(seen.pool, seen.array, t)
  PROVE  Housed(Written(call, seen, t))
<1> DEFINE u == Written(call, seen, t)
<1>0. Grows(t, u)
  OBVIOUS
<1>1. CASE call.do # "create_volume"
  <2>1. u.volumes = t.volumes
    BY <1>1 DEF BuildCalls, Written, ArrayAdded, EndpointAdded, PoolAdded, PoolMoved, HostAdded,
                MappingAdded, TableSet
  <2> HIDE DEF u
  <2>2. ASSUME NEW v \in Rows(u.volumes) PROVE InPool(u.volumes[v].pool, u.volumes[v].array, u)
    <3>1. InPool(u.volumes[v].pool, u.volumes[v].array, t)
      BY <2>1, <2>2 DEF Housed
    <3> QED
      BY <1>0, <3>1, InPoolStays
  <2>3. Housed(u)
    BY <2>2 DEF Housed
  <2> QED
    BY <2>3 DEF u
<1>2. CASE call.do = "create_volume"
  <2> DEFINE v == issued.volumes + 1
             row == [name |-> call.name, pool |-> seen.pool, array |-> seen.array, status |-> "creating"]
  <2>0. v \in Volumes
    BY <1>2, TablesAssumption DEF TypeInv, Volumes
  <2>1. u.volumes = [t.volumes EXCEPT ![v] = row]
    BY <1>2 DEF Written, VolumeAdded, TableSet
  <2>2. row \in VolumeRow /\ row.pool = seen.pool /\ row.array = seen.array
    BY <1>2 DEF GoodCall, Found, VolumeRow
  <2>3. t.volumes \in [Volumes -> PoolRow \cup VolumeRow \cup {Null}]
    BY DEF TableSet
  <2> HIDE DEF u, v, row
  <2>4. /\ Rows(u.volumes) = Rows(t.volumes) \cup {v} /\ u.volumes[v] = row
        /\ \A w \in Rows(t.volumes) \ {v} : u.volumes[w] = t.volumes[w]
    BY <2>0, <2>1, <2>2, <2>3, RowWritten, Nulls
  <2>5. ASSUME NEW w \in Rows(u.volumes) PROVE InPool(u.volumes[w].pool, u.volumes[w].array, t)
    <3>1. CASE w = v
      BY <1>2, <2>2, <2>4, <3>1
    <3>2. CASE w # v
      BY <2>4, <3>2 DEF Housed
    <3> QED
      BY <3>1, <3>2
  <2>6. ASSUME NEW w \in Rows(u.volumes) PROVE InPool(u.volumes[w].pool, u.volumes[w].array, u)
    BY <1>0, <2>5, <2>6, InPoolStays
  <2>7. Housed(u)
    BY <2>6 DEF Housed
  <2> QED
    BY <2>7 DEF u
<1> QED
  BY <1>1, <1>2

\* So does its status.
LEMMA MadeHoused ==
  ASSUME TypeInv, issued.volumes \in Rows(txn.volumes), Housed(txn), Proper(txn, issued),
         NEW status \in {"available", "error"}
  PROVE  Housed(VolumeMade(issued.volumes, status))
<1> DEFINE v == issued.volumes
           u == VolumeMade(v, status)
           row == [txn.volumes[v] EXCEPT !.status = status]
<1>0. Grows(txn, u)
  BY MadeGrows
<1>1. /\ txn \in TableSet /\ v \in Volumes /\ txn.volumes[v] \in VolumeRow
      /\ txn.volumes \in [Volumes -> PoolRow \cup VolumeRow \cup {Null}]
  BY DEF TypeInv, Rows, TableSet
<1>2. u.volumes = [txn.volumes EXCEPT ![v] = row]
  BY <1>1 DEF VolumeMade, TableSet
<1>3. /\ row \in VolumeRow /\ row.pool = txn.volumes[v].pool
      /\ row.array = txn.volumes[v].array
  BY <1>1 DEF VolumeRow
<1>4. v \in Rows(txn.volumes)
  OBVIOUS
<1> HIDE DEF u, v, row
<1>5. /\ Rows(u.volumes) = Rows(txn.volumes) \cup {v} /\ u.volumes[v] = row
      /\ \A w \in Rows(txn.volumes) \ {v} : u.volumes[w] = txn.volumes[w]
  BY <1>1, <1>2, <1>3, RowWritten, Nulls
<1>6. ASSUME NEW w \in Rows(u.volumes) PROVE InPool(u.volumes[w].pool, u.volumes[w].array, txn)
  <2>1. /\ w \in Rows(txn.volumes) /\ u.volumes[w].pool = txn.volumes[w].pool
        /\ u.volumes[w].array = txn.volumes[w].array
    BY <1>3, <1>4, <1>5, <1>6
  <2> QED
    BY <2>1 DEF Housed
<1>7. Housed(u)
  BY <1>0, <1>6, InPoolStays DEF Housed
<1> QED
  BY <1>7 DEF u, v

-----------------------------------------------------------------------------
\* What the step of a request does to the tables.
LEMMA ServeHoused ==
  ASSUME TypeInv, RunInv, AppliedInv, LinkedInv, HousedInv, OneArrayEach, NEW c \in Readers, Serve(c)
  PROVE  TablesHoused'
<1>0. /\ c \in Clients /\ c # Null /\ request[c] \in RequestSet /\ RequestOK(c) /\ TablesHoused
      /\ View(c) \in TableSet /\ Proper(View(c), issued) /\ Housed(View(c)) /\ TablesGrow
  <2>1. c \in Clients /\ TablesHoused /\ TablesGrow
    BY RequestsAssumption DEF HousedInv, AppliedInv
  <2>2. Housed(View(c)) /\ c # Null
    BY <2>1, Nulls DEF TablesHoused, View
  <2> QED
    BY <2>1, <2>2, ViewGrows DEF TypeInv
<1>1. ASSUME Fail(c), UNCHANGED db PROVE TablesHoused'
  BY <1>0, <1>1 DEF Fail, TablesHoused
<1>2. ASSUME UNCHANGED <<db, writer, txn>> PROVE TablesHoused'
  BY <1>0, <1>2 DEF TablesHoused
<1>3. CASE Check(c)
  BY <1>1, <1>2, <1>3 DEF Check
<1>4. CASE Write(c)
  <2> DEFINE call == Current(c)
             seen == request[c].seen
  <2>1. CASE Fail(c)
    BY <1>1, <1>4, <2>1 DEF Write
  <2>2. CASE /\ call.do = "create_pool" => issued.pools < MaxPools
             /\ call.do = "create_volume" => issued.volumes < MaxVolumes
             /\ txn' = Written(call, seen, View(c))
    <3>1. request[c].step = "write" /\ UNCHANGED db
      BY <1>4 DEF Write
    <3>2. Builds(call, View(c)) /\ call \in GoodCall /\ Found(call, seen)
      BY <3>1, WriteBuilds
    <3>3. Grows(View(c), txn')
      BY <1>0, <2>2, <3>2, WrittenGrows
    <3>4. call.do \in BuildCalls
      BY <3>2 DEF Builds, BuildCalls
    <3>5. call.do = "create_volume" => InPool(seen.pool, seen.array, View(c))
      BY <3>1 DEF HousedInv, FoundHome
    <3>6. Housed(txn')
      BY <1>0, <2>2, <3>2, <3>3, <3>4, <3>5, WrittenHoused
    <3> QED
      BY <1>0, <3>1, <3>6 DEF TablesHoused
  <2> QED
    BY <1>4, <2>1, <2>2 DEF Write
<1>5. CASE LockFails(c)
  BY <1>1, <1>5 DEF LockFails
<1>6. CASE Provision(c)
  <2>1. writer = c /\ Underway(Current(c))
    BY <1>0, <1>6 DEF Provision, RequestOK
  <2>2. CASE Fail(c) /\ UNCHANGED db
    BY <1>1, <2>2
  <2>3. CASE UNCHANGED <<db, writer, txn>>
    BY <1>2, <2>3
  <2>4. CASE Current(c).do = "create_volume" /\ EnsureLvol(c)
    <3>1. issued.volumes \in Rows(txn.volumes) /\ Housed(txn) /\ Proper(txn, issued)
      BY <1>0, <2>1, <2>4 DEF Underway, TablesHoused, TablesGrow
    <3>2. ASSUME NEW status \in {"available", "error"} PROVE Housed(VolumeMade(issued.volumes, status))
      BY <3>1, MadeHoused
    <3>3. CASE txn' = VolumeMade(issued.volumes, "available") /\ UNCHANGED <<db, writer>>
      BY <1>0, <3>2, <3>3 DEF TablesHoused
    <3>4. CASE Fail(c) /\ db' = VolumeMade(issued.volumes, "error")
      <4>1. writer' = Null
        BY <2>1, <3>4 DEF Fail
      <4> QED
        BY <3>2, <3>4, <4>1 DEF TablesHoused
    <3> QED
      BY <2>2, <2>4, <3>3, <3>4 DEF EnsureLvol
  <2> QED
    BY <1>6, <2>2, <2>3, <2>4 DEF Provision, EnsurePool, EnsureExport
<1>7. CASE Commit(c)
  <2>1. CASE writer = c /\ db' = txn /\ writer' = Null
    BY <1>0, <2>1 DEF TablesHoused
  <2>2. CASE UNCHANGED <<db, writer, txn>>
    BY <1>2, <2>2
  <2> QED
    BY <1>7, <2>1, <2>2 DEF Commit
<1> QED
  BY <1>3, <1>4, <1>5, <1>6, <1>7 DEF Serve

\* A request that waits has found its pool by a check.
LEMMA ServeFindsHome ==
  ASSUME TypeInv, RunInv, AppliedInv, NEW c \in Readers, Serve(c)
  PROVE  FoundHome(c)'
<1>0. /\ c \in Clients /\ request[c] \in RequestSet /\ c \in DOMAIN request /\ TablesGrow
      /\ View(c) \in TableSet /\ Proper(View(c), issued)
  BY RequestsAssumption, ViewGrows DEF TypeInv, AppliedInv
<1>1. ASSUME request'[c].step # "write" PROVE FoundHome(c)'
  BY <1>1 DEF FoundHome
<1>2. ASSUME NEW result, request' = Ended(c, result) PROVE FoundHome(c)'
  <2>1. request'[c] = Replied(c, result)
    BY <1>0, <1>2 DEF Ended
  <2>2. request'[c].step = "idle"
    BY <2>1 DEF Replied, Idle
  <2> QED
    BY <1>1, <2>2
<1>3. ASSUME request' = Onward(c) PROVE FoundHome(c)'
  <2>1. request'[c].step = "check"
    BY <1>0, <1>3 DEF Onward, RequestSet
  <2> QED
    BY <1>1, <2>1
<1>4. CASE Check(c)
  <2> DEFINE call == Current(c)
  <2>1. CASE Fail(c)
    BY <1>2, <2>1 DEF Fail
  <2>2. CASE /\ ~Refused(call, View(c)) /\ UNCHANGED <<writer, txn>>
             /\ request' = [request EXCEPT ![c].step = "write", ![c].seen = Seen(call, View(c))]
    <3>1. /\ request'[c].calls = request[c].calls /\ request'[c].at = request[c].at
          /\ request'[c].seen = Seen(call, View(c))
      BY <1>0, <2>2 DEF RequestSet
    <3>2. View(c)' = View(c) /\ Current(c)' = call
      BY <1>4, <2>2, <3>1 DEF Check, View, Current
    <3>3. request[c].at <= Len(request[c].calls) /\ request[c].step = "check"
      BY <1>4 DEF Check
    <3>4. call.do = "create_volume" => op[c].step \in {"await", "load"}
      <4>1. ASSUME op[c].step = "created" PROVE call.do = "create_pool"
        <5>1. /\ request[c].at \in {1, 2} /\ Len(request[c].calls) = 1
              /\ request[c].at = 1 => call.do = "create_pool"
          BY <3>3, <4>1, CreatingAt
        <5> QED
          BY <3>3, <5>1
      <4> QED
        BY <3>3, <4>1 DEF AppliedInv, ServedOK
    <3>5. ASSUME call.do = "create_volume"
          PROVE  InPool(Seen(call, View(c)).pool, Seen(call, View(c)).array, View(c))
      <4>1. PICK j \in DOMAIN Topology : call \in GoodCall /\ Serves(call, Topology[j], View(c))
        BY <3>3, <3>4, <3>5, CallServes
      <4> QED
        BY <1>0, <2>2, <3>5, <4>1, CheckHoused
    <3> HIDE DEF call
    <3> QED
      BY <3>1, <3>2, <3>5 DEF FoundHome
  <2> QED
    BY <1>3, <1>4, <2>1, <2>2 DEF Check
<1>5. CASE Write(c)
  <2>1. CASE Fail(c)
    BY <1>2, <2>1 DEF Fail
  <2>2. CASE \/ request' = [request EXCEPT ![c].step = "provision", ![c].made = issued.pools + 1]
             \/ request' = [request EXCEPT ![c].step = "provision"]
    <3>1. request'[c].step = "provision"
      BY <1>0, <2>2 DEF RequestSet
    <3> QED
      BY <1>1, <3>1
  <2> QED
    BY <1>3, <1>5, <2>1, <2>2 DEF Write
<1>6. CASE LockFails(c)
  BY <1>2, <1>6 DEF LockFails, Fail
<1>7. CASE Provision(c)
  <2>1. Fail(c) \/ request' = Onward(c)
    BY <1>7 DEF Provision, EnsurePool, EnsureLvol, EnsureExport
  <2> QED
    BY <1>2, <1>3, <2>1 DEF Fail
<1>8. CASE Commit(c)
  BY <1>2, <1>8 DEF Commit
<1> QED
  BY <1>4, <1>5, <1>6, <1>7, <1>8 DEF Serve

\* What a request that does not move has found is still there.
LEMMA HomeStays ==
  ASSUME NEW d \in Readers, FoundHome(d), request'[d] = request[d],
         request[d].step = "write" => Grows(View(d), View(d)')
  PROVE  FoundHome(d)'
<1>1. Current(d)' = Current(d)
  BY DEF Current
<1> QED
  BY <1>1, InPoolStays DEF FoundHome

\* Every step of every run, of every request and of the gateway.
LEMMA HousedSteps ==
  ASSUME TypeInv, RunInv, AppliedInv, LinkedInv, HousedInv, OneArrayEach, [ApplyNext]_opVars
  PROVE  HousedInv'
<1>0. Readers \subseteq Clients /\ Null \notin Clients /\ DOMAIN request = Clients
  BY RequestsAssumption DEF TypeInv
<1>1. ASSUME NEW c \in Readers, Tool(c) \/ ApplySpec(c) \/ Read(c) PROVE HousedInv'
  <2>1. UNCHANGED <<db, writer, txn>> /\ \A d \in Readers \ {c} : request'[d] = request[d]
    BY <1>1, ToolAlone
  <2>2. TablesHoused'
    BY <2>1 DEF HousedInv, TablesHoused
  <2>3. ASSUME NEW d \in Readers, request'[d] = request[d] PROVE FoundHome(d)'
    <3>1. Grows(View(d), View(d)')
      BY <2>1, GrowsItself DEF View
    <3> QED
      BY <2>3, <3>1, HomeStays DEF HousedInv
  <2>4. request' = request \/ request'[c].step # "write"
    <3>1. ASSUME NEW calls, NEW keeps, Ask(c, calls, keeps) PROVE request'[c].step = "check"
      BY <1>0, <3>1 DEF Ask, Idle
    <3>2. ASSUME Read(c) PROVE request'[c].step = "idle"
      BY <1>0, <3>2 DEF Read, Idle
    <3> QED
      BY <1>1, <3>1, <3>2, ToolBuilds
  <2>5. FoundHome(c)'
    <3>1. CASE request' = request
      BY <2>3, <3>1
    <3>2. CASE request'[c].step # "write"
      BY <3>2 DEF FoundHome
    <3> QED
      BY <2>4, <3>1, <3>2
  <2> QED
    BY <2>1, <2>2, <2>3, <2>5 DEF HousedInv
<1>2. ASSUME NEW c \in Readers, Serve(c) PROVE HousedInv'
  <2>1. \A d \in Readers \ {c} : request'[d] = request[d]
    BY <1>0, <1>2, ServeAlone
  <2>2. /\ Grows(db, db')
        /\ writer \in {c, Null} \/ UNCHANGED <<writer, txn, db>>
        /\ writer' \in {writer, c, Null}
    BY <1>2, ServeGrows
  <2>3. ASSUME NEW d \in Readers, d # c PROVE FoundHome(d)'
    <3>1. CASE UNCHANGED <<writer, txn, db>>
      <4>1. Grows(View(d), View(d)')
        BY <3>1, GrowsItself DEF View
      <4> QED
        BY <2>1, <2>3, <4>1, HomeStays DEF HousedInv
    <3>2. CASE writer \in {c, Null}
      <4>1. View(d) = db /\ View(d)' = db'
        BY <1>0, <2>2, <2>3, <3>2 DEF View
      <4> QED
        BY <2>1, <2>2, <2>3, <4>1, HomeStays DEF HousedInv
    <3> QED
      BY <2>2, <3>1, <3>2
  <2>4. FoundHome(c)'
    BY <1>2, ServeFindsHome
  <2>5. TablesHoused'
    BY <1>2, ServeHoused
  <2> QED
    BY <2>3, <2>4, <2>5 DEF HousedInv
<1>3. CASE Crash
  <2>1. UNCHANGED db /\ writer' = Null
    BY <1>3 DEF Crash
  <2>2. \A d \in Readers : request'[d].step = "idle"
    BY <1>0, <1>3 DEF Crash, Replied, Idle
  <2>3. TablesHoused'
    BY <2>1 DEF HousedInv, TablesHoused
  <2> QED
    BY <2>2, <2>3 DEF HousedInv, FoundHome
<1>4. CASE Restart \/ UNCHANGED opVars
  <2>1. UNCHANGED <<db, writer, txn, request>>
    BY <1>4 DEF Restart, opVars, vars
  <2>2. TablesHoused'
    BY <2>1 DEF HousedInv, TablesHoused
  <2>3. ASSUME NEW d \in Readers PROVE FoundHome(d)'
    <3>1. Grows(View(d), View(d)')
      BY <2>1, GrowsItself DEF View
    <3> QED
      BY <2>1, <3>1, HomeStays DEF HousedInv
  <2> QED
    BY <2>2, <2>3 DEF HousedInv
<1> QED
  BY <1>1, <1>2, <1>3, <1>4 DEF ApplyNext

LEMMA HousedStarts ==
  ASSUME ApplyInit
  PROVE  HousedInv
<1>1. Rows(db.volumes) = {} /\ writer = Null
  BY DEF ApplyInit, Init, NoTables, Rows
<1>2. \A c \in Readers : request[c].step = "idle"
  BY RequestsAssumption DEF ApplyInit, Init, Idle
<1> QED
  BY <1>1, <1>2 DEF HousedInv, TablesHoused, Housed, FoundHome

\* Where those who apply a topology are alone the vendors' listings agree, whichever
\* runs raced: SVC counts volumes by their pools and 3PAR by their array, and a pool
\* that the tool created on the default array is attached to its own before the file
\* puts a volume in it (cli/topo/apply.py, personalities/).
THEOREM DeclaredListingsAgree ==
  ASSUME OneArrayEach
  PROVE  ApplySpecification => []ListingsAgree
<1>1. ApplyInit => TypeInv /\ BackedInv /\ RunInv /\ AppliedInv /\ LinkedInv /\ HousedInv
  BY RunStarts, AppliedStarts, LinkedStarts, HousedStarts
<1>2. TypeInv /\ BackedInv /\ RunInv /\ AppliedInv /\ LinkedInv /\ HousedInv /\ [ApplyNext]_opVars
        => (TypeInv /\ BackedInv /\ RunInv /\ AppliedInv /\ LinkedInv /\ HousedInv)'
  BY ApplySteps, AppliedSteps, LinkedSteps, HousedSteps
<1>3. TypeInv /\ LinkedInv /\ HousedInv => ListingsAgree
  <2> SUFFICES ASSUME TypeInv, LinkedInv, HousedInv PROVE ListingsAgree
    OBVIOUS
  <2>1. db \in TableSet /\ Linked(db) /\ Housed(db)
    BY DEF TypeInv, LinkedInv, TablesLinked, HousedInv, TablesHoused
  <2>2. \A v \in Rows(db.volumes) : db.pools[db.volumes[v].pool].array = db.volumes[v].array
    BY <2>1 DEF Housed, InPool, AtHome, PoolCalled, PoolsOf
  <2> QED
    BY <2>1, <2>2, LinkedListings DEF ListingsAgree
<1> QED
  BY <1>1, <1>2, <1>3, PTL DEF ApplySpecification

=============================================================================
