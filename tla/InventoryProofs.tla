--------------------------- MODULE InventoryProofs ---------------------------
(***************************************************************************)
(* What requests about the same names cannot break unless they meet: the   *)
(* rows the rows name, the ports of hosts, the pairs that are mapped once, *)
(* the vendors' listings (Commands), for any number of clients and rows.   *)
(***************************************************************************)
EXTENDS CommandsProofs

Names == Arrays \cup PoolNames \cup VolumeNames \cup Hosts

\* The newest tables: those of the session that writes, if one does.
Live == IF writer = Null THEN db ELSE txn

\* The names a call is about, and those of calls, by the rows of t.
Called(call, t) ==
  ({call.group, call.name, call.host}
    \cup {t.pools[p].name : p \in {call.pool} \cap Rows(t.pools)}
    \cup {t.volumes[v].name : v \in {call.volume} \cap Rows(t.volumes)}
    \cup IF call.name = Null /\ call.volume = Null THEN {call.array} ELSE {}) \ {Null}

AboutIn(calls, t) == UNION {Called(calls[i], t) : i \in DOMAIN calls}

-----------------------------------------------------------------------------
\* Tables u come from t by changes of what the names N are about.
SameArrays(t, u, N) ==
  \A a \in Arrays \ N :
    /\ a \in u.arrays <=> a \in t.arrays
    /\ u.iscsi[a] = t.iscsi[a]
    /\ a # Default => PoolsOf(u, a) \subseteq PoolsOf(t, a)
SameHosts(t, u, N) ==
  \A h \in Hosts \ N :
    /\ h \in u.hosts <=> h \in t.hosts
    /\ u.ports[h] = t.ports[h]
    /\ \A v \in Volumes : u.maps[<<h, v>>] = t.maps[<<h, v>>]
SamePools(t, u, N) ==
  \A p \in Rows(t.pools) :
    /\ p \in Rows(u.pools) => u.pools[p].name = t.pools[p].name
    /\ t.pools[p].name \notin N => u.pools[p] = t.pools[p]
SameVolumes(t, u, N) ==
  \A v \in Rows(t.volumes) :
    /\ v \in Rows(u.volumes) => /\ u.volumes[v].name = t.volumes[v].name
                                /\ u.volumes[v].pool = t.volumes[v].pool
                                /\ u.volumes[v].array = t.volumes[v].array
    /\ t.volumes[v].name \notin N => /\ u.volumes[v] = t.volumes[v]
                                     /\ \A h \in Hosts : u.maps[<<h, v>>] = t.maps[<<h, v>>]
NewVolumes(t, u, N) ==
  \A v \in Rows(u.volumes) \ Rows(t.volumes) :
    /\ u.volumes[v].name \in N
    /\ u.volumes[v].pool \in Rows(t.pools) => t.pools[u.volumes[v].pool].name \in N

Agree(t, u, N) ==
  /\ SameArrays(t, u, N) /\ SameHosts(t, u, N)
  /\ SamePools(t, u, N) /\ SameVolumes(t, u, N) /\ NewVolumes(t, u, N)

\* The rows of t have ids that were handed out: a new row has no mapping yet.
Fresh(t, ids) ==
  /\ \A p \in Rows(t.pools) : p <= ids.pools
  /\ \A v \in Rows(t.volumes) : v <= ids.volumes
  /\ \A h \in Hosts, v \in Volumes : t.maps[<<h, v>>] > 0 => v <= ids.volumes

\* Tables t keep the rules but for the names R.
ArraysSound(t, R) ==
  /\ Default \in t.arrays
  /\ \A a \in Arrays \ R : t.iscsi[a] <= 1
PoolsSound(t, R) ==
  /\ \A p \in Rows(t.pools) : t.pools[p].array \in t.arrays \cup R
  /\ \A a \in Arrays, g \in PoolNames : \A p, q \in PoolCalled(t, g, a) : p = q
VolumesSound(t, R) ==
  /\ R \cap PoolNames = {} =>
       \A v \in Rows(t.volumes) :
          /\ t.pools[t.volumes[v].pool] # Null
          /\ ~MovesVolumes => t.pools[t.volumes[v].pool].array = t.volumes[v].array
  /\ \A a \in Arrays, n \in VolumeNames \ R : \A v, w \in VolumeCalled(t, n, a) : v = w
MapsSound(t, R) ==
  /\ \A h \in Hosts, v \in Volumes : t.maps[<<h, v>>] > 0 => h \in t.hosts \cup R
  /\ \A h \in Hosts \ R, v \in Rows(t.volumes) :
       t.volumes[v].name \notin R => t.maps[<<h, v>>] <= 1
  /\ R \cap VolumeNames = {} =>
       \A h \in Hosts, v \in Volumes : t.maps[<<h, v>>] > 0 => t.volumes[v] # Null

Sound(t, R) == ArraysSound(t, R) /\ PoolsSound(t, R) /\ VolumesSound(t, R) /\ MapsSound(t, R)

\* Each rule reads its own tables.
LEMMA SoundTables ==
  ASSUME NEW t, NEW u, NEW R, u.arrays = t.arrays, u.iscsi = t.iscsi, u.pools = t.pools,
         u.volumes = t.volumes
  PROVE  /\ ArraysSound(t, R) => ArraysSound(u, R)
         /\ PoolsSound(t, R) => PoolsSound(u, R)
         /\ VolumesSound(t, R) => VolumesSound(u, R)
<1>1. ArraysSound(t, R) => ArraysSound(u, R)
  BY DEF ArraysSound
<1>2. PoolsSound(t, R) => PoolsSound(u, R)
  BY DEF PoolsSound, PoolCalled, PoolsOf
<1>3. VolumesSound(t, R) => VolumesSound(u, R)
  BY DEF VolumesSound, VolumeCalled, VolumesOf
<1> QED
  BY <1>1, <1>2, <1>3

-----------------------------------------------------------------------------
\* The ids a call was given are those of committed rows, until they go.
Asked(call, t, live, ids, R) ==
  /\ call.pool # Null =>
       /\ call.pool <= ids.pools
       /\ call.pool \in Rows(live.pools) => call.pool \in Rows(t.pools)
       /\ call.pool \in Rows(t.pools) \/ R \cap PoolNames # {}
  /\ call.volume # Null =>
       /\ call.volume <= ids.volumes
       /\ call.volume \in Rows(live.volumes) => call.volume \in Rows(t.volumes)

\* The rows a handler holds have the names of its call.
Placed(call, seen, t, ids) ==
  /\ seen.volume # Null =>
       /\ seen.volume <= ids.volumes
       /\ call.volume = Null /\ seen.volume \in Rows(t.volumes) => t.volumes[seen.volume].name = call.name
       /\ call.volume # Null => call.volume = seen.volume
  /\ seen.pool # Null =>
       /\ seen.pool <= ids.pools
       /\ call.pool = Null /\ seen.pool \in Rows(t.pools) => t.pools[seen.pool].name = call.group
       /\ call.pool # Null => call.pool = seen.pool

\* What a service found still is so, but for the names R, when it writes to t.
CheckedArray(call, t, R) ==
  /\ call.do = "delete_array" =>
       call.array # Default /\ (call.array \notin R => PoolsOf(t, call.array) = {})
  /\ call.do \in {"create_pool", "attach_pool"} => call.array \in t.arrays \cup R
  /\ call.do = "ensure_endpoint" /\ call.array \notin R => t.iscsi[call.array] = 0
CheckedHost(call, seen, t, R) ==
  /\ call.do = "add_host_port" /\ call.host \notin R => seen.ports = t.ports[call.host] \cup call.ports
  /\ call.do = "update_host" => seen.ports = call.ports
  /\ call.do = "delete_host" /\ call.host \notin R => MapsOfHost(t, call.host) = {}
CheckedPool(call, seen, t, R) ==
  R \cap PoolNames = {} =>
    /\ call.do \in {"delete_pool", "detach_pool"} => VolumesIn(t, call.pool) = {}
    /\ call.do = "attach_pool" /\ ~MovesVolumes => VolumesIn(t, call.pool) = {}
    /\ call.do = "create_volume" => t.pools[seen.pool] # Null /\ t.pools[seen.pool].array = seen.array
CheckedVolume(call, seen, t, R) ==
  /\ call.do = "create_volume" /\ call.name \notin R => VolumeCalled(t, call.name, seen.array) = {}
  /\ call.do = "delete_volume" /\ R \cap VolumeNames = {} =>
       MapsOfVolume(t, seen.volume) = {} /\ t.volumes[seen.volume] # Null
  /\ call.do = "create_mapping" =>
       /\ call.host \in t.hosts \cup R
       /\ call.host \notin R /\ call.name \notin R => t.maps[<<call.host, seen.volume>>] = 0

Checked(call, seen, t, R) ==
  /\ CheckedArray(call, t, R) /\ CheckedHost(call, seen, t, R)
  /\ CheckedPool(call, seen, t, R) /\ CheckedVolume(call, seen, t, R)

\* What the first call of a request has looked up, or its client, for the others.
Foreseen(calls, at, t, R) ==
  /\ calls[1].do = "find_none" /\ at \in 2..Len(calls) /\ calls[1].host \notin R /\ calls[1].name \notin R =>
       \A v \in VolumeCalled(t, calls[1].name, calls[1].array) : t.maps[<<calls[1].host, v>>] = 0
  /\ ~MovesVolumes /\ R \cap PoolNames = {} /\ at = 1 /\ calls[1].do = "attach_pool" =>
       VolumesIn(t, calls[1].pool) = {}

\* How the routes' and the commands' calls follow one another.
OnArrays == {"create_array", "delete_array", "ensure_endpoint",
             "create_pool", "delete_pool", "attach_pool", "detach_pool"}
CallShape(calls, i) ==
  /\ calls[i].do # "create_endpoint" /\ ~calls[i].once
  /\ calls[i].do \notin {"add_host_port", "ensure_endpoint", "create_mapping"} => i = 1
  /\ calls[i].do \in OnArrays => calls[i].name = Null /\ calls[i].volume = Null
  /\ calls[i].do = "find_none" => calls[i].volume = Null /\ calls[i].name # Null
  /\ calls[i].do = "create_mapping" =>
       /\ i > 1 /\ i = Len(calls) /\ calls[1].do = "find_none" /\ calls[i].volume = Null
       /\ calls[i].name = calls[1].name /\ calls[i].host = calls[1].host
       /\ calls[i].array = calls[1].array
Shape(calls, keeps) ==
  /\ \A i \in DOMAIN calls : CallShape(calls, i)
  /\ keeps => Len(calls) = 1 /\ calls[1].do = "create_volume"

\* The ports that committed requests and the first n calls ask for.
PortCalls == {"create_host", "delete_host", "update_host", "add_host_port"}
AsksPorts(calls, n, h) ==
  {call \in {calls[i] : i \in 1..n} : call.host = h /\ call.do \in PortCalls}
WantedUpTo(calls, n, asked) ==
  [h \in Hosts |->
     (IF \E call \in AsksPorts(calls, n, h) : call.do # "add_host_port" THEN {} ELSE asked[h])
       \cup UNION {call.ports : call \in AsksPorts(calls, n, h)}]
AsWanted(t, asked, R) == \A h \in t.hosts \ R : t.ports[h] = asked[h]

\* A request q that sees tables v, when t are committed and live the newest.
Fits(q, t, live, v, ids, R, asked) ==
  LET k == q.calls[q.at]
  IN
  /\ Shape(q.calls, q.keeps)
  /\ \A i \in DOMAIN q.calls : Asked(q.calls[i], t, live, ids, R)
  /\ q.step \in {"write", "provision"} => Placed(k, q.seen, t, ids) /\ Placed(k, q.seen, live, ids)
  /\ q.step = "provision" /\ k.do = "create_volume" => v.volumes[ids.volumes].name = k.name
  /\ q.step = "write" => Checked(k, q.seen, v, R)
  /\ q.step # "idle" =>
       /\ q.calls # <<>> /\ Foreseen(q.calls, q.at, v, R)
       /\ AsWanted(v, WantedUpTo(q.calls, q.at - 1, asked), R)

RequestFits(c) ==
  /\ Fits(request[c], db, Live, View(c), issued, raced, wanted)
  /\ request[c].step \in {"check", "write"} /\ request[c].at = 1 => writer # c

Touched == IF writer = Null THEN {} ELSE AboutIn(request[writer].calls, db)

InventoryInv ==
  /\ Agree(db, Live, Touched)
  /\ Fresh(db, issued) /\ Fresh(Live, issued) /\ Sound(db, raced) /\ Sound(Live, raced)
  /\ AsWanted(db, wanted, raced)
  /\ \A c \in Clients : RequestFits(c)
  /\ \A c, d \in Clients :
       c # d => AboutIn(request[c].calls, db) \cap AboutIn(request[d].calls, db) \subseteq raced

\* From table t to table w, only one array changes.
OnlyArray(t, w, i) ==
  /\ w.pools = t.pools /\ w.hosts = t.hosts /\ w.ports = t.ports
  /\ w.maps = t.maps /\ w.volumes = t.volumes
  /\ \A a \in Arrays \ {i} : (a \in w.arrays <=> a \in t.arrays) /\ w.iscsi[a] = t.iscsi[a]

LEMMA ArrayWritten ==
  ASSUME NEW t \in TableSet, NEW i \in Arrays
  PROVE  OnlyArray(t, ArrayAdded(t, i), i) /\ OnlyArray(t, ArrayDeleted(t, i), i) /\ OnlyArray(t, EndpointAdded(t, i), i)
<1>1. OnlyArray(t, ArrayAdded(t, i), i)
  BY DEF OnlyArray, ArrayAdded, TableSet
<1>2. OnlyArray(t, ArrayDeleted(t, i), i)
  BY DEF OnlyArray, ArrayDeleted, TableSet
<1>3. OnlyArray(t, EndpointAdded(t, i), i)
  BY DEF OnlyArray, EndpointAdded, TableSet
<1> QED
  BY <1>1, <1>2, <1>3

\* From table t to table w, only the count of one pair changes.
OnlyPair(t, w, i, v) ==
  /\ w.arrays = t.arrays /\ w.iscsi = t.iscsi /\ w.hosts = t.hosts /\ w.ports = t.ports
  /\ w.volumes = t.volumes /\ w.pools = t.pools
  /\ \A h \in Hosts, x \in Volumes : h # i \/ x # v => w.maps[<<h, x>>] = t.maps[<<h, x>>]

LEMMA PairWritten ==
  ASSUME NEW t \in TableSet, NEW i \in Hosts, NEW v \in Volumes
  PROVE  /\ OnlyPair(t, MappingAdded(t, i, v), i, v)
         /\ OnlyPair(t, MappingDeleted(t, i, v), i, v)
         /\ MappingAdded(t, i, v).maps[<<i, v>>] = t.maps[<<i, v>>] + 1
         /\ MappingDeleted(t, i, v).maps[<<i, v>>] = t.maps[<<i, v>>] - 1
<1>1. ASSUME NEW n
      PROVE  LET w == [t EXCEPT !.maps[<<i, v>>] = n]
             IN  OnlyPair(t, w, i, v) /\ w.maps[<<i, v>>] = n
  <2> DEFINE maps == [t.maps EXCEPT ![<<i, v>>] = n]
             w == [t EXCEPT !.maps = maps]
  <2>1. /\ maps[<<i, v>>] = n
        /\ \A h \in Hosts, x \in Volumes : h # i \/ x # v => maps[<<h, x>>] = t.maps[<<h, x>>]
    BY DEF TableSet
  <2> HIDE DEF maps
  <2>2. /\ w.arrays = t.arrays /\ w.iscsi = t.iscsi /\ w.hosts = t.hosts /\ w.ports = t.ports
        /\ w.volumes = t.volumes /\ w.pools = t.pools /\ w.maps = maps
    BY DEF TableSet
  <2> HIDE DEF w
  <2>3. OnlyPair(t, w, i, v) /\ w.maps[<<i, v>>] = n
    BY <2>1, <2>2 DEF OnlyPair
  <2> QED
    BY <2>3 DEF w, maps
<1>2. OnlyPair(t, MappingAdded(t, i, v), i, v) /\ MappingAdded(t, i, v).maps[<<i, v>>] = t.maps[<<i, v>>] + 1
  BY <1>1 DEF MappingAdded
<1>3. OnlyPair(t, MappingDeleted(t, i, v), i, v) /\ MappingDeleted(t, i, v).maps[<<i, v>>] = t.maps[<<i, v>>] - 1
  BY <1>1 DEF MappingDeleted
<1> QED
  BY <1>2, <1>3

\* From table t to table w, only one host changes.
OnlyHost(t, w, i) ==
  /\ w.arrays = t.arrays /\ w.iscsi = t.iscsi /\ w.pools = t.pools
  /\ w.maps = t.maps /\ w.volumes = t.volumes
  /\ \A h \in Hosts \ {i} : (h \in w.hosts <=> h \in t.hosts) /\ w.ports[h] = t.ports[h]

LEMMA HostWritten ==
  ASSUME NEW t \in TableSet, NEW i \in Hosts, NEW xs
  PROVE  /\ OnlyHost(t, HostAdded(t, i, xs), i)
         /\ OnlyHost(t, HostPortsWritten(t, i, xs), i)
         /\ OnlyHost(t, HostDeleted(t, i), i)
<1>1. OnlyHost(t, HostAdded(t, i, xs), i)
  BY DEF OnlyHost, HostAdded, TableSet
<1>2. OnlyHost(t, HostPortsWritten(t, i, xs), i)
  BY DEF OnlyHost, HostPortsWritten, TableSet
<1>3. OnlyHost(t, HostDeleted(t, i), i)
  BY DEF OnlyHost, HostDeleted, TableSet
<1> QED
  BY <1>1, <1>2, <1>3

-----------------------------------------------------------------------------
\* What the services on arrays, hosts and pools write.
LEMMA WrittenOnArray ==
  ASSUME NEW call, NEW seen, NEW t
  PROVE  /\ call.do = "create_array" => Written(call, seen, t) = ArrayAdded(t, call.array)
         /\ call.do = "delete_array" => Written(call, seen, t) = ArrayDeleted(t, call.array)
         /\ call.do = "ensure_endpoint" => Written(call, seen, t) = EndpointAdded(t, call.array)
BY DEF Written

LEMMA ArrayFields ==
  ASSUME NEW t \in TableSet, NEW i \in Arrays
  PROVE  /\ ArrayAdded(t, i).arrays = t.arrays \cup {i} /\ ArrayAdded(t, i).iscsi = t.iscsi
         /\ ArrayDeleted(t, i).arrays = t.arrays \ {i} /\ ArrayDeleted(t, i).iscsi = t.iscsi
         /\ EndpointAdded(t, i).arrays = t.arrays
         /\ EndpointAdded(t, i).iscsi[i] = t.iscsi[i] + 1
<1>1. ArrayAdded(t, i).arrays = t.arrays \cup {i} /\ ArrayAdded(t, i).iscsi = t.iscsi
  BY DEF ArrayAdded, TableSet
<1>2. ArrayDeleted(t, i).arrays = t.arrays \ {i} /\ ArrayDeleted(t, i).iscsi = t.iscsi
  BY DEF ArrayDeleted, TableSet
<1>3. /\ EndpointAdded(t, i).arrays = t.arrays
      /\ EndpointAdded(t, i).iscsi[i] = t.iscsi[i] + 1
  BY DEF EndpointAdded, TableSet
<1> QED
  BY <1>1, <1>2, <1>3

LEMMA WrittenOnHost ==
  ASSUME NEW call, NEW seen, NEW t
  PROVE  /\ call.do = "create_host" => Written(call, seen, t) = HostAdded(t, call.host, call.ports)
         /\ call.do \in {"add_host_port", "update_host"} =>
              Written(call, seen, t) = HostPortsWritten(t, call.host, seen.ports)
         /\ call.do = "delete_host" => Written(call, seen, t) = HostDeleted(t, call.host)
BY DEF Written

LEMMA HostFields ==
  ASSUME NEW t \in TableSet, NEW h \in Hosts, NEW ports
  PROVE  /\ HostAdded(t, h, ports).hosts = t.hosts \cup {h} /\ HostAdded(t, h, ports).ports[h] = ports
         /\ HostPortsWritten(t, h, ports).hosts = t.hosts
         /\ HostPortsWritten(t, h, ports).ports[h] = ports
<1>1. HostAdded(t, h, ports).hosts = t.hosts \cup {h} /\ HostAdded(t, h, ports).ports[h] = ports
  BY DEF HostAdded, TableSet
<1>2. /\ HostPortsWritten(t, h, ports).hosts = t.hosts
      /\ HostPortsWritten(t, h, ports).ports[h] = ports
  BY DEF HostPortsWritten, TableSet
<1> QED
  BY <1>1, <1>2

LEMMA HostGone ==
  ASSUME NEW t \in TableSet, NEW h \in Hosts
  PROVE  HostDeleted(t, h).hosts = t.hosts \ {h}
BY DEF HostDeleted, TableSet

LEMMA VolumeGone ==
  ASSUME NEW call, NEW seen, NEW t \in TableSet, call.do = "delete_volume"
  PROVE  LET w == Written(call, seen, t)
         IN  /\ w.arrays = t.arrays /\ w.iscsi = t.iscsi /\ w.hosts = t.hosts /\ w.ports = t.ports
             /\ w.maps = t.maps /\ w.pools = t.pools
             /\ w.volumes = [t.volumes EXCEPT ![seen.volume] = Null]
<1> DEFINE w == Written(call, seen, t)
<1>1. w = VolumeDeleted(t, seen.volume)
  BY DEF Written
<1> HIDE DEF w
<1>2. /\ w.arrays = t.arrays /\ w.iscsi = t.iscsi /\ w.hosts = t.hosts /\ w.ports = t.ports
      /\ w.maps = t.maps /\ w.pools = t.pools
      /\ w.volumes = [t.volumes EXCEPT ![seen.volume] = Null]
  BY <1>1 DEF VolumeDeleted, TableSet
<1> QED
  BY <1>2 DEF w

LEMMA WrittenOnPool ==
  ASSUME NEW call, NEW seen, NEW t, call.do \in {"delete_pool", "attach_pool", "detach_pool"}
  PROVE  \/ Written(call, seen, t) = PoolDeleted(t, call.pool)
         \/ \E a : Written(call, seen, t) = PoolMoved(t, call.pool, a)
BY DEF Written

LEMMA PoolFields ==
  ASSUME NEW t \in TableSet, NEW p, NEW a
  PROVE  /\ DOMAIN PoolDeleted(t, p).pools = DOMAIN t.pools
         /\ \A q \in Pools \ {p} : PoolDeleted(t, p).pools[q] = t.pools[q]
         /\ DOMAIN PoolMoved(t, p, a).pools = DOMAIN t.pools
         /\ \A q \in Pools \ {p} : PoolMoved(t, p, a).pools[q] = t.pools[q]
<1>1. /\ DOMAIN PoolDeleted(t, p).pools = DOMAIN t.pools
      /\ \A q \in Pools \ {p} : PoolDeleted(t, p).pools[q] = t.pools[q]
  BY DEF PoolDeleted, TableSet
<1>2. /\ DOMAIN PoolMoved(t, p, a).pools = DOMAIN t.pools
      /\ \A q \in Pools \ {p} : PoolMoved(t, p, a).pools[q] = t.pools[q]
  BY DEF PoolMoved, TableSet
<1> QED
  BY <1>1, <1>2

-----------------------------------------------------------------------------
\* The names of the pool and of the volume that a call is given are its names.
LEMMA CalledPool ==
  ASSUME NEW call, NEW t, call.pool \in Rows(t.pools), t.pools[call.pool].name # Null
  PROVE  t.pools[call.pool].name \in Called(call, t)
BY DEF Called

LEMMA CalledName ==
  ASSUME NEW call, NEW t, call.name # Null
  PROVE  call.name \in Called(call, t)
BY DEF Called

\* What the shape of a request says of one of its calls.
LEMMA ShapeAt ==
  ASSUME NEW calls, NEW keeps, Shape(calls, keeps), NEW i \in DOMAIN calls
  PROVE  CallShape(calls, i) /\ ~calls[i].once
<1>1. CallShape(calls, i)
  BY DEF Shape
<1> QED
  BY <1>1 DEF CallShape

LEMMA ShapeWrites ==
  ASSUME NEW calls, NEW i, CallShape(calls, i)
  PROVE  /\ calls[i].do # "create_endpoint"
         /\ calls[i].do \in OnArrays => calls[i].name = Null /\ calls[i].volume = Null
         /\ calls[i].do = "create_mapping" => calls[i].volume = Null
BY DEF CallShape

LEMMA MappingForeseen ==
  ASSUME NEW calls \in Seq(GoodCall), NEW at \in 1..Len(calls), CallShape(calls, at), NEW t, NEW R,
         Foreseen(calls, at, t, R), calls[at].do = "create_mapping"
  PROVE  /\ calls[at].volume = Null
         /\ calls[at].host \notin R /\ calls[at].name \notin R =>
              \A v \in VolumeCalled(t, calls[at].name, calls[at].array) :
                t.maps[<<calls[at].host, v>>] = 0
<1>1. /\ at > 1 /\ calls[1].do = "find_none" /\ calls[at].volume = Null
      /\ calls[at].name = calls[1].name /\ calls[at].host = calls[1].host
      /\ calls[at].array = calls[1].array
  BY DEF CallShape
<1>2. at \in 2..Len(calls)
  BY <1>1
<1> QED
  BY <1>1, <1>2 DEF Foreseen

LEMMA AttachForeseen ==
  ASSUME NEW calls, NEW at, CallShape(calls, at), NEW t, NEW R, Foreseen(calls, at, t, R),
         calls[at].do = "attach_pool", ~MovesVolumes, R \cap PoolNames = {}
  PROVE  VolumesIn(t, calls[at].pool) = {}
<1>1. at = 1
  BY DEF CallShape
<1> QED
  BY <1>1 DEF Foreseen

\* What fits of a request that is being served.
LEMMA FitsActive ==
  ASSUME NEW q, NEW t, NEW live, NEW v, NEW ids, NEW R, NEW asked,
         Fits(q, t, live, v, ids, R, asked), q.step # "idle"
  PROVE  /\ q.calls # <<>> /\ Foreseen(q.calls, q.at, v, R)
         /\ AsWanted(v, WantedUpTo(q.calls, q.at - 1, asked), R)
         /\ q.step = "write" => /\ Placed(q.calls[q.at], q.seen, t, ids)
                                /\ Placed(q.calls[q.at], q.seen, live, ids)
                                /\ Checked(q.calls[q.at], q.seen, v, R)
         /\ q.step = "provision" /\ q.calls[q.at].do = "create_volume" =>
              v.volumes[ids.volumes].name = q.calls[q.at].name
BY DEF Fits

\* A search that is not refused has found a volume without the mapping.
LEMMA NoneFound ==
  ASSUME NEW call, NEW t, call.do = "find_none", ~Refused(call, t)
  PROVE  \E x \in VolumesFor(call, t) : ~(t.maps[<<call.host, x>>] > 0)
BY DEF Refused

-----------------------------------------------------------------------------
LEMMA AgreesWithItself ==
  ASSUME NEW t, NEW N
  PROVE  Agree(t, t, N)
BY DEF Agree, SameArrays, SameHosts, SamePools, SameVolumes, NewVolumes

\* Where only part of the tables changes.
LEMMA SameWhenKept ==
  ASSUME NEW t, NEW u, NEW w, NEW N, Agree(t, u, N)
  PROVE  /\ w.arrays = u.arrays /\ w.iscsi = u.iscsi /\ w.pools = u.pools => SameArrays(t, w, N)
         /\ w.hosts = u.hosts /\ w.ports = u.ports /\ w.maps = u.maps => SameHosts(t, w, N)
         /\ w.pools = u.pools => SamePools(t, w, N)
         /\ w.volumes = u.volumes /\ w.maps = u.maps => SameVolumes(t, w, N)
         /\ w.volumes = u.volumes => NewVolumes(t, w, N)
BY DEF Agree, SameArrays, SameHosts, SamePools, SameVolumes, NewVolumes, PoolsOf

\* A statement changes what its call is about.
LEMMA WrittenAgrees ==
  ASSUME TypeInv, NEW t \in TableSet, NEW u \in TableSet, NEW N, Agree(t, u, N),
         NEW call \in GoodCall, NEW seen, Found(call, seen), ~Conflict(call, seen, u),
         Called(call, t) \subseteq N, Fresh(t, issued), NEW R,
         Asked(call, t, u, issued, R), Placed(call, seen, t, issued),
         call.do \in OnArrays => call.name = Null /\ call.volume = Null,
         call.do \notin {"create_endpoint", "find_none"},
         call.do = "create_pool" => issued.pools < MaxPools,
         call.do = "create_volume" => issued.volumes < MaxVolumes
  PROVE  Agree(t, Written(call, seen, u), N)
<1> DEFINE w == Written(call, seen, u)
<1>1. CASE call.do \in {"create_array", "delete_array", "ensure_endpoint"}
  <2>1. call.array \in N /\ call.array \in Arrays
    BY <1>1, Nulls DEF Called, OnArrays, GoodCall, ArrayCalls
  <2>2. /\ w.pools = u.pools /\ w.hosts = u.hosts /\ w.ports = u.ports
        /\ w.maps = u.maps /\ w.volumes = u.volumes
        /\ \A a \in Arrays \ {call.array} : (a \in w.arrays <=> a \in u.arrays) /\ w.iscsi[a] = u.iscsi[a]
    <3>1. OnlyArray(u, w, call.array)
      BY <1>1, <2>1, ArrayWritten DEF Written
    <3> QED
      BY <3>1 DEF OnlyArray
  <2> HIDE DEF w
  <2>3. SameArrays(t, w, N)
    BY <2>1, <2>2 DEF Agree, SameArrays, PoolsOf
  <2> QED
    BY <2>2, <2>3, SameWhenKept DEF Agree, w
<1>2. CASE call.do = "create_pool"
  <2>1. call.array \in N /\ call.array \in Arrays
    BY <1>2, Nulls DEF Called, OnArrays, GoodCall
  <2> DEFINE new == issued.pools + 1
             row == [name |-> call.group, array |-> call.array]
  <2>2. /\ w.arrays = u.arrays /\ w.iscsi = u.iscsi /\ w.hosts = u.hosts /\ w.ports = u.ports
        /\ w.maps = u.maps /\ w.volumes = u.volumes
        /\ w.pools = [u.pools EXCEPT ![new] = row]
    BY <1>2 DEF Written, PoolAdded, TableSet
  <2>3. new \notin Rows(t.pools) /\ new \in Pools
    BY <1>2, TablesAssumption DEF Fresh, TypeInv, Pools
  <2> HIDE DEF w, new
  <2>4. \A a \in Arrays : a # call.array => PoolsOf(w, a) \subseteq PoolsOf(u, a)
    BY <2>2, <2>3 DEF PoolsOf, Rows, TableSet
  <2>5. SameArrays(t, w, N)
    BY <2>1, <2>2, <2>4 DEF Agree, SameArrays
  <2>6. SamePools(t, w, N)
    BY <2>2, <2>3 DEF Agree, SamePools, Rows, TableSet
  <2> QED
    BY <2>2, <2>5, <2>6, SameWhenKept DEF Agree, w
<1>3. CASE call.do = "delete_pool"
  <2>1. call.pool \in Rows(t.pools) => t.pools[call.pool].name \in N
    BY Nulls DEF Called, TableSet, Rows, PoolRow
  <2>2. /\ w.arrays = u.arrays /\ w.iscsi = u.iscsi /\ w.hosts = u.hosts /\ w.ports = u.ports
        /\ w.maps = u.maps /\ w.volumes = u.volumes
        /\ w.pools = [u.pools EXCEPT ![call.pool] = Null]
    BY <1>3 DEF Written, PoolDeleted, TableSet
  <2> HIDE DEF w
  <2>3. SameArrays(t, w, N)
    BY <2>2 DEF Agree, SameArrays, PoolsOf, Rows, TableSet
  <2>4. SamePools(t, w, N)
    BY <2>1, <2>2 DEF Agree, SamePools, Rows, TableSet
  <2> QED
    BY <2>2, <2>3, <2>4, SameWhenKept DEF Agree, w
<1>4. CASE call.do \in {"attach_pool", "detach_pool"}
  <2>1. call.pool \in Rows(t.pools) => t.pools[call.pool].name \in N
    BY Nulls DEF Called, TableSet, Rows, PoolRow
  <2> DEFINE to == IF call.do = "attach_pool" THEN call.array ELSE Default
             p == call.pool
  <2>2. p \in Pools /\ to \in N \cup {Default} /\ u.pools[p] \in PoolRow
    BY <1>4, Nulls DEF Called, OnArrays, GoodCall, PoolCalls, Conflict, TableSet
  <2>3. w = PoolMoved(u, p, to)
    BY <1>4 DEF Written
  <2>4. /\ w.arrays = u.arrays /\ w.iscsi = u.iscsi /\ w.hosts = u.hosts /\ w.ports = u.ports
        /\ w.maps = u.maps /\ w.volumes = u.volumes
    BY <2>3 DEF PoolMoved, TableSet
  <2>5. w.pools = [u.pools EXCEPT ![p] = [u.pools[p] EXCEPT !.array = to]]
    BY <2>3 DEF PoolMoved, TableSet
  <2>6. \A q \in Pools \ {p} : w.pools[q] = u.pools[q]
    BY <2>5 DEF TableSet
  <2>7. w.pools[p].name = u.pools[p].name /\ w.pools[p].array = to /\ DOMAIN w.pools = DOMAIN u.pools
    BY <2>2, <2>5 DEF TableSet, PoolRow
  <2>8. u.pools[p] # Null
    BY <2>2, Nulls
  <2> HIDE DEF w, to, p
  <2>9. \A a \in Arrays : a # to => PoolsOf(w, a) \subseteq PoolsOf(u, a)
    BY <2>2, <2>6, <2>7, <2>8 DEF PoolsOf, Rows, TableSet
  <2>10. SameArrays(t, w, N)
    BY <2>2, <2>4, <2>9 DEF Agree, SameArrays
  <2>11. Rows(t.pools) \subseteq Pools /\ Rows(w.pools) \ {p} = Rows(u.pools) \ {p}
    BY <2>6, <2>7 DEF Rows, TableSet
  <2>12. SamePools(t, w, N)
    BY <2>1, <2>2, <2>6, <2>7, <2>8, <2>11 DEF Agree, SamePools, p, Rows, TableSet
  <2> QED
    BY <2>4, <2>10, <2>12, SameWhenKept DEF Agree, w
<1>5. CASE call.do \in PortCalls
  <2>1. call.host \in N /\ call.host \in Hosts
    BY <1>5, Nulls DEF Called, PortCalls, GoodCall, HostCalls
  <2>2. /\ w.arrays = u.arrays /\ w.iscsi = u.iscsi /\ w.pools = u.pools
        /\ w.maps = u.maps /\ w.volumes = u.volumes
        /\ \A h \in Hosts \ {call.host} : (h \in w.hosts <=> h \in u.hosts) /\ w.ports[h] = u.ports[h]
    <3>1. OnlyHost(u, w, call.host)
      BY <1>5, <2>1, HostWritten DEF Written, PortCalls
    <3> QED
      BY <3>1 DEF OnlyHost
  <2> HIDE DEF w
  <2>3. SameHosts(t, w, N)
    BY <2>1, <2>2 DEF Agree, SameHosts
  <2> QED
    BY <2>2, <2>3, SameWhenKept DEF Agree, w
<1>6. CASE call.do = "create_volume"
  <2> DEFINE new == issued.volumes + 1
             row == [name |-> call.name, pool |-> seen.pool, array |-> seen.array, status |-> "creating"]
  <2>1. call.name \in N
    BY <1>6, Nulls DEF Called, GoodCall
  <2>2. seen.pool \in Rows(t.pools) => t.pools[seen.pool].name \in N
    BY <1>6, Nulls DEF Called, Placed, Found, TableSet, Rows, PoolRow
  <2>3. /\ w.arrays = u.arrays /\ w.iscsi = u.iscsi /\ w.hosts = u.hosts /\ w.ports = u.ports
        /\ w.maps = u.maps /\ w.pools = u.pools
        /\ w.volumes = [u.volumes EXCEPT ![new] = row]
    BY <1>6 DEF Written, VolumeAdded, TableSet
  <2>4. new \notin Rows(t.volumes) /\ new \in Volumes
    BY <1>6, TablesAssumption DEF Fresh, TypeInv, Volumes
  <2> HIDE DEF w, new
  <2>5. SameVolumes(t, w, N)
    BY <2>3, <2>4 DEF Agree, SameVolumes, Rows, TableSet
  <2>6. NewVolumes(t, w, N)
    BY <2>1, <2>2, <2>3, <2>4 DEF Agree, NewVolumes, Rows, TableSet
  <2> QED
    BY <2>3, <2>5, <2>6, SameWhenKept DEF Agree, w
<1>7. CASE call.do \in {"delete_volume", "create_mapping", "delete_mapping"}
  <2> DEFINE v == seen.volume
  <2>1. v \in Volumes /\ v # Null
    BY <1>7, Nulls DEF Found
  <2>2. v \in Rows(t.volumes) => t.volumes[v].name \in N
    <3>1. CASE call.volume = Null
      BY <2>1, <3>1, Nulls DEF Placed, Called, TableSet, Rows, VolumeRow
    <3>2. CASE call.volume # Null
      BY <2>1, <3>2, Nulls DEF Placed, Called, TableSet, Rows, VolumeRow
    <3> QED
      BY <3>1, <3>2
  <2>3. CASE call.do = "delete_volume"
    <3>1. /\ w.arrays = u.arrays /\ w.iscsi = u.iscsi /\ w.hosts = u.hosts /\ w.ports = u.ports
          /\ w.maps = u.maps /\ w.pools = u.pools
          /\ w.volumes = [u.volumes EXCEPT ![v] = Null]
      BY <2>3, VolumeGone
    <3> HIDE DEF w, v
    <3>2. SameVolumes(t, w, N)
      BY <2>1, <2>2, <3>1 DEF Agree, SameVolumes, Rows, TableSet
    <3>3. NewVolumes(t, w, N)
      BY <2>1, <3>1 DEF Agree, NewVolumes, Rows, TableSet
    <3> QED
      BY <3>1, <3>2, <3>3, SameWhenKept DEF Agree, w
  <2>4. CASE call.do \in {"create_mapping", "delete_mapping"}
    <3>1. call.host \in N /\ call.host \in Hosts
      BY <2>4, Nulls DEF Called, GoodCall, PairCalls
    <3>2. /\ w.arrays = u.arrays /\ w.iscsi = u.iscsi /\ w.hosts = u.hosts /\ w.ports = u.ports
          /\ w.volumes = u.volumes /\ w.pools = u.pools
          /\ \A h \in Hosts, x \in Volumes : h # call.host \/ x # v => w.maps[<<h, x>>] = u.maps[<<h, x>>]
      <4>1. OnlyPair(u, w, call.host, v)
        BY <2>1, <2>4, <3>1, PairWritten DEF Written
      <4> QED
        BY <4>1 DEF OnlyPair
    <3> HIDE DEF w, v
    <3>3. SameHosts(t, w, N)
      BY <3>1, <3>2 DEF Agree, SameHosts
    <3>4. SameVolumes(t, w, N)
      BY <2>1, <2>2, <3>2 DEF Agree, SameVolumes, Rows, TableSet
    <3> QED
      BY <3>2, <3>3, <3>4, SameWhenKept DEF Agree, w
  <2> QED
    BY <1>7, <2>3, <2>4
<1> QED
  BY <1>1, <1>2, <1>3, <1>4, <1>5, <1>6, <1>7
     DEF GoodCall, ArrayCalls, PoolCalls, HostCalls, VolumeCalls, PairCalls, PortCalls

\* A statement whose service has checked the tables keeps the rules.
LEMMA WrittenFresh ==
  ASSUME TypeInv, NEW u \in TableSet, Fresh(u, issued),
         NEW call \in GoodCall, NEW seen, Found(call, seen), Placed(call, seen, u, issued),
         ~Conflict(call, seen, u), call.do # "find_none",
         NEW ids \in [pools : Nat, volumes : Nat],
         ids.pools = issued.pools + (IF call.do = "create_pool" THEN 1 ELSE 0),
         ids.volumes = issued.volumes + (IF call.do = "create_volume" THEN 1 ELSE 0)
  PROVE  Fresh(Written(call, seen, u), ids)
<1> DEFINE w == Written(call, seen, u)
<1>1. /\ issued.pools \in Nat /\ issued.volumes \in Nat
      /\ ids.pools \in Nat /\ ids.volumes \in Nat
      /\ issued.pools <= ids.pools /\ issued.volumes <= ids.volumes
  BY DEF TypeInv
<1>2. Rows(u.pools) \subseteq Nat /\ Rows(u.volumes) \subseteq Nat
  <2>1. Pools \subseteq Nat /\ Volumes \subseteq Nat
    BY TablesAssumption DEF Pools, Volumes
  <2> QED
    BY <2>1 DEF Rows, TableSet
<1>3. Fresh(u, ids)
  BY <1>1, <1>2 DEF Fresh, Volumes
<1>4. CASE call.do \in ArrayCalls \cup PortCalls
  <2>1. w.pools = u.pools /\ w.maps = u.maps /\ w.volumes = u.volumes
    BY <1>4 DEF Written, ArrayAdded, ArrayDeleted, EndpointAdded, HostAdded, HostPortsWritten, HostDeleted,
                TableSet, ArrayCalls, PortCalls
  <2> QED
    BY <1>3, <2>1 DEF Fresh
<1>5. CASE call.do \in PoolCalls
  <2>1. w.maps = u.maps /\ w.volumes = u.volumes
    BY <1>5 DEF Written, PoolAdded, PoolDeleted, PoolMoved, TableSet, PoolCalls
  <2>2. CASE call.do = "create_pool"
    <3> DEFINE row == [name |-> call.group, array |-> call.array]
    <3>1. w.pools = [u.pools EXCEPT ![issued.pools + 1] = row]
      BY <2>2 DEF Written, PoolAdded, TableSet
    <3>2. Rows(w.pools) \subseteq Rows(u.pools) \cup {issued.pools + 1}
      BY <3>1 DEF Rows, TableSet
    <3> QED
      BY <1>1, <1>3, <2>1, <2>2, <3>2 DEF Fresh
  <2>3. CASE call.do # "create_pool"
    <3>1. call.pool \in Pools
      BY <1>5, <2>3 DEF GoodCall
    <3>2. DOMAIN w.pools = DOMAIN u.pools /\ \A q \in Pools \ {call.pool} : w.pools[q] = u.pools[q]
      <4>1. call.do \in {"delete_pool", "attach_pool", "detach_pool"}
        BY <1>5, <2>3 DEF PoolCalls
      <4>2. w = PoolDeleted(u, call.pool) \/ \E a : w = PoolMoved(u, call.pool, a)
        BY <4>1, WrittenOnPool
      <4> QED
        BY <4>2, PoolFields
    <3>3. u.pools[call.pool] # Null
      BY <1>5, <2>3, <3>1 DEF Conflict, PoolCalls
    <3>4. Rows(w.pools) \subseteq Rows(u.pools)
      BY <3>1, <3>2, <3>3 DEF Rows, TableSet
    <3> QED
      BY <1>3, <2>1, <3>4 DEF Fresh
  <2> QED
    BY <2>2, <2>3
<1>6. CASE call.do = "create_volume"
  <2> DEFINE row == [name |-> call.name, pool |-> seen.pool, array |-> seen.array, status |-> "creating"]
  <2>1. /\ w.pools = u.pools /\ w.maps = u.maps
        /\ w.volumes = [u.volumes EXCEPT ![issued.volumes + 1] = row]
    BY <1>6 DEF Written, VolumeAdded, TableSet
  <2>2. Rows(w.volumes) \subseteq Rows(u.volumes) \cup {issued.volumes + 1}
    BY <2>1 DEF Rows, TableSet
  <2> QED
    BY <1>1, <1>3, <1>6, <2>1, <2>2 DEF Fresh
<1>7. CASE call.do = "delete_volume"
  <2>1. w.pools = u.pools /\ w.maps = u.maps /\ w.volumes = [u.volumes EXCEPT ![seen.volume] = Null]
    BY <1>7, VolumeGone
  <2>2. Rows(w.volumes) \subseteq Rows(u.volumes)
    BY <2>1 DEF Rows, TableSet
  <2> QED
    BY <1>3, <2>1, <2>2 DEF Fresh
<1>8. CASE call.do \in {"create_mapping", "delete_mapping"}
  <2> DEFINE v == seen.volume
  <2>1. v \in Volumes /\ v # Null /\ v <= issued.volumes /\ call.host \in Hosts
    BY <1>8, Nulls DEF Found, Placed, GoodCall, PairCalls
  <2>2. /\ w.pools = u.pools /\ w.volumes = u.volumes
        /\ \A h \in Hosts, x \in Volumes : h # call.host \/ x # v => w.maps[<<h, x>>] = u.maps[<<h, x>>]
    <3>1. OnlyPair(u, w, call.host, v)
      BY <1>8, <2>1, PairWritten DEF Written
    <3> QED
      BY <3>1 DEF OnlyPair
  <2> HIDE DEF w, v
  <2>3. v <= ids.volumes
    BY <1>1, <2>1 DEF Volumes
  <2> QED
    BY <1>3, <2>2, <2>3 DEF Fresh, w
<1> QED
  BY <1>4, <1>5, <1>6, <1>7, <1>8
     DEF GoodCall, ArrayCalls, PoolCalls, HostCalls, VolumeCalls, PairCalls, PortCalls

LEMMA WrittenSound ==
  ASSUME TypeInv, NEW u \in TableSet, NEW R, Sound(u, R), Fresh(u, issued),
         NEW call \in GoodCall, NEW seen, Found(call, seen), Placed(call, seen, u, issued),
         ~Conflict(call, seen, u), Checked(call, seen, u, R),
         call.do \notin {"create_endpoint", "find_none"},
         call.do = "create_mapping" => call.volume = Null,
         call.do = "create_pool" => issued.pools < MaxPools,
         call.do = "create_volume" => issued.volumes < MaxVolumes
  PROVE  Sound(Written(call, seen, u), R)
<1> DEFINE w == Written(call, seen, u)
<1>1. CASE call.do \in {"create_array", "delete_array", "ensure_endpoint"}
  <2>1. call.array \in Arrays
    BY <1>1 DEF GoodCall, ArrayCalls
  <2>2. /\ w.pools = u.pools /\ w.hosts = u.hosts /\ w.maps = u.maps /\ w.volumes = u.volumes
        /\ \A a \in Arrays \ {call.array} : (a \in w.arrays <=> a \in u.arrays) /\ w.iscsi[a] = u.iscsi[a]
    <3>1. OnlyArray(u, w, call.array)
      BY <1>1, <2>1, ArrayWritten DEF Written
    <3> QED
      BY <3>1 DEF OnlyArray
  <2>3. /\ call.do = "create_array" => w.arrays = u.arrays \cup {call.array} /\ w.iscsi = u.iscsi
        /\ call.do = "delete_array" => w.arrays = u.arrays \ {call.array} /\ w.iscsi = u.iscsi
        /\ call.do = "ensure_endpoint" =>
             w.arrays = u.arrays /\ w.iscsi[call.array] = u.iscsi[call.array] + 1
    BY <2>1, WrittenOnArray, ArrayFields
  <2> HIDE DEF w
  <2>4. ArraysSound(w, R)
    <3>1. Default \in w.arrays
      BY <1>1, <2>3 DEF Sound, ArraysSound, Checked, CheckedArray
    <3>2. ASSUME NEW a \in Arrays \ R PROVE w.iscsi[a] <= 1
      BY <1>1, <2>1, <2>2, <2>3 DEF Sound, ArraysSound, Checked, CheckedArray
    <3> QED
      BY <3>1, <3>2 DEF ArraysSound
  <2>5. PoolsSound(w, R)
    BY <1>1, <2>1, <2>2, <2>3 DEF Sound, PoolsSound, Checked, CheckedArray, PoolsOf, PoolCalled, Rows, TableSet, PoolRow
  <2>6. Sound(w, R)
    BY <2>2, <2>4, <2>5 DEF Sound, VolumesSound, MapsSound, VolumeCalled, VolumesOf
  <2> QED
    BY <2>6 DEF w
<1>2. CASE call.do = "create_pool"
  <2> DEFINE new == issued.pools + 1
             row == [name |-> call.group, array |-> call.array]
  <2>1. call.array \in Arrays /\ call.group \in PoolNames /\ row \in PoolRow
    BY <1>2 DEF GoodCall, PoolRow
  <2>2. /\ w.arrays = u.arrays /\ w.iscsi = u.iscsi /\ w.hosts = u.hosts
        /\ w.maps = u.maps /\ w.volumes = u.volumes
        /\ w.pools = [u.pools EXCEPT ![new] = row]
    BY <1>2 DEF Written, PoolAdded, TableSet
  <2>3. u.pools[new] = Null /\ new \in Pools
    <3>1. new \in Pools /\ ~(new <= issued.pools)
      BY <1>2, TablesAssumption DEF TypeInv, Pools
    <3> QED
      BY <3>1 DEF Fresh, Rows, TableSet
  <2>4. /\ \A p \in Rows(w.pools) : p = new \/ (p \in Rows(u.pools) /\ w.pools[p] = u.pools[p])
        /\ w.pools[new].name = call.group /\ w.pools[new].array = call.array /\ w.pools[new] # Null
        /\ \A p \in Rows(u.pools) : p # new /\ w.pools[p] = u.pools[p] /\ p \in Rows(w.pools)
    BY <2>1, <2>2, <2>3, Nulls DEF Rows, TableSet
  <2> HIDE DEF w, new, row
  <2>5. PoolsSound(w, R)
    <3>1. \A p \in Rows(w.pools) : w.pools[p].array \in w.arrays \cup R
      BY <1>2, <2>2, <2>4 DEF Sound, PoolsSound, Checked, CheckedArray
    <3>2. PoolCalled(u, call.group, call.array) = {}
      BY <1>2 DEF Conflict
    <3>3. ASSUME NEW a \in Arrays, NEW g \in PoolNames,
                 NEW p \in PoolCalled(w, g, a), NEW q \in PoolCalled(w, g, a)
          PROVE  p = q
      <4>1. /\ p = new \/ p \in PoolCalled(u, g, a)
            /\ q = new \/ q \in PoolCalled(u, g, a)
        BY <2>4 DEF PoolCalled, PoolsOf
      <4>2. p = new \/ q = new => g = call.group /\ a = call.array
        BY <2>4 DEF PoolCalled, PoolsOf
      <4> QED
        BY <3>2, <4>1, <4>2 DEF Sound, PoolsSound
    <3> QED
      BY <3>1, <3>3 DEF PoolsSound
  <2>6. VolumesSound(w, R)
    <3>1. ASSUME R \cap PoolNames = {}, NEW v \in Rows(w.volumes)
          PROVE  /\ w.pools[w.volumes[v].pool] # Null
                 /\ ~MovesVolumes => w.pools[w.volumes[v].pool].array = w.volumes[v].array
      <4>1. w.volumes[v].pool \in Pools
        BY <2>2 DEF Rows, TableSet, VolumeRow
      <4>2. u.pools[w.volumes[v].pool] # Null
        BY <2>2, <3>1 DEF Sound, VolumesSound
      <4>3. w.pools[w.volumes[v].pool] = u.pools[w.volumes[v].pool]
        BY <2>4, <4>1, <4>2 DEF Rows, TableSet
      <4> QED
        BY <2>2, <3>1, <4>2, <4>3 DEF Sound, VolumesSound
    <3> QED
      BY <2>2, <3>1 DEF Sound, VolumesSound, VolumeCalled, VolumesOf
  <2> QED
    BY <2>2, <2>5, <2>6 DEF Sound, ArraysSound, MapsSound, w
<1>3. CASE call.do = "delete_pool"
  <2>1. call.pool \in Pools
    BY <1>3 DEF GoodCall, PoolCalls
  <2>2. /\ w.arrays = u.arrays /\ w.iscsi = u.iscsi /\ w.hosts = u.hosts
        /\ w.maps = u.maps /\ w.volumes = u.volumes
        /\ w.pools = [u.pools EXCEPT ![call.pool] = Null]
    BY <1>3 DEF Written, PoolDeleted, TableSet
  <2>3. /\ \A p \in Rows(w.pools) : p \in Rows(u.pools) /\ w.pools[p] = u.pools[p]
        /\ \A p \in Pools \ {call.pool} : w.pools[p] = u.pools[p]
    BY <2>1, <2>2 DEF Rows, TableSet
  <2> HIDE DEF w
  <2>4. PoolsSound(w, R)
    BY <2>2, <2>3 DEF Sound, PoolsSound, PoolCalled, PoolsOf
  <2>5. VolumesSound(w, R)
    <3>1. ASSUME R \cap PoolNames = {}, NEW v \in Rows(w.volumes)
          PROVE  /\ w.pools[w.volumes[v].pool] # Null
                 /\ ~MovesVolumes => w.pools[w.volumes[v].pool].array = w.volumes[v].array
      <4>1. w.volumes[v].pool \in Pools
        BY <2>2 DEF Rows, TableSet, VolumeRow
      <4>2. w.volumes[v].pool # call.pool
        BY <1>3, <2>2, <3>1 DEF Checked, CheckedPool, VolumesIn
      <4> QED
        BY <2>2, <2>3, <3>1, <4>1, <4>2 DEF Sound, VolumesSound
    <3> QED
      BY <2>2, <3>1 DEF Sound, VolumesSound, VolumeCalled, VolumesOf
  <2> QED
    BY <2>2, <2>4, <2>5 DEF Sound, ArraysSound, MapsSound, w
<1>4. CASE call.do \in {"attach_pool", "detach_pool"}
  <2> DEFINE to == IF call.do = "attach_pool" THEN call.array ELSE Default
             p == call.pool
  <2>1. p \in Pools /\ to \in Arrays /\ u.pools[p] \in PoolRow /\ u.pools[p] # Null
    BY <1>4, Nulls, TablesAssumption DEF GoodCall, PoolCalls, Conflict, TableSet
  <2>2. w = PoolMoved(u, p, to)
    BY <1>4 DEF Written
  <2>3. /\ w.arrays = u.arrays /\ w.iscsi = u.iscsi /\ w.hosts = u.hosts
        /\ w.maps = u.maps /\ w.volumes = u.volumes
        /\ w.pools = [u.pools EXCEPT ![p] = [u.pools[p] EXCEPT !.array = to]]
    BY <2>2 DEF PoolMoved, TableSet
  <2>4. [u.pools[p] EXCEPT !.array = to] \in PoolRow
    BY <2>1 DEF PoolRow
  <2>5. /\ w.pools[p] \in PoolRow /\ w.pools[p] # Null
        /\ w.pools[p].name = u.pools[p].name /\ w.pools[p].array = to
        /\ \A q \in Pools \ {p} : w.pools[q] = u.pools[q]
        /\ Rows(w.pools) \subseteq Pools
    BY <2>1, <2>3, <2>4, Nulls DEF Rows, TableSet, PoolRow
  <2>6. to \in u.arrays \cup R /\ PoolCalled(u, u.pools[p].name, to) \ {p} = {}
    BY <1>4 DEF Checked, CheckedArray, Conflict, Sound, ArraysSound
  <2>7. R \cap PoolNames = {} /\ ~MovesVolumes => VolumesIn(u, p) = {}
    BY <1>4 DEF Checked, CheckedPool
  <2> HIDE DEF w, to, p
  <2>8. PoolsSound(w, R)
    <3>1. \A q \in Rows(w.pools) : w.pools[q].array \in w.arrays \cup R
      BY <2>1, <2>3, <2>5, <2>6 DEF Sound, PoolsSound, Rows, TableSet
    <3>2. ASSUME NEW a \in Arrays, NEW g \in PoolNames,
                 NEW x \in PoolCalled(w, g, a), NEW y \in PoolCalled(w, g, a)
          PROVE  x = y
      <4>1. /\ x # p => x \in PoolCalled(u, g, a)
            /\ y # p => y \in PoolCalled(u, g, a)
        BY <2>1, <2>3, <2>5 DEF PoolCalled, PoolsOf, Rows, TableSet
      <4>2. x = p \/ y = p => g = u.pools[p].name /\ a = to
        BY <2>5 DEF PoolCalled, PoolsOf
      <4> QED
        BY <2>6, <4>1, <4>2 DEF Sound, PoolsSound
    <3> QED
      BY <3>1, <3>2 DEF PoolsSound
  <2>9. VolumesSound(w, R)
    <3>1. ASSUME R \cap PoolNames = {}, NEW v \in Rows(w.volumes)
          PROVE  /\ w.pools[w.volumes[v].pool] # Null
                 /\ ~MovesVolumes => w.pools[w.volumes[v].pool].array = w.volumes[v].array
      <4>1. w.volumes[v].pool \in Pools
        BY <2>3 DEF Rows, TableSet, VolumeRow
      <4>2. ~MovesVolumes => w.volumes[v].pool # p
        BY <2>3, <2>7, <3>1 DEF VolumesIn
      <4> QED
        BY <2>3, <2>5, <3>1, <4>1, <4>2 DEF Sound, VolumesSound
    <3> QED
      BY <2>3, <3>1 DEF Sound, VolumesSound, VolumeCalled, VolumesOf
  <2> QED
    BY <2>3, <2>8, <2>9 DEF Sound, ArraysSound, MapsSound, w
<1>5. CASE call.do \in PortCalls
  <2>1. call.host \in Hosts
    BY <1>5 DEF PortCalls, GoodCall, HostCalls
  <2>2. /\ w.arrays = u.arrays /\ w.iscsi = u.iscsi /\ w.pools = u.pools
        /\ w.maps = u.maps /\ w.volumes = u.volumes
        /\ call.do # "delete_host" => u.hosts \subseteq w.hosts
        /\ call.do = "delete_host" => w.hosts = u.hosts \ {call.host}
    BY <1>5, <2>1 DEF Written, HostAdded, HostPortsWritten, HostDeleted, TableSet, PortCalls
  <2> HIDE DEF w
  <2>3. ASSUME NEW h \in Hosts, NEW v \in Volumes, w.maps[<<h, v>>] > 0
        PROVE  h \in w.hosts \cup R
    <3>1. h \in u.hosts \cup R
      BY <2>2, <2>3 DEF Sound, MapsSound
    <3>2. call.do = "delete_host" /\ h = call.host => h \in R
      BY <2>2, <2>3 DEF Checked, CheckedHost, MapsOfHost
    <3> QED
      BY <2>2, <3>1, <3>2
  <2> QED
    <3>1. ArraysSound(w, R) /\ PoolsSound(w, R) /\ VolumesSound(w, R)
      BY <2>2, SoundTables DEF Sound
    <3>2. MapsSound(w, R)
      BY <2>2, <2>3 DEF Sound, MapsSound
    <3> QED
      BY <3>1, <3>2 DEF Sound, w
<1>6. CASE call.do = "create_volume"
  <2> DEFINE new == issued.volumes + 1
             row == [name |-> call.name, pool |-> seen.pool, array |-> seen.array, status |-> "creating"]
  <2>1. call.name \in VolumeNames /\ seen.pool \in Pools /\ seen.array \in Arrays /\ row \in VolumeRow
    BY <1>6 DEF GoodCall, Found, VolumeRow
  <2>2. /\ w.arrays = u.arrays /\ w.iscsi = u.iscsi /\ w.hosts = u.hosts
        /\ w.maps = u.maps /\ w.pools = u.pools
        /\ w.volumes = [u.volumes EXCEPT ![new] = row]
    BY <1>6 DEF Written, VolumeAdded, TableSet
  <2>3. u.volumes[new] = Null /\ new \in Volumes /\ \A h \in Hosts : ~(u.maps[<<h, new>>] > 0)
    <3>1. new \in Volumes /\ ~(new <= issued.volumes)
      BY <1>6, TablesAssumption DEF TypeInv, Volumes
    <3> QED
      BY <3>1 DEF Fresh, Rows, TableSet
  <2>4. /\ \A v \in Rows(w.volumes) : v = new \/ (v \in Rows(u.volumes) /\ w.volumes[v] = u.volumes[v])
        /\ w.volumes[new] = row /\ w.volumes[new] # Null
        /\ \A v \in Volumes : u.volumes[v] # Null => v # new /\ w.volumes[v] = u.volumes[v]
    BY <2>1, <2>2, <2>3, Nulls DEF Rows, TableSet
  <2>5. \A h \in Hosts : w.maps[<<h, new>>] <= 1
    BY <2>2, <2>3 DEF TableSet
  <2> HIDE DEF w, new
  <2>6. VolumesSound(w, R)
    <3>1. ASSUME R \cap PoolNames = {}, NEW v \in Rows(w.volumes)
          PROVE  /\ w.pools[w.volumes[v].pool] # Null
                 /\ ~MovesVolumes => w.pools[w.volumes[v].pool].array = w.volumes[v].array
      BY <1>6, <2>2, <2>4, <3>1 DEF Sound, VolumesSound, Checked, CheckedPool
    <3>2. ASSUME NEW a \in Arrays, NEW n \in VolumeNames \ R,
                 NEW x \in VolumeCalled(w, n, a), NEW y \in VolumeCalled(w, n, a)
          PROVE  x = y
      <4>1. /\ x = new \/ x \in VolumeCalled(u, n, a)
            /\ y = new \/ y \in VolumeCalled(u, n, a)
        BY <2>4 DEF VolumeCalled, VolumesOf
      <4>2. x = new \/ y = new => n = call.name /\ a = seen.array
        BY <2>4 DEF VolumeCalled, VolumesOf
      <4>3. n = call.name => VolumeCalled(u, call.name, seen.array) = {}
        BY <1>6 DEF Checked, CheckedVolume
      <4> QED
        BY <4>1, <4>2, <4>3 DEF Sound, VolumesSound
    <3> QED
      BY <3>1, <3>2 DEF VolumesSound
  <2>7. MapsSound(w, R)
    <3>1. ASSUME NEW h \in Hosts, NEW v \in Volumes, w.maps[<<h, v>>] > 0, R \cap VolumeNames = {}
          PROVE  w.volumes[v] # Null
      BY <2>2, <2>4, <3>1 DEF Sound, MapsSound
    <3> QED
      BY <2>2, <2>4, <2>5, <3>1 DEF Sound, MapsSound
  <2> QED
    BY <2>2, <2>6, <2>7 DEF Sound, ArraysSound, PoolsSound, PoolCalled, PoolsOf, w
<1>7. CASE call.do = "delete_volume"
  <2> DEFINE v == seen.volume
  <2>1. v \in Volumes
    BY <1>7 DEF Found
  <2>2. /\ w.arrays = u.arrays /\ w.iscsi = u.iscsi /\ w.hosts = u.hosts
        /\ w.maps = u.maps /\ w.pools = u.pools
        /\ w.volumes = [u.volumes EXCEPT ![v] = Null]
    BY <1>7, VolumeGone
  <2>3. /\ \A x \in Rows(w.volumes) : x \in Rows(u.volumes) /\ w.volumes[x] = u.volumes[x]
        /\ \A x \in Volumes \ {v} : w.volumes[x] = u.volumes[x]
    BY <2>1, <2>2 DEF Rows, TableSet
  <2>4. R \cap VolumeNames = {} => MapsOfVolume(u, v) = {}
    BY <1>7 DEF Checked, CheckedVolume
  <2> HIDE DEF w, v
  <2>5. VolumesSound(w, R)
    BY <2>2, <2>3 DEF Sound, VolumesSound, VolumeCalled, VolumesOf
  <2>6. MapsSound(w, R)
    <3>1. ASSUME NEW h \in Hosts, NEW x \in Volumes, w.maps[<<h, x>>] > 0, R \cap VolumeNames = {}
          PROVE  w.volumes[x] # Null
      BY <2>2, <2>3, <2>4, <3>1 DEF Sound, MapsSound, MapsOfVolume
    <3> QED
      BY <2>2, <2>3, <3>1 DEF Sound, MapsSound
  <2> QED
    BY <2>2, <2>5, <2>6 DEF Sound, ArraysSound, PoolsSound, PoolCalled, PoolsOf, w
<1>8. CASE call.do \in {"create_mapping", "delete_mapping"}
  <2> DEFINE v == seen.volume
             i == call.host
  <2>1. v \in Volumes /\ v # Null /\ i \in Hosts
    BY <1>8, Nulls DEF Found, GoodCall, PairCalls
  <2>2. /\ w.arrays = u.arrays /\ w.iscsi = u.iscsi /\ w.hosts = u.hosts
        /\ w.pools = u.pools /\ w.volumes = u.volumes
        /\ \A h \in Hosts, x \in Volumes : h # i \/ x # v => w.maps[<<h, x>>] = u.maps[<<h, x>>]
        /\ call.do = "create_mapping" => w.maps[<<i, v>>] = u.maps[<<i, v>>] + 1
        /\ call.do = "delete_mapping" => w.maps[<<i, v>>] = u.maps[<<i, v>>] - 1
    <3>1. OnlyPair(u, w, i, v)
      BY <1>8, <2>1, PairWritten DEF Written
    <3>2. /\ call.do = "create_mapping" => w.maps[<<i, v>>] = u.maps[<<i, v>>] + 1
          /\ call.do = "delete_mapping" => w.maps[<<i, v>>] = u.maps[<<i, v>>] - 1
      BY <1>8, <2>1, PairWritten DEF Written
    <3> QED
      BY <3>1, <3>2 DEF OnlyPair
  <2>3. /\ \A h \in Hosts, x \in Volumes : u.maps[<<h, x>>] \in Nat
        /\ Rows(u.volumes) \subseteq Volumes
    BY DEF TableSet, Rows
  <2>4. /\ call.do = "create_mapping" => u.volumes[v] # Null
        /\ call.do = "create_mapping" => i \in u.hosts \cup R
        /\ call.do = "create_mapping" /\ i \notin R /\ call.name \notin R => u.maps[<<i, v>>] = 0
        /\ call.do = "delete_mapping" => u.maps[<<i, v>>] > 0
    BY <1>8, <2>1, <2>3 DEF Checked, CheckedVolume, Conflict
  <2>5. call.do = "create_mapping" /\ v \in Rows(u.volumes) => u.volumes[v].name = call.name
    BY <2>1 DEF Placed
  <2> HIDE DEF w, v, i
  <2>6. MapsSound(w, R)
    <3>1. ASSUME NEW h \in Hosts, NEW x \in Volumes, w.maps[<<h, x>>] > 0
          PROVE  /\ h \in w.hosts \cup R
                 /\ R \cap VolumeNames = {} => w.volumes[x] # Null
      <4>1. CASE u.maps[<<h, x>>] > 0
        BY <2>2, <4>1 DEF Sound, MapsSound
      <4>2. CASE ~(u.maps[<<h, x>>] > 0)
        BY <1>8, <2>1, <2>2, <2>3, <2>4, <3>1, <4>2
      <4> QED
        BY <4>1, <4>2
    <3>2. ASSUME NEW h \in Hosts \ R, NEW x \in Rows(w.volumes), w.volumes[x].name \notin R
          PROVE  w.maps[<<h, x>>] <= 1
      <4>1. x \in Volumes /\ u.maps[<<h, x>>] <= 1
        BY <2>2, <2>3, <3>2 DEF Sound, MapsSound
      <4>2. CASE h = i /\ x = v
        BY <1>8, <2>1, <2>2, <2>3, <2>4, <2>5, <3>2, <4>1, <4>2
      <4>3. CASE h # i \/ x # v
        BY <2>2, <4>1, <4>3
      <4> QED
        BY <4>2, <4>3
    <3> QED
      BY <3>1, <3>2 DEF MapsSound
  <2> QED
    <3>1. ArraysSound(w, R) /\ PoolsSound(w, R) /\ VolumesSound(w, R)
      BY <2>2, SoundTables DEF Sound
    <3> QED
      BY <2>6, <3>1 DEF Sound, w
<1> QED
  BY <1>1, <1>2, <1>3, <1>4, <1>5, <1>6, <1>7, <1>8
     DEF GoodCall, ArrayCalls, PoolCalls, HostCalls, VolumeCalls, PairCalls, PortCalls

-----------------------------------------------------------------------------
\* What a request about other names does leaves what was checked so.
LEMMA CheckedStands ==
  ASSUME NEW t \in TableSet, NEW u \in TableSet, NEW N, NEW R, Agree(t, u, N),
         NEW call \in GoodCall, NEW seen, Found(call, seen), N \cap Called(call, t) \subseteq R,
         NEW ids, Placed(call, seen, t, ids), NEW live, Asked(call, t, live, ids, R),
         call.do \in OnArrays => call.name = Null /\ call.volume = Null,
         Checked(call, seen, t, R)
  PROVE  Checked(call, seen, u, R)
<1>1. call.do \in OnArrays /\ call.array \in Arrays => call.array \notin N \/ call.array \in R
  BY Nulls DEF Called
<1>2. call.host \in Hosts => call.host \notin N \/ call.host \in R
  BY Nulls DEF Called
<1>3. call.name \in VolumeNames => call.name \notin N \/ call.name \in R
  BY Nulls DEF Called
<1>4. call.pool \in Rows(t.pools) => t.pools[call.pool].name \notin N \/ t.pools[call.pool].name \in R
  BY Nulls DEF Called, TableSet, Rows, PoolRow
<1>5. seen.volume \in Rows(t.volumes) =>
        t.volumes[seen.volume].name \notin N \/ t.volumes[seen.volume].name \in R
  BY Nulls DEF Placed, Called, TableSet, Rows, VolumeRow
<1>6. seen.pool \in Rows(t.pools) => t.pools[seen.pool].name \notin N \/ t.pools[seen.pool].name \in R
  BY Nulls DEF Placed, Called, TableSet, Rows, PoolRow
<1>7. CheckedArray(call, u, R)
  <2>1. call.do \in {"delete_array", "create_pool", "attach_pool", "ensure_endpoint"} =>
          call.do \in OnArrays /\ call.array \in Arrays
    BY DEF OnArrays, GoodCall, ArrayCalls
  <2> QED
    BY <1>1, <2>1 DEF Checked, CheckedArray, Agree, SameArrays
<1>8. CheckedHost(call, seen, u, R)
  <2>1. call.do \in HostCalls => call.host \in Hosts
    BY DEF GoodCall
  <2> QED
    BY <1>2, <2>1 DEF Checked, CheckedHost, MapsOfHost, Agree, SameHosts, HostCalls
<1>9. CheckedPool(call, seen, u, R)
  <2> SUFFICES ASSUME R \cap PoolNames = {}
               PROVE  /\ call.do \in {"delete_pool", "detach_pool"} => VolumesIn(u, call.pool) = {}
                      /\ call.do = "attach_pool" /\ ~MovesVolumes => VolumesIn(u, call.pool) = {}
                      /\ call.do = "create_volume" =>
                           u.pools[seen.pool] # Null /\ u.pools[seen.pool].array = seen.array
    BY DEF CheckedPool
  <2>1. ASSUME call.do \in PoolCalls \ {"create_pool"}, VolumesIn(t, call.pool) = {}
        PROVE  VolumesIn(u, call.pool) = {}
    <3>1. call.pool \in Pools /\ call.pool # Null
      BY <2>1, Nulls DEF GoodCall
    <3>2. call.pool \in Rows(t.pools) /\ t.pools[call.pool].name \notin N
      BY <1>4, <3>1 DEF Asked, TableSet, Rows, PoolRow
    <3>3. ASSUME NEW v \in Rows(u.volumes), u.volumes[v].pool = call.pool PROVE FALSE
      <4>1. CASE v \in Rows(t.volumes)
        BY <2>1, <3>3, <4>1 DEF Agree, SameVolumes, VolumesIn
      <4>2. CASE v \notin Rows(t.volumes)
        BY <3>2, <3>3, <4>2 DEF Agree, NewVolumes
      <4> QED
        BY <4>1, <4>2
    <3> QED
      BY <3>3 DEF VolumesIn
  <2>2. ASSUME call.do = "create_volume"
        PROVE  u.pools[seen.pool] # Null /\ u.pools[seen.pool].array = seen.array
    <3>1. seen.pool \in Rows(t.pools) /\ t.pools[seen.pool].array = seen.array
      BY <2>2 DEF Checked, CheckedPool, Found, Rows, TableSet
    <3>2. t.pools[seen.pool].name \notin N
      BY <1>6, <3>1 DEF TableSet, Rows, PoolRow
    <3> QED
      BY <3>1, <3>2 DEF Agree, SamePools, Rows
  <2> QED
    BY <2>1, <2>2 DEF Checked, CheckedPool, PoolCalls
<1>10. CheckedVolume(call, seen, u, R)
  <2>1. ASSUME call.do = "create_volume", call.name \notin R
        PROVE  VolumeCalled(u, call.name, seen.array) = {}
    <3>1. call.name \notin N /\ VolumeCalled(t, call.name, seen.array) = {}
      BY <1>3, <2>1 DEF GoodCall, Checked, CheckedVolume
    <3>2. ASSUME NEW v \in VolumeCalled(u, call.name, seen.array) PROVE FALSE
      <4>1. CASE v \in Rows(t.volumes)
        BY <3>1, <3>2, <4>1 DEF Agree, SameVolumes, VolumeCalled, VolumesOf
      <4>2. CASE v \notin Rows(t.volumes)
        BY <3>1, <3>2, <4>2 DEF Agree, NewVolumes, VolumeCalled, VolumesOf
      <4> QED
        BY <4>1, <4>2
    <3> QED
      BY <3>2
  <2>2. ASSUME call.do = "delete_volume", R \cap VolumeNames = {}
        PROVE  MapsOfVolume(u, seen.volume) = {} /\ u.volumes[seen.volume] # Null
    <3>1. MapsOfVolume(t, seen.volume) = {} /\ seen.volume \in Rows(t.volumes)
      BY <2>2 DEF Checked, CheckedVolume, Found, Rows, TableSet
    <3>2. t.volumes[seen.volume].name \notin N
      BY <1>5, <2>2, <3>1 DEF TableSet, Rows, VolumeRow
    <3>3. u.volumes[seen.volume] = t.volumes[seen.volume]
      BY <3>1, <3>2 DEF Agree, SameVolumes
    <3>4. \A h \in Hosts : u.maps[<<h, seen.volume>>] = t.maps[<<h, seen.volume>>]
      BY <3>1, <3>2 DEF Agree, SameVolumes
    <3> QED
      BY <3>1, <3>3, <3>4 DEF MapsOfVolume, Rows
  <2>3. ASSUME call.do = "create_mapping"
        PROVE  /\ call.host \in u.hosts \cup R
               /\ call.host \notin R /\ call.name \notin R => u.maps[<<call.host, seen.volume>>] = 0
    <3>1. call.host \in Hosts /\ seen.volume \in Volumes
      BY <2>3 DEF GoodCall, PairCalls, Found
    <3> QED
      BY <1>2, <2>3, <3>1 DEF Checked, CheckedVolume, Agree, SameHosts
  <2> QED
    BY <2>1, <2>2, <2>3 DEF CheckedVolume
<1> QED
  BY <1>7, <1>8, <1>9, <1>10 DEF Checked

LEMMA ForeseenStands ==
  ASSUME NEW t \in TableSet, NEW u \in TableSet, NEW N, NEW R, Agree(t, u, N),
         NEW calls \in Seq(GoodCall), calls # <<>>, N \cap AboutIn(calls, t) \subseteq R,
         NEW ids, NEW live, Asked(calls[1], t, live, ids, R), CallShape(calls, 1),
         NEW at, Foreseen(calls, at, t, R)
  PROVE  Foreseen(calls, at, u, R)
<1> DEFINE call == calls[1]
<1>1. call \in GoodCall /\ N \cap Called(call, t) \subseteq R
  <2>1. 1 \in DOMAIN calls
    OBVIOUS
  <2> QED
    BY <2>1 DEF AboutIn
<1>2. ASSUME call.do = "find_none", at \in 2..Len(calls), call.host \notin R, call.name \notin R,
             NEW v \in VolumeCalled(u, call.name, call.array)
      PROVE  u.maps[<<call.host, v>>] = 0
  <2>1. call.host \in Hosts /\ call.host \notin N /\ call.name \notin N
    BY <1>1, <1>2, Nulls DEF GoodCall, PairCalls, CallShape, Called
  <2>2. v \in Rows(t.volumes)
    BY <1>2, <2>1 DEF Agree, NewVolumes, VolumeCalled, VolumesOf
  <2>3. v \in VolumeCalled(t, call.name, call.array) /\ v \in Volumes
    BY <1>2, <2>2 DEF Agree, SameVolumes, VolumeCalled, VolumesOf, Rows, TableSet
  <2> QED
    BY <1>2, <2>1, <2>3 DEF Agree, SameHosts, Foreseen
<1>3. ASSUME ~MovesVolumes, R \cap PoolNames = {}, at = 1, call.do = "attach_pool"
      PROVE  VolumesIn(u, call.pool) = {}
  <2>1. call.pool \in Pools /\ call.pool # Null
    BY <1>1, <1>3, Nulls DEF GoodCall, PoolCalls
  <2>2. call.pool \in Rows(t.pools) /\ t.pools[call.pool].name \notin N
    <3>1. call.pool \in Rows(t.pools)
      BY <1>3, <2>1 DEF Asked
    <3>2. t.pools[call.pool].name \in PoolNames
      BY <3>1 DEF TableSet, Rows, PoolRow
    <3>3. t.pools[call.pool].name \in Called(call, t)
      BY <3>1, <3>2, CalledPool, Nulls
    <3> QED
      BY <1>1, <1>3, <3>1, <3>2, <3>3
  <2>3. ASSUME NEW v \in Rows(u.volumes), u.volumes[v].pool = call.pool PROVE FALSE
    <3>1. CASE v \in Rows(t.volumes)
      BY <1>3, <2>3, <3>1 DEF Agree, SameVolumes, VolumesIn, Foreseen
    <3>2. CASE v \notin Rows(t.volumes)
      BY <2>2, <2>3, <3>2 DEF Agree, NewVolumes
    <3> QED
      BY <3>1, <3>2
  <2> QED
    BY <2>3 DEF VolumesIn
<1> QED
  BY <1>2, <1>3 DEF Foreseen

\* The more names requests meet on, the less is promised.
LEMMA MoreRaced ==
  ASSUME NEW R, NEW S, R \subseteq S
  PROVE  /\ \A t : Sound(t, R) => Sound(t, S)
         /\ \A call, seen, t : Checked(call, seen, t, R) => Checked(call, seen, t, S)
         /\ \A calls, at, t : Foreseen(calls, at, t, R) => Foreseen(calls, at, t, S)
         /\ \A t, asked : AsWanted(t, asked, R) => AsWanted(t, asked, S)
         /\ \A call, t, live, ids : Asked(call, t, live, ids, R) => Asked(call, t, live, ids, S)
<1>1. ASSUME NEW t, Sound(t, R) PROVE Sound(t, S)
  BY <1>1 DEF Sound, ArraysSound, PoolsSound, VolumesSound, MapsSound
<1>2. ASSUME NEW call, NEW seen, NEW t, Checked(call, seen, t, R) PROVE Checked(call, seen, t, S)
  BY <1>2 DEF Checked, CheckedArray, CheckedHost, CheckedPool, CheckedVolume
<1>3. ASSUME NEW calls, NEW at, NEW t, Foreseen(calls, at, t, R) PROVE Foreseen(calls, at, t, S)
  BY <1>3 DEF Foreseen
<1>4. ASSUME NEW t, NEW asked, AsWanted(t, asked, R) PROVE AsWanted(t, asked, S)
  BY <1>4 DEF AsWanted
<1>5. ASSUME NEW call, NEW t, NEW live, NEW ids, Asked(call, t, live, ids, R)
      PROVE  Asked(call, t, live, ids, S)
  BY <1>5 DEF Asked
<1> QED
  BY <1>1, <1>2, <1>3, <1>4, <1>5

-----------------------------------------------------------------------------
\* What a check finds: one row of a name, if requests on it did not meet.
LEMMA OneRow ==
  ASSUME NEW t \in TableSet, NEW R, Sound(t, R), NEW call \in GoodCall
  PROVE  /\ \A p, q \in PoolsFor(call, t) : p = q
         /\ call.name \notin R => \A v, w \in VolumesFor(call, t) : v = w
         /\ PoolsFor(call, t) \subseteq Rows(t.pools) /\ VolumesFor(call, t) \subseteq Rows(t.volumes)
         /\ Seen(call, t).pool # Null => Seen(call, t).pool \in PoolsFor(call, t)
         /\ Seen(call, t).volume # Null => Seen(call, t).volume \in VolumesFor(call, t)
         /\ PoolsFor(call, t) # {} => Seen(call, t).pool \in PoolsFor(call, t)
         /\ VolumesFor(call, t) # {} => Seen(call, t).volume \in VolumesFor(call, t)
<1>1. ASSUME NEW p \in PoolsFor(call, t), NEW q \in PoolsFor(call, t) PROVE p = q
  <2>1. CASE call.pool # Null
    BY <1>1, <2>1 DEF PoolsFor
  <2>2. CASE call.pool = Null
    <3>1. p \in PoolCalled(t, call.group, call.array) /\ q \in PoolCalled(t, call.group, call.array)
      BY <1>1, <2>2 DEF PoolsFor
    <3>2. call.group \in PoolNames /\ call.array \in Arrays
      BY <3>1 DEF PoolCalled, PoolsOf, Rows, TableSet, PoolRow
    <3> QED
      BY <3>1, <3>2 DEF Sound, PoolsSound
  <2> QED
    BY <2>1, <2>2
<1>2. ASSUME call.name \notin R, NEW v \in VolumesFor(call, t), NEW w \in VolumesFor(call, t) PROVE v = w
  <2>1. CASE call.volume # Null
    BY <1>2, <2>1 DEF VolumesFor
  <2>2. CASE call.volume = Null
    <3>1. v \in VolumeCalled(t, call.name, call.array) /\ w \in VolumeCalled(t, call.name, call.array)
      BY <1>2, <2>2 DEF VolumesFor
    <3>2. call.name \in VolumeNames /\ call.array \in Arrays
      BY <3>1 DEF VolumeCalled, VolumesOf, Rows, TableSet, VolumeRow
    <3> QED
      BY <1>2, <3>1, <3>2 DEF Sound, VolumesSound
  <2> QED
    BY <2>1, <2>2
<1>3. PoolsFor(call, t) \subseteq Rows(t.pools) /\ VolumesFor(call, t) \subseteq Rows(t.volumes)
  BY DEF PoolsFor, PoolCalled, PoolsOf, VolumesFor, VolumeCalled, VolumesOf
<1>4. Seen(call, t).pool = TheOne(PoolsFor(call, t)) /\ Seen(call, t).volume = TheOne(VolumesFor(call, t))
  BY DEF Seen
<1>5. ASSUME NEW S PROVE (TheOne(S) # Null => TheOne(S) \in S) /\ (S # {} => TheOne(S) \in S)
  BY DEF TheOne
<1> QED
  BY <1>1, <1>2, <1>3, <1>4, <1>5

LEMMA CheckFinds ==
  ASSUME NEW t \in TableSet, NEW R, Sound(t, R), NEW call \in GoodCall, call.do # "find_none",
         ~Refused(call, t), ~NothingToWrite(call, t),
         call.do = "create_mapping" =>
           /\ call.volume = Null
           /\ call.host \notin R /\ call.name \notin R =>
                \A v \in VolumeCalled(t, call.name, call.array) : t.maps[<<call.host, v>>] = 0,
         call.do = "attach_pool" /\ ~MovesVolumes /\ R \cap PoolNames = {} =>
           VolumesIn(t, call.pool) = {}
  PROVE  Checked(call, Seen(call, t), t, R)
<1> DEFINE seen == Seen(call, t)
<1>1. CheckedArray(call, t, R)
  <2>1. call.do = "delete_array" => call.array # Default /\ PoolsOf(t, call.array) = {}
    BY DEF Refused, DeleteArrayRefused
  <2>2. call.do = "create_pool" => call.array \in t.arrays
    BY DEF Refused, CreatePoolRefused
  <2>3. call.do = "attach_pool" => call.array \in t.arrays
    BY DEF Refused, AttachRefused
  <2>4. call.do = "ensure_endpoint" => t.iscsi[call.array] = 0
    <3>1. call.do = "ensure_endpoint" =>
            t.iscsi[call.array] \in Nat /\ ~(t.iscsi[call.array] > 1) /\ t.iscsi[call.array] # 1
      BY DEF Refused, NothingToWrite, GoodCall, ArrayCalls, TableSet
    <3> QED
      BY <3>1
  <2> QED
    BY <2>1, <2>2, <2>3, <2>4 DEF CheckedArray
<1>2. CheckedHost(call, seen, t, R)
  <2>1. call.do = "delete_host" => MapsOfHost(t, call.host) = {}
    BY DEF Refused, DeleteHostRefused
  <2>2. seen.ports = PortsOf(call, t)
    BY DEF Seen
  <2> QED
    BY <2>1, <2>2 DEF CheckedHost, PortsOf
<1>3. CheckedPool(call, seen, t, R)
  <2>1. call.do = "delete_pool" => VolumesIn(t, call.pool) = {}
    BY DEF Refused, DeletePoolRefused
  <2>2. call.do = "detach_pool" => VolumesIn(t, call.pool) = {}
    BY DEF Refused, DetachRefused
  <2>3. call.do = "create_volume" => t.pools[seen.pool] # Null /\ t.pools[seen.pool].array = seen.array
    <3> SUFFICES ASSUME call.do = "create_volume"
                 PROVE  t.pools[seen.pool] # Null /\ t.pools[seen.pool].array = seen.array
      OBVIOUS
    <3>1. PICK p \in PoolsFor(call, t) : ~CreateVolumeRefused(t, call.name, p)
      BY DEF Refused
    <3>2. seen.pool = p
      BY <3>1, OneRow
    <3>3. seen.array = t.pools[seen.pool].array
      BY DEF Seen, ArrayOf
    <3> HIDE DEF seen
    <3> QED
      BY <3>1, <3>2, <3>3 DEF CreateVolumeRefused
  <2> QED
    BY <2>1, <2>2, <2>3 DEF CheckedPool
<1>4. CheckedVolume(call, seen, t, R)
  <2>1. call.do = "create_volume" => VolumeCalled(t, call.name, seen.array) = {}
    <3> SUFFICES ASSUME call.do = "create_volume"
                 PROVE  VolumeCalled(t, call.name, seen.array) = {}
      OBVIOUS
    <3>1. PICK p \in PoolsFor(call, t) : ~CreateVolumeRefused(t, call.name, p)
      BY DEF Refused
    <3>2. seen.pool = p
      BY <3>1, OneRow
    <3>3. seen.array = t.pools[seen.pool].array
      BY DEF Seen, ArrayOf
    <3> HIDE DEF seen
    <3> QED
      BY <3>1, <3>2, <3>3 DEF CreateVolumeRefused
  <2>2. call.do = "delete_volume" /\ R \cap VolumeNames = {} =>
          MapsOfVolume(t, seen.volume) = {} /\ t.volumes[seen.volume] # Null
    <3> SUFFICES ASSUME call.do = "delete_volume", R \cap VolumeNames = {}
                 PROVE  MapsOfVolume(t, seen.volume) = {} /\ t.volumes[seen.volume] # Null
      OBVIOUS
    <3>1. PICK v \in VolumesFor(call, t) : ~DeleteVolumeRefused(t, v)
      BY DEF Refused
    <3>2. seen.volume \in VolumesFor(call, t)
      BY <3>1, OneRow
    <3>3. seen.volume = v
      <4>1. CASE call.volume # Null
        BY <3>1, <3>2, <4>1 DEF VolumesFor
      <4>2. CASE call.volume = Null
        <5>1. call.name \in VolumeNames
          BY <3>1, <4>2 DEF VolumesFor, VolumeCalled, VolumesOf, Rows, TableSet, VolumeRow
        <5> QED
          BY <3>1, <3>2, <5>1, OneRow
      <4> QED
        BY <4>1, <4>2
    <3> HIDE DEF seen
    <3> QED
      BY <3>1, <3>3 DEF DeleteVolumeRefused
  <2>3. call.do = "create_mapping" =>
          /\ call.host \in t.hosts
          /\ call.host \notin R /\ call.name \notin R => t.maps[<<call.host, seen.volume>>] = 0
    <3> SUFFICES ASSUME call.do = "create_mapping"
                 PROVE  /\ call.host \in t.hosts
                        /\ call.host \notin R /\ call.name \notin R =>
                             t.maps[<<call.host, seen.volume>>] = 0
      OBVIOUS
    <3>1. PICK v \in VolumesFor(call, t) : ~CreateMappingRefused(t, call.host, v)
      BY DEF Refused
    <3>2. seen.volume \in VolumeCalled(t, call.name, call.array)
      BY <3>1, OneRow DEF VolumesFor
    <3> HIDE DEF seen
    <3> QED
      BY <3>1, <3>2 DEF CreateMappingRefused
  <2> QED
    BY <2>1, <2>2, <2>3 DEF CheckedVolume
<1> QED
  BY <1>1, <1>2, <1>3, <1>4 DEF Checked

\* And it has the name of the call, in every version of the tables.
LEMMA CheckPlaces ==
  ASSUME NEW t \in TableSet, NEW R, Sound(t, R), NEW call \in GoodCall, NEW ids, Fresh(t, ids),
         NEW u, \A p \in Rows(t.pools) \cap Rows(u.pools) : u.pools[p].name = t.pools[p].name,
         \A v \in Rows(t.volumes) \cap Rows(u.volumes) : u.volumes[v].name = t.volumes[v].name
  PROVE  Placed(call, Seen(call, t), u, ids)
<1> DEFINE seen == Seen(call, t)
<1>1. ASSUME seen.volume # Null
      PROVE  /\ seen.volume <= ids.volumes
             /\ call.volume = Null /\ seen.volume \in Rows(u.volumes) => u.volumes[seen.volume].name = call.name
             /\ call.volume # Null => call.volume = seen.volume
  <2>1. seen.volume \in VolumesFor(call, t) /\ seen.volume \in Rows(t.volumes)
    BY <1>1, OneRow
  <2> HIDE DEF seen
  <2> QED
    BY <2>1 DEF Fresh, VolumesFor, VolumeCalled, VolumesOf
<1>2. ASSUME seen.pool # Null
      PROVE  /\ seen.pool <= ids.pools
             /\ call.pool = Null /\ seen.pool \in Rows(u.pools) => u.pools[seen.pool].name = call.group
             /\ call.pool # Null => call.pool = seen.pool
  <2>1. seen.pool \in PoolsFor(call, t) /\ seen.pool \in Rows(t.pools)
    BY <1>2, OneRow
  <2> HIDE DEF seen
  <2> QED
    BY <2>1 DEF Fresh, PoolsFor, PoolCalled, PoolsOf
<1> HIDE DEF seen
<1> QED
  BY <1>1, <1>2 DEF Placed, seen

-----------------------------------------------------------------------------
\* What a request has looked up it keeps, until its last call.
LEMMA ForeseenNext ==
  ASSUME NEW calls \in Seq(GoodCall), NEW keeps, Shape(calls, keeps), NEW at \in 1..Len(calls),
         NEW t \in TableSet, NEW w, NEW R, Foreseen(calls, at, t, R),
         calls[at].do = "find_none" => w = t /\ ~Refused(calls[at], t) /\ Sound(t, R),
         at > 1 /\ calls[at].do # "create_mapping" => w.maps = t.maps /\ w.volumes = t.volumes
  PROVE  Foreseen(calls, at + 1, w, R)
<1> DEFINE call == calls[1]
<1>1. at \in Nat /\ Len(calls) \in Nat /\ call \in GoodCall /\ CallShape(calls, 1) /\ CallShape(calls, at)
  BY DEF Shape
<1>2. ASSUME call.do = "find_none", at + 1 \in 2..Len(calls), call.host \notin R, call.name \notin R,
             NEW v \in VolumeCalled(w, call.name, call.array)
      PROVE  w.maps[<<call.host, v>>] = 0
  <2>1. CASE at = 1
    <3>1. call.volume = Null /\ call.host \in Hosts
      BY <1>1, <1>2 DEF CallShape, GoodCall, PairCalls
    <3>2. w = t /\ ~Refused(call, t) /\ Sound(t, R)
      BY <1>2, <2>1
    <3>3. \E x \in VolumesFor(call, t) : ~(t.maps[<<call.host, x>>] > 0)
      BY <1>2, <3>2, NoneFound
    <3>4. v \in VolumesFor(call, t) /\ v \in Volumes
      BY <1>2, <3>1, <3>2 DEF VolumesFor, VolumeCalled, VolumesOf, Rows, TableSet
    <3>5. \A x \in VolumesFor(call, t) : x = v
      BY <1>1, <1>2, <3>2, <3>4, OneRow
    <3>6. ~(t.maps[<<call.host, v>>] > 0)
      BY <3>3, <3>5
    <3> QED
      BY <3>1, <3>2, <3>4, <3>6 DEF TableSet
  <2>2. CASE at > 1
    <3>1. calls[at].do # "create_mapping" /\ at \in 2..Len(calls)
      BY <1>1, <1>2, <2>2 DEF CallShape
    <3>2. w.maps = t.maps /\ w.volumes = t.volumes
      BY <2>2, <3>1
    <3> QED
      BY <1>2, <3>1, <3>2 DEF Foreseen, VolumeCalled, VolumesOf
  <2> QED
    BY <1>1, <2>1, <2>2
<1>3. at + 1 # 1
  BY <1>1
<1> QED
  BY <1>2, <1>3 DEF Foreseen

\* The ports asked for grow call by call.
LEMMA WantedNext ==
  ASSUME NEW calls \in Seq(GoodCall), NEW keeps, Shape(calls, keeps), NEW n \in 1..Len(calls),
         NEW asked, NEW h \in Hosts
  PROVE  /\ calls[n].do \notin PortCalls \/ calls[n].host # h =>
              WantedUpTo(calls, n, asked)[h] = WantedUpTo(calls, n - 1, asked)[h]
         /\ calls[n].do = "add_host_port" /\ calls[n].host = h =>
              WantedUpTo(calls, n, asked)[h] = WantedUpTo(calls, n - 1, asked)[h] \cup calls[n].ports
         /\ calls[n].do \in PortCalls \ {"add_host_port"} /\ calls[n].host = h =>
              WantedUpTo(calls, n, asked)[h] = calls[n].ports
<1> DEFINE call == calls[n]
           before == AsksPorts(calls, n - 1, h)
           upto == AsksPorts(calls, n, h)
<1>1. n \in Nat /\ CallShape(calls, n) /\ \A i \in 1..n : i \in 1..(n - 1) \/ i = n
  BY DEF Shape
<1>2. upto = before \cup {c \in {call} : c.host = h /\ c.do \in PortCalls}
  <2>1. 1..n = (1..(n - 1)) \cup {n}
    BY <1>1
  <2> QED
    BY <2>1 DEF AsksPorts
<1>3. /\ WantedUpTo(calls, n, asked)[h] =
           (IF \E c \in upto : c.do # "add_host_port" THEN {} ELSE asked[h]) \cup UNION {c.ports : c \in upto}
      /\ WantedUpTo(calls, n - 1, asked)[h] =
           (IF \E c \in before : c.do # "add_host_port" THEN {} ELSE asked[h]) \cup UNION {c.ports : c \in before}
  BY DEF WantedUpTo
<1>4. CASE call.do \notin PortCalls \/ call.host # h
  <2>1. upto = before
    BY <1>2, <1>4
  <2> QED
    BY <1>3, <1>4, <2>1 DEF PortCalls
<1>5. CASE call.do = "add_host_port" /\ call.host = h
  <2>1. upto = before \cup {call}
    BY <1>2, <1>5 DEF PortCalls
  <2>2. UNION {c.ports : c \in upto} = (UNION {c.ports : c \in before}) \cup call.ports
    BY <2>1
  <2>3. (\E c \in upto : c.do # "add_host_port") <=> (\E c \in before : c.do # "add_host_port")
    BY <1>5, <2>1
  <2> HIDE DEF before, upto
  <2>4. WantedUpTo(calls, n, asked)[h] = WantedUpTo(calls, n - 1, asked)[h] \cup call.ports
    BY <1>3, <2>2, <2>3
  <2> QED
    BY <1>5, <2>4 DEF PortCalls
<1>6. CASE call.do \in PortCalls \ {"add_host_port"} /\ call.host = h
  <2>1. n = 1
    BY <1>1, <1>6 DEF CallShape, PortCalls
  <2>2. 1..(n - 1) = {}
    BY <2>1
  <2>3. before = {}
    BY <2>2 DEF AsksPorts
  <2>4. upto = {call}
    BY <1>2, <1>6, <2>3
  <2>5. \E c \in upto : c.do # "add_host_port"
    BY <1>6, <2>4
  <2> QED
    BY <1>3, <1>6, <2>4, <2>5
<1> QED
  BY <1>4, <1>5, <1>6

LEMMA WantedElsewhere ==
  ASSUME NEW calls \in Seq(GoodCall), NEW t, NEW n \in 0..Len(calls), NEW asked,
         NEW h \in Hosts, h \notin AboutIn(calls, t) \/ n = 0
  PROVE  WantedUpTo(calls, n, asked)[h] = asked[h]
<1>1. AsksPorts(calls, n, h) = {}
  <2>1. CASE n = 0
    BY <2>1 DEF AsksPorts
  <2>2. CASE h \notin AboutIn(calls, t)
    <3>1. ASSUME NEW i \in 1..n, calls[i].host = h PROVE FALSE
      <4>1. i \in DOMAIN calls /\ h # Null
        BY Nulls
      <4>2. h \in Called(calls[i], t)
        BY <3>1, <4>1 DEF Called
      <4> QED
        BY <2>2, <4>1, <4>2 DEF AboutIn
    <3> QED
      BY <3>1 DEF AsksPorts
  <2> QED
    BY <2>1, <2>2
<1> QED
  BY <1>1 DEF WantedUpTo

\* A host's ports are those asked for, after the call as before it.
LEMMA WantedWritten ==
  ASSUME NEW calls \in Seq(GoodCall), NEW keeps, Shape(calls, keeps), NEW at \in 1..Len(calls),
         NEW u \in TableSet, NEW R, NEW asked, NEW seen, Checked(calls[at], seen, u, R),
         ~Conflict(calls[at], seen, u),
         calls[at].do # "find_none", AsWanted(u, WantedUpTo(calls, at - 1, asked), R)
  PROVE  AsWanted(Written(calls[at], seen, u), WantedUpTo(calls, at, asked), R)
<1> DEFINE call == calls[at]
           w == Written(call, seen, u)
<1>1. call \in GoodCall
  OBVIOUS
<1>2. CASE call.do \notin PortCalls
  <2>1. w.hosts = u.hosts /\ w.ports = u.ports
    BY <1>1, <1>2 DEF Written, ArrayAdded, ArrayDeleted, EndpointAdded, PoolAdded, PoolDeleted, PoolMoved,
            VolumeAdded, VolumeDeleted, MappingAdded, MappingDeleted, TableSet, PortCalls,
            GoodCall, ArrayCalls, PoolCalls, HostCalls, VolumeCalls, PairCalls
  <2>2. \A h \in u.hosts : h \in Hosts
    BY DEF TableSet
  <2> HIDE DEF w
  <2> QED
    BY <1>2, <2>1, <2>2, WantedNext DEF AsWanted, w
<1>3. CASE call.do \in PortCalls
  <2>1. call.host \in Hosts
    BY <1>1, <1>3 DEF GoodCall, PortCalls, HostCalls
  <2>2. \A h \in Hosts \ {call.host} : (h \in w.hosts <=> h \in u.hosts) /\ w.ports[h] = u.ports[h]
    <3>1. OnlyHost(u, w, call.host)
      BY <1>3, <2>1, WrittenOnHost, HostWritten DEF PortCalls
    <3> QED
      BY <3>1 DEF OnlyHost
  <2>3. /\ w.hosts \subseteq Hosts
        /\ call.do = "create_host" => w.ports[call.host] = call.ports
        /\ call.do \in {"add_host_port", "update_host"} => w.hosts = u.hosts /\ w.ports[call.host] = seen.ports
        /\ call.do = "delete_host" => call.host \notin w.hosts
    <3>1. u.hosts \subseteq Hosts
      BY DEF TableSet
    <3> QED
      <4>1. CASE call.do = "create_host"
        BY <2>1, <3>1, <4>1, WrittenOnHost, HostFields
      <4>2. CASE call.do \in {"add_host_port", "update_host"}
        BY <2>1, <3>1, <4>2, WrittenOnHost, HostFields
      <4>3. CASE call.do = "delete_host"
        BY <2>1, <3>1, <4>3, WrittenOnHost, HostGone
      <4> QED
        BY <1>3, <4>1, <4>2, <4>3 DEF PortCalls
  <2> HIDE DEF w
  <2>4. ASSUME NEW h \in w.hosts \ R, h # call.host
        PROVE  w.ports[h] = WantedUpTo(calls, at, asked)[h]
    BY <2>2, <2>3, <2>4, WantedNext DEF AsWanted
  <2>5. ASSUME call.host \in w.hosts \ R
        PROVE  w.ports[call.host] = WantedUpTo(calls, at, asked)[call.host]
    <3>1. CASE call.do = "create_host"
      BY <2>1, <2>3, <3>1, WantedNext DEF PortCalls
    <3>2. CASE call.do = "update_host"
      BY <2>1, <2>3, <3>2, WantedNext DEF PortCalls, Checked, CheckedHost
    <3>3. CASE call.do = "add_host_port"
      <4>1. u.ports[call.host] = WantedUpTo(calls, at - 1, asked)[call.host]
        BY <2>3, <2>5, <3>3 DEF AsWanted
      <4>2. seen.ports = u.ports[call.host] \cup call.ports
        BY <2>5, <3>3 DEF Checked, CheckedHost
      <4>3. WantedUpTo(calls, at, asked)[call.host]
              = WantedUpTo(calls, at - 1, asked)[call.host] \cup call.ports
        BY <2>1, <3>3, WantedNext
      <4> QED
        BY <2>3, <3>3, <4>1, <4>2, <4>3
    <3> QED
      BY <1>3, <2>3, <2>5, <3>1, <3>2, <3>3 DEF PortCalls
  <2> QED
    BY <2>4, <2>5 DEF AsWanted, w
<1> QED
  BY <1>2, <1>3

LEMMA WantedUnwritten ==
  ASSUME NEW calls \in Seq(GoodCall), NEW keeps, Shape(calls, keeps), NEW at \in 1..Len(calls),
         NEW u \in TableSet, NEW R, NEW asked, NothingToWrite(calls[at], u),
         AsWanted(u, WantedUpTo(calls, at - 1, asked), R)
  PROVE  AsWanted(u, WantedUpTo(calls, at, asked), R)
<1> DEFINE call == calls[at]
<1> SUFFICES ASSUME NEW h \in u.hosts \ R
             PROVE  u.ports[h] = WantedUpTo(calls, at, asked)[h]
  BY DEF AsWanted
<1>1. h \in Hosts /\ u.ports[h] = WantedUpTo(calls, at - 1, asked)[h]
  BY DEF TableSet, AsWanted
<1>2. CASE call.do \notin PortCalls \/ call.host # h
  BY <1>1, <1>2, WantedNext
<1>3. CASE call.do = "add_host_port" /\ call.host = h
  <2>1. call.ports \subseteq u.ports[h]
    BY <1>3 DEF NothingToWrite
  <2>2. WantedUpTo(calls, at, asked)[h] = WantedUpTo(calls, at - 1, asked)[h] \cup call.ports
    BY <1>1, <1>3, WantedNext
  <2> QED
    BY <1>1, <2>1, <2>2
<1>4. CASE call.do = "update_host" /\ call.host = h
  <2>1. call.ports = u.ports[h]
    BY <1>4 DEF NothingToWrite
  <2> QED
    BY <1>1, <1>4, <2>1, WantedNext DEF PortCalls
<1> QED
  BY <1>2, <1>3, <1>4 DEF PortCalls, NothingToWrite

-----------------------------------------------------------------------------
\* The rows of t that are not new come from a or b, under their names.
Descends(t, a, b, ids) ==
  /\ \A p \in Rows(t.pools) :
       p <= ids.pools => \E s \in {a, b} : p \in Rows(s.pools) /\ s.pools[p].name = t.pools[p].name
  /\ \A v \in Rows(t.volumes) :
       v <= ids.volumes => \E s \in {a, b} : v \in Rows(s.volumes) /\ s.volumes[v].name = t.volumes[v].name

LEMMA WrittenDescends ==
  ASSUME TypeInv, NEW u \in TableSet, NEW call \in GoodCall, NEW seen, Found(call, seen),
         ~Conflict(call, seen, u), NEW a, NEW b, u \in {a, b}
  PROVE  Descends(Written(call, seen, u), a, b, issued)
<1> DEFINE w == Written(call, seen, u)
<1>1. issued.pools \in Nat /\ issued.volumes \in Nat
  BY DEF TypeInv
<1>2. \A p \in Rows(w.pools) : p <= issued.pools => p \in Rows(u.pools) /\ w.pools[p].name = u.pools[p].name
  <2>1. CASE call.do \notin PoolCalls
    <3>1. w.pools = u.pools
      BY <2>1 DEF Written, ArrayAdded, ArrayDeleted, EndpointAdded, HostAdded, HostPortsWritten, HostDeleted,
            VolumeAdded, VolumeDeleted, MappingAdded, MappingDeleted, TableSet, PoolCalls, Found,
            GoodCall, ArrayCalls, HostCalls, VolumeCalls, PairCalls
    <3> HIDE DEF w
    <3> QED
      BY <3>1
  <2>2. CASE call.do = "create_pool"
    <3> DEFINE row == [name |-> call.group, array |-> call.array]
    <3>1. w.pools = [u.pools EXCEPT ![issued.pools + 1] = row]
      BY <2>2 DEF Written, PoolAdded, TableSet
    <3> HIDE DEF w
    <3> QED
      BY <1>1, <3>1 DEF Rows, TableSet
  <2>3. CASE call.do = "delete_pool"
    <3>1. w.pools = [u.pools EXCEPT ![call.pool] = Null]
      BY <2>3 DEF Written, PoolDeleted, TableSet
    <3> HIDE DEF w
    <3> QED
      BY <3>1 DEF Rows, TableSet
  <2>4. CASE call.do \in {"attach_pool", "detach_pool"}
    <3>1. PICK to : w.pools = [u.pools EXCEPT ![call.pool] = [u.pools[call.pool] EXCEPT !.array = to]]
      BY <2>4 DEF Written, PoolMoved, TableSet
    <3>2. call.pool \in Pools /\ u.pools[call.pool] \in PoolRow /\ u.pools[call.pool] # Null
      BY <2>4, Nulls DEF Conflict, GoodCall, PoolCalls, TableSet
    <3>3. w.pools[call.pool].name = u.pools[call.pool].name
      BY <3>1, <3>2 DEF TableSet, PoolRow
    <3> HIDE DEF w
    <3> QED
      BY <3>1, <3>2, <3>3 DEF Rows, TableSet
  <2> QED
    BY <2>1, <2>2, <2>3, <2>4 DEF PoolCalls
<1>3. \A v \in Rows(w.volumes) :
        v <= issued.volumes => v \in Rows(u.volumes) /\ w.volumes[v].name = u.volumes[v].name
  <2>1. CASE call.do \notin VolumeCalls
    <3>1. w.volumes = u.volumes
      BY <2>1 DEF Written, ArrayAdded, ArrayDeleted, EndpointAdded, HostAdded, HostPortsWritten, HostDeleted,
            PoolAdded, PoolDeleted, PoolMoved, MappingAdded, MappingDeleted, TableSet, PoolCalls, Found,
            GoodCall, ArrayCalls, HostCalls, VolumeCalls, PairCalls
    <3> HIDE DEF w
    <3> QED
      BY <3>1
  <2>2. CASE call.do = "create_volume"
    <3> DEFINE row == [name |-> call.name, pool |-> seen.pool, array |-> seen.array, status |-> "creating"]
    <3>1. w.volumes = [u.volumes EXCEPT ![issued.volumes + 1] = row]
      BY <2>2 DEF Written, VolumeAdded, TableSet
    <3> HIDE DEF w
    <3> QED
      BY <1>1, <3>1 DEF Rows, TableSet
  <2>3. CASE call.do = "delete_volume"
    <3>1. w.volumes = [u.volumes EXCEPT ![seen.volume] = Null]
      BY <2>3, VolumeGone
    <3> HIDE DEF w
    <3> QED
      BY <3>1 DEF Rows, TableSet
  <2> QED
    BY <2>1, <2>2, <2>3 DEF VolumeCalls
<1> HIDE DEF w
<1> QED
  BY <1>2, <1>3 DEF Descends, w

\* The ids of calls, and the names they are about, as tables change.
LEMMA AskedStays ==
  ASSUME NEW call \in GoodCall, NEW t, NEW live, NEW ids \in [pools : Nat, volumes : Nat], NEW R,
         Asked(call, t, live, ids, R), NEW t2, NEW live2, NEW ids2 \in [pools : Nat, volumes : Nat],
         ids.pools <= ids2.pools, ids.volumes <= ids2.volumes,
         t2 = t \/ live2 = t2, Descends(live2, t, live, ids),
         call.pool \in Rows(t.pools) => call.pool \in Rows(t2.pools) \/ R \cap PoolNames # {}
  PROVE  Asked(call, t2, live2, ids2, R)
<1>1. ASSUME call.pool # Null
      PROVE  /\ call.pool <= ids2.pools
             /\ call.pool \in Rows(live2.pools) => call.pool \in Rows(t2.pools)
             /\ call.pool \in Rows(t2.pools) \/ R \cap PoolNames # {}
  <2>1. call.pool \in Nat /\ call.pool <= ids.pools
    BY <1>1, TablesAssumption DEF GoodCall, Pools, Asked
  <2>2. call.pool <= ids2.pools
    BY <2>1
  <2>3. call.pool \in Rows(live2.pools) => call.pool \in Rows(t2.pools)
    BY <1>1, <2>1 DEF Asked, Descends
  <2> QED
    BY <1>1, <2>2, <2>3 DEF Asked
<1>2. ASSUME call.volume # Null
      PROVE  /\ call.volume <= ids2.volumes
             /\ call.volume \in Rows(live2.volumes) => call.volume \in Rows(t2.volumes)
  <2>1. call.volume \in Nat /\ call.volume <= ids.volumes
    BY <1>2, TablesAssumption DEF GoodCall, Volumes, Asked
  <2>2. call.volume <= ids2.volumes
    BY <2>1
  <2>3. call.volume \in Rows(live2.volumes) => call.volume \in Rows(t2.volumes)
    BY <1>2, <2>1 DEF Asked, Descends
  <2> QED
    BY <1>2, <2>2, <2>3
<1> QED
  BY <1>1, <1>2 DEF Asked

LEMMA PlacedStays ==
  ASSUME NEW call, NEW seen \in SeenSet, NEW a, NEW b, NEW ids \in [pools : Nat, volumes : Nat],
         Placed(call, seen, a, ids), Placed(call, seen, b, ids),
         NEW t, Descends(t, a, b, ids), NEW ids2 \in [pools : Nat, volumes : Nat],
         ids.pools <= ids2.pools, ids.volumes <= ids2.volumes
  PROVE  Placed(call, seen, t, ids2)
<1>1. ASSUME seen.volume # Null
      PROVE  /\ seen.volume <= ids2.volumes
             /\ call.volume = Null /\ seen.volume \in Rows(t.volumes) => t.volumes[seen.volume].name = call.name
             /\ call.volume # Null => call.volume = seen.volume
  <2>1. seen.volume \in Nat /\ seen.volume <= ids.volumes
    BY <1>1, TablesAssumption DEF SeenSet, Volumes, Placed
  <2>2. seen.volume <= ids2.volumes
    BY <2>1
  <2> QED
    BY <1>1, <2>1, <2>2 DEF Placed, Descends
<1>2. ASSUME seen.pool # Null
      PROVE  /\ seen.pool <= ids2.pools
             /\ call.pool = Null /\ seen.pool \in Rows(t.pools) => t.pools[seen.pool].name = call.group
             /\ call.pool # Null => call.pool = seen.pool
  <2>1. seen.pool \in Nat /\ seen.pool <= ids.pools
    BY <1>2, TablesAssumption DEF SeenSet, Pools, Placed
  <2>2. seen.pool <= ids2.pools
    BY <2>1
  <2> QED
    BY <1>2, <2>1, <2>2 DEF Placed, Descends
<1> QED
  BY <1>1, <1>2 DEF Placed

LEMMA AboutShrinks ==
  ASSUME NEW t \in TableSet, NEW live, NEW N, Agree(t, live, N),
         NEW ids, NEW R, NEW calls \in Seq(GoodCall),
         \A i \in DOMAIN calls : Asked(calls[i], t, live, ids, R),
         NEW t2 \in TableSet, Descends(t2, t, live, ids)
  PROVE  AboutIn(calls, t2) \subseteq AboutIn(calls, t)
<1> SUFFICES ASSUME NEW i \in DOMAIN calls
             PROVE  Called(calls[i], t2) \subseteq Called(calls[i], t)
  BY DEF AboutIn
<1> DEFINE call == calls[i]
<1>1. call \in GoodCall /\ Asked(call, t, live, ids, R)
  OBVIOUS
<1>2. ASSUME call.pool \in Rows(t2.pools), call.pool # Null
      PROVE  call.pool \in Rows(t.pools) /\ t.pools[call.pool].name = t2.pools[call.pool].name
  <2>1. PICK s \in {t, live} : call.pool \in Rows(s.pools) /\ s.pools[call.pool].name = t2.pools[call.pool].name
    BY <1>1, <1>2 DEF Asked, Descends
  <2>2. call.pool \in Rows(t.pools)
    BY <1>1, <1>2, <2>1 DEF Asked
  <2> QED
    BY <2>1, <2>2 DEF Agree, SamePools
<1>3. ASSUME call.volume \in Rows(t2.volumes), call.volume # Null
      PROVE  call.volume \in Rows(t.volumes) /\ t.volumes[call.volume].name = t2.volumes[call.volume].name
  <2>1. PICK s \in {t, live} : /\ call.volume \in Rows(s.volumes)
                               /\ s.volumes[call.volume].name = t2.volumes[call.volume].name
    BY <1>1, <1>3 DEF Asked, Descends
  <2>2. call.volume \in Rows(t.volumes)
    BY <1>1, <1>3, <2>1 DEF Asked
  <2> QED
    BY <2>1, <2>2 DEF Agree, SameVolumes
<1>4. Null \notin Rows(t2.pools) /\ Null \notin Rows(t2.volumes)
  BY Nulls DEF Rows, TableSet
<1> HIDE DEF call
<1>5. {t2.pools[p].name : p \in {call.pool} \cap Rows(t2.pools)}
        \subseteq {t.pools[p].name : p \in {call.pool} \cap Rows(t.pools)}
  BY <1>2, <1>4
<1>6. {t2.volumes[v].name : v \in {call.volume} \cap Rows(t2.volumes)}
        \subseteq {t.volumes[v].name : v \in {call.volume} \cap Rows(t.volumes)}
  BY <1>3, <1>4
<1> QED
  BY <1>5, <1>6 DEF Called, call

-----------------------------------------------------------------------------
\* What a request does that commits or fails, to a request that does not write.
LEMMA FitsStands ==
  ASSUME NEW q \in RequestSet, NEW t \in TableSet, NEW live,
         NEW ids \in [pools : Nat, volumes : Nat], NEW R, NEW asked,
         Fits(q, t, live, t, ids, R, asked), q.step # "provision",
         q.at \in 1..(Len(q.calls) + 1),
         q.step = "write" => q.at <= Len(q.calls) /\ Found(q.calls[q.at], q.seen),
         NEW N, N \cap AboutIn(q.calls, t) \subseteq R, NEW t2 \in TableSet, Agree(t, t2, N),
         NEW live2, NEW ids2 \in [pools : Nat, volumes : Nat],
         ids.pools <= ids2.pools, ids.volumes <= ids2.volumes,
         t2 = t \/ live2 = t2, Descends(t2, t, live, ids), Descends(live2, t, live, ids),
         NEW asked2, AsWanted(t2, asked2, R), \A h \in Hosts \ N : asked2[h] = asked[h]
  PROVE  Fits(q, t2, live2, t2, ids2, R, asked2)
<1> DEFINE k == q.calls[q.at]
<1>1. q.calls \in Seq(GoodCall) /\ Shape(q.calls, q.keeps)
  BY DEF RequestSet, Fits
<1>2. ASSUME NEW i \in DOMAIN q.calls
      PROVE  /\ Asked(q.calls[i], t2, live2, ids2, R) /\ Asked(q.calls[i], t, live, ids, R)
             /\ q.calls[i] \in GoodCall /\ N \cap Called(q.calls[i], t) \subseteq R
  <2>1. Asked(q.calls[i], t, live, ids, R) /\ q.calls[i] \in GoodCall
    BY <1>1 DEF Fits
  <2>2. N \cap Called(q.calls[i], t) \subseteq R
    BY DEF AboutIn
  <2>3. q.calls[i].pool \in Rows(t.pools) =>
          q.calls[i].pool \in Rows(t2.pools) \/ R \cap PoolNames # {}
    <3>1. SUFFICES ASSUME q.calls[i].pool \in Rows(t.pools), R \cap PoolNames = {}
                   PROVE  q.calls[i].pool \in Rows(t2.pools)
      OBVIOUS
    <3>2. t.pools[q.calls[i].pool].name \in PoolNames
      BY <3>1 DEF Rows, TableSet, PoolRow
    <3>3. t.pools[q.calls[i].pool].name \in Called(q.calls[i], t)
      BY <3>1, <3>2, CalledPool, Nulls
    <3>4. t2.pools[q.calls[i].pool] = t.pools[q.calls[i].pool]
      BY <2>2, <3>1, <3>2, <3>3 DEF Agree, SamePools
    <3> QED
      BY <3>1, <3>4 DEF Rows, TableSet
  <2> QED
    BY <2>1, <2>2, <2>3, AskedStays
<1>3. ASSUME q.step = "write"
      PROVE  /\ Placed(k, q.seen, t2, ids2) /\ Placed(k, q.seen, live2, ids2)
             /\ Checked(k, q.seen, t2, R)
  <2>1. q.at \in DOMAIN q.calls /\ Found(k, q.seen) /\ k \in GoodCall
    BY <1>1, <1>3
  <2>2. Placed(k, q.seen, t, ids) /\ Placed(k, q.seen, live, ids) /\ Checked(k, q.seen, t, R)
    BY <1>3 DEF Fits
  <2>3. Asked(k, t, live, ids, R) /\ N \cap Called(k, t) \subseteq R
    BY <1>2, <2>1
  <2>4. k.do \in OnArrays => k.name = Null /\ k.volume = Null
    BY <1>1, <2>1 DEF Shape, CallShape
  <2>5. q.seen \in SeenSet
    BY <2>1 DEF Found
  <2> HIDE DEF k
  <2> QED
    BY <2>1, <2>2, <2>3, <2>4, <2>5, PlacedStays, CheckedStands
<1>4. ASSUME q.step # "idle"
      PROVE  /\ q.calls # <<>> /\ Foreseen(q.calls, q.at, t2, R)
             /\ AsWanted(t2, WantedUpTo(q.calls, q.at - 1, asked2), R)
  <2>1. q.calls # <<>> /\ Foreseen(q.calls, q.at, t, R)
        /\ AsWanted(t, WantedUpTo(q.calls, q.at - 1, asked), R)
    BY <1>4 DEF Fits
  <2>2. 1 \in DOMAIN q.calls
    BY <1>1, <2>1
  <2>3. Foreseen(q.calls, q.at, t2, R)
    BY <1>1, <1>2, <2>1, <2>2, ForeseenStands DEF Shape
  <2>4. ASSUME NEW h \in t2.hosts \ R
        PROVE  t2.ports[h] = WantedUpTo(q.calls, q.at - 1, asked2)[h]
    <3>1. h \in Hosts /\ q.at - 1 \in 0..Len(q.calls) /\ t2.ports[h] = asked2[h]
      BY <2>4 DEF TableSet, AsWanted, RequestSet
    <3>2. CASE h \notin AboutIn(q.calls, t)
      <4>1. q.calls \in Seq(GoodCall) /\ h \in Hosts /\ q.at - 1 \in 0..Len(q.calls)
        BY <1>1, <3>1
      <4> DEFINE n == q.at - 1
      <4> HIDE DEF n
      <4>2. WantedUpTo(q.calls, n, asked2)[h] = asked2[h]
        BY <3>2, <4>1, WantedElsewhere DEF n
      <4> QED
        BY <3>1, <4>2 DEF n
    <3>3. CASE h \in AboutIn(q.calls, t)
      <4>1. h \notin N
        BY <2>4, <3>3
      <4>2. h \in t.hosts /\ t2.ports[h] = t.ports[h] /\ asked2[h] = asked[h]
        BY <2>4, <3>1, <4>1 DEF Agree, SameHosts
      <4>3. t.ports[h] = WantedUpTo(q.calls, q.at - 1, asked)[h]
        BY <2>1, <2>4, <4>2 DEF AsWanted
      <4> QED
        BY <3>1, <4>2, <4>3 DEF WantedUpTo
    <3> QED
      BY <3>2, <3>3
  <2> QED
    BY <2>1, <2>3, <2>4 DEF AsWanted
<1> QED
  BY <1>1, <1>2, <1>3, <1>4 DEF Fits

\* And to one that writes, or when nothing is written.
LEMMA FitsWhenAsked ==
  ASSUME NEW q \in RequestSet, NEW t \in TableSet, NEW live, NEW v \in TableSet, NEW ids, NEW R, NEW asked,
         Fits(q, t, live, v, ids, R, asked), q.at \in 1..(Len(q.calls) + 1),
         Agree(t, v, AboutIn(q.calls, t)),
         NEW N, N \cap AboutIn(q.calls, t) \subseteq R,
         NEW asked2, AsWanted(t, asked2, R), \A h \in Hosts \ N : asked2[h] = asked[h]
  PROVE  Fits(q, t, live, v, ids, R, asked2)
<1> SUFFICES ASSUME q.step # "idle", NEW h \in v.hosts \ R
             PROVE  v.ports[h] = WantedUpTo(q.calls, q.at - 1, asked2)[h]
  BY DEF Fits, AsWanted
<1>1. h \in Hosts /\ q.at - 1 \in 0..Len(q.calls) /\ q.calls \in Seq(GoodCall)
  BY DEF TableSet, RequestSet
<1>2. v.ports[h] = WantedUpTo(q.calls, q.at - 1, asked)[h]
  BY DEF Fits, AsWanted
<1>3. CASE h \notin N
  <2>1. asked2[h] = asked[h]
    BY <1>1, <1>3
  <2> QED
    BY <1>1, <1>2, <2>1 DEF WantedUpTo
<1>4. CASE h \in N
  <2>1. h \notin AboutIn(q.calls, t)
    BY <1>4
  <2>2. h \in t.hosts /\ v.ports[h] = t.ports[h]
    BY <1>1, <2>1 DEF Agree, SameHosts
  <2>3. t.ports[h] = asked2[h]
    BY <2>2 DEF AsWanted
  <2> QED
    BY <1>1, <2>1, <2>2, <2>3, WantedElsewhere
<1> QED
  BY <1>3, <1>4

LEMMA ViewFacts ==
  ASSUME TypeInv, InventoryInv, NEW c \in Clients
  PROVE  /\ db \in TableSet /\ Live \in TableSet /\ View(c) \in TableSet
         /\ View(c) \in {db, Live} /\ (writer \in {c, Null} => View(c) = Live)
         /\ writer # c => View(c) = db
         /\ Sound(View(c), raced) /\ Fresh(View(c), issued)
         /\ Agree(db, View(c), AboutIn(request[c].calls, db))
         /\ Agree(db, Live, Touched)
         /\ request[c] \in RequestSet /\ RequestOK(c) /\ RequestFits(c)
         /\ request[c].calls \in Seq(GoodCall) /\ Shape(request[c].calls, request[c].keeps)
         /\ \A i \in DOMAIN request[c].calls : Asked(request[c].calls[i], db, Live, issued, raced)
         /\ issued \in [pools : Nat, volumes : Nat]
<1>1. db \in TableSet /\ Live \in TableSet /\ View(c) \in TableSet
  BY DEF TypeInv, Live, View
<1>2. /\ View(c) \in {db, Live} /\ (writer \in {c, Null} => View(c) = Live)
      /\ writer # c => View(c) = db
  BY Nulls DEF View, Live
<1>3. Agree(db, View(c), AboutIn(request[c].calls, db))
  <2>1. CASE writer = c
    BY <2>1, Nulls DEF InventoryInv, View, Live, Touched
  <2>2. CASE writer # c
    BY <1>2, <2>2, AgreesWithItself
  <2> QED
    BY <2>1, <2>2
<1>4. request[c] \in RequestSet /\ request[c].calls \in Seq(GoodCall) /\ RequestOK(c)
  BY DEF TypeInv, RequestSet
<1>5. issued \in [pools : Nat, volumes : Nat]
  BY DEF TypeInv
<1>6. Agree(db, Live, Touched) /\ RequestFits(c)
  BY DEF InventoryInv
<1>7. Sound(View(c), raced) /\ Fresh(View(c), issued)
  BY <1>2 DEF InventoryInv
<1> QED
  BY <1>1, <1>2, <1>3, <1>4, <1>5, <1>6, <1>7 DEF RequestFits, Fits

\* A step of one request, in all.
LEMMA Together ==
  ASSUME TypeInv, TypeInv', InventoryInv, NEW c \in Clients,
         \A d \in Clients \ {c} : request'[d] = request[d],
         request'[c].calls \in {request[c].calls, <<>>}, UNCHANGED raced,
         issued.pools <= issued'.pools, issued.volumes <= issued'.volumes,
         writer \in {c, Null} \/ UNCHANGED <<db, txn, writer, issued>>,
         writer' \in {writer, c, Null},
         db' = db \/ Live' = db',
         Descends(db', db, Live, issued), Descends(Live', db, Live, issued),
         Agree(db, db', AboutIn(request[c].calls, db)),
         Agree(db', Live', Touched'),
         Fresh(db', issued'), Fresh(Live', issued'), Sound(db', raced), Sound(Live', raced),
         AsWanted(db', wanted', raced),
         \A h \in Hosts \ AboutIn(request[c].calls, db) : wanted'[h] = wanted[h],
         RequestFits(c)'
  PROVE  InventoryInv'
<1>1. /\ db' \in TableSet /\ Live' \in TableSet
      /\ issued \in [pools : Nat, volumes : Nat] /\ issued' \in [pools : Nat, volumes : Nat]
  BY DEF TypeInv, Live
<1>2. ASSUME NEW d \in Clients, d # c
      PROVE  RequestFits(d)'
  <2> DEFINE q == request[d]
             N == AboutIn(request[c].calls, db)
  <2>1. q \in RequestSet /\ RequestOK(d) /\ RequestFits(d) /\ db \in TableSet
    BY ViewFacts
  <2>2. N \cap AboutIn(q.calls, db) \subseteq raced
    BY <1>2 DEF InventoryInv
  <2>3. q.at \in 1..(Len(q.calls) + 1) /\ (q.step = "write" => q.at <= Len(q.calls) /\ Found(q.calls[q.at], q.seen))
    BY <2>1 DEF RequestOK, Current
  <2>4. CASE writer # d
    <3>1. writer' # d /\ View(d) = db /\ View(d)' = db' /\ q.step # "provision"
      BY <1>2, <2>1, <2>4, Nulls DEF View, RequestOK
    <3>2. Fits(q, db, Live, db, issued, raced, wanted)
      BY <2>1, <3>1 DEF RequestFits
    <3> HIDE DEF q, N
    <3>3. Fits(q, db', Live', db', issued', raced, wanted')
      BY <1>1, <2>1, <2>2, <2>3, <3>1, <3>2, FitsStands DEF N
    <3> QED
      BY <1>2, <3>1, <3>3 DEF RequestFits, q
  <2>5. CASE writer = d
    <3>1. UNCHANGED <<db, txn, writer, issued>>
      BY <1>2, <2>5, Nulls
    <3>2. /\ View(d) \in TableSet /\ Agree(db, View(d), AboutIn(q.calls, db))
          /\ Fits(q, db, Live, View(d), issued, raced, wanted)
      BY ViewFacts DEF RequestFits
    <3>3. View(d)' = View(d) /\ Live' = Live
      BY <3>1 DEF View, Live
    <3>4. AsWanted(db, wanted', raced)
      BY <3>1
    <3> HIDE DEF q, N
    <3>5. Fits(q, db, Live, View(d), issued, raced, wanted')
      BY <2>1, <2>2, <2>3, <3>2, <3>4, FitsWhenAsked DEF N
    <3> QED
      BY <1>2, <2>1, <3>1, <3>3, <3>5 DEF RequestFits, q
  <2> QED
    BY <2>4, <2>5
<1>3. ASSUME NEW d \in Clients
      PROVE  AboutIn(request'[d].calls, db') \subseteq AboutIn(request[d].calls, db)
  <2>1. AboutIn(request[d].calls, db') \subseteq AboutIn(request[d].calls, db)
    BY <1>1, ViewFacts, AboutShrinks
  <2>2. AboutIn(<<>>, db') = {}
    BY DEF AboutIn
  <2> QED
    BY <2>1, <2>2
<1>4. ASSUME NEW d \in Clients, NEW e \in Clients, d # e
      PROVE  AboutIn(request'[d].calls, db') \cap AboutIn(request'[e].calls, db') \subseteq raced
  BY <1>3, <1>4 DEF InventoryInv
<1> QED
  BY <1>2, <1>4 DEF InventoryInv

-----------------------------------------------------------------------------
LEMMA DescendsFrom ==
  ASSUME NEW t, NEW a, NEW b, t \in {a, b}, NEW ids
  PROVE  Descends(t, a, b, ids)
BY DEF Descends

\* A request is answered, with or without a commit.
LEMMA Ends ==
  ASSUME TypeInv, TypeInv', InventoryInv, NEW c \in Clients, NEW result,
         request' = Ended(c, result),
         writer' = (IF writer = c THEN Null ELSE writer),
         txn' = (IF writer = c THEN NoTables ELSE txn),
         UNCHANGED <<issued, raced>>, writer = c \/ UNCHANGED db,
         Agree(db, db', AboutIn(request[c].calls, db)), Fresh(db', issued), Sound(db', raced),
         Descends(db', db, Live, issued), AsWanted(db', wanted', raced),
         \A h \in Hosts \ AboutIn(request[c].calls, db) : wanted'[h] = wanted[h]
  PROVE  InventoryInv'
<1>1. /\ \A d \in Clients \ {c} : request'[d] = request[d]
      /\ request'[c].calls = <<>> /\ request'[c].keeps = FALSE /\ request'[c].step = "idle"
  BY DEF TypeInv, Ended, Replied, Idle
<1>2. issued.pools <= issued'.pools /\ issued.volumes <= issued'.volumes
  BY DEF TypeInv
<1>3. writer \in {c, Null} \/ UNCHANGED <<db, txn, writer, issued>>
  OBVIOUS
<1>4. /\ db' = db \/ Live' = db'
      /\ Descends(Live', db, Live, issued) /\ Agree(db', Live', Touched')
      /\ Fresh(Live', issued) /\ Sound(Live', raced)
  <2>1. CASE writer \in {c, Null}
    <3>1. Live' = db' /\ Touched' = {}
      BY <2>1, Nulls DEF Live, Touched
    <3> QED
      BY <3>1, AgreesWithItself
  <2>2. CASE writer \notin {c, Null}
    <3>1. /\ Live' = Live /\ db' = db /\ writer' = writer /\ writer \in Clients \ {c}
      BY <2>2, Nulls DEF Live, TypeInv
    <3>2. Touched' = Touched
      BY <1>1, <2>2, <3>1 DEF Touched
    <3> QED
      BY <3>1, <3>2, DescendsFrom DEF InventoryInv
  <2> QED
    BY <2>1, <2>2
<1>5. RequestFits(c)'
  <2>1. Fits(request'[c], db', Live', View(c)', issued', raced', wanted')
    BY <1>1 DEF Fits, Shape
  <2> QED
    BY <1>1, <2>1 DEF RequestFits
<1> QED
  BY <1>1, <1>2, <1>3, <1>4, <1>5, Together

LEMMA FailInventory ==
  ASSUME TypeInv, TypeInv', InventoryInv, NEW c \in Clients, Fail(c),
         UNCHANGED <<db, issued, raced, wanted>>
  PROVE  InventoryInv'
<1>1. /\ Agree(db, db', AboutIn(request[c].calls, db)) /\ Descends(db', db, Live, issued)
      /\ Fresh(db', issued) /\ Sound(db', raced) /\ AsWanted(db', wanted', raced)
  BY AgreesWithItself, DescendsFrom DEF InventoryInv
<1> QED
  BY <1>1, Ends DEF Fail

\* A step that changes no table.
LEMMA Stays ==
  ASSUME TypeInv, TypeInv', InventoryInv, NEW c \in Clients,
         \A d \in Clients \ {c} : request'[d] = request[d],
         request'[c].calls = request[c].calls,
         UNCHANGED <<db, txn, writer, issued, raced, wanted>>, RequestFits(c)'
  PROVE  InventoryInv'
<1>1. Live' = Live
  BY DEF Live
<1>2. Touched' = Touched
  <2>1. writer # Null => request'[writer].calls = request[writer].calls
    BY DEF TypeInv
  <2> QED
    BY <2>1 DEF Touched
<1>3. issued.pools <= issued'.pools /\ issued.volumes <= issued'.volumes
  BY DEF TypeInv
<1>4. Descends(db', db, Live, issued) /\ Descends(Live', db, Live, issued)
  BY <1>1, DescendsFrom
<1>5. writer \in {c, Null} \/ UNCHANGED <<db, txn, writer, issued>>
  OBVIOUS
<1> QED
  BY <1>1, <1>2, <1>3, <1>4, <1>5, AgreesWithItself, Together DEF InventoryInv

\* A request that goes on to its next call.
LEMMA OnwardFits ==
  ASSUME NEW q, NEW next, NEW t, NEW live, NEW v, NEW ids, NEW R, NEW asked,
         next.step = "check", next.calls = q.calls, next.keeps = q.keeps, next.at = q.at + 1,
         q.at \in Nat, q.calls # <<>>, Shape(q.calls, q.keeps),
         \A i \in DOMAIN q.calls : Asked(q.calls[i], t, live, ids, R),
         Foreseen(q.calls, q.at + 1, v, R), AsWanted(v, WantedUpTo(q.calls, q.at, asked), R)
  PROVE  Fits(next, t, live, v, ids, R, asked)
<1>1. next.at - 1 = q.at
  OBVIOUS
<1> QED
  BY <1>1 DEF Fits

LEMMA CheckInventory ==
  ASSUME TypeInv, TypeInv', InventoryInv, NEW c \in Clients, Check(c)
  PROVE  InventoryInv'
<1> DEFINE q == request[c]
           k == Current(c)
           V == View(c)
<1>1. /\ V \in TableSet /\ Sound(V, raced) /\ Fresh(V, issued) /\ V \in {db, Live}
      /\ q \in RequestSet /\ RequestOK(c) /\ RequestFits(c)
      /\ q.calls \in Seq(GoodCall) /\ Shape(q.calls, q.keeps)
      /\ \A i \in DOMAIN q.calls : Asked(q.calls[i], db, Live, issued, raced)
  BY ViewFacts
<1>2. q.step = "check" /\ q.at \in 1..Len(q.calls) /\ k = q.calls[q.at] /\ k \in GoodCall
  BY <1>1 DEF Check, RequestOK, Current
<1>3. /\ q.calls # <<>> /\ Foreseen(q.calls, q.at, V, raced)
      /\ AsWanted(V, WantedUpTo(q.calls, q.at - 1, wanted), raced)
  <2>1. Fits(q, db, Live, V, issued, raced, wanted) /\ q.step # "idle"
    BY <1>1, <1>2 DEF RequestFits
  <2> HIDE DEF q, V
  <2> QED
    BY <2>1, FitsActive
<1>4. CallShape(q.calls, q.at) /\ ~k.once
  <2>1. q.at \in DOMAIN q.calls
    BY <1>1, <1>2
  <2> QED
    BY <1>1, <1>2, <2>1, ShapeAt
<1>5. UNCHANGED <<db, issued, raced, wanted>>
  BY DEF Check
<1>6. CASE Fail(c)
  BY <1>5, <1>6, FailInventory
<1>7. CASE /\ ~Refused(k, V) /\ NothingToWrite(k, V)
           /\ request' = Onward(c) /\ UNCHANGED <<writer, txn>>
  <2>1. /\ \A d \in Clients \ {c} : request'[d] = request[d]
        /\ request'[c].step = "check" /\ request'[c].calls = q.calls /\ request'[c].keeps = q.keeps
        /\ request'[c].at = q.at + 1
    BY <1>1, <1>7 DEF Onward, TypeInv, RequestSet
  <2>2. Foreseen(q.calls, q.at + 1, V, raced)
    BY <1>1, <1>2, <1>3, <1>7, ForeseenNext
  <2>3. AsWanted(V, WantedUpTo(q.calls, q.at, wanted), raced)
    BY <1>1, <1>2, <1>3, <1>7, WantedUnwritten
  <2>4. V' = V /\ Live' = Live
    BY <1>5, <1>7 DEF View, Live
  <2>5. q.at \in Nat /\ q.at + 1 # 1
    BY <1>2
  <2>6. Fits(request'[c], db, Live, V, issued, raced, wanted)
    <3> HIDE DEF q, V
    <3> QED
      BY <1>1, <1>3, <2>1, <2>2, <2>3, <2>5, OnwardFits
  <2>7. RequestFits(c)'
    BY <1>5, <2>1, <2>4, <2>5, <2>6 DEF RequestFits
  <2> QED
    BY <1>5, <1>7, <2>1, <2>7, Stays
<1>8. CASE /\ ~Refused(k, V) /\ ~NothingToWrite(k, V)
           /\ request' = [request EXCEPT ![c].step = "write", ![c].seen = Seen(k, V)]
           /\ UNCHANGED <<writer, txn>>
  <2>1. /\ \A d \in Clients \ {c} : request'[d] = request[d]
        /\ request'[c].step = "write" /\ request'[c].calls = q.calls /\ request'[c].keeps = q.keeps
        /\ request'[c].at = q.at /\ request'[c].seen = Seen(k, V)
    BY <1>1, <1>8 DEF TypeInv, RequestSet
  <2>2. k.do # "find_none"
    BY <1>8 DEF NothingToWrite
  <2>3. k.do = "create_mapping" =>
          /\ k.volume = Null
          /\ k.host \notin raced /\ k.name \notin raced =>
               \A v \in VolumeCalled(V, k.name, k.array) : V.maps[<<k.host, v>>] = 0
    <3> HIDE DEF q, V
    <3> QED
      BY <1>1, <1>2, <1>3, <1>4, MappingForeseen
  <2>4. k.do = "attach_pool" /\ ~MovesVolumes /\ raced \cap PoolNames = {} => VolumesIn(V, k.pool) = {}
    <3> HIDE DEF q, V
    <3> QED
      BY <1>2, <1>3, <1>4, AttachForeseen
  <2>5. Checked(k, Seen(k, V), V, raced)
    <3>1. /\ V \in TableSet /\ Sound(V, raced) /\ k \in GoodCall /\ ~Refused(k, V)
          /\ ~NothingToWrite(k, V)
      BY <1>1, <1>2, <1>8
    <3> HIDE DEF q, V, k
    <3> QED
      BY <2>2, <2>3, <2>4, <3>1, CheckFinds
  <2>6. Placed(k, Seen(k, V), db, issued) /\ Placed(k, Seen(k, V), Live, issued)
    <3>1. Agree(db, Live, Touched)
      BY DEF InventoryInv
    <3> HIDE DEF V, k
    <3>2. ASSUME NEW u \in {db, Live}
          PROVE  /\ \A p \in Rows(V.pools) \cap Rows(u.pools) : u.pools[p].name = V.pools[p].name
                 /\ \A v \in Rows(V.volumes) \cap Rows(u.volumes) : u.volumes[v].name = V.volumes[v].name
      BY <1>1, <3>1 DEF Agree, SamePools, SameVolumes
    <3> QED
      BY <1>1, <1>2, <3>2, CheckPlaces
  <2>7. V' = V /\ Live' = Live
    BY <1>5, <1>8 DEF View, Live
  <2>8. Fits(request'[c], db, Live, V, issued, raced, wanted)
    <3>1. /\ Shape(q.calls, q.keeps) /\ \A i \in DOMAIN q.calls : Asked(q.calls[i], db, Live, issued, raced)
          /\ k = q.calls[q.at]
      BY <1>1, <1>2
    <3> HIDE DEF q, k, V
    <3> QED
      BY <1>3, <2>1, <2>5, <2>6, <3>1 DEF Fits
  <2>9. RequestFits(c)'
    BY <1>1, <1>2, <1>5, <1>8, <2>1, <2>7, <2>8 DEF RequestFits
  <2> QED
    BY <1>5, <1>8, <2>1, <2>9, Stays
<1> QED
  BY <1>4, <1>6, <1>7, <1>8 DEF Check

\* What the writer writes before it is committed.
LEMMA WritingGoesOn ==
  ASSUME TypeInv, TypeInv', InventoryInv, NEW c \in Clients, request[c].step # "idle",
         \A d \in Clients \ {c} : request'[d] = request[d],
         request'[c].calls = request[c].calls,
         UNCHANGED <<db, raced, wanted>>, writer \in {c, Null}, writer' = c,
         issued.pools <= issued'.pools, issued.volumes <= issued'.volumes,
         Descends(txn', db, Live, issued), Agree(db, txn', AboutIn(request[c].calls, db)),
         Fresh(txn', issued'), Sound(txn', raced),
         Fits(request'[c], db, txn', txn', issued', raced, wanted),
         ~(request'[c].step \in {"check", "write"} /\ request'[c].at = 1)
  PROVE  InventoryInv'
<1>1. Live' = txn' /\ View(c)' = txn' /\ Touched' = AboutIn(request[c].calls, db)
  BY Nulls DEF Live, View, Touched
<1>2. Fresh(db', issued')
  <2>1. Rows(db.pools) \subseteq Nat /\ Rows(db.volumes) \subseteq Nat /\ Volumes \subseteq Nat
    <3>1. Pools \subseteq Nat /\ Volumes \subseteq Nat
      BY TablesAssumption DEF Pools, Volumes
    <3> QED
      BY <3>1 DEF Rows, TypeInv, TableSet
  <2>2. issued \in [pools : Nat, volumes : Nat] /\ issued' \in [pools : Nat, volumes : Nat]
    BY DEF TypeInv
  <2> QED
    BY <2>1, <2>2 DEF Fresh, InventoryInv
<1>3. RequestFits(c)'
  BY <1>1 DEF RequestFits
<1>4. Descends(db', db, Live, issued) /\ Agree(db, db', AboutIn(request[c].calls, db))
  BY AgreesWithItself, DescendsFrom
<1> QED
  BY <1>1, <1>2, <1>3, <1>4, Together DEF InventoryInv

LEMMA WriteInventory ==
  ASSUME TypeInv, TypeInv', InventoryInv, NEW c \in Clients, Write(c)
  PROVE  InventoryInv'
<1> DEFINE q == request[c]
           k == Current(c)
           V == View(c)
           N == AboutIn(q.calls, db)
           w == Written(k, q.seen, V)
<1>1. /\ V \in TableSet /\ Sound(V, raced) /\ Fresh(V, issued) /\ V = Live /\ V \in {db, Live}
      /\ q \in RequestSet /\ RequestOK(c) /\ RequestFits(c) /\ db \in TableSet
      /\ q.calls \in Seq(GoodCall) /\ Shape(q.calls, q.keeps) /\ Agree(db, V, N)
      /\ \A i \in DOMAIN q.calls : Asked(q.calls[i], db, Live, issued, raced)
      /\ issued \in [pools : Nat, volumes : Nat]
  BY ViewFacts DEF Write
<1>2. /\ q.step = "write" /\ q.at \in 1..Len(q.calls) /\ k = q.calls[q.at] /\ k \in GoodCall
      /\ Found(k, q.seen) /\ q.seen \in SeenSet /\ q.at \in Nat /\ q.at + 1 # 1
  <2>1. q.step = "write"
    BY WriteStep
  <2>2. /\ q.at \in Nat /\ 1 <= q.at /\ q.at <= Len(q.calls) /\ k \in GoodCall /\ Found(k, q.seen)
    BY <2>1, WriteState
  <2>3. k = q.calls[q.at]
    BY DEF Current
  <2>4. q.seen \in SeenSet
    BY <2>2 DEF Found
  <2>5. Len(q.calls) \in Nat
    BY <1>1
  <2> HIDE DEF q, k
  <2> QED
    BY <2>1, <2>2, <2>3, <2>4, <2>5
<1>3. /\ q.calls # <<>> /\ Foreseen(q.calls, q.at, V, raced)
      /\ AsWanted(V, WantedUpTo(q.calls, q.at - 1, wanted), raced)
      /\ Placed(k, q.seen, db, issued) /\ Placed(k, q.seen, Live, issued)
      /\ Checked(k, q.seen, V, raced)
  <2>1. Fits(q, db, Live, V, issued, raced, wanted)
    BY <1>1 DEF RequestFits
  <2> HIDE DEF q, V, k
  <2> QED
    BY <1>2, <2>1, FitsActive
<1>4. CallShape(q.calls, q.at) /\ Asked(k, db, Live, issued, raced)
  <2>1. q.at \in DOMAIN q.calls
    BY <1>1, <1>2
  <2> QED
    BY <1>1, <1>2, <2>1, ShapeAt
<1>5. /\ k.do \notin {"create_endpoint", "find_none"}
      /\ k.do \in OnArrays => k.name = Null /\ k.volume = Null
      /\ k.do = "create_mapping" => k.volume = Null
  <2>1. k.do # "find_none"
    BY <1>2 DEF Found
  <2> QED
    BY <1>2, <1>4, <2>1, ShapeWrites
<1>6. Called(k, db) \subseteq N
  BY <1>2 DEF AboutIn
<1>7. CASE Fail(c) /\ UNCHANGED issued
  BY <1>7, FailInventory DEF Write
<1>8. CASE ~Conflict(k, q.seen, V)
  <2>1. /\ k.do = "create_pool" => issued.pools < MaxPools
        /\ k.do = "create_volume" => issued.volumes < MaxVolumes
        /\ txn' = w /\ writer' = c /\ writer \in {c, Null} /\ UNCHANGED <<db, raced, wanted>>
        /\ issued' = [pools   |-> issued.pools + IF k.do = "create_pool" THEN 1 ELSE 0,
                      volumes |-> issued.volumes + IF k.do = "create_volume" THEN 1 ELSE 0]
    BY <1>8 DEF Write
  <2>2. /\ issued' \in [pools : Nat, volumes : Nat]
        /\ issued'.pools = issued.pools + (IF k.do = "create_pool" THEN 1 ELSE 0)
        /\ issued'.volumes = issued.volumes + (IF k.do = "create_volume" THEN 1 ELSE 0)
        /\ issued.pools <= issued'.pools /\ issued.volumes <= issued'.volumes
    BY <1>1, <2>1
  <2>3. \/ request' = Onward(c)
        \/ /\ k.do \in {"create_pool", "create_volume", "ensure_endpoint"}
           /\ request' = IF k.do = "create_pool"
                           THEN [request EXCEPT ![c].step = "provision", ![c].made = issued.pools + 1]
                           ELSE [request EXCEPT ![c].step = "provision"]
    BY <1>8 DEF Write
  <2> HIDE DEF q, k, V, w, N
  <2>4. Agree(db, w, N)
    <3>1. /\ db \in TableSet /\ V \in TableSet /\ Agree(db, V, N) /\ k \in GoodCall
          /\ Found(k, q.seen) /\ Asked(k, db, V, issued, raced) /\ Placed(k, q.seen, db, issued)
      BY <1>1, <1>2, <1>3, <1>4
    <3>2. Fresh(db, issued)
      BY DEF InventoryInv
    <3> QED
      BY <1>5, <1>6, <1>8, <2>1, <3>1, <3>2, WrittenAgrees DEF w
  <2>5. Fresh(w, issued')
    BY <1>1, <1>2, <1>3, <1>5, <1>8, <2>2, WrittenFresh DEF w
  <2>6. Sound(w, raced)
    BY <1>1, <1>2, <1>3, <1>5, <1>8, <2>1, WrittenSound DEF w
  <2>7. Descends(w, db, Live, issued) /\ Descends(db, db, Live, issued)
    BY <1>1, <1>2, <1>8, WrittenDescends, DescendsFrom DEF w
  <2>8. ASSUME NEW i \in DOMAIN q.calls
        PROVE  Asked(q.calls[i], db, w, issued', raced)
    <3>1. q.calls[i] \in GoodCall /\ Asked(q.calls[i], db, Live, issued, raced)
      BY <1>1
    <3> QED
      BY <1>1, <2>2, <2>7, <3>1, AskedStays
  <2>9. CASE request' = Onward(c)
    <3>1. /\ \A d \in Clients \ {c} : request'[d] = request[d]
          /\ request'[c].step = "check" /\ request'[c].calls = q.calls /\ request'[c].keeps = q.keeps
          /\ request'[c].at = q.at + 1
      BY <1>1, <2>9 DEF Onward, TypeInv, RequestSet, q
    <3>2. q.at > 1 /\ k.do # "create_mapping" => w.maps = V.maps /\ w.volumes = V.volumes
      <4>1. q.at > 1 /\ k.do # "create_mapping" => k.do \in {"add_host_port", "ensure_endpoint"}
        BY <1>2, <1>4 DEF CallShape
      <4> QED
        BY <1>1, <4>1 DEF w, Written, HostPortsWritten, EndpointAdded, TableSet
    <3>3. Foreseen(q.calls, q.at + 1, w, raced)
      BY <1>1, <1>2, <1>3, <1>5, <3>2, ForeseenNext
    <3>4. AsWanted(w, WantedUpTo(q.calls, q.at, wanted), raced)
      BY <1>1, <1>2, <1>3, <1>5, <1>8, WantedWritten DEF w
    <3>5. Fits(request'[c], db, w, w, issued', raced, wanted)
      BY <1>1, <1>2, <1>3, <2>8, <3>1, <3>3, <3>4, OnwardFits
    <3> QED
      <4>1. request[c].step # "idle" /\ request'[c].calls = request[c].calls
        BY <1>2, <3>1 DEF q
      <4>2. ~(request'[c].step \in {"check", "write"} /\ request'[c].at = 1)
        BY <1>2, <3>1
      <4>3. Agree(db, txn', AboutIn(request[c].calls, db))
        BY <2>1, <2>4 DEF q, N
      <4>4. /\ Descends(txn', db, Live, issued) /\ Fresh(txn', issued') /\ Sound(txn', raced)
            /\ Fits(request'[c], db, txn', txn', issued', raced, wanted)
        BY <2>1, <2>5, <2>6, <2>7, <3>5
      <4>5. /\ writer \in {c, Null} /\ writer' = c /\ UNCHANGED <<db, raced, wanted>>
            /\ issued.pools <= issued'.pools /\ issued.volumes <= issued'.volumes
        BY <2>1, <2>2
      <4> QED
        BY <3>1, <4>1, <4>2, <4>3, <4>4, <4>5, WritingGoesOn
  <2>10. CASE /\ k.do \in {"create_pool", "create_volume", "ensure_endpoint"}
              /\ request' = IF k.do = "create_pool"
                              THEN [request EXCEPT ![c].step = "provision", ![c].made = issued.pools + 1]
                              ELSE [request EXCEPT ![c].step = "provision"]
    <3>1. /\ \A d \in Clients \ {c} : request'[d] = request[d]
          /\ request'[c].step = "provision" /\ request'[c].calls = q.calls
          /\ request'[c].keeps = q.keeps /\ request'[c].at = q.at /\ request'[c].seen = q.seen
      BY <1>1, <2>10 DEF TypeInv, RequestSet, q
    <3>2. Placed(k, q.seen, db, issued') /\ Placed(k, q.seen, w, issued')
      BY <1>1, <1>2, <1>3, <2>2, <2>7, PlacedStays
    <3>3. k.do = "create_volume" => w.volumes[issued'.volumes].name = k.name
      <4>1. CASE k.do = "create_volume"
        <5>1. issued'.volumes = issued.volumes + 1 /\ issued.volumes + 1 \in Volumes
          BY <1>1, <2>1, <2>2, <4>1, TablesAssumption DEF Volumes
        <5> QED
          BY <1>1, <4>1, <5>1 DEF w, Written, VolumeAdded, TableSet
      <4> QED
        BY <4>1
    <3>4. w.hosts = V.hosts /\ w.ports = V.ports
      BY <1>1, <2>10 DEF w, Written, PoolAdded, VolumeAdded, EndpointAdded, TableSet
    <3>5. Foreseen(q.calls, q.at, w, raced)
      <4>1. q.at = 1 => q.calls[1] = k
        BY <1>2
      <4>2. q.at \in 2..Len(q.calls) => k.do = "ensure_endpoint"
        BY <1>4, <1>2, <2>10 DEF CallShape
      <4>3. k.do = "ensure_endpoint" => w.maps = V.maps /\ w.volumes = V.volumes
        BY <1>1 DEF w, Written, EndpointAdded, TableSet
      <4> QED
        BY <1>3, <2>10, <4>1, <4>2, <4>3 DEF Foreseen, VolumeCalled, VolumesOf
    <3>6. AsWanted(w, WantedUpTo(q.calls, q.at - 1, wanted), raced)
      BY <1>3, <3>4 DEF AsWanted
    <3>7. Fits(request'[c], db, w, w, issued', raced, wanted)
      BY <1>1, <1>2, <1>3, <2>8, <3>1, <3>2, <3>3, <3>5, <3>6 DEF Fits
    <3> QED
      <4>1. request[c].step # "idle" /\ request'[c].calls = request[c].calls
        BY <1>2, <3>1 DEF q
      <4>2. ~(request'[c].step \in {"check", "write"} /\ request'[c].at = 1)
        BY <1>2, <3>1
      <4>3. Agree(db, txn', AboutIn(request[c].calls, db))
        BY <2>1, <2>4 DEF q, N
      <4>4. /\ Descends(txn', db, Live, issued) /\ Fresh(txn', issued') /\ Sound(txn', raced)
            /\ Fits(request'[c], db, txn', txn', issued', raced, wanted)
        BY <2>1, <2>5, <2>6, <2>7, <3>7
      <4>5. /\ writer \in {c, Null} /\ writer' = c /\ UNCHANGED <<db, raced, wanted>>
            /\ issued.pools <= issued'.pools /\ issued.volumes <= issued'.volumes
        BY <2>1, <2>2
      <4> QED
        BY <3>1, <4>1, <4>2, <4>3, <4>4, <4>5, WritingGoesOn
  <2> QED
    BY <2>3, <2>9, <2>10
<1> QED
  BY <1>7, <1>8 DEF Write

\* The row of a volume takes the status of what was provisioned.
Marks(t, w, v, status) ==
  /\ w.arrays = t.arrays /\ w.iscsi = t.iscsi /\ w.pools = t.pools
  /\ w.hosts = t.hosts /\ w.ports = t.ports /\ w.maps = t.maps
  /\ w.volumes = [t.volumes EXCEPT ![v] = [t.volumes[v] EXCEPT !.status = status]]

LEMMA MadeKeeps ==
  ASSUME NEW t \in TableSet, NEW u \in TableSet, NEW N, Agree(t, u, N),
         NEW v \in Rows(u.volumes), u.volumes[v].name \in N,
         NEW status \in {"available", "error"},
         NEW w \in TableSet, Marks(u, w, v, status),
         NEW ids, Fresh(u, ids), NEW R, Sound(u, R)
  PROVE  /\ Agree(t, w, N) /\ Fresh(w, ids) /\ Sound(w, R) /\ Descends(w, t, u, ids)
         /\ w.hosts = u.hosts /\ w.ports = u.ports
<1> DEFINE row == [u.volumes[v] EXCEPT !.status = status]
<1>1. /\ w.arrays = u.arrays /\ w.iscsi = u.iscsi /\ w.pools = u.pools
      /\ w.hosts = u.hosts /\ w.ports = u.ports /\ w.maps = u.maps
      /\ w.volumes = [u.volumes EXCEPT ![v] = row]
  BY DEF Marks
<1>2. /\ v \in Volumes /\ u.volumes[v] \in VolumeRow /\ u.volumes[v] # Null
      /\ row.name = u.volumes[v].name /\ row.pool = u.volumes[v].pool /\ row.array = u.volumes[v].array
  BY DEF Rows, TableSet, VolumeRow
<1>3. row # Null
  <2>1. row \in VolumeRow
    BY <1>2 DEF VolumeRow
  <2> QED
    BY <2>1, Nulls
<1> HIDE DEF row
<1>4. Rows(w.volumes) = Rows(u.volumes) /\ (\A x \in Volumes : w.volumes[x] = Null <=> u.volumes[x] = Null)
  BY <1>1, <1>2, <1>3 DEF Rows, TableSet
<1>9. \A x \in Volumes \ {v} : w.volumes[x] = u.volumes[x]
  BY <1>1, <1>2 DEF TableSet
<1>10. \A x \in Volumes : /\ w.volumes[x].name = u.volumes[x].name
                          /\ w.volumes[x].pool = u.volumes[x].pool
                          /\ w.volumes[x].array = u.volumes[x].array
  BY <1>1, <1>2 DEF TableSet
<1>11. Rows(u.volumes) \subseteq Volumes /\ Rows(t.volumes) \subseteq Volumes
  BY DEF Rows, TableSet
<1>5. Agree(t, w, N)
  <2>1. SameVolumes(t, w, N)
    BY <1>1, <1>4, <1>9, <1>10, <1>11 DEF Agree, SameVolumes
  <2>2. NewVolumes(t, w, N)
    BY <1>1, <1>4, <1>9, <1>10, <1>11 DEF Agree, NewVolumes
  <2> QED
    BY <1>1, <2>1, <2>2, SameWhenKept DEF Agree
<1>6. Fresh(w, ids)
  BY <1>1, <1>4, <1>9, <1>10, <1>11 DEF Fresh
<1>7. Sound(w, R)
  <2>1. ArraysSound(w, R) /\ PoolsSound(w, R)
    BY <1>1 DEF Sound, ArraysSound, PoolsSound, PoolCalled, PoolsOf
  <2>2. \A x \in Arrays, n \in VolumeNames : VolumeCalled(w, n, x) = VolumeCalled(u, n, x)
    BY <1>4, <1>9, <1>10, <1>11 DEF VolumeCalled, VolumesOf
  <2>3. VolumesSound(w, R)
    BY <1>1, <1>4, <1>9, <1>10, <1>11, <2>2 DEF Sound, VolumesSound
  <2>4. MapsSound(w, R)
    BY <1>1, <1>4, <1>9, <1>10, <1>11 DEF Sound, MapsSound
  <2> QED
    BY <2>1, <2>3, <2>4 DEF Sound
<1>8. Descends(w, t, u, ids)
  BY <1>1, <1>4, <1>9, <1>10, <1>11 DEF Descends
<1> QED
  BY <1>1, <1>5, <1>6, <1>7, <1>8

LEMMA VolumeNamed ==
  ASSUME NEW call \in GoodCall, call.do = "create_volume"
  PROVE  call.name \in VolumeNames
BY DEF GoodCall

\* The volume that is being made has its row, under a name of the request.
LEMMA UnderwayNamed ==
  ASSUME NEW calls \in Seq(GoodCall), NEW i \in 1..Len(calls), calls[i].do = "create_volume",
         Underway(calls[i]), txn.volumes[issued.volumes].name = calls[i].name
  PROVE  /\ issued.volumes \in Rows(txn.volumes)
         /\ txn.volumes[issued.volumes].name \in AboutIn(calls, db)
<1>1. issued.volumes \in Rows(txn.volumes)
  BY DEF Underway
<1>2. calls[i] \in GoodCall
  OBVIOUS
<1>3. calls[i].name \in Called(calls[i], db)
  BY <1>2, VolumeNamed, CalledName, Nulls
<1> QED
  BY <1>1, <1>3 DEF AboutIn

LEMMA VolumeMadeKeeps ==
  ASSUME NEW t \in TableSet, txn \in TableSet, NEW N, Agree(t, txn, N),
         issued.volumes \in Rows(txn.volumes), txn.volumes[issued.volumes].name \in N,
         NEW status \in {"available", "error"}, NEW w \in TableSet,
         w = VolumeMade(issued.volumes, status), Fresh(txn, issued), Sound(txn, raced)
  PROVE  /\ Agree(t, w, N) /\ Fresh(w, issued) /\ Sound(w, raced) /\ Descends(w, t, txn, issued)
         /\ w.hosts = txn.hosts /\ w.ports = txn.ports
<1>1. Marks(txn, w, issued.volumes, status)
  BY DEF VolumeMade, Marks, TableSet
<1> QED
  BY <1>1, MadeKeeps

LEMMA ProvisionInventory ==
  ASSUME TypeInv, TypeInv', InventoryInv, NEW c \in Clients, Provision(c)
  PROVE  InventoryInv'
<1> DEFINE q == request[c]
           k == Current(c)
           V == View(c)
           N == AboutIn(q.calls, db)
<1>1. /\ V \in TableSet /\ Sound(V, raced) /\ Fresh(V, issued) /\ V \in {db, Live}
      /\ q \in RequestSet /\ RequestOK(c) /\ RequestFits(c) /\ db \in TableSet
      /\ q.calls \in Seq(GoodCall) /\ Shape(q.calls, q.keeps) /\ Agree(db, V, N)
      /\ \A i \in DOMAIN q.calls : Asked(q.calls[i], db, Live, issued, raced)
      /\ issued \in [pools : Nat, volumes : Nat]
  BY ViewFacts
<1>2. /\ q.step = "provision" /\ q.at \in 1..Len(q.calls) /\ k = q.calls[q.at] /\ k \in GoodCall
      /\ q.at \in Nat /\ q.at + 1 # 1 /\ writer = c /\ V = txn /\ Live = txn /\ Underway(k)
  <2>1. q.step = "provision" /\ writer = c /\ Underway(k) /\ q.at \in 1..(Len(q.calls) + 1)
    BY <1>1 DEF Provision, RequestOK
  <2>2. k = q.calls[q.at] /\ V = txn /\ Live = txn
    BY <2>1, Nulls DEF Current, View, Live
  <2>3. q.at <= Len(q.calls)
    BY <1>1, <2>1 DEF RequestOK
  <2> HIDE DEF k, V, q
  <2>4. q.at \in 1..Len(q.calls) /\ q.at \in Nat /\ q.at + 1 # 1
    BY <1>1, <2>1, <2>3
  <2>5. k \in GoodCall
    BY <1>1, <2>2, <2>4
  <2> QED
    BY <2>1, <2>2, <2>4, <2>5
<1>3. /\ q.calls # <<>> /\ Foreseen(q.calls, q.at, V, raced)
      /\ AsWanted(V, WantedUpTo(q.calls, q.at - 1, wanted), raced)
      /\ k.do = "create_volume" => V.volumes[issued.volumes].name = k.name
  <2>1. Fits(q, db, Live, V, issued, raced, wanted)
    BY <1>1 DEF RequestFits
  <2> HIDE DEF q, V, k
  <2> QED
    BY <1>2, <2>1, FitsActive
<1>4. k.do \in {"create_pool", "create_volume", "ensure_endpoint"} /\ UNCHANGED <<issued, raced, wanted>>
  BY DEF Provision
<1>5. k.do \notin PortCalls /\ CallShape(q.calls, q.at)
  <2>1. q.at \in DOMAIN q.calls
    BY <1>1, <1>2
  <2>2. k.do \notin PortCalls
    BY <1>4 DEF PortCalls
  <2> HIDE DEF q, k
  <2> QED
    BY <1>1, <2>1, <2>2 DEF Shape
<1>6. ASSUME NEW w, w.hosts = V.hosts, w.ports = V.ports
      PROVE  AsWanted(w, WantedUpTo(q.calls, q.at, wanted), raced)
  <2>1. V.hosts \subseteq Hosts
    BY <1>1 DEF TableSet
  <2>2. /\ q.calls \in Seq(GoodCall) /\ Shape(q.calls, q.keeps) /\ q.at \in 1..Len(q.calls)
        /\ q.calls[q.at].do \notin PortCalls
    BY <1>1, <1>2, <1>5
  <2> HIDE DEF q, k, V
  <2>3. \A h \in Hosts : WantedUpTo(q.calls, q.at, wanted)[h] = WantedUpTo(q.calls, q.at - 1, wanted)[h]
    BY <2>2, WantedNext
  <2> QED
    BY <1>3, <1>6, <2>1, <2>3 DEF AsWanted
<1>7. CASE /\ request' = Onward(c)
           /\ \/ k.do \in {"create_pool", "ensure_endpoint"} /\ UNCHANGED <<db, txn, writer>>
              \/ /\ k.do = "create_volume" /\ txn' = VolumeMade(issued.volumes, "available")
                 /\ UNCHANGED <<db, writer>>
  <2>1. /\ \A d \in Clients \ {c} : request'[d] = request[d]
        /\ request'[c].step = "check" /\ request'[c].calls = q.calls /\ request'[c].keeps = q.keeps
        /\ request'[c].at = q.at + 1
    BY <1>1, <1>7 DEF Onward, TypeInv, RequestSet
  <2>2. CASE k.do \in {"create_pool", "ensure_endpoint"} /\ UNCHANGED <<db, txn, writer>>
    <3>1. Foreseen(q.calls, q.at + 1, V, raced)
      BY <1>1, <1>2, <1>3, <2>2, ForeseenNext
    <3>2. AsWanted(V, WantedUpTo(q.calls, q.at, wanted), raced)
      BY <1>6
    <3>3. Fits(request'[c], db, Live, V, issued, raced, wanted)
      <4> HIDE DEF q, V
      <4> QED
        BY <1>1, <1>2, <1>3, <2>1, <3>1, <3>2, OnwardFits
    <3>4. V' = V /\ Live' = Live
      BY <2>2 DEF View, Live
    <3>5. RequestFits(c)'
      BY <1>2, <1>4, <2>1, <2>2, <3>3, <3>4 DEF RequestFits
    <3> QED
      BY <1>4, <2>1, <2>2, <3>5, Stays
  <2>3. CASE /\ k.do = "create_volume" /\ txn' = VolumeMade(issued.volumes, "available")
             /\ UNCHANGED <<db, writer>>
    <3>1. /\ issued.volumes \in Rows(txn.volumes) /\ txn.volumes[issued.volumes].name \in N
          /\ Agree(db, txn, N) /\ Fresh(txn, issued) /\ Sound(txn, raced) /\ txn \in TableSet
      <4>1. txn.volumes[issued.volumes].name = q.calls[q.at].name
        BY <1>2, <1>3, <2>3
      <4> QED
        BY <1>1, <1>2, <2>3, <4>1, UnderwayNamed
    <3> DEFINE w == txn'
    <3>2. w = VolumeMade(issued.volumes, "available") /\ w \in TableSet
      BY <2>3 DEF TypeInv
    <3>3. /\ Agree(db, w, N) /\ Fresh(w, issued) /\ Sound(w, raced) /\ Descends(w, db, Live, issued)
          /\ w.hosts = txn.hosts /\ w.ports = txn.ports
      <4> HIDE DEF w, N, V
      <4> QED
        BY <1>1, <1>2, <3>1, <3>2, VolumeMadeKeeps, "available" \in {"available", "error"}
    <3>4. q.at = 1
      BY <1>5, <1>2, <2>3 DEF CallShape
    <3>5. Foreseen(q.calls, q.at + 1, w, raced)
      <4>1. q.calls[q.at].do # "find_none" /\ ~(q.at > 1)
        BY <1>2, <2>3, <3>4
      <4> HIDE DEF w, V, q
      <4> QED
        BY <1>1, <1>2, <1>3, <4>1, ForeseenNext
    <3>6. AsWanted(w, WantedUpTo(q.calls, q.at, wanted), raced)
      BY <1>2, <1>6, <3>3
    <3>7. ASSUME NEW i \in DOMAIN q.calls
          PROVE  Asked(q.calls[i], db, w, issued, raced)
      <4>1. q.calls[i] \in GoodCall /\ Asked(q.calls[i], db, Live, issued, raced)
        BY <1>1
      <4> HIDE DEF w, q
      <4>2. issued.pools <= issued.pools /\ issued.volumes <= issued.volumes
        BY <1>1
      <4> QED
        BY <1>1, <3>3, <4>1, <4>2, AskedStays
    <3>8. Fits(request'[c], db, w, w, issued, raced, wanted)
      <4> HIDE DEF q, w
      <4> QED
        BY <1>1, <1>2, <1>3, <2>1, <3>5, <3>6, <3>7, OnwardFits
    <3>9. issued.pools <= issued'.pools /\ issued.volumes <= issued'.volumes
      BY <1>1, <1>4
    <3> QED
      BY <1>2, <1>4, <2>1, <2>3, <3>3, <3>8, <3>9, WritingGoesOn
  <2> QED
    BY <1>7, <2>2, <2>3
<1>8. CASE Fail(c) /\ UNCHANGED db
  BY <1>4, <1>8, FailInventory
<1>9. CASE /\ k.do = "create_volume" /\ q.keeps /\ Fail(c)
           /\ db' = VolumeMade(issued.volumes, "error")
  <2>1. /\ issued.volumes \in Rows(txn.volumes) /\ txn.volumes[issued.volumes].name \in N
        /\ Agree(db, txn, N) /\ Fresh(txn, issued) /\ Sound(txn, raced) /\ txn \in TableSet
    <3>1. txn.volumes[issued.volumes].name = q.calls[q.at].name
      BY <1>2, <1>3, <1>9
    <3> QED
      BY <1>1, <1>2, <1>9, <3>1, UnderwayNamed
  <2> DEFINE w == db'
  <2>2. w = VolumeMade(issued.volumes, "error") /\ w \in TableSet
    BY <1>9 DEF TypeInv
  <2>3. /\ Agree(db, db', N) /\ Fresh(db', issued) /\ Sound(db', raced)
        /\ Descends(db', db, Live, issued) /\ db'.hosts = txn.hosts /\ db'.ports = txn.ports
    <3> HIDE DEF N, V, w
    <3>1. /\ Agree(db, w, N) /\ Fresh(w, issued) /\ Sound(w, raced)
          /\ Descends(w, db, txn, issued) /\ w.hosts = txn.hosts /\ w.ports = txn.ports
      BY <1>1, <2>1, <2>2, VolumeMadeKeeps, "error" \in {"available", "error"}
    <3> QED
      BY <1>2, <3>1 DEF w
  <2>4. q.at = 1 /\ V.hosts \subseteq Hosts
    <3>1. q.at = 1
      BY <1>5, <1>2, <1>9 DEF CallShape
    <3> QED
      BY <1>1, <3>1 DEF TableSet
  <2>5. ASSUME NEW h \in Hosts
        PROVE  WantedUpTo(q.calls, q.at - 1, wanted)[h] = wanted[h]
    <3>1. q.at - 1 = 0 /\ 0 \in 0..Len(q.calls)
      BY <1>1, <2>4
    <3> HIDE DEF q
    <3>2. WantedUpTo(q.calls, 0, wanted)[h] = wanted[h]
      BY <1>1, <3>1, WantedElsewhere
    <3> QED
      BY <3>1, <3>2
  <2>6. AsWanted(db', wanted', raced')
    BY <1>2, <1>3, <1>4, <2>3, <2>4, <2>5 DEF AsWanted
  <2> QED
    BY <1>2, <1>4, <1>9, <2>3, <2>6, Ends DEF Fail
<1> QED
  BY <1>7, <1>8, <1>9 DEF Provision, EnsurePool, EnsureLvol, EnsureExport

LEMMA CommitInventory ==
  ASSUME TypeInv, TypeInv', InventoryInv, NEW c \in Clients, Commit(c)
  PROVE  InventoryInv'
<1> DEFINE q == request[c]
           V == View(c)
           N == AboutIn(q.calls, db)
<1>1. /\ V \in TableSet /\ Sound(V, raced) /\ Fresh(V, issued) /\ V \in {db, Live}
      /\ q \in RequestSet /\ RequestOK(c) /\ RequestFits(c) /\ db \in TableSet
      /\ q.calls \in Seq(GoodCall) /\ Agree(db, V, N)
  BY ViewFacts
<1>2. db' = V /\ UNCHANGED <<issued, raced>>
  BY DEF Commit, View
<1>3. q.step = "check" /\ q.at - 1 = Len(q.calls) /\ Len(q.calls) \in Nat
  BY <1>1 DEF Commit, RequestOK, RequestSet
<1>4. AsWanted(V, WantedUpTo(q.calls, Len(q.calls), wanted), raced)
  BY <1>1, <1>3 DEF RequestFits, Fits
<1>5. wanted' = WantedUpTo(q.calls, Len(q.calls), wanted)
  <2>1. DOMAIN q.calls = 1..Len(q.calls) /\ wanted' = Wanted(q.calls)
    BY <1>1 DEF Commit
  <2> QED
    BY <2>1 DEF Wanted, WantedUpTo, AsksPorts, PortCalls
<1>6. ASSUME NEW h \in Hosts \ N
      PROVE  wanted'[h] = wanted[h]
  <2>1. Len(q.calls) \in 0..Len(q.calls) /\ h \notin AboutIn(q.calls, db)
    BY <1>3
  <2> HIDE DEF q
  <2>2. WantedUpTo(q.calls, Len(q.calls), wanted)[h] = wanted[h]
    BY <1>1, <2>1, WantedElsewhere
  <2> QED
    BY <1>5, <2>2
<1>7. Descends(db', db, Live, issued)
  BY <1>1, <1>2, DescendsFrom
<1>8. /\ writer' = (IF writer = c THEN Null ELSE writer)
      /\ txn' = (IF writer = c THEN NoTables ELSE txn)
      /\ writer = c \/ UNCHANGED db
      /\ request' = Ended(c, "ok")
  BY DEF Commit
<1>9. Agree(db, db', N) /\ Fresh(db', issued) /\ Sound(db', raced) /\ AsWanted(db', wanted', raced)
  BY <1>1, <1>2, <1>4, <1>5
<1> QED
  BY <1>2, <1>6, <1>7, <1>8, <1>9, Ends

LEMMA ServeInventory ==
  ASSUME TypeInv, TypeInv', InventoryInv, NEW c \in Clients, Serve(c)
  PROVE  InventoryInv'
<1>1. CASE LockFails(c)
  BY <1>1, FailInventory DEF LockFails
<1> QED
  BY <1>1, CheckInventory, WriteInventory, ProvisionInventory, CommitInventory DEF Serve


-----------------------------------------------------------------------------
\* What clients ask for: calls on rows there are, in the order handlers make them.
Apt(calls, keeps) ==
  /\ calls \in Seq(GoodCall) /\ calls # <<>> /\ Shape(calls, keeps)
  /\ \A i \in DOMAIN calls : /\ calls[i].pool # Null => calls[i].pool \in Rows(db.pools)
                             /\ calls[i].volume # Null => calls[i].volume \in Rows(db.volumes)
  /\ calls[1].do = "attach_pool" => MovesVolumes \/ VolumesIn(db, calls[1].pool) = {}

LEMMA AboutKnown ==
  ASSUME TypeInv, NEW calls \in Seq(GoodCall)
  PROVE  AboutIn(calls, db) \subseteq About(calls) /\ AboutIn(calls, db) \subseteq Names
<1> SUFFICES ASSUME NEW i \in DOMAIN calls, NEW x \in Called(calls[i], db)
             PROVE  x \in About(calls) /\ x \in Names
  BY DEF AboutIn
<1> DEFINE call == calls[i]
<1>1. call \in GoodCall
  OBVIOUS
<1>2. x \in About(calls)
  BY DEF About, Called
<1>3. x \in Names
  <2>1. \A p \in Rows(db.pools) : db.pools[p].name \in PoolNames
    BY DEF Rows, TypeInv, TableSet, PoolRow
  <2>2. \A v \in Rows(db.volumes) : db.volumes[v].name \in VolumeNames
    BY DEF Rows, TypeInv, TableSet, VolumeRow
  <2>3. /\ call.group \in PoolNames \cup {Null} /\ call.name \in VolumeNames \cup {Null}
        /\ call.host \in Hosts \cup {Null} /\ call.array \in Arrays \cup {Null}
    BY <1>1 DEF GoodCall
  <2> HIDE DEF call
  <2>4. x \in Called(call, db)
    BY DEF call
  <2> QED
    BY <2>1, <2>2, <2>3, <2>4 DEF Called, Names
<1> QED
  BY <1>2, <1>3

LEMMA FitsWithMoreRaced ==
  ASSUME NEW q, NEW t, NEW live, NEW v, NEW ids, NEW R, NEW S, R \subseteq S, NEW asked,
         Fits(q, t, live, v, ids, R, asked)
  PROVE  Fits(q, t, live, v, ids, S, asked)
BY MoreRaced DEF Fits

LEMMA AskInventory ==
  ASSUME Names \subseteq Watched, TypeInv, TypeInv', InventoryInv, NEW c \in Clients,
         NEW calls, NEW keeps \in BOOLEAN, Apt(calls, keeps), Ask(c, calls, keeps)
  PROVE  InventoryInv'
<1>1. /\ \A d \in Clients \ {c} : request'[d] = request[d]
      /\ request'[c].step = "check" /\ request'[c].calls = calls
      /\ request'[c].keeps = keeps /\ request'[c].at = 1
      /\ UNCHANGED <<db, txn, writer, issued, wanted>> /\ raced \subseteq raced'
      /\ calls \in Seq(GoodCall) /\ writer # c
  BY DEF Ask, TypeInv, Idle, Apt, RequestOK
<1>2. Live' = Live /\ \A d \in Clients : View(d)' = View(d)
  BY <1>1 DEF Live, View
<1>3. Touched' = Touched
  <2>1. writer # Null => request'[writer] = request[writer]
    BY <1>1 DEF TypeInv
  <2> QED
    BY <1>1, <2>1 DEF Touched
<1>4. ASSUME NEW d \in Clients \ {c}
      PROVE  AboutIn(calls, db) \cap AboutIn(request[d].calls, db) \subseteq raced'
  <2>1. request[d].calls \in Seq(GoodCall)
    BY DEF TypeInv, RequestSet
  <2>2. About(calls) \cap About(request[d].calls) \cap Watched \subseteq raced'
    BY DEF Ask
  <2> QED
    BY <1>1, <2>1, <2>2, AboutKnown
<1>5. ASSUME NEW d \in Clients, NEW e \in Clients, d # e
      PROVE  AboutIn(request'[d].calls, db') \cap AboutIn(request'[e].calls, db') \subseteq raced'
  <2>1. CASE d = c
    BY <1>1, <1>4, <1>5, <2>1
  <2>2. CASE e = c
    BY <1>1, <1>4, <1>5, <2>2
  <2>3. CASE d # c /\ e # c
    BY <1>1, <1>5, <2>3 DEF InventoryInv
  <2> QED
    BY <2>1, <2>2, <2>3
<1>6. Sound(db, raced') /\ Sound(Live, raced') /\ AsWanted(db, wanted, raced')
  BY <1>1, MoreRaced DEF InventoryInv
<1>7. ASSUME NEW d \in Clients \ {c}
      PROVE  RequestFits(d)'
  <2>1. Fits(request[d], db, Live, View(d), issued, raced, wanted)
    BY DEF InventoryInv, RequestFits
  <2>2. Fits(request[d], db, Live, View(d), issued, raced', wanted)
    BY <1>1, <2>1, FitsWithMoreRaced
  <2> QED
    BY <1>1, <1>2, <2>2 DEF RequestFits, InventoryInv
<1>8. RequestFits(c)'
  <2>1. ASSUME NEW i \in DOMAIN calls
        PROVE  Asked(calls[i], db, Live, issued, raced')
    BY DEF Apt, Asked, Fresh, InventoryInv
  <2>2. Foreseen(calls, 1, db, raced')
    BY DEF Apt, Foreseen
  <2>3. AsWanted(db, WantedUpTo(calls, 0, wanted), raced')
    <3>1. ASSUME NEW h \in Hosts PROVE WantedUpTo(calls, 0, wanted)[h] = wanted[h]
      <4>1. calls \in Seq(GoodCall) /\ 0 \in 0..Len(calls)
        BY <1>1
      <4> QED
        BY <4>1, WantedElsewhere
    <3> QED
      BY <1>6, <3>1 DEF AsWanted, TypeInv, TableSet
  <2>4. View(c) = db /\ Shape(calls, keeps) /\ calls # <<>> /\ 1 - 1 = 0
    BY <1>1 DEF View, Apt
  <2>5. Fits(request'[c], db, Live, db, issued, raced', wanted)
    BY <1>1, <2>1, <2>2, <2>3, <2>4 DEF Fits
  <2> QED
    BY <1>1, <1>2, <2>4, <2>5 DEF RequestFits
<1>9. ASSUME NEW d \in Clients PROVE RequestFits(d)'
  BY <1>7, <1>8
<1> QED
  BY <1>1, <1>2, <1>3, <1>5, <1>6, <1>9 DEF InventoryInv

-----------------------------------------------------------------------------
LEMMA IdleFits ==
  ASSUME NEW q, q.step = "idle", q.calls = <<>>, q.keeps = FALSE,
         NEW t, NEW live, NEW v, NEW ids, NEW R, NEW asked
  PROVE  Fits(q, t, live, v, ids, R, asked) /\ AboutIn(q.calls, t) = {}
<1>1. DOMAIN q.calls = {}
  OBVIOUS
<1> QED
  BY <1>1 DEF Fits, Shape, AboutIn

LEMMA CrashInventory ==
  ASSUME TypeInv, TypeInv', InventoryInv, Crash
  PROVE  InventoryInv'
<1>1. /\ writer' = Null /\ UNCHANGED <<db, issued, raced, wanted>>
      /\ Live' = db /\ Touched' = {}
  BY DEF Crash, Live, Touched
<1>2. ASSUME NEW c \in Clients
      PROVE  /\ request'[c].step = "idle" /\ request'[c].calls = <<>> /\ request'[c].keeps = FALSE
             /\ request'[c].at = 1
  BY DEF Crash, Replied, Idle
<1>3. ASSUME NEW c \in Clients PROVE RequestFits(c)'
  <2>1. Fits(request'[c], db', Live', View(c)', issued', raced', wanted')
    BY <1>2, IdleFits
  <2> QED
    BY <1>2, <2>1 DEF RequestFits
<1>4. ASSUME NEW c \in Clients PROVE AboutIn(request'[c].calls, db') = {}
  BY <1>2, IdleFits
<1> QED
  BY <1>1, <1>3, <1>4, AgreesWithItself DEF InventoryInv

LEMMA StillInventory ==
  ASSUME InventoryInv, UNCHANGED <<db, txn, writer, request, issued, raced, wanted>>
  PROVE  InventoryInv'
BY DEF InventoryInv, RequestFits, Live, Touched, View

LEMMA InitInventory ==
  ASSUME Init
  PROVE  InventoryInv
<1>1. /\ db = NoTables /\ Live = NoTables /\ Touched = {} /\ writer = Null
      /\ raced = {} /\ wanted = [h \in Hosts |-> {}] /\ issued = [pools |-> 0, volumes |-> 0]
  BY DEF Init, Live, Touched
<1>2. Rows(NoTables.pools) = {} /\ Rows(NoTables.volumes) = {}
  BY DEF NoTables, Rows
<1>3. Fresh(NoTables, issued)
  BY <1>1, <1>2 DEF Fresh, NoTables
<1>4. Sound(NoTables, {})
  <2>1. ArraysSound(NoTables, {}) /\ PoolsSound(NoTables, {})
    BY <1>2 DEF ArraysSound, PoolsSound, PoolCalled, PoolsOf, NoTables
  <2>2. VolumesSound(NoTables, {}) /\ MapsSound(NoTables, {})
    BY <1>2 DEF VolumesSound, MapsSound, VolumeCalled, VolumesOf, NoTables
  <2> QED
    BY <2>1, <2>2 DEF Sound
<1>5. AsWanted(NoTables, wanted, {})
  BY <1>1 DEF AsWanted, NoTables
<1>6. ASSUME NEW c \in Clients
      PROVE  RequestFits(c) /\ AboutIn(request[c].calls, db) = {}
  <2>1. request[c].step = "idle" /\ request[c].calls = <<>> /\ request[c].keeps = FALSE
    BY DEF Init, Idle
  <2> QED
    BY <2>1, IdleFits DEF RequestFits
<1> QED
  BY <1>1, <1>3, <1>4, <1>5, <1>6, AgreesWithItself DEF InventoryInv


-----------------------------------------------------------------------------
\* The calls, spelled out.
Spelled(what, a, p, g, v, n, h, xs) ==
  [do : {what}, once : {FALSE}, array : {a}, pool : {p}, group : {g},
   volume : {v}, name : {n}, host : {h}, ports : {xs}]

LEMMA CallsSpelled ==
  ASSUME NEW what
  PROVE  /\ Do(what) \in Spelled(what, Null, Null, Null, Null, Null, Null, {})
         /\ \A p, a : OnPool(what, p, a) \in Spelled(what, a, p, Null, Null, Null, Null, {})
         /\ \A h, xs : OnHost(what, h, xs) \in Spelled(what, Null, Null, Null, Null, Null, h, xs)
         /\ \A a, n : OnVolume(what, a, n) \in Spelled(what, a, Null, Null, Null, n, Null, {})
         /\ \A a, h, n : OnPair(what, a, h, n) \in Spelled(what, a, Null, Null, Null, n, h, {})
<1>1. Do(what) \in Spelled(what, Null, Null, Null, Null, Null, Null, {})
  <2>1. Call \in Spelled(Null, Null, Null, Null, Null, Null, Null, {})
    BY DEF Spelled, Call
  <2> QED
    BY <2>1 DEF Spelled, Do
<1>2. ASSUME NEW p, NEW a PROVE OnPool(what, p, a) \in Spelled(what, a, p, Null, Null, Null, Null, {})
  BY <1>1 DEF Spelled, OnPool
<1>3. ASSUME NEW h, NEW xs PROVE OnHost(what, h, xs) \in Spelled(what, Null, Null, Null, Null, Null, h, xs)
  BY <1>1 DEF Spelled, OnHost
<1>4. ASSUME NEW a, NEW n PROVE OnVolume(what, a, n) \in Spelled(what, a, Null, Null, Null, n, Null, {})
  BY <1>1 DEF Spelled, OnVolume
<1>5. ASSUME NEW a, NEW h, NEW n PROVE OnPair(what, a, h, n) \in Spelled(what, a, Null, Null, Null, n, h, {})
  <2>1. OnVolume(what, a, n) \in Spelled(what, a, Null, Null, Null, n, Null, {})
    BY <1>4
  <2> QED
    BY <2>1 DEF Spelled, OnPair
<1> QED
  BY <1>1, <1>2, <1>3, <1>4, <1>5

\* A request of one call.
LEMMA OneCallApt ==
  ASSUME NEW call, <<call>> \in Seq(GoodCall), NEW keeps \in BOOLEAN,
         call.do \notin {"create_endpoint", "create_mapping", "find_none"}, ~call.once,
         call.do \in OnArrays => call.name = Null /\ call.volume = Null,
         call.pool # Null => call.pool \in Rows(db.pools),
         call.volume # Null => call.volume \in Rows(db.volumes),
         call.do = "attach_pool" => MovesVolumes \/ VolumesIn(db, call.pool) = {},
         keeps => call.do = "create_volume"
  PROVE  Apt(<<call>>, keeps)
<1> DEFINE calls == <<call>>
<1>1. calls # <<>> /\ DOMAIN calls = {1} /\ calls[1] = call /\ Len(calls) = 1
  OBVIOUS
<1>2. calls \in Seq(GoodCall)
  OBVIOUS
<1> HIDE DEF calls
<1>3. Shape(calls, keeps)
  BY <1>1 DEF Shape, CallShape
<1>4. Apt(calls, keeps)
  BY <1>1, <1>2, <1>3 DEF Apt
<1> QED
  BY <1>4 DEF calls

\* A request of calls by names, the last of which may add a mapping.
LEMMA NamedCallsApt ==
  ASSUME NEW calls \in Seq(GoodCall), calls # <<>>,
         \A i \in DOMAIN calls :
           /\ calls[i].pool = Null /\ calls[i].volume = Null
           /\ CallShape(calls, i),
         calls[1].do # "attach_pool"
  PROVE  Apt(calls, FALSE)
BY DEF Apt, Shape

LEMMA PairsApt ==
  ASSUME NEW a \in Arrays, NEW h \in Hosts, NEW n \in VolumeNames
  PROVE  /\ Apt(Mkvdiskhostmap(a, h, n), FALSE) /\ Apt(WsapiCreateVlun(a, h, n), FALSE)
         /\ Apt(Rmvdiskhostmap(a, h, n), FALSE)
<1>1. Apt(Mkvdiskhostmap(a, h, n), FALSE)
  <2> DEFINE calls == Mkvdiskhostmap(a, h, n)
  <2>1. /\ calls[1] \in Spelled("find_none", a, Null, Null, Null, n, h, {})
        /\ calls[2] \in Spelled("ensure_endpoint", a, Null, Null, Null, Null, Null, {})
        /\ calls[3] \in Spelled("create_mapping", a, Null, Null, Null, n, h, {})
    <3>1. EnsureIscsiEndpoint(a) \in Spelled("ensure_endpoint", a, Null, Null, Null, Null, Null, {})
      <4>1. Do("ensure_endpoint") \in Spelled("ensure_endpoint", Null, Null, Null, Null, Null, Null, {})
        BY CallsSpelled
      <4> QED
        BY <4>1 DEF EnsureIscsiEndpoint, Spelled
    <3> QED
      BY <3>1, CallsSpelled DEF Mkvdiskhostmap
  <2>2. calls \in Seq(GoodCall) /\ calls # <<>> /\ DOMAIN calls = 1..3 /\ Len(calls) = 3
    BY CallsTyped DEF Mkvdiskhostmap
  <2> HIDE DEF calls
  <2>6. /\ calls[1].do = "find_none" /\ calls[2].do = "ensure_endpoint" /\ calls[3].do = "create_mapping"
        /\ \A i \in {1, 3} : calls[i].name = n /\ calls[i].host = h /\ calls[i].array = a
        /\ calls[2].name = Null
        /\ \A i \in {1, 2, 3} : calls[i].pool = Null /\ calls[i].volume = Null /\ ~calls[i].once
    BY <2>1 DEF Spelled
  <2>3. ASSUME NEW i \in DOMAIN calls
        PROVE  calls[i].pool = Null /\ calls[i].volume = Null /\ CallShape(calls, i)
    <3>1. i = 1 \/ i = 2 \/ i = 3
      BY <2>2
    <3> QED
      BY <2>2, <2>6, <3>1, Nulls DEF CallShape, OnArrays
  <2>4. calls[1].do # "attach_pool"
    BY <2>1 DEF Spelled
  <2>5. Apt(calls, FALSE)
    BY <2>2, <2>3, <2>4, NamedCallsApt
  <2> QED
    BY <2>5 DEF calls
<1>2. Apt(WsapiCreateVlun(a, h, n), FALSE)
  <2> DEFINE calls == WsapiCreateVlun(a, h, n)
  <2>1. /\ calls[1] \in Spelled("find_none", a, Null, Null, Null, n, h, {})
        /\ calls[2] \in Spelled("create_mapping", a, Null, Null, Null, n, h, {})
    BY CallsSpelled DEF WsapiCreateVlun
  <2>2. calls \in Seq(GoodCall) /\ calls # <<>> /\ DOMAIN calls = 1..2 /\ Len(calls) = 2
    BY CallsTyped DEF WsapiCreateVlun
  <2> HIDE DEF calls
  <2>6. /\ calls[1].do = "find_none" /\ calls[2].do = "create_mapping"
        /\ \A i \in {1, 2} : /\ calls[i].name = n /\ calls[i].host = h /\ calls[i].array = a
                               /\ calls[i].pool = Null /\ calls[i].volume = Null /\ ~calls[i].once
    BY <2>1 DEF Spelled
  <2>3. ASSUME NEW i \in DOMAIN calls
        PROVE  calls[i].pool = Null /\ calls[i].volume = Null /\ CallShape(calls, i)
    <3>1. i = 1 \/ i = 2
      BY <2>2
    <3> QED
      BY <2>2, <2>6, <3>1, Nulls DEF CallShape, OnArrays
  <2>4. calls[1].do # "attach_pool"
    BY <2>1 DEF Spelled
  <2>5. Apt(calls, FALSE)
    BY <2>2, <2>3, <2>4, NamedCallsApt
  <2> QED
    BY <2>5 DEF calls
<1>3. Apt(Rmvdiskhostmap(a, h, n), FALSE)
  <2> DEFINE call == OnPair("delete_mapping", a, h, n)
  <2>1. call \in Spelled("delete_mapping", a, Null, Null, Null, n, h, {})
    BY CallsSpelled
  <2>2. <<call>> \in Seq(GoodCall) /\ Rmvdiskhostmap(a, h, n) = <<call>>
    BY CallsTyped DEF Rmvdiskhostmap
  <2> HIDE DEF call
  <2>3. Apt(<<call>>, FALSE)
    BY <2>1, <2>2, OneCallApt DEF Spelled, OnArrays
  <2> QED
    BY <2>2, <2>3
<1> QED
  BY <1>1, <1>2, <1>3

LEMMA HostsApt ==
  ASSUME NEW h \in Hosts, NEW xs \in SUBSET Ports
  PROVE  /\ Apt(Mkhost(h, xs), FALSE) /\ Apt(<<OnHost("add_host_port", h, xs)>>, FALSE)
         /\ Apt(PostHost(h, xs), FALSE) /\ Apt(PatchHost(h, xs), FALSE) /\ Apt(DeleteHost(h), FALSE)
<1>1. Apt(Mkhost(h, xs), FALSE)
  <2> DEFINE calls == Mkhost(h, xs)
  <2>1. /\ calls[1] \in Spelled("create_host", Null, Null, Null, Null, Null, h, {})
        /\ calls[2] \in Spelled("add_host_port", Null, Null, Null, Null, Null, h, xs)
    BY CallsSpelled DEF Mkhost
  <2>2. calls \in Seq(GoodCall) /\ calls # <<>> /\ DOMAIN calls = 1..2 /\ Len(calls) = 2
    BY CallsTyped DEF Mkhost
  <2> HIDE DEF calls
  <2>3. ASSUME NEW i \in DOMAIN calls
        PROVE  calls[i].pool = Null /\ calls[i].volume = Null /\ CallShape(calls, i)
    <3>1. i = 1 \/ i = 2
      BY <2>2
    <3> QED
      BY <2>1, <2>2, <3>1 DEF Spelled, CallShape, OnArrays
  <2>4. calls[1].do # "attach_pool"
    BY <2>1 DEF Spelled
  <2>5. Apt(calls, FALSE)
    BY <2>2, <2>3, <2>4, NamedCallsApt
  <2> QED
    BY <2>5 DEF calls
<1>2. ASSUME NEW what \in HostCalls, NEW ys, <<OnHost(what, h, ys)>> \in Seq(GoodCall)
      PROVE  Apt(<<OnHost(what, h, ys)>>, FALSE)
  <2> DEFINE call == OnHost(what, h, ys)
  <2>1. call \in Spelled(what, Null, Null, Null, Null, Null, h, ys)
    BY CallsSpelled
  <2>2. <<call>> \in Seq(GoodCall)
    BY <1>2
  <2> HIDE DEF call
  <2>3. Apt(<<call>>, FALSE)
    BY <2>1, <2>2, OneCallApt DEF Spelled, OnArrays, HostCalls
  <2> QED
    BY <2>3 DEF call
<1>3. /\ <<OnHost("add_host_port", h, xs)>> \in Seq(GoodCall)
      /\ PostHost(h, xs) = <<OnHost("create_host", h, xs)>> /\ PostHost(h, xs) \in Seq(GoodCall)
      /\ PatchHost(h, xs) = <<OnHost("update_host", h, xs)>> /\ PatchHost(h, xs) \in Seq(GoodCall)
      /\ DeleteHost(h) = <<OnHost("delete_host", h, {})>> /\ DeleteHost(h) \in Seq(GoodCall)
  BY CallsTyped DEF PostHost, PatchHost, DeleteHost
<1> QED
  BY <1>1, <1>2, <1>3 DEF HostCalls

LEMMA RowsApt ==
  ASSUME TypeInv
  PROVE  /\ \A g \in PoolNames : Apt(PostPool(g), FALSE)
         /\ \A p \in Rows(db.pools) : Apt(DeletePool(p), FALSE)
         /\ \A p \in Rows(db.pools), a \in Arrays :
              /\ MovesVolumes \/ VolumesIn(db, p) = {} => Apt(AttachPool(p, a), FALSE)
              /\ Apt(DetachPool(p, a), FALSE)
         /\ \A a \in Arrays : Apt(PostArray(a), FALSE) /\ Apt(DeleteArray(a), FALSE)
         /\ \A p \in Rows(db.pools), n \in VolumeNames : Apt(PostVolume(p, n), TRUE)
         /\ \A v \in Rows(db.volumes) : Apt(DeleteVolume(v), FALSE)
         /\ \A h \in Hosts, v \in Rows(db.volumes) : Apt(DeleteMapping(h, v), FALSE)
         /\ \A a \in Arrays, n \in VolumeNames :
              /\ Apt(Rmvdisk(a, n), FALSE)
              /\ \A g \in PoolNames : Apt(Mkvdisk(a, g, n), FALSE)
<1>1. Rows(db.pools) \subseteq Pools /\ Rows(db.volumes) \subseteq Volumes
  BY DEF Rows, TypeInv, TableSet
<1>2. ASSUME NEW g \in PoolNames PROVE Apt(PostPool(g), FALSE)
  <2> DEFINE call == [Do("create_pool") EXCEPT !.array = Default, !.group = g]
  <2>1. call \in Spelled("create_pool", Default, Null, g, Null, Null, Null, {})
    <3>1. Do("create_pool") \in Spelled("create_pool", Null, Null, Null, Null, Null, Null, {})
      BY CallsSpelled
    <3> QED
      BY <3>1 DEF Spelled
  <2>2. <<call>> \in Seq(GoodCall) /\ PostPool(g) = <<call>>
    BY CallsTyped DEF PostPool
  <2> HIDE DEF call
  <2>3. call.do = "create_pool" /\ ~call.once /\ call.pool = Null /\ call.volume = Null /\ call.name = Null
    BY <2>1 DEF Spelled
  <2>4. Apt(<<call>>, FALSE)
    BY <2>2, <2>3, OneCallApt DEF OnArrays
  <2> QED
    BY <2>2, <2>4
<1>3. ASSUME NEW p \in Rows(db.pools) PROVE Apt(DeletePool(p), FALSE)
  <2> DEFINE call == OnPool("delete_pool", p, Null)
  <2>1. call \in Spelled("delete_pool", Null, p, Null, Null, Null, Null, {})
    BY CallsSpelled
  <2>2. <<call>> \in Seq(GoodCall) /\ DeletePool(p) = <<call>>
    BY <1>1, CallsTyped DEF DeletePool
  <2> HIDE DEF call
  <2>3. call.do = "delete_pool" /\ ~call.once /\ call.pool = p /\ call.volume = Null /\ call.name = Null
    BY <2>1 DEF Spelled
  <2>4. Apt(<<call>>, FALSE)
    BY <2>2, <2>3, OneCallApt DEF OnArrays
  <2> QED
    BY <2>2, <2>4
<1>4. ASSUME NEW p \in Rows(db.pools), NEW a \in Arrays,
             NEW what \in {"attach_pool", "detach_pool"}, <<OnPool(what, p, a)>> \in Seq(GoodCall),
             what = "attach_pool" => MovesVolumes \/ VolumesIn(db, p) = {}
      PROVE  Apt(<<OnPool(what, p, a)>>, FALSE)
  <2> DEFINE call == OnPool(what, p, a)
  <2>1. call \in Spelled(what, a, p, Null, Null, Null, Null, {})
    BY CallsSpelled
  <2>2. <<call>> \in Seq(GoodCall)
    BY <1>4
  <2> HIDE DEF call
  <2>3. Apt(<<call>>, FALSE)
    BY <1>4, <2>1, <2>2, OneCallApt DEF Spelled
  <2> QED
    BY <2>3 DEF call
<1>5. ASSUME NEW p \in Rows(db.pools), NEW a \in Arrays
      PROVE  /\ MovesVolumes \/ VolumesIn(db, p) = {} => Apt(AttachPool(p, a), FALSE)
             /\ Apt(DetachPool(p, a), FALSE)
  BY <1>1, <1>4, CallsTyped DEF AttachPool, DetachPool
<1>6. ASSUME NEW a \in Arrays, NEW what \in {"create_array", "delete_array"},
             NEW call, call = [Do(what) EXCEPT !.array = a], <<call>> \in Seq(GoodCall)
      PROVE  Apt(<<call>>, FALSE)
  <2>1. call \in Spelled(what, a, Null, Null, Null, Null, Null, {})
    <3>1. Do(what) \in Spelled(what, Null, Null, Null, Null, Null, Null, {})
      BY CallsSpelled
    <3> QED
      BY <1>6, <3>1 DEF Spelled
  <2> QED
    BY <1>6, <2>1, OneCallApt DEF Spelled
<1>7. ASSUME NEW a \in Arrays PROVE Apt(PostArray(a), FALSE) /\ Apt(DeleteArray(a), FALSE)
  BY <1>6, CallsTyped DEF PostArray, DeleteArray
<1>8. ASSUME NEW p \in Rows(db.pools), NEW n \in VolumeNames PROVE Apt(PostVolume(p, n), TRUE)
  <2> DEFINE call == [Do("create_volume") EXCEPT !.pool = p, !.name = n]
  <2>1. call \in Spelled("create_volume", Null, p, Null, Null, n, Null, {})
    <3>1. Do("create_volume") \in Spelled("create_volume", Null, Null, Null, Null, Null, Null, {})
      BY CallsSpelled
    <3> QED
      BY <3>1 DEF Spelled
  <2>2. <<call>> \in Seq(GoodCall) /\ PostVolume(p, n) = <<call>>
    BY <1>1, CallsTyped DEF PostVolume
  <2> HIDE DEF call
  <2>3. call.do = "create_volume" /\ ~call.once /\ call.pool = p /\ call.volume = Null /\ call.name = n
    BY <2>1 DEF Spelled
  <2>4. Apt(<<call>>, TRUE)
    BY <2>2, <2>3, OneCallApt DEF OnArrays
  <2> QED
    BY <2>2, <2>4
<1>9. ASSUME NEW v \in Rows(db.volumes) PROVE Apt(DeleteVolume(v), FALSE)
  <2> DEFINE call == [Do("delete_volume") EXCEPT !.volume = v]
  <2>1. call \in Spelled("delete_volume", Null, Null, Null, v, Null, Null, {})
    <3>1. Do("delete_volume") \in Spelled("delete_volume", Null, Null, Null, Null, Null, Null, {})
      BY CallsSpelled
    <3> QED
      BY <3>1 DEF Spelled
  <2>2. <<call>> \in Seq(GoodCall) /\ DeleteVolume(v) = <<call>>
    BY <1>1, CallsTyped DEF DeleteVolume
  <2> HIDE DEF call
  <2>3. call.do = "delete_volume" /\ ~call.once /\ call.pool = Null /\ call.volume = v /\ call.name = Null
    BY <2>1 DEF Spelled
  <2>4. Apt(<<call>>, FALSE)
    BY <2>2, <2>3, OneCallApt DEF OnArrays
  <2> QED
    BY <2>2, <2>4
<1>10. ASSUME NEW h \in Hosts, NEW v \in Rows(db.volumes) PROVE Apt(DeleteMapping(h, v), FALSE)
  <2> DEFINE call == [Do("delete_mapping") EXCEPT !.host = h, !.volume = v]
  <2>1. call \in Spelled("delete_mapping", Null, Null, Null, v, Null, h, {})
    <3>1. Do("delete_mapping") \in Spelled("delete_mapping", Null, Null, Null, Null, Null, Null, {})
      BY CallsSpelled
    <3> QED
      BY <3>1 DEF Spelled
  <2>2. <<call>> \in Seq(GoodCall) /\ DeleteMapping(h, v) = <<call>>
    BY <1>1, CallsTyped DEF DeleteMapping
  <2> HIDE DEF call
  <2>3. call.do = "delete_mapping" /\ ~call.once /\ call.pool = Null /\ call.volume = v /\ call.name = Null
    BY <2>1 DEF Spelled
  <2>4. Apt(<<call>>, FALSE)
    BY <2>2, <2>3, OneCallApt DEF OnArrays
  <2> QED
    BY <2>2, <2>4
<1>11. ASSUME NEW a \in Arrays, NEW n \in VolumeNames PROVE Apt(Rmvdisk(a, n), FALSE)
  <2> DEFINE call == OnVolume("delete_volume", a, n)
  <2>1. call \in Spelled("delete_volume", a, Null, Null, Null, n, Null, {})
    BY CallsSpelled
  <2>2. <<call>> \in Seq(GoodCall) /\ Rmvdisk(a, n) = <<call>>
    BY CallsTyped DEF Rmvdisk
  <2> HIDE DEF call
  <2>3. call.do = "delete_volume" /\ ~call.once /\ call.pool = Null /\ call.volume = Null /\ call.name = n
    BY <2>1 DEF Spelled
  <2>4. Apt(<<call>>, FALSE)
    BY <2>2, <2>3, OneCallApt DEF OnArrays
  <2> QED
    BY <2>2, <2>4
<1>12. ASSUME NEW a \in Arrays, NEW n \in VolumeNames, NEW g \in PoolNames PROVE Apt(Mkvdisk(a, g, n), FALSE)
  <2> DEFINE call == [OnVolume("create_volume", a, n) EXCEPT !.group = g]
  <2>1. call \in Spelled("create_volume", a, Null, g, Null, n, Null, {})
    <3>1. OnVolume("create_volume", a, n) \in Spelled("create_volume", a, Null, Null, Null, n, Null, {})
      BY CallsSpelled
    <3> QED
      BY <3>1 DEF Spelled
  <2>2. <<call>> \in Seq(GoodCall) /\ Mkvdisk(a, g, n) = <<call>>
    BY CallsTyped DEF Mkvdisk
  <2> HIDE DEF call
  <2>3. call.do = "create_volume" /\ ~call.once /\ call.pool = Null /\ call.volume = Null /\ call.name = n
    BY <2>1 DEF Spelled
  <2>4. Apt(<<call>>, FALSE)
    BY <2>2, <2>3, OneCallApt DEF OnArrays
  <2> QED
    BY <2>2, <2>4
<1> QED
  BY <1>2, <1>3, <1>5, <1>7, <1>8, <1>9, <1>10, <1>11, <1>12


\* The requests of one session that is committed as a whole.
Sent == {calls \in Seq(GoodCall) : Apt(calls, FALSE)}

LEMMA SentRequests ==
  ASSUME TypeInv
  PROVE  /\ \A a \in Arrays, n \in VolumeNames :
              Rmvdisk(a, n) \in Sent /\ \A g \in PoolNames : Mkvdisk(a, g, n) \in Sent
         /\ \A h \in Hosts, xs \in SUBSET Ports :
              Mkhost(h, xs) \in Sent /\ <<OnHost("add_host_port", h, xs)>> \in Sent
         /\ \A h \in Hosts : DeleteHost(h) \in Sent
         /\ \A a \in Arrays, h \in Hosts, n \in VolumeNames :
              /\ Mkvdiskhostmap(a, h, n) \in Sent /\ WsapiCreateVlun(a, h, n) \in Sent
              /\ Rmvdiskhostmap(a, h, n) \in Sent
         /\ \A p \in Rows(db.pools) : DeletePool(p) \in Sent
         /\ \A v \in Rows(db.volumes) : DeleteVolume(v) \in Sent
         /\ \A h \in Hosts, v \in Rows(db.volumes) : DeleteMapping(h, v) \in Sent
         /\ \A a \in Arrays : PostArray(a) \in Sent /\ DeleteArray(a) \in Sent
<1>1. \A calls : Apt(calls, FALSE) => calls \in Sent
  BY DEF Apt, Sent
<1>2. {} \in SUBSET Ports
  OBVIOUS
<1> QED
  BY <1>1, <1>2, RowsApt, HostsApt, PairsApt

LEMMA CommandApt ==
  ASSUME TypeInv, NEW calls \in SvcTasks \cup CommandHandlers \cup WsapiRoutes
  PROVE  calls \in Sent
<1>1. \A a \in Arrays, n \in VolumeNames :
        /\ Rmvdisk(a, n) \in Sent /\ \A g \in PoolNames : Mkvdisk(a, g, n) \in Sent
  BY SentRequests
<1>2. ASSUME NEW x \in Ports, NEW h \in Hosts
      PROVE  Mkhost(h, {x}) \in Sent /\ Addhostport(h, x) \in Sent
  <2>1. {x} \in SUBSET Ports
    OBVIOUS
  <2> QED
    BY <2>1, SentRequests DEF Addhostport
<1>3. \A h \in Hosts : Rmhost(h) \in Sent
  <2>1. {} \in SUBSET Ports
    OBVIOUS
  <2> QED
    BY <2>1, SentRequests DEF Rmhost
<1>7. \A h \in Hosts, x \in Ports : Addhostport(h, x) \in Sent
  BY <1>2
<1>4. CASE calls \in SvcTasks
  <2> DEFINE MkhostOf(h, x) == Mkhost(h, {x})
             A == {Mkvdisk(a, g, n) : a \in Arrays, g \in PoolNames, n \in VolumeNames}
             B == {Rmvdisk(a, n) : a \in Arrays, n \in VolumeNames}
             C == {MkhostOf(h, x) : h \in Hosts, x \in Ports}
             D == {Rmhost(h) : h \in Hosts}
             E == {Addhostport(h, x) : h \in Hosts, x \in Ports}
             F == {Mkvdiskhostmap(a, h, n) : a \in Arrays, h \in Hosts, n \in VolumeNames}
             G == {Rmvdiskhostmap(a, h, n) : a \in Arrays, h \in Hosts, n \in VolumeNames}
  <2>1. SvcTasks = A \cup B \cup C \cup D \cup E \cup F \cup G
    BY DEF SvcTasks
  <2>2. A \subseteq Sent
    BY <1>1
  <2>3. B \subseteq Sent
    BY <1>1
  <2>9. \A h \in Hosts, x \in Ports : MkhostOf(h, x) \in Sent
    BY <1>2
  <2> HIDE DEF MkhostOf
  <2>4. C \subseteq Sent
    BY <2>9
  <2>5. D \subseteq Sent
    BY <1>3
  <2>6. E \subseteq Sent
    BY <1>7
  <2>7. F \subseteq Sent
    BY SentRequests
  <2>8. G \subseteq Sent
    BY SentRequests
  <2> HIDE DEF A, B, C, D, E, F, G
  <2> QED
    BY <1>4, <2>1, <2>2, <2>3, <2>4, <2>5, <2>6, <2>7, <2>8
<1>5. CASE calls \in CommandHandlers
  <2>1. \A a \in Arrays, n \in VolumeNames :
          Removevv(a, n) = Rmvdisk(a, n) /\ \A g : Createvv(a, g, n) = Mkvdisk(a, g, n)
    BY DEF Removevv, Createvv
  <2>2. \A a, h, n : Createvlun(a, h, n) = Mkvdiskhostmap(a, h, n) /\ Removevlun(a, h, n) = Rmvdiskhostmap(a, h, n)
    BY DEF Createvlun, Mkvdiskhostmap, ParEnsureIscsiEndpoint, Removevlun
  <2>3. \A h \in Hosts : /\ Removehost(h) \in Sent /\ \A x \in Ports : Sethost(h, x) \in Sent
                         /\ \A xs \in SUBSET Ports : Createhost(h, xs) \in Sent
    BY <1>3, <1>7, SentRequests DEF Removehost, Rmhost, Sethost, Createhost
  <2> DEFINE A == {Createvv(a, g, n) : a \in Arrays, g \in PoolNames, n \in VolumeNames}
             B == {Removevv(a, n) : a \in Arrays, n \in VolumeNames}
             C == {Createhost(h, xs) : h \in Hosts, xs \in SUBSET Ports}
             D == {Removehost(h) : h \in Hosts}
             E == {Sethost(h, x) : h \in Hosts, x \in Ports}
             F == {Createvlun(a, h, n) : a \in Arrays, h \in Hosts, n \in VolumeNames}
             G == {Removevlun(a, h, n) : a \in Arrays, h \in Hosts, n \in VolumeNames}
  <2>4. CommandHandlers = A \cup B \cup C \cup D \cup E \cup F \cup G
    BY DEF CommandHandlers
  <2>5. A \subseteq Sent
    BY <1>1, <2>1
  <2>6. B \subseteq Sent
    BY <1>1, <2>1
  <2>7. C \subseteq Sent
    BY <2>3
  <2>8. D \subseteq Sent
    BY <2>3
  <2>9. E \subseteq Sent
    BY <2>3
  <2>10. F \subseteq Sent
    BY <2>2, SentRequests
  <2>11. G \subseteq Sent
    BY <2>2, SentRequests
  <2> HIDE DEF A, B, C, D, E, F, G
  <2> QED
    BY <1>5, <2>4, <2>5, <2>6, <2>7, <2>8, <2>9, <2>10, <2>11
<1>6. CASE calls \in WsapiRoutes
  <2>1. \A a \in Arrays, n \in VolumeNames :
          WsapiDeleteVolume(a, n) = Rmvdisk(a, n) /\ \A g : WsapiCreateVolume(a, g, n) = Mkvdisk(a, g, n)
    BY DEF WsapiDeleteVolume, WsapiCreateVolume
  <2>2. \A a, h, n : WsapiDeleteVlun(a, h, n) = Rmvdiskhostmap(a, h, n)
    BY DEF WsapiDeleteVlun
  <2>3. \A h : /\ WsapiDeleteHost(h) = Rmhost(h)
               /\ \A xs : /\ WsapiCreateHost(h, xs) = Mkhost(h, xs)
                          /\ WsapiModifyHost(h, xs) = <<OnHost("add_host_port", h, xs)>>
    BY DEF WsapiDeleteHost, Rmhost, WsapiCreateHost, WsapiModifyHost
  <2> DEFINE A == {WsapiCreateVolume(a, g, n) : a \in Arrays, g \in PoolNames, n \in VolumeNames}
             B == {WsapiDeleteVolume(a, n) : a \in Arrays, n \in VolumeNames}
             C == {WsapiCreateHost(h, xs) : h \in Hosts, xs \in SUBSET Ports}
             D == {WsapiModifyHost(h, xs) : h \in Hosts, xs \in SUBSET Ports \ {{}}}
             E == {WsapiDeleteHost(h) : h \in Hosts}
             F == {WsapiCreateVlun(a, h, n) : a \in Arrays, h \in Hosts, n \in VolumeNames}
             G == {WsapiDeleteVlun(a, h, n) : a \in Arrays, h \in Hosts, n \in VolumeNames}
  <2>4. WsapiRoutes = A \cup B \cup C \cup D \cup E \cup F \cup G
    BY DEF WsapiRoutes
  <2>5. A \subseteq Sent
    BY <1>1, <2>1
  <2>6. B \subseteq Sent
    BY <1>1, <2>1
  <2>7. C \subseteq Sent
    BY <2>3, SentRequests
  <2>8. D \subseteq Sent
    BY <2>3, SentRequests
  <2>9. E \subseteq Sent
    BY <1>3, <2>3
  <2>10. F \subseteq Sent
    BY SentRequests
  <2>11. G \subseteq Sent
    BY <2>2, SentRequests
  <2> HIDE DEF A, B, C, D, E, F, G
  <2> QED
    BY <1>6, <2>4, <2>5, <2>6, <2>7, <2>8, <2>9, <2>10, <2>11
<1> QED
  BY <1>4, <1>5, <1>6

LEMMA AdministerApt ==
  ASSUME TypeInv, NEW c \in Clients, Administer(c)
  PROVE  \E calls \in Seq(GoodCall), keeps \in BOOLEAN : Apt(calls, keeps) /\ Ask(c, calls, keeps)
<1>1. ASSUME NEW calls \in ToolRequests PROVE calls \in Sent
  <2>1. \A g \in PoolNames, a \in Arrays : PoolRm(g, a) \subseteq Sent
    BY SentRequests DEF PoolRm, PoolCalled, PoolsOf
  <2>2. \A n \in VolumeNames, a \in Arrays : VolumeRm(n, a) \subseteq Sent
    BY SentRequests DEF VolumeRm, VolumeCalled, VolumesOf
  <2>3. \A h \in Hosts : HostRm(h) \subseteq Sent
    BY SentRequests, {} \in SUBSET Ports DEF HostRm
  <2>4. \A a \in Arrays, h \in Hosts, n \in VolumeNames : MapRm(a, h, n) \subseteq Sent
    BY SentRequests DEF MapRm, VolumeCalled, VolumesOf
  <2>5. \A a \in Arrays : ArrayCreate(a) \in Sent /\ ArrayRm(a) \in Sent
    BY SentRequests DEF ArrayCreate, ArrayRm
  <2> DEFINE A == {ArrayCreate(a) : a \in Arrays}
             B == {ArrayRm(a) : a \in Arrays}
             C == UNION {PoolRm(g, a) : g \in PoolNames, a \in Arrays}
             D == UNION {VolumeRm(n, a) : n \in VolumeNames, a \in Arrays}
             E == UNION {HostRm(h) : h \in Hosts}
             F == UNION {MapRm(a, h, n) : a \in Arrays, h \in Hosts, n \in VolumeNames}
  <2>10. calls \in A \cup B \cup C \cup D \cup E \cup F
    BY DEF ToolRequests
  <2>11. A \subseteq Sent
    BY <2>5
  <2>12. B \subseteq Sent
    BY <2>5
  <2>13. C \subseteq Sent
    BY <2>1
  <2>14. D \subseteq Sent
    BY <2>2
  <2>15. E \subseteq Sent
    BY <2>3
  <2>16. F \subseteq Sent
    BY <2>4
  <2> HIDE DEF A, B, C, D, E, F
  <2> QED
    BY <2>10, <2>11, <2>12, <2>13, <2>14, <2>15, <2>16
<1>2. \A calls, keeps : Apt(calls, keeps) => calls \in Seq(GoodCall)
  BY DEF Apt
<1>3. CASE \E calls \in ToolRequests : Ask(c, calls, FALSE)
  BY <1>1, <1>3 DEF Sent
<1>4. CASE \E g \in PoolNames, n \in VolumeNames :
             \E calls \in VolumeCreate(n, g) : Ask(c, calls, TRUE)
  <2>1. \A g \in PoolNames, n \in VolumeNames : \A q \in VolumeCreate(n, g) : Apt(q, TRUE)
    BY RowsApt DEF VolumeCreate
  <2> QED
    BY <1>2, <1>4, <2>1
<1>5. CASE \E g \in PoolNames : Ask(c, PostPool(g), FALSE)
  BY <1>2, <1>5, RowsApt
<1>6. CASE \E p \in Rows(db.pools), a \in Arrays :
             \/ (MovesVolumes \/ VolumesIn(db, p) = {}) /\ Ask(c, AttachPool(p, a), FALSE)
             \/ Ask(c, DetachPool(p, a), FALSE)
  BY <1>2, <1>6, RowsApt
<1>7. CASE \E h \in Hosts, xs \in SUBSET Ports :
             Ask(c, PostHost(h, xs), FALSE) \/ Ask(c, PatchHost(h, xs), FALSE)
  BY <1>2, <1>7, HostsApt
<1> QED
  BY <1>3, <1>4, <1>5, <1>6, <1>7 DEF Administer

LEMMA NextInventory ==
  ASSUME Names \subseteq Watched, TypeInv, TypeInv', InventoryInv, [Next]_vars
  PROVE  InventoryInv'
<1>1. ASSUME NEW c \in Clients, Administer(c) PROVE InventoryInv'
  BY <1>1, AdministerApt, AskInventory
<1>2. ASSUME NEW c \in Clients, Command(c) PROVE InventoryInv'
  <2>1. PICK calls \in SvcTasks \cup CommandHandlers \cup WsapiRoutes : Ask(c, calls, FALSE)
    BY <1>2 DEF Command
  <2>2. Apt(calls, FALSE)
    BY CommandApt DEF Sent
  <2> QED
    BY <2>1, <2>2, AskInventory
<1>3. CASE Restart
  BY <1>3, StillInventory DEF Restart
<1>4. CASE UNCHANGED vars
  BY <1>4, StillInventory DEF vars
<1> QED
  BY <1>1, <1>2, <1>3, <1>4, ServeInventory, CrashInventory DEF Next

\* The inductive invariant: what is uncommitted differs from the tables only in what
\* its request is about, what a request has looked up still stands unless its names
\* were raced for, and the rows are those that the committed requests asked for.
THEOREM InventoryInvariant ==
  ASSUME Names \subseteq Watched
  PROVE  Spec => [](TypeInv /\ InventoryInv)
<1>1. Init => TypeInv /\ InventoryInv
  BY InitTyped, InitInventory
<1>2. TypeInv /\ InventoryInv /\ [Next]_vars => (TypeInv /\ InventoryInv)'
  BY NextTyped, NextInventory
<1> QED
  BY <1>1, <1>2, PTL DEF Spec

\* Rows name rows that are there, unless requests about the same ones met, whichever
\* commands are mixed, whoever crashes between: each service looks before it
\* deletes, and nothing it has seen changes but by a request about the same name
\* (core/).
THEOREM ReferencesHold ==
  ASSUME Names \subseteq Watched
  PROVE  Spec => []References
<1>1. TypeInv /\ InventoryInv => References
  BY DEF InventoryInv, Sound, PoolsSound, VolumesSound, MapsSound, References
<1> QED
  BY <1>1, InventoryInvariant, PTL

\* A host has the ports that the committed requests asked for (core/hosts.py).
THEOREM PortsAreKept ==
  ASSUME Names \subseteq Watched
  PROVE  Spec => []PortsKept
<1>1. TypeInv /\ InventoryInv => PortsKept
  BY DEF InventoryInv, AsWanted, PortsKept
<1> QED
  BY <1>1, InventoryInvariant, PTL

\* A pair is mapped once, an array has one iSCSI endpoint: the lookups that take one
\* row find one (_ensure_iscsi_endpoint, find_mapping_by_host_and_volume).
THEOREM AlwaysFoundOnce ==
  ASSUME Names \subseteq Watched
  PROVE  Spec => []FoundOnce
<1>1. TypeInv /\ InventoryInv => FoundOnce
  BY DEF InventoryInv, Sound, ArraysSound, MapsSound, FoundOnce
<1> QED
  BY <1>1, InventoryInvariant, PTL

-----------------------------------------------------------------------------
\* What is listed by pools is what is listed by arrays.
LEMMA SoundListings ==
  ASSUME ~MovesVolumes, db \in TableSet, Sound(db, {})
  PROVE  \A a \in Arrays :
           /\ Lssystem(a) = Showsys(a)
           /\ Lsmdiskgrp(a) = Showcpg(a) /\ Lsvdisk(a) = WsapiVolumes(a)
           /\ Lshost = Showhost
           /\ UNION {Lshostvdiskmap(a, h) : h \in Hosts} = WsapiVluns(a)
           /\ UNION {Lsvdiskhostmap(v) : v \in VolumesOf(db, a)} = Showvlun(a)
<1>1. \A v \in Rows(db.volumes) : /\ db.volumes[v].pool \in Pools
                                  /\ db.pools[db.volumes[v].pool] # Null
                                  /\ db.pools[db.volumes[v].pool].array = db.volumes[v].array
  <2>1. \A v \in Rows(db.volumes) : db.volumes[v].pool \in Pools
    BY DEF Rows, TableSet, VolumeRow
  <2> QED
    BY <2>1 DEF Sound, VolumesSound
<1>2. Linked(db)
  <2>1. \A p \in Rows(db.pools) : db.pools[p].array \in db.arrays
    BY DEF Sound, PoolsSound
  <2>2. \A v \in Rows(db.volumes) : db.volumes[v].pool \in Rows(db.pools)
    BY <1>1 DEF Rows, TableSet
  <2>3. \A h \in Hosts, v \in Volumes : db.maps[<<h, v>>] > 0 => h \in db.hosts /\ v \in Rows(db.volumes)
    BY DEF Sound, MapsSound, Rows, TableSet
  <2> QED
    BY <2>1, <2>2, <2>3 DEF Linked
<1> QED
  BY <1>1, <1>2, LinkedListings

\* The vendors' listings agree until requests about the same names meet, where no
\* pool that has volumes is attached to another array (personalities/).
THEOREM ListingsAlwaysAgree ==
  ASSUME Names \subseteq Watched, ~MovesVolumes
  PROVE  Spec => []ListingsAgree
<1>1. TypeInv /\ InventoryInv => ListingsAgree
  BY SoundListings DEF InventoryInv, TypeInv, ListingsAgree
<1> QED
  BY <1>1, InventoryInvariant, PTL

=============================================================================
