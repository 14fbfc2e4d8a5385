------------------------------ MODULE Commands ------------------------------
(***************************************************************************)
(* What the routes and the vendors' commands call, what the vendors'       *)
(* listings show, and clients that use them at one time.  The commands of  *)
(* one vendor mostly are those of another under other names.               *)
(***************************************************************************)
EXTENDS Requests

CONSTANTS
  MovesVolumes    \* whether administrators attach pools that have volumes

Do(what) == [Call EXCEPT !.do = what]
OnPool(what, p, a) == [Do(what) EXCEPT !.pool = p, !.array = a]
OnHost(what, h, ports) == [Do(what) EXCEPT !.host = h, !.ports = ports]
OnVolume(what, a, name) == [Do(what) EXCEPT !.array = a, !.name = name]
OnPair(what, a, h, name) == [OnVolume(what, a, name) EXCEPT !.host = h]

-----------------------------------------------------------------------------
(* api/v1.py and api/arrays.py *)
PostPool(group) == <<[Do("create_pool") EXCEPT !.array = Default, !.group = group]>>
DeletePool(p) == <<OnPool("delete_pool", p, Null)>>
AttachPool(p, a) == <<OnPool("attach_pool", p, a)>>
DetachPool(p, a) == <<OnPool("detach_pool", p, a)>>
PostArray(a) == <<[Do("create_array") EXCEPT !.array = a]>>
DeleteArray(a) == <<[Do("delete_array") EXCEPT !.array = a]>>
PostEndpoint(a) == <<[Do("create_endpoint") EXCEPT !.array = a]>>
PostVolume(p, name) == <<[Do("create_volume") EXCEPT !.pool = p, !.name = name]>>
DeleteVolume(v) == <<[Do("delete_volume") EXCEPT !.volume = v]>>
PostHost(h, ports) == <<OnHost("create_host", h, ports)>>
PatchHost(h, ports) == <<OnHost("update_host", h, ports)>>
DeleteHost(h) == <<OnHost("delete_host", h, {})>>
PostMapping(h, v) == <<[Do("create_mapping") EXCEPT !.host = h, !.volume = v]>>
DeleteMapping(h, v) == <<[Do("delete_mapping") EXCEPT !.host = h, !.volume = v]>>

(* cli/main.py: the tool finds the ids of what it names in a listing. *)
ArrayCreate(a) == PostArray(a)
ArrayRm(a) == DeleteArray(a)
PoolRm(group, a) == {DeletePool(p) : p \in PoolCalled(db, group, a)}
VolumeCreate(name, group) ==    \* without --array: the pool may be on any
  {PostVolume(p, name) : p \in {q \in Rows(db.pools) : db.pools[q].name = group}}
VolumeRm(name, a) == {DeleteVolume(v) : v \in VolumeCalled(db, name, a)}
HostRm(h) == {DeleteHost(i) : i \in {h} \cap db.hosts}
MapRm(a, h, name) ==
  {DeleteMapping(h, v) : v \in VolumeCalled(db, name, a) \cap MapsOfHost(db, h)}

(* personalities/svc/handlers.py *)
Mkvdisk(a, group, name) == <<[OnVolume("create_volume", a, name) EXCEPT !.group = group]>>
Rmvdisk(a, name) == <<OnVolume("delete_volume", a, name)>>
Mkhost(h, ports) == <<OnHost("create_host", h, {}), OnHost("add_host_port", h, ports)>>
Rmhost(h) == DeleteHost(h)
Addhostport(h, port) == <<OnHost("add_host_port", h, {port})>>
EnsureIscsiEndpoint(a) == [Do("ensure_endpoint") EXCEPT !.array = a]
Mkvdiskhostmap(a, h, name) ==
  <<OnPair("find_none", a, h, name), EnsureIscsiEndpoint(a), OnPair("create_mapping", a, h, name)>>
Rmvdiskhostmap(a, h, name) == <<OnPair("delete_mapping", a, h, name)>>

SvcTasks ==
  {Mkvdisk(a, g, n) : a \in Arrays, g \in PoolNames, n \in VolumeNames}
    \cup {Rmvdisk(a, n) : a \in Arrays, n \in VolumeNames}
    \cup {Mkhost(h, {x}) : h \in Hosts, x \in Ports} \cup {Rmhost(h) : h \in Hosts}
    \cup {Addhostport(h, x) : h \in Hosts, x \in Ports}
    \cup {Mkvdiskhostmap(a, h, n) : a \in Arrays, h \in Hosts, n \in VolumeNames}
    \cup {Rmvdiskhostmap(a, h, n) : a \in Arrays, h \in Hosts, n \in VolumeNames}

(* personalities/hpe3par/handlers.py *)
Createvv(a, cpg, name) == Mkvdisk(a, cpg, name)
Removevv(a, name) == Rmvdisk(a, name)
Createhost(h, ports) == Mkhost(h, ports)
Removehost(h) == DeleteHost(h)
Sethost(h, port) == Addhostport(h, port)
ParEnsureIscsiEndpoint(a) == EnsureIscsiEndpoint(a)
Createvlun(a, h, name) ==
  <<OnPair("find_none", a, h, name), ParEnsureIscsiEndpoint(a),
    OnPair("create_mapping", a, h, name)>>
Removevlun(a, h, name) == Rmvdiskhostmap(a, h, name)

CommandHandlers ==
  {Createvv(a, g, n) : a \in Arrays, g \in PoolNames, n \in VolumeNames}
    \cup {Removevv(a, n) : a \in Arrays, n \in VolumeNames}
    \cup {Createhost(h, xs) : h \in Hosts, xs \in SUBSET Ports} \cup {Removehost(h) : h \in Hosts}
    \cup {Sethost(h, x) : h \in Hosts, x \in Ports}
    \cup {Createvlun(a, h, n) : a \in Arrays, h \in Hosts, n \in VolumeNames}
    \cup {Removevlun(a, h, n) : a \in Arrays, h \in Hosts, n \in VolumeNames}

(* personalities/hpe3par/routes.py: the WSAPI, which makes no endpoint *)
WsapiCreateVolume(a, cpg, name) == Mkvdisk(a, cpg, name)
WsapiDeleteVolume(a, name) == Rmvdisk(a, name)
WsapiCreateHost(h, ports) == Mkhost(h, ports)
WsapiModifyHost(h, ports) == <<OnHost("add_host_port", h, ports)>>
WsapiDeleteHost(h) == DeleteHost(h)
WsapiCreateVlun(a, h, name) ==
  <<OnPair("find_none", a, h, name), OnPair("create_mapping", a, h, name)>>
WsapiDeleteVlun(a, h, name) == Rmvdiskhostmap(a, h, name)

WsapiRoutes ==
  {WsapiCreateVolume(a, g, n) : a \in Arrays, g \in PoolNames, n \in VolumeNames}
    \cup {WsapiDeleteVolume(a, n) : a \in Arrays, n \in VolumeNames}
    \cup {WsapiCreateHost(h, xs) : h \in Hosts, xs \in SUBSET Ports}
    \cup {WsapiModifyHost(h, xs) : h \in Hosts, xs \in SUBSET Ports \ {{}}}
    \cup {WsapiDeleteHost(h) : h \in Hosts}
    \cup {WsapiCreateVlun(a, h, n) : a \in Arrays, h \in Hosts, n \in VolumeNames}
    \cup {WsapiDeleteVlun(a, h, n) : a \in Arrays, h \in Hosts, n \in VolumeNames}

-----------------------------------------------------------------------------
(***************************************************************************)
(* What the listings show, of the committed tables                         *)
(***************************************************************************)
\* The volumes behind the allocated capacity: by their pools, or by their array.
Lssystem(a) == UNION {VolumesIn(db, p) : p \in PoolsOf(db, a)}
Showsys(a) == VolumesOf(db, a)

Lsmdiskgrp(a) == {<<db.pools[p].name, Cardinality(VolumesIn(db, p))>> : p \in PoolsOf(db, a)}
Showcpg(a) == {<<db.pools[p].name, Cardinality(VolumesIn(db, p))>> : p \in PoolsOf(db, a)}

PoolShown(v) == IF db.pools[db.volumes[v].pool] = Null THEN "" ELSE db.pools[db.volumes[v].pool].name
Online(v) == db.volumes[v].status = "available"
Lsvdisk(a) == {<<db.volumes[v].name, PoolShown(v), Online(v)>> : v \in VolumesOf(db, a)}

\* Fails as a whole when a pool is missing.
Failed == {"Internal error"}
Showvv(a) ==
  IF \E v \in VolumesOf(db, a) : db.pools[db.volumes[v].pool] = Null THEN Failed
  ELSE {<<db.volumes[v].name, db.pools[db.volumes[v].pool].name, Online(v)>> : v \in VolumesOf(db, a)}
WsapiVolumes(a) == Showvv(a)

Lshost == {<<h, db.ports[h]>> : h \in db.hosts}
Showhost == {<<h, db.ports[h]>> : h \in db.hosts}

Lshostvdiskmap(a, h) == {<<db.volumes[v].name, h>> : v \in MapsOfHost(db, h) \cap VolumesOf(db, a)}
Lsvdiskhostmap(v) ==
  IF MapsOfVolume(db, v) \subseteq db.hosts
    THEN {<<db.volumes[v].name, h>> : h \in MapsOfVolume(db, v)} ELSE Failed
Showvlun(a) ==
  IF \E v \in VolumesOf(db, a) : ~(MapsOfVolume(db, v) \subseteq db.hosts) THEN Failed
  ELSE UNION {{<<db.volumes[v].name, h>> : h \in MapsOfVolume(db, v)} : v \in VolumesOf(db, a)}
WsapiVluns(a) == Showvlun(a)

-----------------------------------------------------------------------------
ToolRequests ==
  {ArrayCreate(a) : a \in Arrays} \cup {ArrayRm(a) : a \in Arrays}
    \cup (UNION {PoolRm(g, a) : g \in PoolNames, a \in Arrays})
    \cup (UNION {VolumeRm(n, a) : n \in VolumeNames, a \in Arrays})
    \cup (UNION {HostRm(h) : h \in Hosts})
    \cup (UNION {MapRm(a, h, n) : a \in Arrays, h \in Hosts, n \in VolumeNames})

\* By the tool, or by a program that uses the API itself.
Administer(c) ==
  \/ \E calls \in ToolRequests : Ask(c, calls, FALSE)
  \/ \E g \in PoolNames, n \in VolumeNames :
       \E calls \in VolumeCreate(n, g) : Ask(c, calls, TRUE)
  \/ \E g \in PoolNames : Ask(c, PostPool(g), FALSE)
  \/ \E p \in Rows(db.pools), a \in Arrays :
       \/ (MovesVolumes \/ VolumesIn(db, p) = {}) /\ Ask(c, AttachPool(p, a), FALSE)
       \/ Ask(c, DetachPool(p, a), FALSE)
  \/ \E h \in Hosts, xs \in SUBSET Ports :
       Ask(c, PostHost(h, xs), FALSE) \/ Ask(c, PatchHost(h, xs), FALSE)

Command(c) == \E calls \in SvcTasks \cup CommandHandlers \cup WsapiRoutes : Ask(c, calls, FALSE)

Next ==
  \/ \E c \in Clients : Administer(c) \/ Command(c) \/ Serve(c)
  \/ Crash
  \/ Restart

Spec == Init /\ [][Next]_vars

-----------------------------------------------------------------------------
\* Rows name rows that are there, unless requests about the same ones met: no
\* foreign key is enforced, each service looks before it deletes (core/).
References ==
  /\ \A p \in Rows(db.pools) : db.pools[p].array \in db.arrays \cup raced
  /\ raced \cap PoolNames = {} => \A v \in Rows(db.volumes) : db.pools[db.volumes[v].pool] # Null
  /\ \A h \in Hosts, v \in Volumes :
       db.maps[<<h, v>>] > 0 =>
         /\ h \in db.hosts \cup raced
         /\ raced \cap VolumeNames = {} => db.volumes[v] # Null

\* A host has the ports the committed requests asked for, whatever requests about
\* other hosts, refusals and crashes came between (core/hosts.py).
PortsKept == \A h \in db.hosts \ raced : db.ports[h] = wanted[h]

\* The vendors' commands map a pair once and make one iSCSI endpoint for an array:
\* with two of either their lookups raise from then on (_ensure_iscsi_endpoint,
\* find_mapping_by_host_and_volume).
FoundOnce ==
  /\ \A a \in Arrays \ raced : db.iscsi[a] <= 1
  /\ \A h \in Hosts \ raced, v \in Rows(db.volumes) :
       db.volumes[v].name \notin raced => db.maps[<<h, v>>] <= 1

\* The vendors' listings show the same volumes, pools and mappings: SVC counts
\* volumes by their pools and 3PAR by their array, and each joins other tables.
ListingsAgree ==
  raced = {} => \A a \in Arrays :
    /\ Lssystem(a) = Showsys(a)
    /\ Lsmdiskgrp(a) = Showcpg(a) /\ Lsvdisk(a) = WsapiVolumes(a)
    /\ Lshost = Showhost
    /\ UNION {Lshostvdiskmap(a, h) : h \in Hosts} = WsapiVluns(a)
    /\ UNION {Lsvdiskhostmap(v) : v \in VolumesOf(db, a)} = Showvlun(a)

\* A pool in the tables has its backing bdev while the gateway serves
\* (core/pools.py, spdk/ensure.py, core/reconcile.py).
PoolBacked == up => Rows(db.pools) \subseteq spdk.backing

\* And the lvstore of its array and name, in which its volumes are made.
PoolUsable ==
  up => \A p \in Rows(db.pools) : spdk.lvstores[<<db.pools[p].array, db.pools[p].name>>] # Null

=============================================================================
