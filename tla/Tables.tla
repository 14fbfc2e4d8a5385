------------------------------- MODULE Tables -------------------------------
(***************************************************************************)
(* The tables of core/db.py and the services of core/ that change them.    *)
(* A service is what it refuses when it reads the tables and the tables it *)
(* leaves when its statement is flushed: other requests come in between.   *)
(* What SPDK does of volumes and mappings is in GatewayCore; sizes, LUNs   *)
(* and the texts of rows are left out, and of the endpoints only the iSCSI *)
(* ones are counted.  Arrays and hosts are known by their unique names.    *)
(***************************************************************************)
EXTENDS Naturals, FiniteSets

CONSTANTS
  Arrays, Default,           \* names of arrays; the one main.lifespan makes
  PoolNames, VolumeNames,
  Hosts, Ports,              \* names of hosts; initiators
  MaxPools, MaxVolumes,      \* bounds: UUIDs that are handed out
  MaxTwins,                  \* bound: iSCSI endpoints of an array, mappings of a pair
  Null

ASSUME TablesAssumption ==
  /\ Default \in Arrays
  /\ MaxPools \in Nat /\ MaxVolumes \in Nat /\ MaxTwins \in Nat

Pools == 1..MaxPools
Volumes == 1..MaxVolumes

NoTables == [arrays  |-> {Default},
             iscsi   |-> [a \in Arrays |-> 0],
             pools   |-> [p \in Pools |-> Null],
             hosts   |-> {},
             ports   |-> [h \in Hosts |-> {}],
             volumes |-> [v \in Volumes |-> Null],
             maps    |-> [hv \in Hosts \X Volumes |-> 0]]

Rows(table) == {id \in DOMAIN table : table[id] # Null}

PoolRow == [name : PoolNames, array : Arrays]
VolumeRow == [name : VolumeNames, pool : Pools, array : Arrays,
              status : {"creating", "available", "error"}]

ASSUME NullAssumption ==
  Null \notin Nat \cup Arrays \cup PoolNames \cup VolumeNames \cup Hosts \cup PoolRow \cup VolumeRow

TablesOK(t) ==
  /\ t.arrays \subseteq Arrays
  /\ t.iscsi \in [Arrays -> 0..MaxTwins]
  /\ \A p \in Rows(t.pools) : t.pools[p] \in PoolRow
  /\ t.hosts \subseteq Hosts
  /\ t.ports \in [Hosts -> SUBSET Ports]
  /\ \A v \in Rows(t.volumes) : t.volumes[v] \in VolumeRow
  /\ t.maps \in [Hosts \X Volumes -> 0..MaxTwins]

-----------------------------------------------------------------------------
(* Queries *)
PoolsOf(t, a) == {p \in Rows(t.pools) : t.pools[p].array = a}
PoolCalled(t, name, a) == {p \in PoolsOf(t, a) : t.pools[p].name = name}
VolumesOf(t, a) == {v \in Rows(t.volumes) : t.volumes[v].array = a}
VolumeCalled(t, name, a) == {v \in VolumesOf(t, a) : t.volumes[v].name = name}
VolumesIn(t, p) == {v \in Rows(t.volumes) : t.volumes[v].pool = p}
MapsOfHost(t, h) == {v \in Volumes : t.maps[<<h, v>>] > 0}
MapsOfVolume(t, v) == {h \in Hosts : t.maps[<<h, v>>] > 0}

-----------------------------------------------------------------------------
(* core/arrays.py and core/endpoints.py *)
CreateArrayRefused(t, a) == a \in t.arrays
ArrayAdded(t, a) == [t EXCEPT !.arrays = @ \cup {a}]

\* An array that has endpoints is refused by the database: the session empties
\* their array_id, which is NOT NULL.
DeleteArrayRefused(t, a) ==
  a \notin t.arrays \/ a = Default \/ PoolsOf(t, a) # {} \/ t.iscsi[a] > 0
ArrayDeleted(t, a) == [t EXCEPT !.arrays = @ \ {a}]

EndpointRefused(t, a) == a \notin t.arrays
EndpointAdded(t, a) == [t EXCEPT !.iscsi[a] = @ + 1]

-----------------------------------------------------------------------------
(* core/pools.py, and the pools' part of api/arrays.py *)
CreatePoolRefused(t, name, a) == a \notin t.arrays \/ PoolCalled(t, name, a) # {}
PoolAdded(t, p, name, a) == [t EXCEPT !.pools[p] = [name |-> name, array |-> a]]

DeletePoolRefused(t, p) == t.pools[p] = Null \/ VolumesIn(t, p) # {}
PoolDeleted(t, p) == [t EXCEPT !.pools[p] = Null]

AttachRefused(t, p, a) ==
  \/ a \notin t.arrays
  \/ t.pools[p] = Null
  \/ t.pools[p].array # a /\ PoolCalled(t, t.pools[p].name, a) # {}
PoolMoved(t, p, a) == [t EXCEPT !.pools[p].array = a]

\* To the default array, whatever pools that one has.
DetachRefused(t, p, a) == p \notin PoolsOf(t, a) \/ VolumesIn(t, p) # {} \/ a = Default

-----------------------------------------------------------------------------
(* core/hosts.py *)
CreateHostRefused(t, h) == h \in t.hosts
HostAdded(t, h, ports) == [t EXCEPT !.hosts = @ \cup {h}, !.ports[h] = ports]

\* add_host_port writes the list it read with the port appended.
HostPortsWritten(t, h, ports) == [t EXCEPT !.ports[h] = ports]

\* Mutant: the mappings are not looked at.
DeleteHostUnseen(t, h) == h \notin t.hosts

DeleteHostRefused(t, h) == h \notin t.hosts \/ MapsOfHost(t, h) # {}
HostDeleted(t, h) == [t EXCEPT !.hosts = @ \ {h}, !.ports[h] = {}]

-----------------------------------------------------------------------------
(* core/volumes.py and core/mappings.py *)
CreateVolumeRefused(t, name, p) ==
  \/ t.pools[p] = Null
  \/ t.pools[p].array \notin t.arrays
  \/ VolumeCalled(t, name, t.pools[p].array) # {}
VolumeAdded(t, v, name, p, a) ==
  [t EXCEPT !.volumes[v] = [name |-> name, pool |-> p, array |-> a, status |-> "creating"]]

DeleteVolumeRefused(t, v) == t.volumes[v] = Null \/ MapsOfVolume(t, v) # {}
VolumeDeleted(t, v) == [t EXCEPT !.volumes[v] = Null]

CreateMappingRefused(t, h, v) ==
  \/ t.volumes[v] = Null
  \/ t.volumes[v].status # "available"
  \/ h \notin t.hosts
  \/ t.iscsi[t.volumes[v].array] = 0
MappingAdded(t, h, v) == [t EXCEPT !.maps[<<h, v>>] = @ + 1]

MappingDeleted(t, h, v) == [t EXCEPT !.maps[<<h, v>>] = @ - 1]

=============================================================================
