------------------------------- MODULE Hitachi -------------------------------
(***************************************************************************)
(* The Hitachi personality of one array: personalities/hitachi/routes.py   *)
(* over the number mapper of translate.py.                                 *)
(*                                                                         *)
(* The mapper is memory of the process, filled from the tables at most     *)
(* every five seconds by the request that finds it due, while others go on *)
(* with it as full as it is; the rest of a handler works on what is there. *)
(* Where a handler awaits between reading shared state and writing it, it  *)
(* is split in actions.  Core operations are one step here: GatewayCore    *)
(* has their inside.                                                       *)
(***************************************************************************)
EXTENDS HitachiNumbers

CONSTANTS
  Requests,     \* requests of the personality at one time
  Volumes, Endpoints, Hosts, Initiators,
  MaxLdev,      \* bound: LDEV numbers that are handed out
  MaxLuns,      \* bound: LUNs at one time
  Explicit,     \* the ldevNumbers that clients ask for
  Operations,   \* the operations that each request may be
  Elsewhere,    \* what other APIs do to volumes: "create", "delete"
  Faults        \* "crash", "locked" (SQLite's busy timeout)

ASSUME HitachiAssumption ==
  /\ Null \notin Nat \cup Volumes \cup Endpoints \cup Hosts
  /\ IsFiniteSet(Endpoints)
  /\ ArrayOf \in [Volumes \cup Endpoints -> STRING]
  /\ IsFc \in [Endpoints -> BOOLEAN]
  /\ MaxLdev \in Nat /\ MaxLuns \in Nat /\ Explicit \subseteq 0..MaxLdev

VARIABLES
  rows, recorded,     \* table volumes: ids in order, and their ldev_id
  port,               \* table transport_endpoints: hitachi_port_id
  hosts, meta, ports, \* table hosts: ids in order, vendor_metadata, initiators
  luns,               \* table mappings
  ldevOf, volumeAt,   \* the mapper: _vol_to_ldev, _ldev_to_vol
  endpointAt,         \* the mapper: _port_to_ep
  due,                \* five seconds have passed since the last refresh
  unnumberedPools,    \* a pool has no pool_id yet
  pc, local,          \* each request's next step, and what it holds
  granted             \* history: the groups and targets clients were given

tables == <<rows, recorded, port, hosts, meta, ports, luns, unnumberedPools>>
mapper == <<ldevOf, volumeAt, endpointAt, due>>
requests == <<pc, local>>
vars == <<tables, mapper, requests, granted>>

Ldevs == 0..MaxLdev
Ports == 1..(Cardinality(Endpoints) + 2)
Kinds == {"group", "target"}    \* hitachi_host_groups, hitachi_iscsi_targets

NoNumbers == [k \in Kinds |-> [p \in Ports |-> Null]]
Nothing == [v \in {} |-> Null]

\* A refresh holds the order of the rows, what those selected recorded when
\* they were read, and then the numbers that it gave to those without one.
Idle == [volume |-> Null, ldev |-> Null, host |-> Null, number |-> NoNumbers,
         grants |-> {}, dropped |-> {},
         order |-> <<>>, noted |-> Nothing, numbers |-> Nothing]

RefreshSteps == {"select", "select_all", "fill", "flush", "ports", "commit"}

Grant == [host : Hosts, kind : Kinds, port : Ports, number : Nat]
Lun == [volume : Volumes, host : Hosts, endpoint : Endpoints, lun : Nat]

TypeOK ==
  /\ rows \in Seq(Volumes) /\ IsInjective(rows)
  /\ recorded \in [Volumes -> Ldevs \cup {Null}]
  /\ port \in [Endpoints -> Ports \cup {Null}]
  /\ hosts \in Seq(Hosts) /\ IsInjective(hosts)
  /\ \A h \in Hosts, k \in Kinds : meta[h][k] \in [Ports -> Nat \cup {Null}]
  /\ ports \in [Hosts -> SUBSET Initiators]
  /\ luns \subseteq Lun
  /\ ldevOf \in [Volumes -> Ldevs \cup {Null}]
  /\ volumeAt \in [Ldevs -> Volumes \cup {Null}]
  /\ endpointAt \in [Ports -> Endpoints \cup {Null}]
  /\ due \in BOOLEAN /\ unnumberedPools \in BOOLEAN
  /\ pc \in [Requests -> RefreshSteps \cup
                {"idle", "serve", "register", "insert", "unregister", "erase", "save"}]
  /\ granted \subseteq Grant

NoLdevs == [v \in Volumes |-> Null]
NoVolumes == [n \in Ldevs |-> Null]
NoEndpoints == [p \in Ports |-> Null]

Init ==
  /\ rows = <<>> /\ recorded = [v \in Volumes |-> Null]
  /\ port = [e \in Endpoints |-> Null]
  /\ hosts = <<>> /\ meta = [h \in Hosts |-> NoNumbers] /\ ports = [h \in Hosts |-> {}]
  /\ luns = {}
  /\ unnumberedPools = TRUE
  /\ ldevOf = NoLdevs /\ volumeAt = NoVolumes /\ endpointAt = NoEndpoints /\ due = TRUE
  /\ pc = [r \in Requests |-> "idle"] /\ local = [r \in Requests |-> Idle]
  /\ granted = {}

-----------------------------------------------------------------------------
GoTo(r, step) == pc' = [pc EXCEPT ![r] = step]
Drop(r) == local' = [local EXCEPT ![r] = Idle]
Finish(r) == GoTo(r, "idle") /\ Drop(r)

Exists(v) == v \in ToSet(rows)

Refreshing(r) == pc[r] \in RefreshSteps

\* The write lock is held from a request's first flush that writes to its commit.
Holds(r) ==
  \/ pc[r] \in {"insert", "erase"}
  \/ Refreshing(r) /\ unnumberedPools
  \/ pc[r] \in {"ports", "commit"} /\ DOMAIN local[r].numbers # {}

MayLock(r) == \A s \in Requests \ {r} : ~Holds(s)

Unlocked == \A r \in Requests : ~Holds(r)

\* A flush or a commit that cannot have the lock in time.
LockFails(r) == "locked" \in Faults \/ ~MayLock(r)

\* Every handler starts with _get_mapper; one that had no refresh to do goes
\* on without a pause.
Serves(r, operation) ==
  /\ operation \in Operations[r]
  /\ pc[r] = "serve" \/ (pc[r] = "idle" /\ ~due)

-----------------------------------------------------------------------------
(***************************************************************************)
(* _get_mapper and rebuild                                                 *)
(***************************************************************************)
\* The per-array lock is free, and the refresh is due: pools come first, then
\* the LDEV maps are emptied.  A refresh that fails leaves the maps as they are.
StartRefresh(r) ==
  /\ pc[r] = "idle" /\ due /\ \A s \in Requests : ~Refreshing(s)
  /\ \/ /\ unnumberedPools /\ LockFails(r)
        /\ GoTo(r, "serve")
        /\ UNCHANGED mapper
     \/ /\ unnumberedPools => MayLock(r)
        /\ GoTo(r, "select")
        /\ ldevOf' = NoLdevs /\ volumeAt' = NoVolumes
        /\ UNCHANGED <<endpointAt, due>>
  /\ UNCHANGED <<tables, local, granted>>

\* What a SELECT finds, until the request goes on with it.
Take(r, selected) ==
  local' = [local EXCEPT ![r] = [Idle EXCEPT !.order = rows,
                                             !.noted = Restrict(recorded, selected)]]

ReadVolumes(r) ==
  LET own == {v \in ToSet(rows) : ArrayOf[v] = Own}
  IN /\ pc[r] = "select"
     /\ \/ own = {} /\ GoTo(r, "select_all") /\ UNCHANGED local
        \/ own # {} /\ GoTo(r, "fill") /\ Take(r, own)
     /\ UNCHANGED <<tables, mapper, granted>>

ReadAll(r) ==
  /\ pc[r] = "select_all"
  /\ GoTo(r, "fill") /\ Take(r, ToSet(rows))
  /\ UNCHANGED <<tables, mapper, granted>>

\* The port maps are emptied right after the flush of the LDEV numbers.
ToPorts(r) == GoTo(r, "ports") /\ endpointAt' = NoEndpoints

\* The loop only adds: what was registered since the maps were emptied stays.
FillLdevs(r) ==
  LET noted == local[r].noted
      numbering == LdevNumbering(local[r].order, noted)
      found(n) == LastWith(local[r].order, numbering, n)
      new == {v \in DOMAIN noted : noted[v] = Null}
  IN /\ pc[r] = "fill"
     /\ \A v \in DOMAIN noted : numbering[v] \in Ldevs
     /\ ldevOf' = [v \in Volumes |-> IF v \in DOMAIN noted THEN numbering[v] ELSE ldevOf[v]]
     /\ volumeAt' = [n \in Ldevs |-> IF found(n) # Null THEN found(n) ELSE volumeAt[n]]
     /\ local' = [local EXCEPT ![r] = [Idle EXCEPT !.numbers = Restrict(numbering, new)]]
     /\ \/ new = {} /\ ToPorts(r)
        \/ new # {} /\ GoTo(r, "flush") /\ UNCHANGED endpointAt
     /\ UNCHANGED <<tables, due, granted>>

\* The UPDATEs fail for want of the lock, or of a row that they are for.
FlushLdevs(r) ==
  LET gone == \E v \in DOMAIN local[r].numbers : ~Exists(v)
  IN /\ pc[r] = "flush"
     /\ \/ /\ LockFails(r) \/ gone
           /\ GoTo(r, "serve") /\ Drop(r)
           /\ UNCHANGED endpointAt
        \/ /\ MayLock(r) /\ ~gone
           /\ ToPorts(r)
           /\ UNCHANGED local
     /\ UNCHANGED <<tables, ldevOf, volumeAt, due, granted>>

FillPorts(r) ==
  LET all == SetToSeq(Endpoints)
      numbering == PortNumbering(all, port)
  IN /\ pc[r] = "ports"
     /\ endpointAt' = [p \in Ports |-> LastWith(all, numbering, p)]
     /\ GoTo(r, "commit")
     /\ UNCHANGED <<tables, ldevOf, volumeAt, due, local, granted>>

\* The flush of the ports, and the commit of all three.
CommitRefresh(r) ==
  LET all == SetToSeq(Endpoints)
      numbering == PortNumbering(all, port)
      own == OwnOf(all)
      numbers == local[r].numbers
      writes == unnumberedPools \/ DOMAIN numbers # {} \/ \E e \in own : port[e] = Null
  IN /\ pc[r] = "commit"
     /\ \/ /\ writes /\ LockFails(r)
           /\ UNCHANGED <<recorded, port, unnumberedPools, due>>
        \/ /\ writes => MayLock(r)
           /\ recorded' = [v \in Volumes |->
                IF v \in DOMAIN numbers /\ Exists(v) THEN numbers[v] ELSE recorded[v]]
           /\ port' = [e \in Endpoints |-> IF e \in own THEN numbering[e] ELSE port[e]]
           /\ unnumberedPools' = FALSE
           /\ due' = FALSE
     /\ GoTo(r, "serve") /\ Drop(r)
     /\ UNCHANGED <<rows, hosts, meta, ports, luns, ldevOf, volumeAt, endpointAt, granted>>

TimePasses == ~due /\ due' = TRUE /\ UNCHANGED <<tables, ldevOf, volumeAt, endpointAt, requests, granted>>

-----------------------------------------------------------------------------
(***************************************************************************)
(* LDEVs                                                                   *)
(***************************************************************************)
InHand(r) == DOMAIN local[r].noted \cup DOMAIN local[r].numbers

\* UUIDs are never used twice: only one that nothing refers to is drawn again.
Unused(v) ==
  /\ ~Exists(v) /\ ldevOf[v] = Null
  /\ \A n \in Ldevs : volumeAt[n] # v
  /\ \A r \in Requests : local[r].volume # v /\ v \notin InHand(r)

\* create_ldev chooses the number before create_volume takes the write lock.
CreateLdev(r) ==
  /\ Serves(r, "create_ldev")
  /\ \E v \in Volumes, n \in Explicit \cup {NextLdev(volumeAt)} :
       /\ Unused(v) /\ n \in Ldevs
       /\ local' = [local EXCEPT ![r] = [Idle EXCEPT !.volume = v, !.ldev = n]]
  /\ GoTo(r, "register")
  /\ UNCHANGED <<tables, mapper, granted>>

Register(v, n) ==
  /\ ldevOf' = [ldevOf EXCEPT ![v] = n]
  /\ volumeAt' = [volumeAt EXCEPT ![n] = v]
  /\ UNCHANGED <<endpointAt, due>>

\* register_ldev, once the volume is created and before the commit.
RegisterLdev(r) ==
  /\ pc[r] = "register" /\ MayLock(r)
  /\ Register(local[r].volume, local[r].ldev)
  /\ GoTo(r, "insert")
  /\ UNCHANGED <<tables, local, granted>>

\* Mutant: the next number is computed once more for the row.
InsertedNumberAnew(r) == IF NextLdev(volumeAt) <= MaxLdev THEN NextLdev(volumeAt) ELSE 0

InsertedNumber(r) == local[r].ldev

InsertLdev(r) ==
  /\ pc[r] = "insert"
  /\ rows' = Append(rows, local[r].volume)
  /\ recorded' = [recorded EXCEPT ![local[r].volume] = InsertedNumber(r)]
  /\ Finish(r)
  /\ UNCHANGED <<port, hosts, meta, ports, luns, unnumberedPools, mapper, granted>>

\* get_ldev: what a number leads to.
LookUp(n) == IF volumeAt[n] # Null /\ Exists(volumeAt[n]) THEN volumeAt[n] ELSE Null

\* list_ldevs: the volumes and the numbers they are shown under.
ListLdevs ==
  {<<v, ldevOf[v]>> : v \in {w \in VolumesInScope(rows) : ldevOf[w] # Null}}

InUse(v) == \E m \in luns : m.volume = v

DeleteLdev(r) ==
  /\ Serves(r, "delete_ldev")
  /\ \E n \in Ldevs :
       /\ LookUp(n) # Null
       /\ local' = [local EXCEPT ![r] = [Idle EXCEPT !.volume = LookUp(n)]]
  /\ GoTo(r, "unregister")
  /\ UNCHANGED <<tables, mapper, granted>>

\* unregister_ldev, with the volume deleted but not committed, drops whatever
\* its number leads to.
UnregisterLdev(r) ==
  LET v == local[r].volume
      n == ldevOf[v]
  IN /\ pc[r] = "unregister" /\ MayLock(r)
     /\ Exists(v) /\ ~InUse(v)
     /\ ldevOf' = [ldevOf EXCEPT ![v] = Null]
     /\ volumeAt' = IF n = Null THEN volumeAt ELSE [volumeAt EXCEPT ![n] = Null]
     /\ GoTo(r, "erase")
     /\ UNCHANGED <<tables, endpointAt, due, local, granted>>

\* create_volume and delete_volume raise: a name or a volume in use, a row
\* that is gone, SPDK.
LdevFails(r) ==
  /\ pc[r] \in {"register", "unregister"}
  /\ Finish(r)
  /\ UNCHANGED <<tables, mapper, granted>>

EraseRow(v) ==
  /\ rows' = RemoveFirst(rows, v)
  /\ recorded' = [recorded EXCEPT ![v] = Null]
  /\ UNCHANGED <<port, hosts, meta, ports, luns, unnumberedPools>>

EraseLdev(r) ==
  /\ pc[r] = "erase"
  /\ EraseRow(local[r].volume)
  /\ Finish(r)
  /\ UNCHANGED <<mapper, granted>>

-----------------------------------------------------------------------------
(***************************************************************************)
(* Host groups and iSCSI targets                                           *)
(***************************************************************************)
\* The first host with the number on the port; kinds in the order looked at.
HostWith(kinds, p, n) == FirstOf(hosts, {h \in Hosts : \E k \in kinds : meta[h][k][p] = n})

Numbers(k) == {meta[h][k][p] : h \in Hosts, p \in Ports} \ {Null}

\* The whole vendor_metadata is read, changed and written back.
Save(r, h, number, grants, dropped) ==
  /\ local' = [local EXCEPT ![r] = [Idle EXCEPT !.host = h, !.number = number,
                                                !.grants = grants, !.dropped = dropped]]
  /\ GoTo(r, "save")
  /\ UNCHANGED <<tables, mapper, granted>>

\* Mutant: the number is written into metadata made from scratch.
AssignedAlone(number, k, p) ==
  [NoNumbers EXCEPT ![k] = [number[k] EXCEPT ![p] =
     IF number[k][p] = Null THEN NextGroupNumber(number[k]) ELSE number[k][p]]]

Assigned(number, k, p) ==
  [number EXCEPT ![k][p] = IF number[k][p] = Null THEN NextGroupNumber(number[k]) ELSE @]

CreateGroup(r, k) ==
  /\ Serves(r, "create_" \o k)
  /\ \E h \in Hosts, p \in Ports :
       /\ endpointAt[p] # Null
       /\ LET number == Assigned(meta[h], k, p)
          IN Save(r, h, number, {[host |-> h, kind |-> k, port |-> p,
                                  number |-> number[k][p]]}, {})

\* Deleting looks at no mapping.
DeleteGroup(r, k) ==
  /\ Serves(r, "delete_" \o k)
  /\ \E p \in Ports, n \in Numbers(k) :
       /\ HostWith({k}, p, n) # Null
       /\ LET h == HostWith({k}, p, n)
          IN Save(r, h, [meta[h] EXCEPT ![k][p] = Null], {},
                  {g \in granted : g.kind = k /\ g.port = p /\ g.host = h})

\* Mutant: the row is added without a look at those there are.
HostRowsBlind(h) == Append(hosts, h)

HostRows(h) == IF h \in ToSet(hosts) THEN hosts ELSE Append(hosts, h)

SaveHost(r) ==
  LET h == local[r].host
  IN /\ pc[r] = "save" /\ MayLock(r)
     /\ hosts' = HostRows(h)
     /\ meta' = [meta EXCEPT ![h] = local[r].number]
     /\ granted' = (granted \ local[r].dropped) \cup local[r].grants
     /\ Finish(r)
     /\ UNCHANGED <<rows, recorded, port, ports, luns, unnumberedPools, mapper>>

\* The wwns, iscsi-names and host-iscsis routes: a port for the group's host.
AddInitiator(r, k) ==
  /\ Serves(r, "add_initiator")
  /\ \E p \in Ports, n \in Numbers(k), i \in Initiators :
       /\ HostWith({k}, p, n) # Null
       /\ ports' = [ports EXCEPT ![HostWith({k}, p, n)] = @ \cup {i}]
  /\ MayLock(r)
  /\ Finish(r)
  /\ UNCHANGED <<rows, recorded, port, hosts, meta, luns, unnumberedPools, mapper, granted>>

-----------------------------------------------------------------------------
(***************************************************************************)
(* LUNs                                                                    *)
(***************************************************************************)
\* The first volume of the array that records the number, else the mapper's.
VolumeToMap(n) ==
  LET own == FirstOf(rows, {v \in Volumes : ArrayOf[v] = Own /\ recorded[v] = n})
  IN IF own # Null THEN own ELSE LookUp(n)

\* Mutant: the mapper's endpoint is taken whatever its array.
EndpointAsMapped(p, array) == endpointAt[p]

\* The mapper's endpoint if it is of the volume's array; else the array's
\* endpoint that records the port, else its only iSCSI endpoint.
EndpointToMap(p, array) ==
  LET mine == {e \in Endpoints : ArrayOf[e] = array}
      recordsPort == {e \in mine : port[e] = p}
      iscsi == {e \in mine : ~IsFc[e]}
  IN CASE endpointAt[p] \in mine -> endpointAt[p]
       [] endpointAt[p] \notin mine /\ recordsPort # {} -> CHOOSE e \in recordsPort : TRUE
       [] endpointAt[p] \notin mine /\ recordsPort = {} /\ Cardinality(iscsi) = 1 ->
            CHOOSE e \in iscsi : TRUE
       [] OTHER -> Null

FreeLun(h, e) ==
  LET used == {m.lun : m \in {x \in luns : x.host = h /\ x.endpoint = e}}
  IN AllocateLun(used)

CreateLun(r) ==
  /\ Serves(r, "create_lun")
  /\ MayLock(r) /\ Cardinality(luns) < MaxLuns
  /\ \E n \in Ldevs, p \in Ports, g \in {x.number : x \in granted} :
       LET v == VolumeToMap(n)
           e == EndpointToMap(p, ArrayOf[v])
           h == HostWith(Kinds, p, g)
       IN /\ v # Null /\ e # Null /\ h # Null
          /\ luns' = luns \cup {[volume |-> v, host |-> h, endpoint |-> e,
                                 lun |-> FreeLun(h, e)]}
  /\ Finish(r)
  /\ UNCHANGED <<rows, recorded, port, hosts, meta, ports, unnumberedPools, mapper, granted>>

\* delete_lun: the target's number counts only where the host has no group.
AnswersTo(h, p, n) ==
  n = IF meta[h]["group"][p] # Null THEN meta[h]["group"][p] ELSE meta[h]["target"][p]

DeleteLun(r) ==
  /\ Serves(r, "delete_lun")
  /\ MayLock(r)
  /\ \E p \in Ports, g \in {x.number : x \in granted}, n \in 0..MaxLuns :
       LET matching == {m \in luns : /\ AnswersTo(m.host, p, g)
                                     /\ endpointAt[p] = m.endpoint /\ m.lun = n}
           first == FirstOf(hosts, {m.host : m \in matching})
       IN /\ matching # {}
          /\ luns' = luns \ {m \in matching : m.host = first}
  /\ Finish(r)
  /\ UNCHANGED <<rows, recorded, port, hosts, meta, ports, unnumberedPools, mapper, granted>>

-----------------------------------------------------------------------------
(***************************************************************************)
(* The rest of the gateway                                                 *)
(***************************************************************************)
\* A volume made or deleted by way of another API has no part in the mapper.
CreateElsewhere ==
  /\ "create" \in Elsewhere /\ Unlocked
  /\ \E v \in Volumes :
       /\ Unused(v)
       /\ rows' = Append(rows, v)
  /\ UNCHANGED <<recorded, port, hosts, meta, ports, luns, unnumberedPools, mapper,
                 requests, granted>>

DeleteElsewhere ==
  /\ "delete" \in Elsewhere /\ Unlocked
  /\ \E v \in ToSet(rows) : ~InUse(v) /\ EraseRow(v)
  /\ UNCHANGED <<mapper, requests, granted>>

Crash ==
  /\ "crash" \in Faults
  /\ ldevOf' = NoLdevs /\ volumeAt' = NoVolumes /\ endpointAt' = NoEndpoints /\ due' = TRUE
  /\ pc' = [r \in Requests |-> "idle"] /\ local' = [r \in Requests |-> Idle]
  /\ UNCHANGED <<tables, granted>>

Next ==
  \/ \E r \in Requests :
       \/ StartRefresh(r) \/ ReadVolumes(r) \/ ReadAll(r) \/ FillLdevs(r)
       \/ FlushLdevs(r) \/ FillPorts(r) \/ CommitRefresh(r)
       \/ CreateLdev(r) \/ RegisterLdev(r) \/ InsertLdev(r) \/ LdevFails(r)
       \/ DeleteLdev(r) \/ UnregisterLdev(r) \/ EraseLdev(r)
       \/ SaveHost(r) \/ CreateLun(r) \/ DeleteLun(r)
       \/ \E k \in Kinds : CreateGroup(r, k) \/ DeleteGroup(r, k) \/ AddInitiator(r, k)
  \/ TimePasses \/ CreateElsewhere \/ DeleteElsewhere \/ Crash

Spec == Init /\ [][Next]_vars
=============================================================================
