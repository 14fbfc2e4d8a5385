------------------------------ MODULE Requests ------------------------------
(***************************************************************************)
(* Requests of several clients on the inventory, and the pools in SPDK.    *)
(* A handler is a sequence of calls of the services of Tables in one       *)
(* database session: each call reads, writes and may provision; the        *)
(* session holds SQLite's write lock from its first write to its commit.   *)
(* The gateway dies and starts again, with SPDK or without.                *)
(***************************************************************************)
EXTENDS Tables, Sequences

CONSTANTS
  Clients,
  Readers,                   \* those whose next request depends on the last reply
  Refuses,                   \* whether SPDK refuses RPCs
  MaxFaults,                 \* bound: crashes, and RPCs that SPDK refuses
  Watched,                   \* names whose races the history records
  MaxRaced                   \* bound: names that requests at one time are about

ASSUME RequestsAssumption ==
  /\ Readers \subseteq Clients /\ Refuses \in BOOLEAN
  /\ Null \notin Clients \cup {"ok", "error", "lost"}
  /\ MaxFaults \in Nat /\ MaxRaced \in Nat

VARIABLES
  db,        \* the committed tables
  writer,    \* the client whose session holds the write lock, or Null
  txn,       \* the tables as that session sees them
  request,   \* each client's request
  spdk,      \* the backing bdevs, and the bdev of each lvstore <<array, pool>>
  up,        \* the gateway serves requests
  issued,    \* UUIDs handed out
  raced,     \* history: names that two requests at one time were about
  wanted,    \* history: the ports committed requests asked each host to have
  faults

vars == <<db, writer, txn, request, spdk, up, issued, raced, wanted, faults>>

Call == [do |-> Null, once |-> FALSE, array |-> Null, pool |-> Null, group |-> Null,
         volume |-> Null, name |-> Null, host |-> Null, ports |-> {}]

Idle == [step |-> "idle", calls |-> <<>>, at |-> 1, seen |-> Null, keeps |-> FALSE,
         result |-> Null, made |-> Null]

NoStorage == [backing |-> {}, lvstores |-> [an \in Arrays \X PoolNames |-> Null]]

TypeOK ==
  /\ TablesOK(db) /\ TablesOK(txn)
  /\ writer \in Clients \cup {Null}
  /\ \A c \in Clients : /\ request[c].step \in {"idle", "check", "write", "provision"}
                        /\ request[c].at \in 1..(Len(request[c].calls) + 1)
                        /\ request[c].result \in {Null, "ok", "error", "lost"}
  /\ spdk.backing \subseteq Pools
  /\ \A an \in Arrays \X PoolNames : spdk.lvstores[an] \in spdk.backing \cup {Null}
  /\ issued.pools \in 0..MaxPools /\ issued.volumes \in 0..MaxVolumes
  /\ faults \in 0..MaxFaults

Init ==
  /\ db = NoTables /\ txn = NoTables /\ writer = Null
  /\ request = [c \in Clients |-> Idle]
  /\ spdk = NoStorage /\ up = TRUE
  /\ issued = [pools |-> 0, volumes |-> 0]
  /\ raced = {} /\ wanted = [h \in Hosts |-> {}]
  /\ faults = 0

-----------------------------------------------------------------------------
(***************************************************************************)
(* What a call names, refuses, and writes                                  *)
(***************************************************************************)
PoolsFor(call, t) == IF call.pool # Null THEN {call.pool} \cap Rows(t.pools)
                                         ELSE PoolCalled(t, call.group, call.array)
VolumesFor(call, t) == IF call.volume # Null THEN {call.volume} \cap Rows(t.volumes)
                                             ELSE VolumeCalled(t, call.name, call.array)

Refused(call, t) ==
  CASE call.do = "create_array"    -> CreateArrayRefused(t, call.array)
    [] call.do = "delete_array"    -> DeleteArrayRefused(t, call.array)
    [] call.do = "create_endpoint" -> EndpointRefused(t, call.array)
    [] call.do = "ensure_endpoint" -> t.iscsi[call.array] > 1
    [] call.do = "create_pool"     -> CreatePoolRefused(t, call.group, call.array)
    [] call.do = "delete_pool"     -> DeletePoolRefused(t, call.pool)
    [] call.do = "attach_pool"     -> AttachRefused(t, call.pool, call.array)
    [] call.do = "detach_pool"     -> DetachRefused(t, call.pool, call.array)
    [] call.do = "create_host"     -> CreateHostRefused(t, call.host)
    [] call.do \in {"add_host_port", "update_host"} -> call.host \notin t.hosts
    [] call.do = "delete_host"     -> DeleteHostRefused(t, call.host)
    [] call.do = "create_volume"   ->
         \A p \in PoolsFor(call, t) : CreateVolumeRefused(t, call.name, p)
    [] call.do = "delete_volume"   ->
         \A v \in VolumesFor(call, t) : DeleteVolumeRefused(t, v)
    [] call.do = "create_mapping"  ->
         \A v \in VolumesFor(call, t) :
           \/ CreateMappingRefused(t, call.host, v)
           \/ call.once /\ t.maps[<<call.host, v>>] > 1
    [] call.do = "find_none"       ->
         call.host \notin t.hosts
           \/ \A v \in VolumesFor(call, t) : t.maps[<<call.host, v>>] > 0
    [] call.do = "delete_mapping"  ->    \* by names, or by the mapping's id
         \A v \in VolumesFor(call, t) :
           IF call.volume = Null THEN call.host \notin t.hosts \/ t.maps[<<call.host, v>>] # 1
                                 ELSE t.maps[<<call.host, v>>] = 0

\* A topology leaves alone what is there.
There(call, t) ==
  CASE call.do = "create_array"    -> call.array \in t.arrays
    [] call.do = "create_endpoint" -> call.array \in t.arrays /\ t.iscsi[call.array] > 0
    [] call.do = "create_pool"     -> PoolCalled(t, call.group, call.array) # {}
    [] call.do = "create_host"     -> call.host \in t.hosts
    [] call.do = "create_volume"   -> VolumeCalled(t, call.name, call.array) # {}
    [] call.do = "create_mapping"  ->
         \E v \in VolumesFor(call, t) : t.maps[<<call.host, v>>] = 1

\* Mutant: the endpoint of the array is not looked up.
NothingToWriteUnseen(call, t) ==
  \/ call.do = "find_none"
  \/ call.do = "add_host_port" /\ call.ports \subseteq t.ports[call.host]
  \/ call.do = "update_host" /\ call.ports = t.ports[call.host]
  \/ call.do = "attach_pool" /\ call.array = t.pools[call.pool].array

NothingToWrite(call, t) ==
  \/ call.do = "find_none"
  \/ call.do = "ensure_endpoint" /\ t.iscsi[call.array] = 1
  \/ call.do = "add_host_port" /\ call.ports \subseteq t.ports[call.host]
  \/ call.do = "update_host" /\ call.ports = t.ports[call.host]
  \/ call.do = "attach_pool" /\ call.array = t.pools[call.pool].array

TheOne(S) == IF S = {} THEN Null ELSE CHOOSE x \in S : TRUE

\* Mutant: a volume is on the default array.
ArrayOfDefault(call, t) == IF call.do = "create_volume" THEN Default ELSE call.array

ArrayOf(call, t) == IF call.do = "create_volume" THEN t.pools[TheOne(PoolsFor(call, t))].array
                                                 ELSE call.array

\* Mutant: the port takes the place of the others.
PortsAlone(call, t) == call.ports

PortsOf(call, t) == IF call.do = "add_host_port" THEN t.ports[call.host] \cup call.ports
                                                 ELSE call.ports

\* What the handler holds of the tables it read.
Seen(call, t) ==
  [pool   |-> TheOne(PoolsFor(call, t)),
   group  |-> IF PoolsFor(call, t) = {} THEN call.group
                ELSE t.pools[TheOne(PoolsFor(call, t))].name,
   volume |-> TheOne(VolumesFor(call, t)),
   array  |-> ArrayOf(call, t),
   ports  |-> PortsOf(call, t)]

\* The database refuses a statement: a name is taken, or the row is gone.
Conflict(call, seen, t) ==
  CASE call.do = "create_array"  -> call.array \in t.arrays
    [] call.do = "delete_array"  -> call.array \notin t.arrays
    [] call.do = "create_host"   -> call.host \in t.hosts
    [] call.do \in {"add_host_port", "update_host", "delete_host"} -> call.host \notin t.hosts
    [] call.do = "create_pool"   -> PoolCalled(t, call.group, call.array) # {}
    [] call.do = "delete_pool"   -> t.pools[call.pool] = Null
    [] call.do \in {"attach_pool", "detach_pool"} ->
         t.pools[call.pool] = Null
           \/ PoolCalled(t, t.pools[call.pool].name,
                         IF call.do = "attach_pool" THEN call.array ELSE Default)
                \ {call.pool} # {}
    [] call.do \in {"delete_volume", "create_mapping"} -> t.volumes[seen.volume] = Null
    [] call.do = "delete_mapping" -> t.maps[<<call.host, seen.volume>>] = 0
    [] OTHER -> FALSE

Written(call, seen, t) ==
  CASE call.do = "create_array"    -> ArrayAdded(t, call.array)
    [] call.do = "delete_array"    -> ArrayDeleted(t, call.array)
    [] call.do \in {"create_endpoint", "ensure_endpoint"} -> EndpointAdded(t, call.array)
    [] call.do = "create_pool"     -> PoolAdded(t, issued.pools + 1, call.group, call.array)
    [] call.do = "delete_pool"     -> PoolDeleted(t, call.pool)
    [] call.do = "attach_pool"     -> PoolMoved(t, call.pool, call.array)
    [] call.do = "detach_pool"     -> PoolMoved(t, call.pool, Default)
    [] call.do = "create_host"     -> HostAdded(t, call.host, call.ports)
    [] call.do \in {"add_host_port", "update_host"} ->
         HostPortsWritten(t, call.host, seen.ports)
    [] call.do = "delete_host"     -> HostDeleted(t, call.host)
    [] call.do = "create_volume"   ->
         VolumeAdded(t, issued.volumes + 1, call.name, seen.pool, seen.array)
    [] call.do = "delete_volume"   -> VolumeDeleted(t, seen.volume)
    [] call.do = "create_mapping"  -> MappingAdded(t, call.host, seen.volume)
    [] call.do = "delete_mapping"  -> MappingDeleted(t, call.host, seen.volume)

-----------------------------------------------------------------------------
(***************************************************************************)
(* The session of a request                                                *)
(***************************************************************************)
View(c) == IF writer = c THEN txn ELSE db
Current(c) == request[c].calls[request[c].at]

\* The names a request is about: its rows, not the array it merely runs on.
About(calls) ==
  (UNION {({call.group, call.name, call.host}
            \cup {db.pools[p].name : p \in {call.pool} \cap Rows(db.pools)}
            \cup {db.volumes[v].name : v \in {call.volume} \cap Rows(db.volumes)}
            \cup IF call.name = Null /\ call.volume = Null THEN {call.array} ELSE {})
         : call \in {calls[i] : i \in DOMAIN calls}}) \ {Null}

Ask(c, calls, keeps) ==
  /\ up /\ request[c].step = "idle"
  /\ request' = [request EXCEPT ![c] = [Idle EXCEPT !.step = "check", !.calls = calls,
                                                    !.keeps = keeps]]
  /\ raced' = raced \cup UNION {About(calls) \cap About(request[d].calls) \cap Watched : d \in Clients \ {c}}
  /\ Cardinality(raced') <= MaxRaced
  /\ UNCHANGED <<db, writer, txn, spdk, up, issued, wanted, faults>>

\* The UUID of a pool that was created is in the reply.
Replied(c, result) ==
  IF c \in Readers THEN [Idle EXCEPT !.result = result, !.made = request[c].made] ELSE Idle
Ended(c, result) == [request EXCEPT ![c] = Replied(c, result)]
Onward(c) == [request EXCEPT ![c].step = "check", ![c].at = @ + 1, ![c].seen = Null]

\* The session closes without a commit.
Fail(c) ==
  /\ request' = Ended(c, "error")
  /\ writer' = (IF writer = c THEN Null ELSE writer)
  /\ txn' = (IF writer = c THEN NoTables ELSE txn)

Check(c) ==
  /\ request[c].step = "check" /\ request[c].at <= Len(request[c].calls)
  /\ LET call == Current(c) IN
     IF call.once /\ There(call, View(c))
       THEN request' = Onward(c) /\ UNCHANGED <<writer, txn>>
     ELSE IF Refused(call, View(c)) THEN Fail(c)
     ELSE IF NothingToWrite(call, View(c))
       THEN request' = Onward(c) /\ UNCHANGED <<writer, txn>>
     ELSE /\ request' = [request EXCEPT ![c].step = "write", ![c].seen = Seen(call, View(c))]
          /\ UNCHANGED <<writer, txn>>
  /\ UNCHANGED <<db, spdk, up, issued, raced, wanted, faults>>

\* A flush: the statement sees the tables as they are now.
Write(c) ==
  /\ request[c].step = "write" /\ writer \in {c, Null}
  /\ LET call == Current(c)
         seen == request[c].seen
     IN IF Conflict(call, seen, View(c))
          THEN Fail(c) /\ UNCHANGED issued
          ELSE /\ call.do = "create_pool" => issued.pools < MaxPools
               /\ call.do = "create_volume" => issued.volumes < MaxVolumes
               /\ call.do = "create_mapping" => View(c).maps[<<call.host, seen.volume>>] < MaxTwins
               /\ call.do \in {"create_endpoint", "ensure_endpoint"} =>
                    View(c).iscsi[call.array] < MaxTwins
               /\ writer' = c
               /\ txn' = Written(call, seen, View(c))
               /\ issued' = [pools   |-> issued.pools + IF call.do = "create_pool" THEN 1 ELSE 0,
                             volumes |-> issued.volumes + IF call.do = "create_volume" THEN 1 ELSE 0]
               /\ request' =
                   IF call.do = "create_pool"
                     THEN [request EXCEPT ![c].step = "provision", ![c].made = issued.pools + 1]
                   ELSE IF call.do \in {"create_volume", "ensure_endpoint"}
                     THEN [request EXCEPT ![c].step = "provision"]
                   ELSE Onward(c)
  /\ UNCHANGED <<db, spdk, up, raced, wanted, faults>>

\* Five seconds without the write lock.
LockFails(c) ==
  /\ request[c].step = "write" /\ writer \notin {c, Null}
  /\ Fail(c)
  /\ UNCHANGED <<db, spdk, up, issued, raced, wanted, faults>>

-----------------------------------------------------------------------------
(***************************************************************************)
(* spdk/ensure.py on pools                                                 *)
(***************************************************************************)
Claimed(p) == \E an \in Arrays \X PoolNames : spdk.lvstores[an] = p

\* What is created on top of the backing bdev: nothing if the lvstore is there.
Lvstore(p, an) == IF spdk.lvstores[an] = Null THEN [spdk.lvstores EXCEPT ![an] = p]
                                              ELSE spdk.lvstores

EnsurePool(c) ==
  LET p == issued.pools
      call == Current(c)
  IN \/ /\ spdk' = [backing |-> spdk.backing \cup {p},
                    lvstores |-> Lvstore(p, <<call.array, call.group>>)]
        /\ request' = Onward(c) /\ UNCHANGED <<writer, txn, faults>>
     \/ /\ Refuses /\ faults < MaxFaults /\ faults' = faults + 1
        /\ \E made \in SUBSET {p} : spdk' = [spdk EXCEPT !.backing = @ \cup made]
        /\ Fail(c)

\* ensure_lvol: the lvol is made in the lvstore of the pool's name and array.
VolumeMade(v, status) == [txn EXCEPT !.volumes[v].status = status]

EnsureLvol(c) ==
  LET v == issued.volumes
      seen == request[c].seen
      store == spdk.lvstores[<<seen.array, seen.group>>]
  IN \/ /\ store # Null
        /\ txn' = VolumeMade(v, "available")
        /\ request' = Onward(c) /\ UNCHANGED <<db, writer, faults>>
     \/ /\ \/ store = Null /\ UNCHANGED faults
           \/ Refuses /\ faults < MaxFaults /\ faults' = faults + 1
        /\ db' = IF request[c].keeps THEN VolumeMade(v, "error") ELSE db
        /\ Fail(c)

EnsureExport(c) ==
  \/ request' = Onward(c) /\ UNCHANGED <<writer, txn, faults>>
  \/ /\ Refuses /\ faults < MaxFaults /\ faults' = faults + 1
     /\ Fail(c)

Provision(c) ==
  /\ request[c].step = "provision"
  /\ \/ /\ Current(c).do = "create_pool" /\ EnsurePool(c) /\ UNCHANGED db
     \/ /\ Current(c).do = "create_volume" /\ EnsureLvol(c) /\ UNCHANGED spdk
     \/ /\ Current(c).do = "ensure_endpoint" /\ EnsureExport(c) /\ UNCHANGED <<db, spdk>>
  /\ UNCHANGED <<up, issued, raced, wanted>>

Wanted(calls) ==
  [h \in Hosts |->
     LET mine == {call \in {calls[i] : i \in DOMAIN calls} :
                    /\ call.host = h
                    /\ call.do \in {"create_host", "delete_host", "update_host",
                                   "add_host_port"}}
         kept == IF \E call \in mine : call.do # "add_host_port" THEN {} ELSE wanted[h]
     IN kept \cup UNION {call.ports : call \in mine}]

Commit(c) ==
  /\ request[c].step = "check" /\ request[c].at > Len(request[c].calls)
  /\ request' = Ended(c, "ok")
  /\ IF writer = c THEN db' = txn /\ writer' = Null /\ txn' = NoTables
                   ELSE UNCHANGED <<db, writer, txn>>
  /\ wanted' = Wanted(request[c].calls)
  /\ UNCHANGED <<spdk, up, issued, raced, faults>>

Serve(c) == Check(c) \/ Write(c) \/ LockFails(c) \/ Provision(c) \/ Commit(c)

-----------------------------------------------------------------------------
(***************************************************************************)
(* Crash and start                                                         *)
(***************************************************************************)
Crash ==
  /\ up /\ faults < MaxFaults
  /\ up' = FALSE /\ faults' = faults + 1
  /\ request' = [c \in Clients |-> IF request[c] = Idle THEN Idle ELSE Replied(c, "lost")]
  /\ writer' = Null /\ txn' = NoTables
  /\ \/ spdk' = NoStorage
     \/ UNCHANGED spdk
  /\ UNCHANGED <<db, issued, raced, wanted>>

\* Mutant: the backing bdevs are taken to be there.
ReconciledUnbacked ==
  [backing  |-> spdk.backing,
   lvstores |-> [an \in Arrays \X PoolNames |->
                  IF spdk.lvstores[an] # Null THEN spdk.lvstores[an]
                    ELSE TheOne({p \in PoolCalled(db, an[2], an[1]) : ~Claimed(p)})]]

\* reconcile: a bdev that has an lvstore cannot take the one of another name.
Reconciled ==
  [backing  |-> spdk.backing \cup Rows(db.pools),
   lvstores |-> [an \in Arrays \X PoolNames |->
                  IF spdk.lvstores[an] # Null THEN spdk.lvstores[an]
                    ELSE TheOne({p \in PoolCalled(db, an[2], an[1]) : ~Claimed(p)})]]

\* Before the gateway serves: lifespan.
Restart ==
  /\ ~up /\ up' = TRUE
  /\ spdk' = Reconciled
  /\ UNCHANGED <<db, writer, txn, request, issued, raced, wanted, faults>>

=============================================================================
