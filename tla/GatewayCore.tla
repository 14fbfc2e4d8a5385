----------------------------- MODULE GatewayCore -----------------------------
(***************************************************************************)
(* The provisioning core: core/volumes.py and core/mappings.py running as  *)
(* concurrent requests over one SQLite database and one SPDK process, and  *)
(* the startup reconciler of core/reconcile.py.                            *)
(*                                                                         *)
(* A request is a coroutine with a database session of its own.  What it   *)
(* SELECTs before its first INSERT or UPDATE is committed state, kept in   *)
(* its ORM objects and never refreshed: every such read is an action and   *)
(* its result stays in local[r], stale from then on.  The first flush()    *)
(* takes SQLite's single write lock and holds it to the commit, across the *)
(* SPDK calls in between.  A process crash rolls the open transaction back *)
(* but nothing undoes what was done in SPDK.                               *)
(***************************************************************************)
EXTENDS Allocators

CONSTANTS
  Requests,     \* the requests in flight at one time
  Volumes,      \* the UUIDs a new volume may be given (each is used once)
  Names,        \* volume names, within one array
  Hosts,
  Endpoints,
  Protocol,     \* protocol column of an endpoint
  Targeted,     \* the endpoints whose targets name an IQN or an NQN
  Paths,        \* the <<persona, underlay>> pairs that requests resolve to
  LunBase,      \* settings.iscsi_underlay_lun_base
  MaxSize,      \* bound: sizes are 1..MaxSize
  MaxMappings,  \* bound: mappings ever created
  Operations,   \* the operations that clients call
  RpcFaults,    \* how an SPDK call may fail: "refused", "lost" (its reply)
  Disruptions,  \* "gateway_crash", "spdk_restart", "host_reboot"
  Null

Status == {"creating", "available", "in_use", "extending", "deleting", "error"}

VolumeRow == [name : Names, size : 1..MaxSize, status : Status, bdev : BOOLEAN]

\* uid is the column underlay_id.  desired_state is left out: "detached" is
\* written and its row deleted in one transaction, so no other one sees it.
MappingRow == [id : Nat, volume : Volumes, host : Hosts, persona : Endpoints,
               underlay : Endpoints, lun : Nat, uid : Nat]

ASSUME ConstantsAssumption ==
  /\ Null \notin Requests \cup Volumes \cup VolumeRow \cup MappingRow
  /\ Protocol \in [Endpoints -> {"iscsi", "nvmeof_tcp", "fc"}]
  /\ Targeted \subseteq Endpoints
  /\ Paths \subseteq Endpoints \X Endpoints
  /\ LunBase \in Nat /\ MaxSize \in Nat /\ MaxMappings \in Nat
  /\ RpcFaults \subseteq {"refused", "lost"}

VARIABLES
  db,            \* the committed tables
  draft,         \* the tables as the open write transaction sees them
  writer,        \* the request that holds the write lock, or Null
  pc, local,     \* each request's next step and its local state
  freshVolumes,  \* the UUIDs not yet drawn
  nextMapping,   \* the next mapping id
  lvol,          \* SPDK: the size of each volume's lvol bdev, 0 if none
  export,        \* SPDK: the LUNs and namespaces attached to targets
  gateway        \* "up", or "down" until the startup reconciliation is over

tables == <<db, draft, writer>>
requests == <<pc, local>>
supply == <<freshVolumes, nextMapping>>
spdk == <<lvol, export>>
vars == <<tables, requests, supply, spdk, gateway>>

-----------------------------------------------------------------------------
(***************************************************************************)
(* Types                                                                   *)
(***************************************************************************)
Tables == [volume : [Volumes -> VolumeRow \cup {Null}], mapping : SUBSET MappingRow]

\* Steps that wait for the write lock, and steps that hold it.
FlushSteps == {"insert_volume", "mark_deleting", "mark_extending",
               "insert_mapping", "mark_detached"}
LockedSteps == {"provision", "deprovision", "resize", "wire", "unwire", "commit"}
Steps == {"idle", "check_mappings", "allocate_ids"} \cup FlushSteps \cup LockedSteps

\* What a handler's local variables and ORM objects hold.
Local == [volume : Volumes \cup {Null},         \* volume_id
          seen : VolumeRow \cup {Null},         \* the Volume object, as loaded
          children : BOOLEAN,                   \* its mappings collection, not empty?
          size : 0..MaxSize,                    \* new_size_mb
          row : MappingRow \cup {Null},         \* the Mapping object
          persists : BOOLEAN]                   \* the route commits on CoreError

Blank == [volume |-> Null, seen |-> Null, children |-> FALSE, size |-> 0,
          row |-> Null, persists |-> FALSE]

Export == [endpoint : Endpoints, uid : Nat, volume : Volumes]

TypeOK ==
  /\ db \in Tables
  /\ draft \in Tables
  /\ writer \in Requests \cup {Null}
  /\ pc \in [Requests -> Steps]
  /\ local \in [Requests -> Local]
  /\ freshVolumes \subseteq Volumes
  /\ nextMapping \in Nat
  /\ lvol \in [Volumes -> 0..MaxSize]
  /\ export \subseteq Export
  /\ gateway \in {"up", "down"}

Init ==
  /\ db = [volume |-> [v \in Volumes |-> Null], mapping |-> {}]
  /\ draft = db
  /\ writer = Null
  /\ pc = [r \in Requests |-> "idle"]
  /\ local = [r \in Requests |-> Blank]
  /\ freshVolumes = Volumes
  /\ nextMapping = 1
  /\ lvol = [v \in Volumes |-> 0]
  /\ export = {}
  /\ gateway = "up"

-----------------------------------------------------------------------------
(***************************************************************************)
(* Sessions and transactions                                               *)
(***************************************************************************)
Accepts(r, operation) ==
  /\ gateway = "up"
  /\ pc[r] = "idle"
  /\ operation \in Operations

GoTo(r, step) == pc' = [pc EXCEPT ![r] = step]

Remember(r, loaded) == local' = [local EXCEPT ![r] = loaded]

Leave(r) == GoTo(r, "idle") /\ Remember(r, Blank)

\* The first flush of a session: it needs the write lock.
BeginWrite(r, written, step) ==
  /\ writer = Null
  /\ writer' = r
  /\ draft' = written
  /\ GoTo(r, step)
  /\ UNCHANGED <<db, local>>

\* The handler goes on with its transaction open.
Written(r, written) ==
  /\ draft' = written
  /\ GoTo(r, "commit")
  /\ UNCHANGED <<db, writer, local>>

\* An exception leaves the route: closing the session rolls it back.
Rollback(r) ==
  /\ draft' = db
  /\ writer' = Null
  /\ Leave(r)
  /\ UNCHANGED db

\* The flush finds its row deleted since it was read (StaleDataError).
StaleRow(r) == Leave(r) /\ UNCHANGED tables

SetRow(t, v, row) == [t EXCEPT !.volume[v] = row]

SetStatus(t, v, status) == [t EXCEPT !.volume[v].status = status]

\* Mutant: the exception leaves the transient status in the row.
FailWriteUnmarked(r, v) ==
  IF local[r].persists THEN Written(r, draft) ELSE Rollback(r)

\* What failing operations write.  v1's create and extend routes commit it;
\* the other routes let the exception roll it back.
FailWrite(r, v) ==
  IF local[r].persists THEN Written(r, SetStatus(draft, v, "error")) ELSE Rollback(r)

\* An SPDK call: done and answered, refused and not done, or done while its
\* reply is lost.  The caller sees the last two as the same exception.
Outcomes == {"ok"} \cup RpcFaults
Done(outcome) == outcome # "refused"

-----------------------------------------------------------------------------
(***************************************************************************)
(* create_volume                                                           *)
(***************************************************************************)
\* Mutant: a volume in error does not count.
NameTakenByHealthy(name) ==
  \E v \in Volumes : /\ db.volume[v] # Null
                     /\ db.volume[v].name = name
                     /\ db.volume[v].status # "error"

NameTaken(name) == \E v \in Volumes : db.volume[v] # Null /\ db.volume[v].name = name

NewVolume(name, size) ==
  [name |-> name, size |-> size, status |-> "creating", bdev |-> FALSE]

CreateVolume(r) ==
  /\ Accepts(r, "create_volume")
  /\ \E v \in freshVolumes, name \in Names, size \in 1..MaxSize, p \in BOOLEAN :
       /\ ~NameTaken(name)
       /\ freshVolumes' = freshVolumes \ {v}
       /\ GoTo(r, "insert_volume")
       /\ Remember(r, [Blank EXCEPT !.volume = v, !.seen = NewVolume(name, size),
                                    !.persists = p])
  /\ UNCHANGED <<tables, nextMapping, spdk, gateway>>

InsertVolume(r) ==
  /\ pc[r] = "insert_volume"
  /\ BeginWrite(r, SetRow(db, local[r].volume, local[r].seen), "provision")
  /\ UNCHANGED <<supply, spdk, gateway>>

\* Mutant: the bdev name is not kept.
ProvisionedNameless(row) == [row EXCEPT !.status = "available"]

Provisioned(row) == [row EXCEPT !.status = "available", !.bdev = TRUE]

\* ensure_lvol, and the two ways out of the try block.
ProvisionVolume(r) ==
  LET v == local[r].volume
      row == local[r].seen
  IN /\ pc[r] = "provision"
     /\ \E outcome \in Outcomes :
          /\ lvol' = IF Done(outcome) /\ lvol[v] = 0
                     THEN [lvol EXCEPT ![v] = row.size] ELSE lvol
          /\ IF outcome = "ok"
             THEN Written(r, SetRow(draft, v, Provisioned(row)))
             ELSE FailWrite(r, v)
     /\ UNCHANGED <<supply, export, gateway>>

-----------------------------------------------------------------------------
(***************************************************************************)
(* delete_volume                                                           *)
(***************************************************************************)
\* Mutant: the wrong column is compared.
MappingsOfHost(t, v) == {m \in t.mapping : m.host = v}

MappingsOf(t, v) == {m \in t.mapping : m.volume = v}

\* get_volume.  The relationship is loaded with the row (lazy="selectin").
DeleteVolume(r) ==
  /\ Accepts(r, "delete_volume")
  /\ \E v \in Volumes :
       /\ db.volume[v] # Null
       /\ GoTo(r, "check_mappings")
       /\ Remember(r, [Blank EXCEPT !.volume = v, !.seen = db.volume[v],
                                    !.children = MappingsOf(db, v) # {}])
  /\ UNCHANGED <<tables, supply, spdk, gateway>>

CheckMappings(r) ==
  /\ pc[r] = "check_mappings"
  /\ IF MappingsOf(db, local[r].volume) # {}
     THEN Leave(r)                       \* ResourceInUseError
     ELSE GoTo(r, "mark_deleting") /\ UNCHANGED local
  /\ UNCHANGED <<tables, supply, spdk, gateway>>

MarkDeleting(r) ==
  LET v == local[r].volume
  IN /\ pc[r] = "mark_deleting"
     /\ writer = Null
     /\ IF db.volume[v] = Null
        THEN StaleRow(r)
        ELSE BeginWrite(r, SetStatus(db, v, "deleting"), "deprovision")
     /\ UNCHANGED <<supply, spdk, gateway>>

\* session.delete(volume) clears volume_id in the mappings loaded with the
\* volume; they were gone at CheckMappings, so that UPDATE finds no row.
EraseVolume(r) ==
  IF local[r].children THEN Rollback(r)
                       ELSE Written(r, SetRow(draft, local[r].volume, Null))

\* Mutant: the row is deleted whatever SPDK answers.
FinishDeleteAnyway(r, outcome) == EraseVolume(r)

FinishDelete(r, outcome) ==
  IF outcome = "ok" THEN EraseVolume(r) ELSE FailWrite(r, local[r].volume)

\* delete_lvol; SPDK removes the LUNs of a bdev that goes away.
DeprovisionVolume(r) ==
  LET v == local[r].volume
  IN /\ pc[r] = "deprovision"
     /\ IF local[r].seen.bdev
        THEN \E outcome \in Outcomes :
               /\ lvol' = IF Done(outcome) THEN [lvol EXCEPT ![v] = 0] ELSE lvol
               /\ export' = IF Done(outcome) THEN {x \in export : x.volume # v}
                                             ELSE export
               /\ FinishDelete(r, outcome)
        ELSE EraseVolume(r) /\ UNCHANGED spdk
     /\ UNCHANGED <<supply, gateway>>

-----------------------------------------------------------------------------
(***************************************************************************)
(* extend_volume, and expand_volume_by_delta: the same code with the new   *)
(* size computed from the volume just read                                 *)
(***************************************************************************)
\* Mutant: any other size will do.
MayExtendToOther(size, row) == size # row.size

MayExtend(size, row) == size > row.size

ExtendVolume(r) ==
  /\ Accepts(r, "extend_volume")
  /\ \E v \in Volumes, size \in 1..MaxSize, p \in BOOLEAN :
       /\ db.volume[v] # Null
       /\ MayExtend(size, db.volume[v])
       /\ GoTo(r, "mark_extending")
       /\ Remember(r, [Blank EXCEPT !.volume = v, !.seen = db.volume[v],
                                    !.size = size, !.persists = p])
  /\ UNCHANGED <<tables, supply, spdk, gateway>>

MarkExtending(r) ==
  LET v == local[r].volume
  IN /\ pc[r] = "mark_extending"
     /\ writer = Null
     /\ IF db.volume[v] = Null
        THEN StaleRow(r)
        ELSE BeginWrite(r, SetStatus(db, v, "extending"), "resize")
     /\ UNCHANGED <<supply, spdk, gateway>>

\* Mutant: the new size is not recorded.
ExtendedInSpdkOnly(t, v, size) == SetStatus(t, v, "available")

Extended(t, v, size) == SetStatus([t EXCEPT !.volume[v].size = size], v, "available")

\* resize_lvol sets the size it is given, be it larger or smaller.  Without
\* a bdev SPDK refuses the call.
ResizeVolume(r) ==
  LET v == local[r].volume
      exists == local[r].seen.bdev /\ lvol[v] # 0
      resized == [lvol EXCEPT ![v] = local[r].size]
  IN /\ pc[r] = "resize"
     /\ \/ /\ exists
           /\ lvol' = resized
           /\ Written(r, Extended(draft, v, local[r].size))
        \/ /\ ~exists \/ "refused" \in RpcFaults
           /\ FailWrite(r, v)
           /\ UNCHANGED lvol
        \/ /\ exists /\ "lost" \in RpcFaults
           /\ lvol' = resized
           /\ FailWrite(r, v)
     /\ UNCHANGED <<supply, export, gateway>>

-----------------------------------------------------------------------------
(***************************************************************************)
(* create_mapping, and the SVC command mkvdiskhostmap around it            *)
(***************************************************************************)
AlreadyMapped(host, v) == \E m \in db.mapping : m.host = host /\ m.volume = v

\* Mutant: the persona endpoint is left out.
NewMappingNoPersona(v, host, path) ==
  [id |-> nextMapping, volume |-> v, host |-> host, persona |-> Null,
   underlay |-> path[2], lun |-> 0, uid |-> 0]

NewMapping(v, host, path) ==
  [id |-> nextMapping, volume |-> v, host |-> host, persona |-> path[1],
   underlay |-> path[2], lun |-> 0, uid |-> 0]

\* The volume is read and its status judged.
LoadForMapping(r, v, host, path) ==
  /\ nextMapping <= MaxMappings
  /\ db.volume[v] # Null
  /\ db.volume[v].status \in {"available", "in_use"}
  /\ nextMapping' = nextMapping + 1
  /\ GoTo(r, "allocate_ids")
  /\ Remember(r, [Blank EXCEPT !.volume = v, !.seen = db.volume[v],
                               !.row = NewMapping(v, host, path)])
  /\ UNCHANGED <<tables, freshVolumes, spdk, gateway>>

CreateMapping(r) ==
  /\ Accepts(r, "create_mapping")
  /\ \E v \in Volumes, host \in Hosts, path \in Paths : LoadForMapping(r, v, host, path)

\* The command looks for a mapping of the pair first; its underlay is iSCSI.
MkVdiskHostMap(r) ==
  /\ Accepts(r, "mkvdiskhostmap")
  /\ \E v \in Volumes, host \in Hosts, path \in Paths :
       /\ ~AlreadyMapped(host, v)
       /\ Protocol[path[2]] = "iscsi"
       /\ LoadForMapping(r, v, host, path)

\* Mutant: LUNs are counted per host, over all its persona endpoints.
UsedLunsOfHost(t, host, persona) == {m.lun : m \in {x \in t.mapping : x.host = host}}

UsedLuns(t, host, persona) ==
  {m.lun : m \in {x \in t.mapping : x.host = host /\ x.persona = persona}}

\* Mutant: the wrong endpoint column is compared.
UsedUidsOfPersona(t, underlay) ==
  {m.uid : m \in {x \in t.mapping : x.persona = underlay}}

UsedUids(t, underlay) == {m.uid : m \in {x \in t.mapping : x.underlay = underlay}}

AllocateUid(t, underlay) ==
  IF Protocol[underlay] = "nvmeof_tcp"
  THEN AllocateNsid(UsedUids(t, underlay))
  ELSE AllocateLunFromBase(UsedUids(t, underlay), LunBase)

AllocateIds(r) ==
  LET row == local[r].row
  IN /\ pc[r] = "allocate_ids"
     /\ local' = [local EXCEPT
          ![r].row.lun = AllocateLun(UsedLuns(db, row.host, row.persona)),
          ![r].row.uid = AllocateUid(db, row.underlay)]
     /\ GoTo(r, "insert_mapping")
     /\ UNCHANGED <<tables, supply, spdk, gateway>>

\* SQLite does not enforce the foreign keys: the volume may be gone.
InsertMapping(r) ==
  /\ pc[r] = "insert_mapping"
  /\ BeginWrite(r, [db EXCEPT !.mapping = @ \cup {local[r].row}], "wire")
  /\ UNCHANGED <<supply, spdk, gateway>>

Wired(endpoint) == endpoint \in Targeted /\ Protocol[endpoint] # "fc"

Slot(m) == [endpoint |-> m.underlay, uid |-> m.uid, volume |-> m.volume]

\* Only the number is looked at, not the bdev behind it.
Occupied(m) == \E x \in export : x.endpoint = m.underlay /\ x.uid = m.uid

\* The status is written only if it differs from the one loaded, and writing
\* it fails if the row is gone.
SettleStatus(r, t, status) ==
  LET v == local[r].volume
  IN IF local[r].seen.status = status
     THEN Written(r, t)
     ELSE IF t.volume[v] = Null THEN Rollback(r) ELSE Written(r, SetStatus(t, v, status))

\* _wire_spdk_underlay: ensure_iscsi_mapping or ensure_nvmef_mapping.
WireMapping(r) ==
  LET m == local[r].row
      missing == Wired(m.underlay) /\ ~Occupied(m)
      possible == missing => local[r].seen.bdev /\ lvol[m.volume] # 0
      attached == IF missing THEN export \cup {Slot(m)} ELSE export
      calls == Wired(m.underlay) \/ Protocol[m.underlay] = "iscsi"
      faults == IF calls THEN RpcFaults ELSE {}
  IN /\ pc[r] = "wire"
     /\ \/ /\ possible
           /\ export' = attached
           /\ SettleStatus(r, draft, "in_use")
        \/ /\ ~possible \/ "refused" \in faults
           /\ UNCHANGED export
           /\ Rollback(r)
        \/ /\ possible /\ "lost" \in faults
           /\ export' = attached
           /\ Rollback(r)
     /\ UNCHANGED <<supply, lvol, gateway>>

-----------------------------------------------------------------------------
(***************************************************************************)
(* delete_mapping                                                          *)
(***************************************************************************)
DeleteMapping(r) ==
  /\ Accepts(r, "delete_mapping")
  /\ \E m \in db.mapping :
       /\ GoTo(r, "mark_detached")
       /\ Remember(r, [Blank EXCEPT !.row = m, !.volume = m.volume,
                                    !.seen = db.volume[m.volume]])
  /\ UNCHANGED <<tables, supply, spdk, gateway>>

\* Mutant: nothing is flushed before the target is taken down.
MarkDetachedUnflushed(r) ==
  /\ pc[r] = "mark_detached"
  /\ GoTo(r, "unwire")
  /\ UNCHANGED <<tables, local, supply, spdk, gateway>>

MarkDetached(r) ==
  /\ pc[r] = "mark_detached"
  /\ writer = Null
  /\ IF local[r].row \in db.mapping THEN BeginWrite(r, db, "unwire") ELSE StaleRow(r)
  /\ UNCHANGED <<supply, spdk, gateway>>

\* Mutant: namespaces are not removed.
UnwiredIscsi(m) ==
  IF Wired(m.underlay) /\ Protocol[m.underlay] = "iscsi"
  THEN {x \in export : x.endpoint # m.underlay} ELSE export

\* delete_target_node removes the iSCSI target of the endpoint with all its
\* LUNs, remove_namespace one namespace.
Unwired(m) ==
  CASE ~Wired(m.underlay) -> export
    [] Wired(m.underlay) /\ Protocol[m.underlay] = "iscsi" ->
         {x \in export : x.endpoint # m.underlay}
    [] Wired(m.underlay) /\ Protocol[m.underlay] = "nvmeof_tcp" ->
         {x \in export : x.endpoint # m.underlay \/ x.uid # m.uid}

\* Mutant: the mapping being deleted is counted among the remaining ones.
EraseMappingUnflushed(r) ==
  LET rest == [draft EXCEPT !.mapping = @ \ {local[r].row}]
  IN IF local[r].seen = Null
     THEN Rollback(r)
     ELSE IF MappingsOf(draft, local[r].volume) # {}
          THEN Written(r, rest)
          ELSE SettleStatus(r, rest, "available")

\* With the row deleted, the volume is free again if no other one maps it.
\* A volume that was already gone when the mapping was read is None here.
EraseMapping(r) ==
  LET rest == [draft EXCEPT !.mapping = @ \ {local[r].row}]
  IN IF local[r].seen = Null
     THEN Rollback(r)                    \* AttributeError
     ELSE IF MappingsOf(rest, local[r].volume) # {}
          THEN Written(r, rest)
          ELSE SettleStatus(r, rest, "available")

\* A failing cleanup is logged and the row deleted all the same.
UnwireMapping(r) ==
  /\ pc[r] = "unwire"
  /\ \E outcome \in Outcomes :
       export' = IF Done(outcome) THEN Unwired(local[r].row) ELSE export
  /\ EraseMapping(r)
  /\ UNCHANGED <<supply, lvol, gateway>>

-----------------------------------------------------------------------------
(***************************************************************************)
(* The end of a write transaction, and of the wait for one                 *)
(***************************************************************************)
Commit(r) ==
  /\ pc[r] = "commit"
  /\ db' = draft
  /\ writer' = Null
  /\ Leave(r)
  /\ UNCHANGED <<draft, supply, spdk, gateway>>

\* Mutant: the wait for the lock has no end.
LockWait(r) == FALSE

\* SQLite's busy timeout: "database is locked".
LockTimeout(r) ==
  /\ pc[r] \in FlushSteps
  /\ writer # Null
  /\ Leave(r)
  /\ UNCHANGED <<tables, supply, spdk, gateway>>

-----------------------------------------------------------------------------
(***************************************************************************)
(* Failures, and the start of the gateway                                  *)
(***************************************************************************)
\* Every request in flight dies and the open transaction is rolled back.
GatewayDies ==
  /\ pc' = [r \in Requests |-> "idle"]
  /\ local' = [r \in Requests |-> Blank]
  /\ writer' = Null
  /\ draft' = db
  /\ gateway' = "down"

\* SPDK starts empty; the lvols of a malloc pool are gone.
SpdkDies ==
  /\ lvol' = [v \in Volumes |-> 0]
  /\ export' = {}

GatewayCrash ==
  /\ "gateway_crash" \in Disruptions
  /\ GatewayDies
  /\ UNCHANGED <<db, supply, spdk>>

SpdkRestart ==
  /\ "spdk_restart" \in Disruptions
  /\ SpdkDies
  /\ UNCHANGED <<tables, requests, supply, gateway>>

HostReboot ==
  /\ "host_reboot" \in Disruptions
  /\ GatewayDies
  /\ SpdkDies
  /\ UNCHANGED <<db, supply>>

\* The volumes that reconcile looks at.
Healthy(v) == db.volume[v] # Null /\ db.volume[v].status # "error"

\* Mutant: only volumes that are not yet mapped are replayed.
AttachableUnmapped(m) ==
  Healthy(m.volume) /\ db.volume[m.volume].status = "available" /\ Wired(m.underlay)
    /\ ~Occupied(m)

\* A mapping that reconcile has to attach.
Attachable(m) == Healthy(m.volume) /\ Wired(m.underlay) /\ ~Occupied(m)

\* reconcile runs alone, before the first request is served.  An item that
\* fails is logged and left out: ensured are the volumes whose ensure_lvol
\* returned, made those it created or found.
Startup ==
  /\ gateway = "down"
  /\ \E ensured, made \in SUBSET {v \in Volumes : Healthy(v)} :
       /\ ensured \subseteq made
       /\ "lost" \notin RpcFaults => made = ensured
       /\ RpcFaults = {} => \A v \in Volumes : Healthy(v) => v \in ensured
       /\ lvol' = [v \in Volumes |-> IF v \in made /\ lvol[v] = 0
                                     THEN db.volume[v].size ELSE lvol[v]]
       /\ db' = [db EXCEPT !.volume = [v \in Volumes |->
                    IF v \in ensured THEN [db.volume[v] EXCEPT !.bdev = TRUE]
                                     ELSE db.volume[v]]]
  /\ draft' = db'
  /\ LET attachable == {m \in db.mapping : Attachable(m) /\ lvol'[m.volume] # 0
                                            /\ db'.volume[m.volume].bdev}
         sameSlot(m, n) == m.underlay = n.underlay /\ m.uid = n.uid
     IN \E done \in SUBSET attachable :
          /\ \A m, n \in done : sameSlot(m, n) => m = n
          /\ RpcFaults = {} => \A m \in attachable : \E n \in done : sameSlot(m, n)
          /\ export' = export \cup {Slot(m) : m \in done}
  /\ gateway' = "up"
  /\ UNCHANGED <<writer, requests, supply>>

-----------------------------------------------------------------------------
\* A client's call arrives.
Begin(r) ==
  \/ CreateVolume(r) \/ DeleteVolume(r) \/ ExtendVolume(r)
  \/ CreateMapping(r) \/ MkVdiskHostMap(r) \/ DeleteMapping(r)

\* A request in flight goes on.
Continue(r) ==
  \/ InsertVolume(r) \/ ProvisionVolume(r)
  \/ CheckMappings(r) \/ MarkDeleting(r) \/ DeprovisionVolume(r)
  \/ MarkExtending(r) \/ ResizeVolume(r)
  \/ AllocateIds(r) \/ InsertMapping(r) \/ WireMapping(r)
  \/ MarkDetached(r) \/ UnwireMapping(r)
  \/ Commit(r) \/ LockTimeout(r)

Next ==
  \/ \E r \in Requests : Begin(r) \/ Continue(r)
  \/ GatewayCrash \/ SpdkRestart \/ HostReboot
  \/ Startup

Spec == Init /\ [][Next]_vars

\* Coroutines and the threads of to_thread are scheduled again and again, the
\* wait for the lock is bounded, and a service manager restarts the gateway.
FairSpec == Spec /\ WF_vars(Startup) /\ \A r \in Requests : WF_vars(Continue(r))
=============================================================================
