-------------------------- MODULE GatewayCoreProofs --------------------------
(***************************************************************************)
(* For any number of requests, volumes, hosts and endpoints, any failures  *)
(* of SPDK calls and any crashes: GatewayCore keeps its types, no          *)
(* transient volume status is ever committed, and SPDK is changed for one  *)
(* request at a time.  The second half is about the volumes' lvols.        *)
(*                                                                         *)
(* The first three follow from one inductive invariant.  It adds what each *)
(* step of a request knows (LocalOK), that the lock holder alone is past   *)
(* its first flush, and that its draft is settled except for the one row   *)
(* whose SPDK call is outstanding (RequestOK).                             *)
(***************************************************************************)
EXTENDS GatewayProperties, AllocatorsProofs

\* Steps at which the draft holds a transient status, of local.volume only.
TransientSteps == {"provision", "deprovision", "resize"}

\* Steps whose handler holds a loaded or new Volume object, a Mapping object,
\* a new size.
SeenSteps == {"insert_volume", "provision", "check_mappings", "mark_deleting",
              "deprovision", "mark_extending", "resize", "allocate_ids",
              "insert_mapping", "wire"}
MappingSteps == {"allocate_ids", "insert_mapping", "wire", "mark_detached", "unwire"}
ExtendSteps == {"mark_extending", "resize"}

LocalOK(step, l) ==
  /\ step \in Steps
  /\ l \in Local
  /\ step # "idle" => l.volume \in Volumes
  /\ step \in SeenSteps => l.seen \in VolumeRow
  /\ step \in MappingSteps => l.row \in MappingRow
  /\ step \in ExtendSteps => l.size \in 1..MaxSize

\* The rows of t are settled, up to the row of a volume in but.
SettledBut(t, but) ==
  \A v \in Volumes \ but : t.volume[v] # Null => Settled(t.volume[v])

TablesOK(t) == t \in Tables /\ IsFiniteSet(t.mapping)

Transient(r) == IF pc[r] \in TransientSteps THEN {local[r].volume} ELSE {}

RequestOK(r) ==
  /\ LocalOK(pc[r], local[r])
  /\ pc[r] \in LockedSteps => writer = r /\ SettledBut(draft, Transient(r))
  /\ pc[r] \in TransientSteps => draft.volume[local[r].volume] \in VolumeRow

\* What holds of the tables and the requests.
CoreInv ==
  /\ TablesOK(db) /\ SettledBut(db, {})
  /\ TablesOK(draft)
  /\ writer \in Requests \cup {Null}
  /\ writer = Null => draft = db
  /\ pc \in [Requests -> Steps] /\ local \in [Requests -> Local]
  /\ \A r \in Requests : RequestOK(r)
  /\ gateway \in {"up", "down"}
  /\ gateway = "down" => writer = Null /\ \A r \in Requests : pc[r] = "idle"

\* What holds of the ids still to be used and of SPDK.
SupplyOK ==
  /\ freshVolumes \subseteq Volumes
  /\ nextMapping \in Nat
  /\ lvol \in [Volumes -> 0..MaxSize]
  /\ export \subseteq Export

Inv == CoreInv /\ SupplyOK

-----------------------------------------------------------------------------
(***************************************************************************)
(* The operators on tables                                                 *)
(***************************************************************************)
\* What a volume row is, field by field.
LEMMA VolumeRowFields ==
  /\ Null \notin VolumeRow
  /\ \A row \in VolumeRow, status \in Status :
       /\ row.status \in Status /\ row.size \in 1..MaxSize
       /\ [row EXCEPT !.status = status] \in VolumeRow
       /\ [row EXCEPT !.status = status].status = status
BY ConstantsAssumption DEF VolumeRow

\* A row whose bdev is recorded.
LEMMA FlaggedRow ==
  ASSUME NEW row \in VolumeRow
  PROVE  LET new == [row EXCEPT !.bdev = TRUE]
         IN new \in VolumeRow /\ new.bdev /\ new.size = row.size /\ new.status = row.status
BY DEF VolumeRow

\* A row with another status.
LEMMA MarkedRow ==
  ASSUME NEW row \in VolumeRow, NEW status \in Status
  PROVE  LET new == [row EXCEPT !.status = status]
         IN /\ new \in VolumeRow /\ new.status = status
            /\ new.name = row.name /\ new.bdev = row.bdev /\ new.size = row.size
BY DEF VolumeRow

\* Replacing a row, by another one or by none.
LEMMA SetRowTyped ==
  ASSUME NEW t, TablesOK(t), NEW v \in Volumes, NEW row \in VolumeRow \cup {Null}
  PROVE  /\ TablesOK(SetRow(t, v, row))
         /\ SetRow(t, v, row).volume[v] = row
         /\ \A w \in Volumes \ {v} : SetRow(t, v, row).volume[w] = t.volume[w]
BY DEF TablesOK, Tables, SetRow

\* Changing the status of a row.
LEMMA SetStatusTyped ==
  ASSUME NEW t, TablesOK(t), NEW v \in Volumes, t.volume[v] \in VolumeRow,
         NEW status \in Status
  PROVE  /\ TablesOK(SetStatus(t, v, status))
         /\ SetStatus(t, v, status).volume[v] \in VolumeRow
         /\ SetStatus(t, v, status).volume[v].status = status
         /\ \A w \in Volumes \ {v} : SetStatus(t, v, status).volume[w] = t.volume[w]
<1> DEFINE row == [t.volume[v] EXCEPT !.status = status]
<1>1. row \in VolumeRow /\ row.status = status
  BY VolumeRowFields
<1>2. SetStatus(t, v, status) = SetRow(t, v, row)
  BY DEF SetStatus, SetRow
<1> HIDE DEF row
<1>3. row \in VolumeRow \cup {Null}
  BY <1>1
<1>4. /\ TablesOK(SetRow(t, v, row))
      /\ SetRow(t, v, row).volume[v] = row
      /\ \A w \in Volumes \ {v} : SetRow(t, v, row).volume[w] = t.volume[w]
  BY <1>3, SetRowTyped
<1> QED
  BY <1>1, <1>2, <1>4 DEF row

\* Recording an extension.
LEMMA ExtendedTyped ==
  ASSUME NEW t, TablesOK(t), NEW v \in Volumes, t.volume[v] \in VolumeRow,
         NEW size \in 1..MaxSize
  PROVE  /\ TablesOK(Extended(t, v, size))
         /\ Extended(t, v, size).volume[v].status = "available"
         /\ \A w \in Volumes \ {v} : Extended(t, v, size).volume[w] = t.volume[w]
<1> DEFINE row == [t.volume[v] EXCEPT !.size = size, !.status = "available"]
<1>1. row \in VolumeRow /\ row.status = "available"
  BY DEF VolumeRow, Status
<1>2. Extended(t, v, size) = SetRow(t, v, row)
  BY DEF Extended, SetStatus, SetRow, TablesOK, Tables
<1> HIDE DEF row
<1>3. row \in VolumeRow \cup {Null}
  BY <1>1
<1>4. /\ TablesOK(SetRow(t, v, row))
      /\ SetRow(t, v, row).volume[v] = row
      /\ \A w \in Volumes \ {v} : SetRow(t, v, row).volume[w] = t.volume[w]
  BY <1>3, SetRowTyped
<1> QED
  BY <1>1, <1>2, <1>4

\* Settling one more row.
LEMMA SettleRow ==
  ASSUME NEW t, NEW u, NEW v \in Volumes, SettledBut(t, {v}),
         \A w \in Volumes \ {v} : u.volume[w] = t.volume[w],
         u.volume[v] = Null \/ Settled(u.volume[v])
  PROVE  SettledBut(u, {})
BY DEF SettledBut

\* The numbers in use are finitely many, so that the allocators find a free one.
LEMMA UsedNumbers ==
  ASSUME NEW t, TablesOK(t), NEW host, NEW endpoint
  PROVE  /\ IsFiniteSet(UsedLuns(t, host, endpoint))
         /\ IsFiniteSet(UsedUids(t, endpoint))
         /\ UsedUids(t, endpoint) \subseteq Nat
<1> DEFINE S == {x \in t.mapping : x.host = host /\ x.persona = endpoint}
           T == {x \in t.mapping : x.underlay = endpoint}
           f == [m \in S |-> m.lun]
           g == [m \in T |-> m.uid]
<1>1. IsFiniteSet(t.mapping)
  BY DEF TablesOK
<1>2. IsFiniteSet(S) /\ IsFiniteSet(T)
  BY <1>1, FS_Subset
<1>3. f \in Surjection(S, UsedLuns(t, host, endpoint))
  BY DEF Surjection, UsedLuns
<1>4. g \in Surjection(T, UsedUids(t, endpoint))
  BY DEF Surjection, UsedUids
<1>5. UsedUids(t, endpoint) \subseteq Nat
  BY DEF UsedUids, TablesOK, Tables, MappingRow
<1> HIDE DEF S, T, f, g
<1> QED
  BY <1>2, <1>3, <1>4, <1>5, FS_Surjection

-----------------------------------------------------------------------------
(***************************************************************************)
(* The shapes that the steps of a request have                             *)
(***************************************************************************)
\* The state of a request that is not there.
LEMMA IdleOK == Blank \in Local /\ LocalOK("idle", Blank)
BY ConstantsAssumption
   DEF LocalOK, Steps, Local, Blank, SeenSteps, MappingSteps, ExtendSteps

\* A request off idle runs in a gateway that is up.
LEMMA ActiveIsUp ==
  ASSUME CoreInv, NEW r \in Requests, pc[r] # "idle"
  PROVE  gateway = "up"
BY DEF CoreInv

\* Only the lock holder is in a locked step.
LEMMA LockHolder ==
  ASSUME CoreInv, NEW r \in Requests, pc[r] \in LockedSteps
  PROVE  /\ writer = r /\ writer # Null
         /\ \A s \in Requests \ {r} : pc[s] \notin LockedSteps
BY ConstantsAssumption DEF CoreInv, RequestOK

\* A step that reads: the lock is not involved.
LEMMA ReadStep ==
  ASSUME CoreInv, NEW r \in Requests, pc[r] \notin LockedSteps, gateway = "up",
         NEW step, step \notin LockedSteps, NEW l, LocalOK(step, l),
         GoTo(r, step), Remember(r, l), UNCHANGED <<tables, gateway>>
  PROVE  CoreInv'
<1>1. /\ pc' \in [Requests -> Steps] /\ local' \in [Requests -> Local]
      /\ pc'[r] = step /\ local'[r] = l
      /\ \A s \in Requests \ {r} : pc'[s] = pc[s] /\ local'[s] = local[s]
  BY DEF CoreInv, GoTo, Remember, LocalOK
<1>2. db' = db /\ draft' = draft /\ writer' = writer /\ gateway' = "up"
  BY DEF tables
<1>3. ASSUME NEW s \in Requests PROVE RequestOK(s)'
  <2>1. CASE s = r
    BY <1>1, <2>1 DEF RequestOK, LockedSteps, TransientSteps
  <2>2. CASE s # r
    BY <1>1, <1>2, <2>2 DEF CoreInv, RequestOK, Transient
  <2> QED
    BY <2>1, <2>2
<1> QED
  BY <1>1, <1>2, <1>3 DEF CoreInv
\* A step that gives up: nothing was written.
LEMMA LeaveStep ==
  ASSUME CoreInv, NEW r \in Requests, pc[r] \notin LockedSteps, gateway = "up",
         Leave(r), UNCHANGED <<tables, gateway>>
  PROVE  CoreInv'
<1>1. "idle" \notin LockedSteps
  BY DEF LockedSteps
<1>2. GoTo(r, "idle") /\ Remember(r, Blank)
  BY DEF Leave
<1> QED
  BY <1>1, <1>2, IdleOK, ReadStep

\* A first flush: the written row may be in a transient status.
LEMMA WriteStep ==
  ASSUME CoreInv, NEW r \in Requests, gateway = "up", NEW step \in LockedSteps,
         LocalOK(step, local[r]), NEW written, TablesOK(written),
         SettledBut(written, IF step \in TransientSteps THEN {local[r].volume} ELSE {}),
         step \in TransientSteps => written.volume[local[r].volume] \in VolumeRow,
         BeginWrite(r, written, step), UNCHANGED gateway
  PROVE  CoreInv'
<1>1. /\ pc' \in [Requests -> Steps] /\ pc'[r] = step
      /\ \A s \in Requests \ {r} : pc'[s] = pc[s]
  BY DEF CoreInv, BeginWrite, GoTo, LocalOK
<1>2. writer = Null /\ writer' = r /\ draft' = written /\ db' = db /\ local' = local
  BY DEF BeginWrite
<1>3. \A s \in Requests : pc[s] \notin LockedSteps
  BY <1>2, LockHolder
<1>4. ASSUME NEW s \in Requests PROVE RequestOK(s)'
  <2>1. CASE s = r
    BY <1>1, <1>2, <2>1 DEF RequestOK, Transient
  <2>2. CASE s # r
    <3>1. pc'[s] = pc[s] /\ pc[s] \notin LockedSteps /\ pc[s] \notin TransientSteps
      BY <1>1, <1>3, <2>2 DEF LockedSteps, TransientSteps
    <3>2. LocalOK(pc[s], local[s])
      BY DEF CoreInv, RequestOK
    <3> QED
      BY <1>2, <3>1, <3>2 DEF RequestOK
  <2> QED
    BY <2>1, <2>2
<1>5. writer' # Null /\ gateway' = "up"
  BY <1>2, ConstantsAssumption
<1> QED
  BY <1>1, <1>2, <1>4, <1>5 DEF CoreInv

\* The handler is through, with the draft settled.
LEMMA WrittenStep ==
  ASSUME CoreInv, NEW r \in Requests, pc[r] \in LockedSteps,
         NEW t, TablesOK(t), SettledBut(t, {}),
         Written(r, t), UNCHANGED gateway
  PROVE  CoreInv'
<1>1. /\ pc' \in [Requests -> Steps] /\ pc'[r] = "commit"
      /\ \A s \in Requests \ {r} : pc'[s] = pc[s]
  BY DEF CoreInv, Written, GoTo, Steps, LockedSteps
<1>2. draft' = t /\ db' = db /\ local' = local /\ writer' = writer
  BY DEF Written
<1>3. /\ writer = r /\ writer # Null
      /\ \A s \in Requests \ {r} : pc[s] \notin LockedSteps
  BY LockHolder
<1>4. ASSUME NEW s \in Requests PROVE RequestOK(s)'
  <2>1. LocalOK(pc[s], local[s])
    BY DEF CoreInv, RequestOK
  <2>2. CASE s = r
    <3>1. LocalOK("commit", local[r])
      BY <2>1, <2>2 DEF LocalOK, Steps, LockedSteps, SeenSteps, MappingSteps, ExtendSteps
    <3> QED
      BY <1>1, <1>2, <1>3, <2>2, <3>1 DEF RequestOK, Transient, TransientSteps
  <2>3. CASE s # r
    <3>1. pc'[s] = pc[s] /\ pc[s] \notin LockedSteps /\ pc[s] \notin TransientSteps
      BY <1>1, <1>3, <2>3 DEF LockedSteps, TransientSteps
    <3> QED
      BY <1>2, <2>1, <3>1 DEF RequestOK
  <2> QED
    BY <2>2, <2>3
<1>5. gateway' = "up"
  BY ActiveIsUp DEF LockedSteps
<1> QED
  BY <1>1, <1>2, <1>3, <1>4, <1>5 DEF CoreInv

\* The transaction ends, with the tables as they were or as the draft has them.
LEMMA ReleaseStep ==
  ASSUME CoreInv, NEW r \in Requests, pc[r] \in LockedSteps,
         db' = db \/ (db' = draft /\ SettledBut(draft, {})),
         draft' = db', writer' = Null, Leave(r), UNCHANGED gateway
  PROVE  CoreInv'
<1>1. /\ pc' \in [Requests -> Steps] /\ local' \in [Requests -> Local]
      /\ pc'[r] = "idle" /\ local'[r] = Blank
      /\ \A s \in Requests \ {r} : pc'[s] = pc[s] /\ local'[s] = local[s]
  BY IdleOK DEF CoreInv, Leave, GoTo, Remember, LocalOK
<1>2. \A s \in Requests \ {r} : pc[s] \notin LockedSteps
  BY LockHolder
<1>3. ASSUME NEW s \in Requests PROVE RequestOK(s)'
  <2>1. CASE s = r
    BY <1>1, <2>1, IdleOK DEF RequestOK, LockedSteps, TransientSteps
  <2>2. CASE s # r
    <3>1. /\ pc'[s] = pc[s] /\ local'[s] = local[s]
          /\ pc[s] \notin LockedSteps /\ pc[s] \notin TransientSteps
      BY <1>1, <1>2, <2>2 DEF LockedSteps, TransientSteps
    <3>2. LocalOK(pc[s], local[s])
      BY DEF CoreInv, RequestOK
    <3> QED
      BY <3>1, <3>2 DEF RequestOK
  <2> QED
    BY <2>1, <2>2
<1>4. gateway' = "up"
  BY ActiveIsUp DEF LockedSteps
<1>5. TablesOK(db') /\ SettledBut(db', {}) /\ draft' = db' /\ writer' = Null
  BY DEF CoreInv
<1> QED
  BY <1>1, <1>3, <1>4, <1>5 DEF CoreInv

LEMMA RollbackStep ==
  ASSUME CoreInv, NEW r \in Requests, pc[r] \in LockedSteps, Rollback(r),
         UNCHANGED gateway
  PROVE  CoreInv'
<1>1. db' = db /\ draft' = db' /\ writer' = Null /\ Leave(r)
  BY DEF Rollback
<1> QED
  BY <1>1, ReleaseStep

\* A failing operation: "error" is settled, and so is a rolled back row.
LEMMA FailWriteStep ==
  ASSUME CoreInv, NEW r \in Requests, pc[r] \in TransientSteps,
         FailWrite(r, local[r].volume), UNCHANGED gateway
  PROVE  CoreInv'
<1> DEFINE v == local[r].volume
           t == SetStatus(draft, v, "error")
<1>1. pc[r] \in LockedSteps
  BY DEF TransientSteps, LockedSteps
<1>2. CASE local[r].persists
  <2>1. Written(r, t)
    BY <1>2 DEF FailWrite
  <2>2. /\ v \in Volumes /\ draft.volume[v] \in VolumeRow
        /\ TablesOK(draft) /\ SettledBut(draft, {v})
    BY <1>1 DEF CoreInv, RequestOK, LocalOK, Transient, TransientSteps
  <2>3. "error" \in Status
    BY DEF Status
  <2> HIDE DEF v
  <2>4. /\ TablesOK(t) /\ t.volume[v].status = "error"
        /\ \A w \in Volumes \ {v} : t.volume[w] = draft.volume[w]
    BY <2>2, <2>3, SetStatusTyped
  <2>5. Settled(t.volume[v])
    BY <2>4 DEF Settled
  <2> HIDE DEF t
  <2>6. SettledBut(t, {})
    BY <2>2, <2>4, <2>5, SettleRow
  <2> QED
    BY <1>1, <2>1, <2>4, <2>6, WrittenStep
<1>3. CASE ~local[r].persists
  BY <1>1, <1>3, RollbackStep DEF FailWrite
<1> QED
  BY <1>2, <1>3

-----------------------------------------------------------------------------
(***************************************************************************)
(* The actions                                                             *)
(***************************************************************************)
LEMMA CreateVolumeStep ==
  ASSUME Inv, NEW r \in Requests, CreateVolume(r)
  PROVE  Inv'
<1>1. PICK v \in freshVolumes, name \in Names, size \in 1..MaxSize, p \in BOOLEAN :
        /\ freshVolumes' = freshVolumes \ {v}
        /\ GoTo(r, "insert_volume")
        /\ Remember(r, [Blank EXCEPT !.volume = v, !.seen = NewVolume(name, size),
                                     !.persists = p])
  BY DEF CreateVolume
<1> DEFINE l == [Blank EXCEPT !.volume = v, !.seen = NewVolume(name, size),
                              !.persists = p]
<1>2. NewVolume(name, size) \in VolumeRow
  BY DEF NewVolume, VolumeRow, Status
<1>3. v \in Volumes
  BY DEF Inv, SupplyOK
<1>4. LocalOK("insert_volume", l)
  <2>1. l \in Local
    BY <1>2, <1>3, IdleOK DEF Local
  <2>2. l.volume = v /\ l.seen = NewVolume(name, size)
    BY DEF Blank
  <2> HIDE DEF l
  <2> QED
    BY <1>2, <1>3, <2>1, <2>2
       DEF LocalOK, Steps, FlushSteps, MappingSteps, ExtendSteps
<1> HIDE DEF l
<1>5. /\ pc[r] \notin LockedSteps /\ "insert_volume" \notin LockedSteps
      /\ gateway = "up" /\ UNCHANGED <<tables, gateway, nextMapping, spdk>>
  BY DEF CreateVolume, Accepts, LockedSteps
<1>6. CoreInv'
  BY <1>1, <1>4, <1>5, ReadStep DEF Inv, l
<1>7. SupplyOK'
  BY <1>1, <1>5 DEF Inv, SupplyOK, spdk
<1> QED
  BY <1>6, <1>7 DEF Inv

LEMMA InsertVolumeStep ==
  ASSUME Inv, NEW r \in Requests, InsertVolume(r)
  PROVE  Inv'
<1> DEFINE v == local[r].volume
           t == SetRow(db, v, local[r].seen)
<1>1. /\ CoreInv /\ pc[r] = "insert_volume" /\ BeginWrite(r, t, "provision")
      /\ UNCHANGED <<supply, spdk, gateway>>
  BY DEF Inv, InsertVolume
<1>2. LocalOK(pc[r], local[r]) /\ TablesOK(db) /\ SettledBut(db, {})
  BY DEF Inv, CoreInv, RequestOK
<1>3. v \in Volumes /\ local[r].seen \in VolumeRow /\ LocalOK("provision", local[r])
  BY <1>1, <1>2
     DEF LocalOK, Steps, LockedSteps, SeenSteps, MappingSteps, ExtendSteps
<1> HIDE DEF v
<1>4. /\ TablesOK(t) /\ t.volume[v] = local[r].seen
      /\ \A w \in Volumes \ {v} : t.volume[w] = db.volume[w]
  BY <1>2, <1>3, SetRowTyped
<1> HIDE DEF t
<1>5. SettledBut(t, {v})
  BY <1>2, <1>4 DEF SettledBut
<1>6. gateway = "up" /\ "provision" \in LockedSteps /\ "provision" \in TransientSteps
  BY <1>1, ActiveIsUp DEF LockedSteps, TransientSteps
<1>7. CoreInv'
  BY <1>1, <1>3, <1>4, <1>5, <1>6, WriteStep DEF v
<1>8. SupplyOK'
  BY <1>1 DEF Inv, SupplyOK, supply, spdk
<1> QED
  BY <1>7, <1>8 DEF Inv

\* What the invariant says of a request whose SPDK call is outstanding.
LEMMA OutstandingCall ==
  ASSUME Inv, NEW r \in Requests, pc[r] \in TransientSteps
  PROVE  /\ CoreInv /\ pc[r] \in LockedSteps
         /\ local[r].volume \in Volumes /\ local[r].seen \in VolumeRow
         /\ draft.volume[local[r].volume] \in VolumeRow
         /\ TablesOK(draft) /\ SettledBut(draft, {local[r].volume})
         /\ pc[r] = "resize" => local[r].size \in 1..MaxSize
BY DEF Inv, CoreInv, RequestOK, LocalOK, Transient, TransientSteps, LockedSteps,
       SeenSteps, ExtendSteps

LEMMA ProvisionVolumeStep ==
  ASSUME Inv, NEW r \in Requests, ProvisionVolume(r)
  PROVE  Inv'
<1> DEFINE v == local[r].volume
           row == local[r].seen
           t == SetRow(draft, v, Provisioned(row))
<1>1. pc[r] \in TransientSteps /\ UNCHANGED <<supply, export, gateway>>
  BY DEF ProvisionVolume, TransientSteps
<1>2. /\ CoreInv /\ pc[r] \in LockedSteps
      /\ v \in Volumes /\ row \in VolumeRow
      /\ TablesOK(draft) /\ SettledBut(draft, {v})
  BY <1>1, OutstandingCall
<1>3. PICK outcome \in Outcomes :
        /\ lvol' = IF Done(outcome) /\ lvol[v] = 0
                   THEN [lvol EXCEPT ![v] = row.size] ELSE lvol
        /\ IF outcome = "ok" THEN Written(r, t) ELSE FailWrite(r, v)
  BY DEF ProvisionVolume
<1>4. CoreInv'
  <2>1. CASE outcome = "ok"
    <3>1. Provisioned(row) \in VolumeRow /\ Settled(Provisioned(row))
      BY <1>2 DEF Provisioned, VolumeRow, Status, Settled
    <3> HIDE DEF v, row
    <3>2. /\ TablesOK(t) /\ t.volume[v] = Provisioned(row)
          /\ \A w \in Volumes \ {v} : t.volume[w] = draft.volume[w]
      BY <1>2, <3>1, SetRowTyped
    <3>3. Written(r, t)
      BY <1>3, <2>1
    <3> HIDE DEF t
    <3>4. SettledBut(t, {})
      BY <1>2, <3>1, <3>2, SettleRow
    <3> QED
      BY <1>1, <1>2, <3>2, <3>3, <3>4, WrittenStep
  <2>2. CASE outcome # "ok"
    BY <1>1, <1>2, <1>3, <2>2, FailWriteStep
  <2> QED
    BY <2>1, <2>2
<1>5. SupplyOK'
  <2>1. row.size \in 0..MaxSize
    BY <1>2, ConstantsAssumption DEF VolumeRow
  <2> QED
    BY <1>1, <1>2, <1>3, <2>1 DEF Inv, SupplyOK, supply
<1> QED
  BY <1>4, <1>5 DEF Inv

LEMMA DeleteVolumeStep ==
  ASSUME Inv, NEW r \in Requests, DeleteVolume(r)
  PROVE  Inv'
<1>1. PICK v \in Volumes :
        /\ db.volume[v] # Null
        /\ GoTo(r, "check_mappings")
        /\ Remember(r, [Blank EXCEPT !.volume = v, !.seen = db.volume[v],
                                     !.children = MappingsOf(db, v) # {}])
  BY DEF DeleteVolume
<1> DEFINE l == [Blank EXCEPT !.volume = v, !.seen = db.volume[v],
                              !.children = MappingsOf(db, v) # {}]
<1>2. db.volume[v] \in VolumeRow
  BY <1>1 DEF Inv, CoreInv, TablesOK, Tables
<1>3. (MappingsOf(db, v) # {}) \in BOOLEAN
  OBVIOUS
<1>4. LocalOK("check_mappings", l)
  <2>1. l \in Local
    BY <1>2, <1>3, IdleOK DEF Local
  <2>2. l.volume = v /\ l.seen = db.volume[v]
    BY DEF Blank
  <2> HIDE DEF l
  <2> QED
    BY <1>2, <2>1, <2>2 DEF LocalOK, Steps, MappingSteps, ExtendSteps
<1> HIDE DEF l
<1>5. /\ pc[r] \notin LockedSteps /\ "check_mappings" \notin LockedSteps
      /\ gateway = "up" /\ UNCHANGED <<tables, gateway, supply, spdk>>
  BY DEF DeleteVolume, Accepts, LockedSteps
<1>6. CoreInv'
  BY <1>1, <1>4, <1>5, ReadStep DEF Inv, l
<1>7. SupplyOK'
  BY <1>5 DEF Inv, SupplyOK, supply, spdk
<1> QED
  BY <1>6, <1>7 DEF Inv

LEMMA CheckMappingsStep ==
  ASSUME Inv, NEW r \in Requests, CheckMappings(r)
  PROVE  Inv'
<1>1. /\ CoreInv /\ pc[r] = "check_mappings"
      /\ UNCHANGED <<tables, supply, spdk, gateway>>
  BY DEF Inv, CheckMappings
<1>2. /\ gateway = "up" /\ pc[r] \notin LockedSteps /\ "mark_deleting" \notin LockedSteps
  BY <1>1, ActiveIsUp DEF LockedSteps
<1>3. CoreInv'
  <2>1. CASE Leave(r)
    BY <1>1, <1>2, <2>1, LeaveStep
  <2>2. CASE GoTo(r, "mark_deleting") /\ UNCHANGED local
    <3>1. LocalOK(pc[r], local[r]) /\ local \in [Requests -> Local]
      BY <1>1 DEF CoreInv, RequestOK
    <3>2. LocalOK("mark_deleting", local[r])
      BY <1>1, <3>1
         DEF LocalOK, Steps, FlushSteps, SeenSteps, MappingSteps, ExtendSteps
    <3>3. Remember(r, local[r])
      BY <2>2, <3>1 DEF Remember
    <3> QED
      BY <1>1, <1>2, <2>2, <3>2, <3>3, ReadStep
  <2> QED
    BY <2>1, <2>2 DEF CheckMappings
<1>4. SupplyOK'
  BY <1>1 DEF Inv, SupplyOK, supply, spdk
<1> QED
  BY <1>3, <1>4 DEF Inv

\* Marking a row with the transient status of a step.
LEMMA MarkStep ==
  ASSUME Inv, NEW r \in Requests, pc[r] # "idle", NEW status \in Status,
         NEW step \in TransientSteps, LocalOK(step, local[r]),
         db.volume[local[r].volume] # Null,
         BeginWrite(r, SetStatus(db, local[r].volume, status), step),
         UNCHANGED gateway
  PROVE  CoreInv'
<1> DEFINE v == local[r].volume
           t == SetStatus(db, v, status)
<1>1. CoreInv /\ gateway = "up"
  BY ActiveIsUp DEF Inv
<1>2. step \in LockedSteps /\ v \in Volumes
  BY DEF TransientSteps, LockedSteps, LocalOK
<1>3. TablesOK(db) /\ SettledBut(db, {}) /\ db.volume[v] \in VolumeRow
  BY <1>2 DEF Inv, CoreInv, TablesOK, Tables
<1>4. BeginWrite(r, t, step)
  OBVIOUS
<1> HIDE DEF v
<1>5. /\ TablesOK(t) /\ t.volume[v] \in VolumeRow
      /\ \A w \in Volumes \ {v} : t.volume[w] = db.volume[w]
  BY <1>2, <1>3, SetStatusTyped
<1> HIDE DEF t
<1>6. SettledBut(t, {v})
  BY <1>3, <1>5 DEF SettledBut
<1> QED
  BY <1>1, <1>2, <1>4, <1>5, <1>6, WriteStep DEF v

LEMMA MarkDeletingStep ==
  ASSUME Inv, NEW r \in Requests, MarkDeleting(r)
  PROVE  Inv'
<1>1. /\ CoreInv /\ pc[r] = "mark_deleting" /\ UNCHANGED <<supply, spdk, gateway>>
  BY DEF Inv, MarkDeleting
<1>2. gateway = "up" /\ pc[r] \notin LockedSteps
  BY <1>1, ActiveIsUp DEF LockedSteps
<1>3. CoreInv'
  <2>1. CASE db.volume[local[r].volume] = Null
    <3>1. Leave(r) /\ UNCHANGED <<tables, gateway>>
      BY <1>1, <2>1 DEF MarkDeleting, StaleRow
    <3> QED
      BY <1>1, <1>2, <3>1, LeaveStep
  <2>2. CASE db.volume[local[r].volume] # Null
    <3>1. LocalOK("deprovision", local[r])
      BY <1>1 DEF CoreInv, RequestOK, LocalOK, Steps, LockedSteps, SeenSteps,
                  MappingSteps, ExtendSteps
    <3>2. "deleting" \in Status /\ "deprovision" \in TransientSteps
      BY DEF Status, TransientSteps
    <3>3. BeginWrite(r, SetStatus(db, local[r].volume, "deleting"), "deprovision")
      BY <2>2 DEF MarkDeleting
    <3> QED
      BY <1>1, <2>2, <3>1, <3>2, <3>3, MarkStep
  <2> QED
    BY <2>1, <2>2
<1>4. SupplyOK'
  BY <1>1 DEF Inv, SupplyOK, supply, spdk
<1> QED
  BY <1>3, <1>4 DEF Inv

LEMMA EraseVolumeStep ==
  ASSUME Inv, NEW r \in Requests, pc[r] \in TransientSteps, EraseVolume(r),
         UNCHANGED gateway
  PROVE  CoreInv'
<1> DEFINE v == local[r].volume
           t == SetRow(draft, v, Null)
<1>1. /\ CoreInv /\ pc[r] \in LockedSteps /\ v \in Volumes
      /\ TablesOK(draft) /\ SettledBut(draft, {v})
  BY OutstandingCall
<1>2. CASE local[r].children
  BY <1>1, <1>2, RollbackStep DEF EraseVolume
<1>3. CASE ~local[r].children
  <2>1. Written(r, t)
    BY <1>3 DEF EraseVolume
  <2>2. Null \in VolumeRow \cup {Null}
    OBVIOUS
  <2> HIDE DEF v
  <2>3. /\ TablesOK(t) /\ t.volume[v] = Null
        /\ \A w \in Volumes \ {v} : t.volume[w] = draft.volume[w]
    BY <1>1, <2>2, SetRowTyped
  <2> HIDE DEF t
  <2>4. SettledBut(t, {})
    BY <1>1, <2>3, SettleRow
  <2> QED
    BY <1>1, <2>1, <2>3, <2>4, WrittenStep
<1> QED
  BY <1>2, <1>3

LEMMA DeprovisionVolumeStep ==
  ASSUME Inv, NEW r \in Requests, DeprovisionVolume(r)
  PROVE  Inv'
<1>1. pc[r] \in TransientSteps /\ UNCHANGED <<supply, gateway>>
  BY DEF DeprovisionVolume, TransientSteps
<1>2. EraseVolume(r) \/ FailWrite(r, local[r].volume)
  BY DEF DeprovisionVolume, FinishDelete
<1>3. CoreInv'
  BY <1>1, <1>2, EraseVolumeStep, FailWriteStep DEF Inv
<1>4. /\ lvol' = lvol \/ lvol' = [lvol EXCEPT ![local[r].volume] = 0]
      /\ export' \subseteq export
  BY DEF DeprovisionVolume, spdk
<1>5. SupplyOK'
  BY <1>1, <1>4, ConstantsAssumption DEF Inv, SupplyOK, supply
<1> QED
  BY <1>3, <1>5 DEF Inv

LEMMA ExtendVolumeStep ==
  ASSUME Inv, NEW r \in Requests, ExtendVolume(r)
  PROVE  Inv'
<1>1. PICK v \in Volumes, size \in 1..MaxSize, p \in BOOLEAN :
        /\ db.volume[v] # Null
        /\ GoTo(r, "mark_extending")
        /\ Remember(r, [Blank EXCEPT !.volume = v, !.seen = db.volume[v],
                                     !.size = size, !.persists = p])
  BY DEF ExtendVolume
<1> DEFINE l == [Blank EXCEPT !.volume = v, !.seen = db.volume[v],
                              !.size = size, !.persists = p]
<1>2. db.volume[v] \in VolumeRow
  BY <1>1 DEF Inv, CoreInv, TablesOK, Tables
<1>3. LocalOK("mark_extending", l)
  <2>1. size \in 0..MaxSize
    BY ConstantsAssumption
  <2>2. l \in Local
    BY <1>2, <2>1, IdleOK DEF Local
  <2>3. l.volume = v /\ l.seen = db.volume[v] /\ l.size = size
    BY DEF Blank
  <2> HIDE DEF l
  <2> QED
    BY <1>2, <2>2, <2>3 DEF LocalOK, Steps, FlushSteps, MappingSteps
<1> HIDE DEF l
<1>4. /\ pc[r] \notin LockedSteps /\ "mark_extending" \notin LockedSteps
      /\ gateway = "up" /\ UNCHANGED <<tables, gateway, supply, spdk>>
  BY DEF ExtendVolume, Accepts, LockedSteps
<1>5. CoreInv'
  BY <1>1, <1>3, <1>4, ReadStep DEF Inv, l
<1>6. SupplyOK'
  BY <1>4 DEF Inv, SupplyOK, supply, spdk
<1> QED
  BY <1>5, <1>6 DEF Inv

LEMMA MarkExtendingStep ==
  ASSUME Inv, NEW r \in Requests, MarkExtending(r)
  PROVE  Inv'
<1>1. /\ CoreInv /\ pc[r] = "mark_extending" /\ UNCHANGED <<supply, spdk, gateway>>
  BY DEF Inv, MarkExtending
<1>2. gateway = "up" /\ pc[r] \notin LockedSteps
  BY <1>1, ActiveIsUp DEF LockedSteps
<1>3. CoreInv'
  <2>1. CASE db.volume[local[r].volume] = Null
    <3>1. Leave(r) /\ UNCHANGED <<tables, gateway>>
      BY <1>1, <2>1 DEF MarkExtending, StaleRow
    <3> QED
      BY <1>1, <1>2, <3>1, LeaveStep
  <2>2. CASE db.volume[local[r].volume] # Null
    <3>1. LocalOK("resize", local[r])
      BY <1>1 DEF CoreInv, RequestOK, LocalOK, Steps, LockedSteps, SeenSteps,
                  MappingSteps, ExtendSteps
    <3>2. "extending" \in Status /\ "resize" \in TransientSteps
      BY DEF Status, TransientSteps
    <3>3. BeginWrite(r, SetStatus(db, local[r].volume, "extending"), "resize")
      BY <2>2 DEF MarkExtending
    <3> QED
      BY <1>1, <2>2, <3>1, <3>2, <3>3, MarkStep
  <2> QED
    BY <2>1, <2>2
<1>4. SupplyOK'
  BY <1>1 DEF Inv, SupplyOK, supply, spdk
<1> QED
  BY <1>3, <1>4 DEF Inv

LEMMA ResizeVolumeStep ==
  ASSUME Inv, NEW r \in Requests, ResizeVolume(r)
  PROVE  Inv'
<1> DEFINE v == local[r].volume
           size == local[r].size
           t == Extended(draft, v, size)
<1>1. pc[r] \in TransientSteps /\ UNCHANGED <<supply, export, gateway>>
  BY DEF ResizeVolume, TransientSteps
<1>2. /\ CoreInv /\ pc[r] \in LockedSteps
      /\ v \in Volumes /\ draft.volume[v] \in VolumeRow /\ size \in 1..MaxSize
      /\ TablesOK(draft) /\ SettledBut(draft, {v})
  BY <1>1, OutstandingCall DEF ResizeVolume
<1>3. Written(r, t) \/ FailWrite(r, v)
  BY DEF ResizeVolume
<1>4. CoreInv'
  <2>1. CASE Written(r, t)
    <3> HIDE DEF v, size
    <3>1. /\ TablesOK(t) /\ t.volume[v].status = "available"
          /\ \A w \in Volumes \ {v} : t.volume[w] = draft.volume[w]
      BY <1>2, ExtendedTyped
    <3> HIDE DEF t
    <3>2. Settled(t.volume[v])
      BY <3>1 DEF Settled
    <3>3. SettledBut(t, {})
      BY <1>2, <3>1, <3>2, SettleRow
    <3> QED
      BY <1>1, <1>2, <2>1, <3>1, <3>3, WrittenStep
  <2>2. CASE FailWrite(r, v)
    BY <1>1, <1>2, <2>2, FailWriteStep
  <2> QED
    BY <1>3, <2>1, <2>2
<1>5. SupplyOK'
  <2>1. lvol' = lvol \/ lvol' = [lvol EXCEPT ![v] = size]
    BY DEF ResizeVolume
  <2>2. size \in 0..MaxSize
    BY <1>2, ConstantsAssumption
  <2> QED
    BY <1>1, <2>1, <2>2 DEF Inv, SupplyOK, supply
<1> QED
  BY <1>4, <1>5 DEF Inv

LEMMA LoadForMappingStep ==
  ASSUME Inv, NEW r \in Requests, NEW v \in Volumes, NEW host \in Hosts,
         NEW path \in Paths, pc[r] = "idle", gateway = "up",
         LoadForMapping(r, v, host, path)
  PROVE  Inv'
<1> DEFINE row == NewMapping(v, host, path)
           l == [Blank EXCEPT !.volume = v, !.seen = db.volume[v], !.row = row]
<1>1. /\ db.volume[v] # Null /\ nextMapping' = nextMapping + 1
      /\ GoTo(r, "allocate_ids") /\ Remember(r, l)
      /\ UNCHANGED <<tables, freshVolumes, spdk, gateway>>
  BY DEF LoadForMapping
<1>2. db.volume[v] \in VolumeRow
  BY <1>1 DEF Inv, CoreInv, TablesOK, Tables
<1>3. row \in MappingRow
  <2>1. path[1] \in Endpoints /\ path[2] \in Endpoints /\ nextMapping \in Nat
    BY ConstantsAssumption DEF Inv, SupplyOK
  <2> QED
    BY <2>1 DEF NewMapping, MappingRow
<1> HIDE DEF row
<1>4. LocalOK("allocate_ids", l)
  <2>1. l \in Local
    BY <1>2, <1>3, IdleOK DEF Local
  <2>2. l.volume = v /\ l.seen = db.volume[v] /\ l.row = row
    BY DEF Blank
  <2> HIDE DEF l
  <2> QED
    BY <1>2, <1>3, <2>1, <2>2 DEF LocalOK, Steps, ExtendSteps
<1> HIDE DEF l
<1>5. pc[r] \notin LockedSteps /\ "allocate_ids" \notin LockedSteps
  BY DEF LockedSteps
<1>6. CoreInv'
  BY <1>1, <1>4, <1>5, ReadStep DEF Inv
<1>7. SupplyOK'
  BY <1>1 DEF Inv, SupplyOK, spdk
<1> QED
  BY <1>6, <1>7 DEF Inv

LEMMA CreateMappingStep ==
  ASSUME Inv, NEW r \in Requests, CreateMapping(r) \/ MkVdiskHostMap(r)
  PROVE  Inv'
<1>1. pc[r] = "idle" /\ gateway = "up"
  BY DEF CreateMapping, MkVdiskHostMap, Accepts
<1>2. PICK v \in Volumes, host \in Hosts, path \in Paths : LoadForMapping(r, v, host, path)
  BY DEF CreateMapping, MkVdiskHostMap
<1> QED
  BY <1>1, <1>2, LoadForMappingStep

\* The allocators return numbers, whatever mappings there are.
LEMMA AllocatedTyped ==
  ASSUME Inv, NEW host, NEW persona, NEW underlay \in Endpoints
  PROVE  /\ AllocateLun(UsedLuns(db, host, persona)) \in Nat
         /\ AllocateUid(db, underlay) \in Nat
<1>1. TablesOK(db) /\ LunBase \in Nat
  BY ConstantsAssumption DEF Inv, CoreInv
<1>2. /\ IsFiniteSet(UsedLuns(db, host, persona))
      /\ IsFiniteSet(UsedUids(db, underlay))
      /\ UsedUids(db, underlay) \subseteq Nat
  BY <1>1, UsedNumbers
<1>3. AllocateLun(UsedLuns(db, host, persona)) \in Nat
  BY <1>2, AllocateLunCorrect
<1>4. AllocateNsid(UsedUids(db, underlay)) \in Nat
  BY <1>2, AllocateNsidCorrect
<1>5. AllocateLunFromBase(UsedUids(db, underlay), LunBase) \in Nat
  BY <1>1, <1>2, AllocateLunFromBaseCorrect
<1> QED
  BY <1>3, <1>4, <1>5 DEF AllocateUid

LEMMA AllocateIdsStep ==
  ASSUME Inv, NEW r \in Requests, AllocateIds(r)
  PROVE  Inv'
<1> DEFINE old == local[r]
           lun == AllocateLun(UsedLuns(db, old.row.host, old.row.persona))
           uid == AllocateUid(db, old.row.underlay)
           row == [old.row EXCEPT !.lun = lun, !.uid = uid]
           l == [old EXCEPT !.row = row]
<1>1. /\ CoreInv /\ pc[r] = "allocate_ids" /\ GoTo(r, "insert_mapping")
      /\ UNCHANGED <<tables, supply, spdk, gateway>>
  BY DEF Inv, AllocateIds
<1>2. LocalOK("allocate_ids", old) /\ old \in Local /\ local \in [Requests -> Local]
  BY <1>1 DEF CoreInv, RequestOK
<1>3. old.volume \in Volumes /\ old.seen \in VolumeRow /\ old.row \in MappingRow
  BY <1>2 DEF LocalOK, SeenSteps, MappingSteps
<1>4. lun \in Nat /\ uid \in Nat
  BY <1>3, AllocatedTyped DEF MappingRow
<1>5. Remember(r, l)
  BY <1>2, <1>3 DEF AllocateIds, Remember, Local, MappingRow
<1> HIDE DEF old, lun, uid
<1>6. row \in MappingRow
  BY <1>3, <1>4 DEF MappingRow
<1> HIDE DEF row
<1>7. LocalOK("insert_mapping", l)
  <2>1. l \in Local
    BY <1>2, <1>6 DEF Local
  <2>2. l.volume = old.volume /\ l.seen = old.seen /\ l.row = row
    BY <1>2 DEF Local
  <2> HIDE DEF l
  <2> QED
    BY <1>3, <1>6, <2>1, <2>2 DEF LocalOK, Steps, FlushSteps, ExtendSteps
<1> HIDE DEF l
<1>8. gateway = "up" /\ pc[r] \notin LockedSteps /\ "insert_mapping" \notin LockedSteps
  BY <1>1, ActiveIsUp DEF LockedSteps
<1>9. CoreInv'
  BY <1>1, <1>5, <1>7, <1>8, ReadStep
<1>10. SupplyOK'
  BY <1>1 DEF Inv, SupplyOK, supply, spdk
<1> QED
  BY <1>9, <1>10 DEF Inv

\* A table of mappings with one more or one fewer row.
LEMMA MappingsTyped ==
  ASSUME NEW t, TablesOK(t), SettledBut(t, {}), NEW m \in MappingRow
  PROVE  /\ TablesOK([t EXCEPT !.mapping = @ \cup {m}])
         /\ SettledBut([t EXCEPT !.mapping = @ \cup {m}], {})
         /\ TablesOK([t EXCEPT !.mapping = @ \ {m}])
         /\ SettledBut([t EXCEPT !.mapping = @ \ {m}], {})
<1> DEFINE more == [t EXCEPT !.mapping = @ \cup {m}]
           fewer == [t EXCEPT !.mapping = @ \ {m}]
<1>1. IsFiniteSet(t.mapping)
  BY DEF TablesOK
<1>2. IsFiniteSet(t.mapping \cup {m}) /\ IsFiniteSet(t.mapping \ {m})
  BY <1>1, FS_AddElement, FS_RemoveElement
<1>3. /\ more \in Tables /\ more.mapping = t.mapping \cup {m} /\ more.volume = t.volume
      /\ fewer \in Tables /\ fewer.mapping = t.mapping \ {m} /\ fewer.volume = t.volume
  BY DEF TablesOK, Tables
<1> HIDE DEF more, fewer
<1>4. TablesOK(more) /\ TablesOK(fewer)
  BY <1>2, <1>3 DEF TablesOK
<1>5. SettledBut(more, {}) /\ SettledBut(fewer, {})
  BY <1>3 DEF SettledBut
<1> QED
  BY <1>4, <1>5 DEF more, fewer

LEMMA InsertMappingStep ==
  ASSUME Inv, NEW r \in Requests, InsertMapping(r)
  PROVE  Inv'
<1> DEFINE t == [db EXCEPT !.mapping = @ \cup {local[r].row}]
<1>1. /\ CoreInv /\ pc[r] = "insert_mapping" /\ BeginWrite(r, t, "wire")
      /\ UNCHANGED <<supply, spdk, gateway>>
  BY DEF Inv, InsertMapping
<1>2. LocalOK("insert_mapping", local[r]) /\ TablesOK(db) /\ SettledBut(db, {})
  BY <1>1 DEF CoreInv, RequestOK
<1>3. local[r].row \in MappingRow /\ LocalOK("wire", local[r])
  BY <1>2 DEF LocalOK, Steps, LockedSteps, SeenSteps, MappingSteps, ExtendSteps
<1>4. TablesOK(t) /\ SettledBut(t, {})
  BY <1>2, <1>3, MappingsTyped
<1> HIDE DEF t
<1>5. gateway = "up" /\ "wire" \in LockedSteps /\ "wire" \notin TransientSteps
  BY <1>1, ActiveIsUp DEF LockedSteps, TransientSteps
<1>6. CoreInv'
  BY <1>1, <1>3, <1>4, <1>5, WriteStep
<1>7. SupplyOK'
  BY <1>1 DEF Inv, SupplyOK, supply, spdk
<1> QED
  BY <1>6, <1>7 DEF Inv

\* The status a mapping operation leaves behind.
LEMMA SettleStatusStep ==
  ASSUME Inv, NEW r \in Requests, pc[r] \in LockedSteps,
         NEW t, TablesOK(t), SettledBut(t, {}),
         NEW status \in {"available", "in_use"}, SettleStatus(r, t, status),
         UNCHANGED gateway
  PROVE  CoreInv'
<1> DEFINE v == local[r].volume
           u == SetStatus(t, v, status)
<1>1. CoreInv /\ v \in Volumes
  BY DEF Inv, CoreInv, RequestOK, LocalOK, LockedSteps
<1>2. CASE Written(r, t)
  BY <1>1, <1>2, WrittenStep
<1>3. CASE Rollback(r)
  BY <1>1, <1>3, RollbackStep
<1>4. CASE t.volume[v] # Null /\ Written(r, u)
  <2>1. status \in Status /\ t.volume[v] \in VolumeRow
    BY <1>1, <1>4 DEF Status, TablesOK, Tables
  <2> HIDE DEF v
  <2>2. /\ TablesOK(u) /\ u.volume[v].status = status
        /\ \A w \in Volumes \ {v} : u.volume[w] = t.volume[w]
    BY <1>1, <2>1, SetStatusTyped
  <2>3. Written(r, u)
    BY <1>4
  <2> HIDE DEF u
  <2>4. Settled(u.volume[v]) /\ SettledBut(t, {v})
    BY <2>2 DEF Settled, SettledBut
  <2>5. SettledBut(u, {})
    BY <1>1, <2>2, <2>4, SettleRow
  <2> QED
    BY <1>1, <2>2, <2>3, <2>5, WrittenStep
<1> QED
  BY <1>2, <1>3, <1>4 DEF SettleStatus

\* What the invariant says of a request that attaches or detaches.
LEMMA MappingCall ==
  ASSUME Inv, NEW r \in Requests, pc[r] \in {"wire", "unwire"}
  PROVE  /\ CoreInv /\ pc[r] \in LockedSteps
         /\ local[r].row \in MappingRow
         /\ TablesOK(draft) /\ SettledBut(draft, {})
BY DEF Inv, CoreInv, RequestOK, LocalOK, Transient, TransientSteps, LockedSteps,
       MappingSteps

LEMMA WireMappingStep ==
  ASSUME Inv, NEW r \in Requests, WireMapping(r)
  PROVE  Inv'
<1>1. pc[r] \in {"wire", "unwire"} /\ UNCHANGED <<supply, lvol, gateway>>
  BY DEF WireMapping
<1>2. /\ CoreInv /\ pc[r] \in LockedSteps /\ local[r].row \in MappingRow
      /\ TablesOK(draft) /\ SettledBut(draft, {})
  BY <1>1, MappingCall
<1>3. SettleStatus(r, draft, "in_use") \/ Rollback(r)
  BY DEF WireMapping
<1>4. CoreInv'
  BY <1>1, <1>2, <1>3, SettleStatusStep, RollbackStep
<1>5. SupplyOK'
  <2>1. Slot(local[r].row) \in Export
    BY <1>2 DEF Slot, Export, MappingRow
  <2>2. export' = export \/ export' = export \cup {Slot(local[r].row)}
    BY DEF WireMapping
  <2> QED
    BY <1>1, <2>1, <2>2 DEF Inv, SupplyOK, supply
<1> QED
  BY <1>4, <1>5 DEF Inv

LEMMA DeleteMappingStep ==
  ASSUME Inv, NEW r \in Requests, DeleteMapping(r)
  PROVE  Inv'
<1>1. PICK m \in db.mapping :
        /\ GoTo(r, "mark_detached")
        /\ Remember(r, [Blank EXCEPT !.row = m, !.volume = m.volume,
                                     !.seen = db.volume[m.volume]])
  BY DEF DeleteMapping
<1> DEFINE l == [Blank EXCEPT !.row = m, !.volume = m.volume,
                              !.seen = db.volume[m.volume]]
<1>2. /\ m \in MappingRow /\ m.volume \in Volumes
      /\ db.volume[m.volume] \in VolumeRow \cup {Null}
  BY DEF Inv, CoreInv, TablesOK, Tables, MappingRow
<1>3. LocalOK("mark_detached", l)
  <2>1. l \in Local
    BY <1>2, IdleOK DEF Local
  <2>2. l.volume = m.volume /\ l.row = m
    BY DEF Blank
  <2> HIDE DEF l
  <2> QED
    BY <1>2, <2>1, <2>2 DEF LocalOK, Steps, FlushSteps, SeenSteps, ExtendSteps
<1> HIDE DEF l
<1>4. /\ pc[r] \notin LockedSteps /\ "mark_detached" \notin LockedSteps
      /\ gateway = "up" /\ UNCHANGED <<tables, gateway, supply, spdk>>
  BY DEF DeleteMapping, Accepts, LockedSteps
<1>5. CoreInv'
  BY <1>1, <1>3, <1>4, ReadStep DEF Inv, l
<1>6. SupplyOK'
  BY <1>4 DEF Inv, SupplyOK, supply, spdk
<1> QED
  BY <1>5, <1>6 DEF Inv

LEMMA MarkDetachedStep ==
  ASSUME Inv, NEW r \in Requests, MarkDetached(r)
  PROVE  Inv'
<1>1. /\ CoreInv /\ pc[r] = "mark_detached" /\ UNCHANGED <<supply, spdk, gateway>>
  BY DEF Inv, MarkDetached
<1>2. gateway = "up" /\ pc[r] \notin LockedSteps
  BY <1>1, ActiveIsUp DEF LockedSteps
<1>3. CoreInv'
  <2>1. CASE StaleRow(r)
    BY <1>1, <1>2, <2>1, LeaveStep DEF StaleRow
  <2>2. CASE BeginWrite(r, db, "unwire")
    <3>1. LocalOK("unwire", local[r]) /\ TablesOK(db) /\ SettledBut(db, {})
      BY <1>1 DEF CoreInv, RequestOK, LocalOK, Steps, LockedSteps, SeenSteps,
                  MappingSteps, ExtendSteps
    <3>2. "unwire" \in LockedSteps /\ "unwire" \notin TransientSteps
      BY DEF LockedSteps, TransientSteps
    <3> QED
      BY <1>1, <1>2, <2>2, <3>1, <3>2, WriteStep
  <2> QED
    BY <2>1, <2>2 DEF MarkDetached
<1>4. SupplyOK'
  BY <1>1 DEF Inv, SupplyOK, supply, spdk
<1> QED
  BY <1>3, <1>4 DEF Inv

LEMMA UnwireMappingStep ==
  ASSUME Inv, NEW r \in Requests, UnwireMapping(r)
  PROVE  Inv'
<1> DEFINE rest == [draft EXCEPT !.mapping = @ \ {local[r].row}]
<1>1. pc[r] \in {"wire", "unwire"} /\ UNCHANGED <<supply, lvol, gateway>>
  BY DEF UnwireMapping
<1>2. /\ CoreInv /\ pc[r] \in LockedSteps /\ local[r].row \in MappingRow
      /\ TablesOK(draft) /\ SettledBut(draft, {})
  BY <1>1, MappingCall
<1>3. TablesOK(rest) /\ SettledBut(rest, {})
  BY <1>2, MappingsTyped
<1>4. Rollback(r) \/ Written(r, rest) \/ SettleStatus(r, rest, "available")
  BY DEF UnwireMapping, EraseMapping
<1> HIDE DEF rest
<1>5. CoreInv'
  BY <1>1, <1>2, <1>3, <1>4, RollbackStep, WrittenStep, SettleStatusStep
<1>6. Unwired(local[r].row) \subseteq export
  <2>1. Protocol[local[r].row.underlay] \in {"iscsi", "nvmeof_tcp", "fc"}
    BY <1>2, ConstantsAssumption DEF MappingRow
  <2> QED
    BY <2>1 DEF Unwired, Wired
<1>7. SupplyOK'
  <2>1. export' \subseteq export
    BY <1>6 DEF UnwireMapping
  <2> QED
    BY <1>1, <2>1 DEF Inv, SupplyOK, supply
<1> QED
  BY <1>5, <1>7 DEF Inv

LEMMA CommitStep ==
  ASSUME Inv, NEW r \in Requests, Commit(r)
  PROVE  Inv'
<1>1. /\ CoreInv /\ pc[r] = "commit" /\ db' = draft /\ draft' = draft /\ writer' = Null
      /\ Leave(r) /\ UNCHANGED <<supply, spdk, gateway>>
  BY DEF Inv, Commit
<1>2. pc[r] \in LockedSteps /\ pc[r] \notin TransientSteps
  BY <1>1 DEF LockedSteps, TransientSteps
<1>3. SettledBut(draft, {})
  BY <1>1, <1>2 DEF CoreInv, RequestOK, Transient
<1>4. CoreInv'
  BY <1>1, <1>2, <1>3, ReleaseStep
<1>5. SupplyOK'
  BY <1>1 DEF Inv, SupplyOK, supply, spdk
<1> QED
  BY <1>4, <1>5 DEF Inv

LEMMA LockTimeoutStep ==
  ASSUME Inv, NEW r \in Requests, LockTimeout(r)
  PROVE  Inv'
<1>1. /\ CoreInv /\ pc[r] \in FlushSteps /\ Leave(r)
      /\ UNCHANGED <<tables, supply, spdk, gateway>>
  BY DEF Inv, LockTimeout
<1>2. gateway = "up" /\ pc[r] \notin LockedSteps
  BY <1>1, ActiveIsUp DEF FlushSteps, LockedSteps
<1>3. CoreInv'
  BY <1>1, <1>2, LeaveStep
<1>4. SupplyOK'
  BY <1>1 DEF Inv, SupplyOK, supply, spdk
<1> QED
  BY <1>3, <1>4 DEF Inv

\* A state in which nothing is in flight.
LEMMA QuietStep ==
  ASSUME TablesOK(db'), SettledBut(db', {}), draft' = db', writer' = Null,
         pc' = [r \in Requests |-> "idle"], local' = [r \in Requests |-> Blank],
         gateway' \in {"up", "down"}
  PROVE  CoreInv'
<1>1. "idle" \notin LockedSteps /\ "idle" \notin TransientSteps
  BY DEF LockedSteps, TransientSteps
<1>2. \A r \in Requests : RequestOK(r)'
  BY <1>1, IdleOK DEF RequestOK
<1>3. pc' \in [Requests -> Steps] /\ local' \in [Requests -> Local]
  BY IdleOK DEF LocalOK
<1> QED
  BY <1>2, <1>3 DEF CoreInv

LEMMA GatewayDiesStep ==
  ASSUME CoreInv, GatewayDies, db' = db
  PROVE  CoreInv'
BY QuietStep DEF CoreInv, GatewayDies

LEMMA DisruptionStep ==
  ASSUME Inv, GatewayCrash \/ SpdkRestart \/ HostReboot
  PROVE  Inv'
<1>1. CASE GatewayCrash
  <2>1. CoreInv'
    BY <1>1, GatewayDiesStep DEF Inv, GatewayCrash
  <2> QED
    BY <1>1, <2>1 DEF Inv, SupplyOK, GatewayCrash, supply, spdk
<1>2. SpdkDies => lvol' \in [Volumes -> 0..MaxSize] /\ export' = {}
  BY ConstantsAssumption DEF SpdkDies
<1>3. CASE SpdkRestart
  <2>1. CoreInv'
    <3>1. UNCHANGED <<db, draft, writer, pc, local, gateway>>
      BY <1>3 DEF SpdkRestart, tables, requests
    <3> QED
      BY <3>1 DEF Inv, CoreInv, RequestOK, Transient
  <2> QED
    BY <1>2, <1>3, <2>1 DEF Inv, SupplyOK, SpdkRestart, supply
<1>4. CASE HostReboot
  <2>1. CoreInv'
    BY <1>4, GatewayDiesStep DEF Inv, HostReboot
  <2> QED
    BY <1>2, <1>4, <2>1 DEF Inv, SupplyOK, HostReboot, supply
<1> QED
  BY <1>1, <1>3, <1>4

LEMMA StartupStep ==
  ASSUME Inv, Startup
  PROVE  Inv'
<1>1. PICK ensured, made \in SUBSET {v \in Volumes : Healthy(v)} :
        /\ ensured \subseteq made
        /\ "lost" \notin RpcFaults => made = ensured
        /\ RpcFaults = {} => \A v \in Volumes : Healthy(v) => v \in ensured
        /\ lvol' = [v \in Volumes |-> IF v \in made /\ lvol[v] = 0
                                      THEN db.volume[v].size ELSE lvol[v]]
        /\ db' = [db EXCEPT !.volume = [v \in Volumes |->
                     IF v \in ensured THEN [db.volume[v] EXCEPT !.bdev = TRUE]
                                      ELSE db.volume[v]]]
  BY Zenon DEF Startup
<1>2. /\ gateway = "down" /\ draft' = db' /\ gateway' = "up"
      /\ UNCHANGED <<writer, requests, supply>>
  BY DEF Startup
<1>3. TablesOK(db) /\ SettledBut(db, {})
  BY DEF Inv, CoreInv
<1>4. \A v \in ensured \cup made : v \in Volumes /\ db.volume[v] \in VolumeRow
  BY <1>3 DEF Healthy, TablesOK, Tables
<1>5. TablesOK(db') /\ SettledBut(db', {})
  <2> DEFINE rows == [v \in Volumes |-> IF v \in ensured
                        THEN [db.volume[v] EXCEPT !.bdev = TRUE] ELSE db.volume[v]]
  <2>1. ASSUME NEW v \in Volumes
        PROVE  /\ rows[v] \in VolumeRow \cup {Null}
               /\ rows[v] # Null => Settled(rows[v])
    <3>1. CASE v \in ensured
      <4>1. db.volume[v] \in VolumeRow /\ Settled(db.volume[v])
        BY <1>3, <1>4, <3>1, VolumeRowFields DEF SettledBut
      <4>2. [db.volume[v] EXCEPT !.bdev = TRUE] \in VolumeRow
        BY <4>1 DEF VolumeRow
      <4>3. [db.volume[v] EXCEPT !.bdev = TRUE].status = db.volume[v].status
        BY <4>1 DEF VolumeRow
      <4> QED
        BY <3>1, <4>1, <4>2, <4>3 DEF Settled
    <3>2. CASE v \notin ensured
      BY <1>3, <3>2 DEF TablesOK, Tables, SettledBut
    <3> QED
      BY <3>1, <3>2
  <2>2. rows \in [Volumes -> VolumeRow \cup {Null}]
    BY <2>1
  <2>3. \A v \in Volumes : rows[v] # Null => Settled(rows[v])
    BY <2>1
  <2>4. db' = [db EXCEPT !.volume = rows]
    BY <1>1
  <2> HIDE DEF rows
  <2>5. db' \in Tables /\ db'.volume = rows /\ db'.mapping = db.mapping
    BY <1>3, <2>2, <2>4 DEF TablesOK, Tables
  <2> QED
    BY <1>3, <2>3, <2>5 DEF TablesOK, SettledBut
<1>6. \A r \in Requests : RequestOK(r)'
  <2> SUFFICES ASSUME NEW r \in Requests PROVE RequestOK(r)'
    OBVIOUS
  <2>1. pc'[r] = "idle" /\ local' = local /\ LocalOK(pc[r], local[r]) /\ pc[r] = "idle"
    BY <1>2 DEF Inv, CoreInv, RequestOK, requests
  <2> QED
    BY <2>1 DEF RequestOK, LockedSteps, TransientSteps
<1>7. CoreInv'
  BY <1>2, <1>5, <1>6 DEF Inv, CoreInv, requests
<1>8. lvol' \in [Volumes -> 0..MaxSize]
  <2>1. \A v \in made : db.volume[v].size \in 0..MaxSize
    BY <1>4, ConstantsAssumption DEF VolumeRow
  <2> QED
    BY <1>1, <2>1 DEF Inv, SupplyOK
<1>9. export' \subseteq Export
  <2>1. PICK done \in SUBSET db.mapping : export' = export \cup {Slot(m) : m \in done}
    BY DEF Startup
  <2>2. \A m \in db.mapping : Slot(m) \in Export
    BY <1>3 DEF TablesOK, Tables, MappingRow, Slot, Export
  <2> QED
    BY <2>1, <2>2 DEF Inv, SupplyOK
<1> QED
  BY <1>2, <1>7, <1>8, <1>9 DEF Inv, SupplyOK, supply

-----------------------------------------------------------------------------
(***************************************************************************)
(* The invariant and what it implies                                       *)
(***************************************************************************)
LEMMA InitInv == Init => Inv
<1> SUFFICES ASSUME Init PROVE Inv
  OBVIOUS
<1>1. db \in Tables /\ db.mapping = {} /\ \A v \in Volumes : db.volume[v] = Null
  BY DEF Init, Tables
<1>2. TablesOK(db) /\ SettledBut(db, {})
  BY <1>1, FS_EmptySet DEF TablesOK, SettledBut
<1>3. "idle" \notin LockedSteps /\ "idle" \notin TransientSteps
  BY DEF LockedSteps, TransientSteps
<1>4. \A r \in Requests : RequestOK(r)
  BY <1>3, IdleOK DEF Init, RequestOK
<1>5. CoreInv
  BY <1>2, <1>4, IdleOK DEF Init, CoreInv, LocalOK
<1>6. SupplyOK
  BY ConstantsAssumption DEF Init, SupplyOK
<1> QED
  BY <1>5, <1>6 DEF Inv

LEMMA NextInv == Inv /\ [Next]_vars => Inv'
<1> SUFFICES ASSUME Inv, [Next]_vars PROVE Inv'
  OBVIOUS
<1>1. ASSUME NEW r \in Requests, Begin(r) PROVE Inv'
  BY <1>1, CreateVolumeStep, DeleteVolumeStep, ExtendVolumeStep, CreateMappingStep,
     DeleteMappingStep DEF Begin
<1>2. ASSUME NEW r \in Requests, Continue(r) PROVE Inv'
  <2>1. CASE InsertVolume(r) \/ ProvisionVolume(r)
    BY <2>1, InsertVolumeStep, ProvisionVolumeStep
  <2>2. CASE CheckMappings(r) \/ MarkDeleting(r) \/ DeprovisionVolume(r)
    BY <2>2, CheckMappingsStep, MarkDeletingStep, DeprovisionVolumeStep
  <2>3. CASE MarkExtending(r) \/ ResizeVolume(r)
    BY <2>3, MarkExtendingStep, ResizeVolumeStep
  <2>4. CASE AllocateIds(r) \/ InsertMapping(r) \/ WireMapping(r)
    BY <2>4, AllocateIdsStep, InsertMappingStep, WireMappingStep
  <2>5. CASE MarkDetached(r) \/ UnwireMapping(r)
    BY <2>5, MarkDetachedStep, UnwireMappingStep
  <2>6. CASE Commit(r) \/ LockTimeout(r)
    BY <2>6, CommitStep, LockTimeoutStep
  <2> QED
    BY <1>2, <2>1, <2>2, <2>3, <2>4, <2>5, <2>6 DEF Continue
<1>3. CASE GatewayCrash \/ SpdkRestart \/ HostReboot
  BY <1>3, DisruptionStep
<1>4. CASE Startup
  BY <1>4, StartupStep
<1>5. CASE UNCHANGED vars
  <2>1. /\ UNCHANGED <<db, draft, writer, pc, local, gateway>>
        /\ UNCHANGED <<freshVolumes, nextMapping, lvol, export>>
    BY <1>5 DEF vars, tables, requests, supply, spdk
  <2> QED
    BY <2>1 DEF Inv, CoreInv, RequestOK, Transient, SupplyOK
<1> QED
  BY <1>1, <1>2, <1>3, <1>4, <1>5 DEF Next

\* The invariant is inductive, so it holds in every reachable state.
THEOREM Invariance == Spec => []Inv
BY InitInv, NextInv, PTL DEF Spec

\* Every variable keeps its type.
THEOREM TypeCorrect == Spec => []TypeOK
<1>1. Inv => TypeOK
  BY DEF Inv, CoreInv, SupplyOK, TablesOK, TypeOK
<1> QED
  BY <1>1, Invariance, PTL

\* No transient status is ever committed, whatever fails and whenever the
\* gateway crashes (volumes.py:92-105, 166-175, 198-208).
THEOREM StatusAlwaysSettled == Spec => []StatusSettled
<1>1. Inv => StatusSettled
  BY DEF Inv, CoreInv, SettledBut, StatusSettled, Exists
<1> QED
  BY <1>1, Invariance, PTL

\* The write lock of the database serialises the requests' SPDK calls
\* (volumes.py:96, 167, 199, mappings.py:215, 287).
THEOREM SpdkCallsAlwaysSerialised == Spec => []SpdkCallsSerialised
<1>1. Inv => SpdkCallsSerialised
  BY LockHolder DEF Inv, SpdkCallsSerialised
<1> QED
  BY <1>1, Invariance, PTL

-----------------------------------------------------------------------------
(***************************************************************************)
(* Volumes and their lvols, for any number of requests that run at one     *)
(* time.                                                                   *)
(*                                                                         *)
(* A volume that is offered has a bdev name, whatever fails.  This needs   *)
(* an inductive invariant (VolumeInv) that says what requests know of the  *)
(* rows they loaded: a fresh UUID is known to nobody, the draft is what    *)
(* the operation under way has made of db, and a bdev name that a request  *)
(* has seen is still the row's.                                            *)
(*                                                                         *)
(* Where no reply is lost and mappings are not removed meanwhile, SPDK     *)
(* holds exactly the lvols that the tables claim (LvolInv): every recorded *)
(* volume has its lvol, and no lvol is without a row.                      *)
(***************************************************************************)

\* Steps of a volume's creation, of its deletion.
CreateSteps == {"insert_volume", "provision"}
DeleteSteps == {"check_mappings", "mark_deleting", "deprovision"}

Mapped(t, v) == \E m \in t.mapping : m.volume = v
Refers(r, v) == pc[r] # "idle" /\ local[r].volume = v

\* No table names v.
Unknown(v) == db.volume[v] = Null /\ ~Mapped(db, v) /\ ~Mapped(draft, v)

\* A UUID not yet drawn is named nowhere, and one just drawn only by the
\* request that creates its volume.
UuidsOnce ==
  /\ \A v \in freshVolumes :
       Unknown(v) /\ draft.volume[v] = Null /\ \A r \in Requests : ~Refers(r, v)
  /\ \A r \in Requests : pc[r] \in CreateSteps =>
       /\ Unknown(local[r].volume)
       /\ local[r].seen.status = "creating" /\ ~local[r].seen.bdev
       /\ \A s \in Requests \ {r} : ~Refers(s, local[r].volume)
  /\ \A r \in Requests : pc[r] = "insert_volume" => draft.volume[local[r].volume] = Null
  /\ \A r \in Requests : pc[r] \in MappingSteps => local[r].row.volume = local[r].volume

\* While r waits for SPDK, the draft is db with what r has flushed.
DraftAt(r) ==
  LET v == local[r].volume
  IN /\ pc[r] = "provision" => draft = SetRow(db, v, local[r].seen)
     /\ pc[r] = "deprovision" => db.volume[v] # Null /\ draft = SetStatus(db, v, "deleting")
     /\ pc[r] = "resize" => db.volume[v] # Null /\ draft = SetStatus(db, v, "extending")
     /\ pc[r] = "wire" => draft = [db EXCEPT !.mapping = @ \cup {local[r].row}]
     /\ pc[r] = "unwire" => draft = db

DraftKnown == \A r \in Requests : DraftAt(r)

HasBdev(t, v) == t.volume[v] # Null => t.volume[v].bdev

\* The object that l has loaded says of the bdev what the row says.
SameBdev(t, l) == t.volume[l.volume] # Null => t.volume[l.volume].bdev = l.seen.bdev

BdevSame == \A v \in Volumes : db.volume[v] # Null /\ draft.volume[v] # Null
                                 => draft.volume[v].bdev = db.volume[v].bdev

OfferedIn(t) == \A v \in Volumes :
  t.volume[v] # Null /\ t.volume[v].status \in {"available", "in_use"} => t.volume[v].bdev

\* No open transaction changes a bdev name, volumes that are offered or mapped
\* have one, and so have those that a request is about to map or extend.
BdevKept ==
  /\ BdevSame
  /\ OfferedIn(db) /\ OfferedIn(draft)
  /\ \A m \in db.mapping \cup draft.mapping : HasBdev(db, m.volume) /\ HasBdev(draft, m.volume)
  /\ \A r \in Requests :
       \/ pc[r] \in MappingSteps
       \/ pc[r] \in ExtendSteps /\ local[r].seen.bdev
       => HasBdev(db, local[r].volume) /\ HasBdev(draft, local[r].volume)
  /\ \A r \in Requests : pc[r] \in DeleteSteps =>
       SameBdev(db, local[r]) /\ SameBdev(draft, local[r])

VolumeInv == UuidsOnce /\ DraftKnown /\ BdevKept


-----------------------------------------------------------------------------
\* What the steps have in common.

\* A step that goes on with request r, and with no other.
LEMMA Moving ==
  ASSUME Inv, NEW r \in Requests, NEW step, NEW l, GoTo(r, step), Remember(r, l)
  PROVE  /\ pc'[r] = step /\ local'[r] = l
         /\ \A s \in Requests \ {r} : pc'[s] = pc[s] /\ local'[s] = local[s]
BY DEF Inv, CoreInv, GoTo, Remember

\* What Inv says of the tables and of what requests hold.
LEMMA Known ==
  ASSUME Inv
  PROVE  /\ TablesOK(db) /\ TablesOK(draft)
         /\ writer = Null => draft = db
         /\ freshVolumes \subseteq Volumes
         /\ \A r \in Requests : /\ pc[r] \in Steps
                                /\ pc[r] # "idle" => local[r].volume \in Volumes
                                /\ pc[r] \in SeenSteps => local[r].seen \in VolumeRow
                                /\ pc[r] \in MappingSteps => local[r].row \in MappingRow
                                /\ pc[r] \in LockedSteps => writer = r
BY DEF Inv, CoreInv, SupplyOK, RequestOK, LocalOK

\* Only one request at a time is past its first flush.
LEMMA OnlyWriterLocked ==
  ASSUME Inv, NEW r \in Requests, pc[r] \in LockedSteps
  PROVE  \A s \in Requests \ {r} : pc[s] \notin LockedSteps
BY LockHolder DEF Inv

\* One request moves and the tables stay: what its new step asks of a bdev holds.
LEMMA BdevStays ==
  ASSUME BdevKept, NEW r \in Requests, db' = db, draft' = draft,
         \A s \in Requests \ {r} : pc'[s] = pc[s] /\ local'[s] = local[s],
         pc'[r] \in MappingSteps \/ (pc'[r] \in ExtendSteps /\ local'[r].seen.bdev)
           => HasBdev(db, local'[r].volume) /\ HasBdev(draft, local'[r].volume),
         pc'[r] \in DeleteSteps => SameBdev(db, local'[r]) /\ SameBdev(draft, local'[r])
  PROVE  BdevKept'
<1>1. BdevSame' /\ OfferedIn(db)' /\ OfferedIn(draft)'
  BY DEF BdevKept, BdevSame, OfferedIn
<1>2. \A m \in db'.mapping \cup draft'.mapping : HasBdev(db, m.volume)' /\ HasBdev(draft, m.volume)'
  BY DEF BdevKept, HasBdev
<1>3. ASSUME NEW s \in Requests,
             pc'[s] \in MappingSteps \/ (pc'[s] \in ExtendSteps /\ local'[s].seen.bdev)
      PROVE  HasBdev(db, local[s].volume)' /\ HasBdev(draft, local[s].volume)'
  <2>1. HasBdev(db, local'[s].volume) /\ HasBdev(draft, local'[s].volume)
    BY <1>3 DEF BdevKept
  <2> QED
    BY <2>1 DEF HasBdev
<1>4. ASSUME NEW s \in Requests, pc'[s] \in DeleteSteps
      PROVE  SameBdev(db, local[s])' /\ SameBdev(draft, local[s])'
  <2>1. SameBdev(db, local'[s]) /\ SameBdev(draft, local'[s])
    BY <1>4 DEF BdevKept
  <2> QED
    BY <2>1 DEF SameBdev
<1> QED
  BY <1>1, <1>2, <1>3, <1>4 DEF BdevKept

\* A request that reads, or gives up.
LEMMA LoadVolumes ==
  ASSUME Inv, VolumeInv, NEW r \in Requests, NEW step, NEW l,
         GoTo(r, step), Remember(r, l), UNCHANGED tables,
         step \notin LockedSteps \cup {"insert_volume"},
         freshVolumes' = freshVolumes,
         step # "idle" =>
           /\ l.volume \in Volumes
           /\ \/ db.volume[l.volume] # Null
              \/ Mapped(db, l.volume)
              \/ pc[r] # "idle" /\ pc[r] \notin CreateSteps /\ local[r].volume = l.volume,
         step \in MappingSteps =>
           /\ l.row.volume = l.volume
           /\ HasBdev(db, l.volume) /\ HasBdev(draft, l.volume),
         step \in ExtendSteps /\ l.seen.bdev =>
           HasBdev(db, l.volume) /\ HasBdev(draft, l.volume),
         step \in DeleteSteps => SameBdev(db, l) /\ SameBdev(draft, l)
  PROVE  VolumeInv'
<1>1. /\ pc'[r] = step /\ local'[r] = l /\ db' = db /\ draft' = draft
      /\ \A s \in Requests \ {r} : pc'[s] = pc[s] /\ local'[s] = local[s]
  BY Moving DEF tables
<1>2. UuidsOnce'
  <2>1. step # "idle" => /\ l.volume \notin freshVolumes
                         /\ \A s \in Requests \ {r} : pc[s] \in CreateSteps => local[s].volume # l.volume
    BY DEF VolumeInv, UuidsOnce, Unknown, Refers, CreateSteps
  <2>2. "idle" \notin MappingSteps /\ step \notin CreateSteps
    BY DEF MappingSteps, CreateSteps, LockedSteps
  <2> QED
    BY <1>1, <2>1, <2>2 DEF VolumeInv, UuidsOnce, Unknown, Refers, Mapped
<1>3. DraftKnown'
  BY <1>1 DEF VolumeInv, DraftKnown, DraftAt, LockedSteps
<1>4. BdevKept'
  BY <1>1, BdevStays DEF VolumeInv
<1> QED
  BY <1>2, <1>3, <1>4 DEF VolumeInv

\* A request gives up with nothing written.
LEMMA LeaveVolumes ==
  ASSUME Inv, VolumeInv, NEW r \in Requests, Leave(r), UNCHANGED <<tables, freshVolumes>>
  PROVE  VolumeInv'
<1>1. "idle" \notin LockedSteps \cup {"insert_volume"} /\ "idle" \notin MappingSteps
      /\ "idle" \notin ExtendSteps /\ "idle" \notin DeleteSteps
  BY DEF LockedSteps, MappingSteps, ExtendSteps, DeleteSteps
<1> QED
  BY <1>1, LoadVolumes DEF Leave

\* The transaction ends.
LEMMA ReleaseVolumes ==
  ASSUME Inv, VolumeInv, NEW r \in Requests, pc[r] \in LockedSteps,
         db' = db \/ (db' = draft /\ pc[r] = "commit"), draft' = db', Leave(r), UNCHANGED freshVolumes
  PROVE  VolumeInv'
<1>1. /\ pc'[r] = "idle"
      /\ \A s \in Requests \ {r} : pc'[s] = pc[s] /\ local'[s] = local[s] /\ pc[s] \notin LockedSteps
  BY Moving, OnlyWriterLocked DEF Leave
<1>2. UuidsOnce'
  BY <1>1
     DEF VolumeInv, UuidsOnce, Unknown, Refers, Mapped, MappingSteps, CreateSteps, LockedSteps
<1>3. DraftKnown'
  BY <1>1 DEF VolumeInv, DraftKnown, DraftAt, LockedSteps
<1>4. BdevKept'
  BY <1>1, Known
     DEF VolumeInv, BdevKept, BdevSame, SameBdev, OfferedIn, HasBdev, MappingSteps,
         ExtendSteps, DeleteSteps
<1> QED
  BY <1>2, <1>3, <1>4 DEF VolumeInv

\* The handler is through: what it did to the row of its volume.
LEMMA WriteVolumes ==
  ASSUME Inv, VolumeInv, NEW r \in Requests, pc[r] \in LockedSteps, NEW t, Written(r, t),
         UNCHANGED freshVolumes, t.mapping \subseteq draft.mapping,
         \A w \in Volumes \ {local[r].volume} : t.volume[w] = draft.volume[w],
         t.volume[local[r].volume] # Null =>
           /\ draft.volume[local[r].volume] # Null
           /\ \/ t.volume[local[r].volume].bdev = draft.volume[local[r].volume].bdev
              \/ pc[r] = "provision" /\ t.volume[local[r].volume].bdev
           /\ t.volume[local[r].volume].status \in {"available", "in_use"}
                => t.volume[local[r].volume].bdev
  PROVE  VolumeInv'
<1> DEFINE v == local[r].volume
<1>1. /\ pc'[r] = "commit" /\ db' = db /\ draft' = t /\ local' = local /\ v \in Volumes
      /\ \A s \in Requests \ {r} : pc'[s] = pc[s] /\ pc[s] \notin LockedSteps
  BY OnlyWriterLocked, Known DEF Written, GoTo, Inv, CoreInv, LockedSteps
<1>2. UuidsOnce'
  BY <1>1, Known
     DEF VolumeInv, UuidsOnce, Unknown, Refers, Mapped, MappingSteps, CreateSteps, LockedSteps
<1>3. DraftKnown'
  BY <1>1 DEF VolumeInv, DraftKnown, DraftAt, LockedSteps
<1>4. BdevKept'
  <2>1. \A w \in Volumes : \/ t.volume[w] = Null
                           \/ draft.volume[w] # Null /\ t.volume[w].bdev = draft.volume[w].bdev
                           \/ pc[r] = "provision" /\ w = v /\ t.volume[w].bdev
    OBVIOUS
  <2>2. pc[r] = "provision" => /\ db.volume[v] = Null /\ ~Mapped(db, v) /\ ~Mapped(draft, v)
                               /\ \A s \in Requests \ {r} : ~Refers(s, v)
    BY DEF VolumeInv, UuidsOnce, Unknown, CreateSteps
  <2>3. \A m \in db.mapping \cup draft.mapping : m.volume \in Volumes
    BY Known DEF TablesOK, Tables, MappingRow
  <2>4. BdevSame'
    BY <1>1, <2>1, <2>2 DEF VolumeInv, BdevKept, BdevSame
  <2>5. OfferedIn(db)' /\ OfferedIn(draft)'
    BY <1>1 DEF VolumeInv, BdevKept, OfferedIn
  <2>6. \A m \in (db.mapping \cup draft.mapping)' : HasBdev(db, m.volume)' /\ HasBdev(draft, m.volume)'
    BY <1>1, <2>1, <2>3 DEF VolumeInv, BdevKept, HasBdev
  <2>7. \A s \in Requests \ {r} : pc[s] # "idle" => local[s].volume \in Volumes
    BY Known
  <2>8. ASSUME NEW s \in Requests
        PROVE  (\/ pc[s] \in MappingSteps
                \/ pc[s] \in ExtendSteps /\ local[s].seen.bdev
               => HasBdev(db, local[s].volume) /\ HasBdev(draft, local[s].volume))'
    BY <1>1, <2>1, <2>7 DEF VolumeInv, BdevKept, HasBdev, MappingSteps, ExtendSteps
  <2>9. ASSUME NEW s \in Requests, pc'[s] \in DeleteSteps
        PROVE  SameBdev(db, local[s])' /\ SameBdev(draft, local[s])'
    <3>1. s # r /\ pc[s] \in DeleteSteps /\ pc[s] # "idle"
      BY <1>1, <2>9 DEF DeleteSteps
    <3>2. SameBdev(db, local[s]) /\ SameBdev(draft, local[s])
      BY <3>1 DEF VolumeInv, BdevKept
    <3>3. local[s].volume \in Volumes /\ (pc[r] = "provision" => local[s].volume # v)
      BY <2>2, <2>7, <3>1 DEF Refers
    <3> QED
      BY <1>1, <2>1, <3>2, <3>3 DEF SameBdev
  <2> QED
    BY <2>4, <2>5, <2>6, <2>8, <2>9 DEF BdevKept
<1> QED
  BY <1>2, <1>3, <1>4 DEF VolumeInv

\* A first flush, of an object that was loaded.
LEMMA BeginVolumes ==
  ASSUME Inv, VolumeInv, NEW r \in Requests, pc[r] \in FlushSteps \ {"insert_volume"},
         NEW step \in LockedSteps \ {"provision", "commit"}, NEW t, BeginWrite(r, t, step),
         UNCHANGED freshVolumes,
         step \in MappingSteps => pc[r] \in MappingSteps,
         step \in ExtendSteps => pc[r] \in ExtendSteps,
         step \in DeleteSteps => pc[r] \in DeleteSteps,
         \A w \in Volumes :
           \/ t.volume[w] = db.volume[w]
           \/ /\ db.volume[w] # Null /\ t.volume[w].bdev = db.volume[w].bdev
              /\ t.volume[w].status \notin {"available", "in_use"},
         \/ t.mapping = db.mapping
         \/ pc[r] = "insert_mapping" /\ t.mapping = db.mapping \cup {local[r].row},
         DraftAt(r)'
  PROVE  VolumeInv'
<1>1. /\ writer = Null /\ draft = db /\ pc'[r] = step /\ draft' = t /\ db' = db /\ local' = local
      /\ \A s \in Requests \ {r} : pc'[s] = pc[s] /\ pc[s] \notin LockedSteps
  BY LockHolder, Known DEF BeginWrite, GoTo, Inv, CoreInv
<1>2. local[r].volume \in Volumes
  BY Known DEF FlushSteps
<1>3. UuidsOnce'
  BY <1>1, <1>2, Known
     DEF VolumeInv, UuidsOnce, Unknown, Refers, Mapped, MappingSteps, CreateSteps, FlushSteps,
         LockedSteps
<1>4. DraftKnown'
  BY <1>1 DEF VolumeInv, DraftKnown, DraftAt, LockedSteps
<1>5. BdevKept'
  <2>1. \A w \in Volumes :
          (HasBdev(db, w) => HasBdev(t, w)) /\ BdevSame'
    BY <1>1 DEF HasBdev, BdevSame
  <2>2. OfferedIn(db)' /\ OfferedIn(draft)'
    BY <1>1 DEF VolumeInv, BdevKept, OfferedIn
  <2>3. \A m \in db.mapping : m.volume \in Volumes
    BY Known DEF TablesOK, Tables, MappingRow
  <2>4. pc[r] = "insert_mapping" => /\ local[r].row.volume = local[r].volume
                                    /\ HasBdev(db, local[r].volume)
    BY DEF VolumeInv, UuidsOnce, BdevKept, MappingSteps
  <2>5. \A m \in (db.mapping \cup draft.mapping)' : HasBdev(db, m.volume)' /\ HasBdev(draft, m.volume)'
    BY <1>1, <1>2, <2>1, <2>3, <2>4 DEF VolumeInv, BdevKept, HasBdev
  <2>6. \A s \in Requests : pc[s] # "idle" => local[s].volume \in Volumes
    BY Known
  <2>7. ASSUME NEW s \in Requests
        PROVE  (\/ pc[s] \in MappingSteps
                \/ pc[s] \in ExtendSteps /\ local[s].seen.bdev
               => HasBdev(db, local[s].volume) /\ HasBdev(draft, local[s].volume))'
    BY <1>1, <1>2, <2>1, <2>6 DEF VolumeInv, BdevKept, HasBdev, MappingSteps, ExtendSteps
  <2>8. ASSUME NEW s \in Requests, pc'[s] \in DeleteSteps
        PROVE  SameBdev(db, local[s])' /\ SameBdev(draft, local[s])'
    <3>1. pc[s] \in DeleteSteps /\ pc[s] # "idle"
      BY <1>1, <2>8 DEF DeleteSteps
    <3>2. SameBdev(db, local[s])
      BY <3>1 DEF VolumeInv, BdevKept
    <3> QED
      BY <1>1, <2>6, <3>1, <3>2 DEF SameBdev
  <2>9. BdevSame'
    BY <1>1 DEF BdevSame
  <2> QED
    BY <2>2, <2>5, <2>7, <2>8, <2>9 DEF BdevKept
<1> QED
  BY <1>3, <1>4, <1>5 DEF VolumeInv

\* What SetRow does.
LEMMA RowOf ==
  ASSUME NEW t, TablesOK(t), NEW v \in Volumes, NEW row
  PROVE  LET u == SetRow(t, v, row)
         IN /\ u.volume[v] = row /\ u.mapping = t.mapping
            /\ \A w \in Volumes \ {v} : u.volume[w] = t.volume[w]
BY DEF TablesOK, Tables, SetRow

\* What SetStatus does.
LEMMA StatusOf ==
  ASSUME NEW t, TablesOK(t), NEW v \in Volumes, t.volume[v] # Null, NEW status \in Status
  PROVE  LET u == SetStatus(t, v, status)
         IN /\ u.volume[v].bdev = t.volume[v].bdev /\ u.volume[v].status = status
            /\ u.volume[v].name = t.volume[v].name /\ u.volume[v].size = t.volume[v].size
            /\ u.volume[v] \in VolumeRow /\ u.volume[v] # Null
            /\ u.mapping = t.mapping
            /\ \A w \in Volumes \ {v} : u.volume[w] = t.volume[w]
<1> DEFINE row == [t.volume[v] EXCEPT !.status = status]
<1>1. t.volume[v] \in VolumeRow
  BY DEF TablesOK, Tables
<1>2. /\ row \in VolumeRow /\ row.status = status /\ row.name = t.volume[v].name
      /\ row.bdev = t.volume[v].bdev /\ row.size = t.volume[v].size
  BY <1>1, MarkedRow
<1>3. SetStatus(t, v, status) = SetRow(t, v, row)
  BY DEF SetRow, SetStatus
<1>4. row # Null
  BY <1>2, VolumeRowFields
<1> HIDE DEF row
<1>5. /\ SetRow(t, v, row).volume[v] = row /\ SetRow(t, v, row).mapping = t.mapping
      /\ \A w \in Volumes \ {v} : SetRow(t, v, row).volume[w] = t.volume[w]
  BY RowOf
<1> QED
  BY <1>2, <1>3, <1>4, <1>5

\* create_volume draws a UUID and judges the name.
LEMMA CreateVolumeVolumes ==
  ASSUME Inv, VolumeInv, NEW r \in Requests, CreateVolume(r)
  PROVE  VolumeInv'
<1>1. PICK v \in freshVolumes, name \in Names, size \in 1..MaxSize, p \in BOOLEAN :
        /\ freshVolumes' = freshVolumes \ {v}
        /\ GoTo(r, "insert_volume")
        /\ Remember(r, [Blank EXCEPT !.volume = v, !.seen = NewVolume(name, size),
                                     !.persists = p])
  BY DEF CreateVolume
<1> DEFINE l == [Blank EXCEPT !.volume = v, !.seen = NewVolume(name, size), !.persists = p]
<1>2. l.volume = v /\ l.seen.status = "creating" /\ ~l.seen.bdev
  BY DEF Blank, NewVolume
<1> HIDE DEF l
<1>3. /\ pc'[r] = "insert_volume" /\ local'[r] = l
      /\ \A s \in Requests \ {r} : pc'[s] = pc[s] /\ local'[s] = local[s]
      /\ db' = db /\ draft' = draft
  <2>1. GoTo(r, "insert_volume") /\ Remember(r, l)
    BY <1>1 DEF l
  <2> QED
    BY <1>2, <2>1, Moving DEF CreateVolume, tables
<1>4. pc[r] = "idle"
  BY DEF CreateVolume, Accepts
<1>5. UuidsOnce'
  BY <1>1, <1>2, <1>3
     DEF VolumeInv, UuidsOnce, Unknown, Refers, Mapped, MappingSteps, CreateSteps
<1>6. DraftKnown'
  BY <1>3 DEF VolumeInv, DraftKnown, DraftAt
<1>7. BdevKept'
  BY <1>3, BdevStays DEF VolumeInv, MappingSteps, ExtendSteps, DeleteSteps
<1> QED
  BY <1>5, <1>6, <1>7 DEF VolumeInv

\* create_volume flushes the new row.
LEMMA InsertVolumeVolumes ==
  ASSUME Inv, VolumeInv, NEW r \in Requests, InsertVolume(r)
  PROVE  VolumeInv'
<1> DEFINE v == local[r].volume
           t == SetRow(db, v, local[r].seen)
<1>1. /\ writer = Null /\ draft = db /\ pc[r] = "insert_volume" /\ pc'[r] = "provision"
      /\ draft' = t /\ db' = db /\ local' = local /\ freshVolumes' = freshVolumes
      /\ \A s \in Requests \ {r} : pc'[s] = pc[s] /\ pc[s] \notin LockedSteps
  BY LockHolder, Known DEF InsertVolume, BeginWrite, GoTo, Inv, CoreInv, supply
<1>2. v \in Volumes /\ TablesOK(db)
  BY <1>1, Known
<1>3. /\ t.volume[v] = local[r].seen /\ t.mapping = db.mapping
      /\ \A w \in Volumes \ {v} : t.volume[w] = db.volume[w]
  BY <1>2, RowOf
<1>4. UuidsOnce'
  <2> HIDE DEF t
  <2> QED
    BY <1>1, <1>2, <1>3, Known
       DEF VolumeInv, UuidsOnce, Unknown, Refers, Mapped, MappingSteps, CreateSteps, LockedSteps
<1>5. DraftKnown'
  BY <1>1 DEF VolumeInv, DraftKnown, DraftAt, LockedSteps
<1>6. BdevKept'
  <2>1. db.volume[v] = Null /\ ~Mapped(db, v) /\ \A s \in Requests \ {r} : ~Refers(s, v)
    BY <1>1 DEF VolumeInv, UuidsOnce, Unknown, CreateSteps
  <2>2. local[r].seen.status = "creating"
    BY <1>1 DEF VolumeInv, UuidsOnce, CreateSteps
  <2>3. BdevSame' /\ OfferedIn(db)' /\ OfferedIn(draft)'
    <3>1. BdevSame /\ OfferedIn(db)
      BY DEF VolumeInv, BdevKept
    <3> HIDE DEF t
    <3>2. BdevSame'
      BY <1>1, <1>3, <2>1, <3>1 DEF BdevSame
    <3>3. OfferedIn(db)'
      BY <1>1, <3>1 DEF OfferedIn
    <3>4. OfferedIn(draft)'
      BY <1>1, <1>3, <2>2, <3>1 DEF OfferedIn
    <3> QED
      BY <3>2, <3>3, <3>4
  <2>4. \A m \in db.mapping : m.volume \in Volumes
    BY Known DEF TablesOK, Tables, MappingRow
  <2>5. \A m \in (db.mapping \cup draft.mapping)' : HasBdev(db, m.volume)' /\ HasBdev(draft, m.volume)'
    BY <1>1, <1>3, <2>1, <2>4 DEF VolumeInv, BdevKept, HasBdev, Mapped
  <2>6. \A s \in Requests \ {r} : pc[s] # "idle" => local[s].volume \in Volumes \ {v}
    BY <2>1, Known DEF Refers
  <2>7. ASSUME NEW s \in Requests
        PROVE  (\/ pc[s] \in MappingSteps
                \/ pc[s] \in ExtendSteps /\ local[s].seen.bdev
               => HasBdev(db, local[s].volume) /\ HasBdev(draft, local[s].volume))'
    BY <1>1, <1>3, <2>6 DEF VolumeInv, BdevKept, HasBdev, MappingSteps, ExtendSteps
  <2>8. ASSUME NEW s \in Requests, pc'[s] \in DeleteSteps
        PROVE  SameBdev(db, local[s])' /\ SameBdev(draft, local[s])'
    <3>1. s # r /\ pc[s] \in DeleteSteps /\ pc[s] # "idle"
      BY <1>1, <2>8 DEF DeleteSteps
    <3> QED
      BY <1>1, <1>3, <2>6, <3>1 DEF VolumeInv, BdevKept, SameBdev
  <2> QED
    BY <2>3, <2>5, <2>7, <2>8 DEF BdevKept
<1> QED
  BY <1>4, <1>5, <1>6 DEF VolumeInv

\* An operation fails: its row is marked, or all is rolled back.
LEMMA FailVolumes ==
  ASSUME Inv, VolumeInv, NEW r \in Requests, pc[r] \in TransientSteps,
         FailWrite(r, local[r].volume), UNCHANGED freshVolumes
  PROVE  VolumeInv'
<1> DEFINE v == local[r].volume
           t == SetStatus(draft, v, "error")
<1>1. /\ pc[r] \in LockedSteps /\ v \in Volumes /\ draft.volume[v] \in VolumeRow
      /\ TablesOK(draft)
  BY OutstandingCall
<1>2. CASE local[r].persists
  <2>1. Written(r, t)
    BY <1>2 DEF FailWrite
  <2>2. draft.volume[v] # Null /\ "error" \in Status
    BY <1>1, VolumeRowFields DEF Status
  <2>3. /\ t.volume[v].bdev = draft.volume[v].bdev /\ t.volume[v].status = "error"
        /\ t.mapping = draft.mapping
        /\ \A w \in Volumes \ {v} : t.volume[w] = draft.volume[w]
    BY <1>1, <2>2, StatusOf
  <2> HIDE DEF t
  <2>4. /\ t.mapping \subseteq draft.mapping /\ t.volume[v].status \notin {"available", "in_use"}
        /\ draft.volume[v] # Null /\ t.volume[v].bdev = draft.volume[v].bdev
        /\ \A w \in Volumes \ {v} : t.volume[w] = draft.volume[w]
    BY <2>2, <2>3
  <2> QED
    BY <1>1, <2>1, <2>4, WriteVolumes
<1>3. CASE ~local[r].persists
  BY <1>1, <1>3, ReleaseVolumes DEF FailWrite, Rollback
<1> QED
  BY <1>2, <1>3

\* create_volume hears from SPDK.
LEMMA ProvisionVolumes ==
  ASSUME Inv, VolumeInv, NEW r \in Requests, ProvisionVolume(r)
  PROVE  VolumeInv'
<1> DEFINE v == local[r].volume
           row == local[r].seen
           t == SetRow(draft, v, Provisioned(row))
<1>1. pc[r] = "provision" /\ pc[r] \in TransientSteps /\ freshVolumes' = freshVolumes
  BY DEF ProvisionVolume, TransientSteps, supply
<1>2. /\ pc[r] \in LockedSteps /\ v \in Volumes /\ row \in VolumeRow
      /\ TablesOK(draft) /\ draft.volume[v] \in VolumeRow
  BY <1>1, OutstandingCall
<1>3. CASE Written(r, t)
  <2>1. Provisioned(row).bdev /\ draft.volume[v] # Null
    BY <1>2, VolumeRowFields DEF Provisioned, VolumeRow
  <2>2. /\ t.volume[v] = Provisioned(row) /\ t.mapping = draft.mapping
        /\ \A w \in Volumes \ {v} : t.volume[w] = draft.volume[w]
    BY <1>2, RowOf
  <2>3. Written(r, t)
    BY <1>3
  <2> HIDE DEF t
  <2> QED
    BY <1>1, <1>2, <2>1, <2>2, <2>3, WriteVolumes
<1>4. CASE FailWrite(r, v)
  BY <1>1, <1>4, FailVolumes
<1> QED
  BY <1>3, <1>4 DEF ProvisionVolume

\* delete_volume loads the volume.
LEMMA DeleteVolumeVolumes ==
  ASSUME Inv, VolumeInv, NEW r \in Requests, DeleteVolume(r)
  PROVE  VolumeInv'
<1>1. PICK v \in Volumes :
        /\ db.volume[v] # Null
        /\ GoTo(r, "check_mappings")
        /\ Remember(r, [Blank EXCEPT !.volume = v, !.seen = db.volume[v],
                                     !.children = MappingsOf(db, v) # {}])
  BY DEF DeleteVolume
<1> DEFINE l == [Blank EXCEPT !.volume = v, !.seen = db.volume[v],
                              !.children = MappingsOf(db, v) # {}]
<1>2. l.volume = v /\ l.seen = db.volume[v]
  BY DEF Blank
<1>3. Remember(r, l)
  BY <1>1
<1> HIDE DEF l
<1>4. SameBdev(db, l) /\ SameBdev(draft, l)
  BY <1>1, <1>2 DEF SameBdev, VolumeInv, BdevKept, BdevSame
<1>5. /\ "check_mappings" \notin LockedSteps \cup {"insert_volume"} \cup MappingSteps \cup ExtendSteps
      /\ UNCHANGED <<tables, freshVolumes>>
  BY DEF LockedSteps, MappingSteps, ExtendSteps, DeleteVolume, supply
<1> QED
  BY <1>1, <1>2, <1>3, <1>4, <1>5, LoadVolumes

\* delete_volume looks for mappings.
LEMMA CheckMappingsVolumes ==
  ASSUME Inv, VolumeInv, NEW r \in Requests, CheckMappings(r)
  PROVE  VolumeInv'
<1>1. pc[r] = "check_mappings" /\ UNCHANGED <<tables, freshVolumes>>
  BY DEF CheckMappings, supply
<1>2. CASE Leave(r)
  BY <1>1, <1>2, LeaveVolumes
<1>3. CASE GoTo(r, "mark_deleting") /\ UNCHANGED local
  <2>1. Remember(r, local[r]) /\ local[r].volume \in Volumes
    BY <1>1, <1>3, Known DEF Remember, Inv, CoreInv
  <2>2. /\ "mark_deleting" \notin LockedSteps \cup {"insert_volume"} \cup MappingSteps \cup ExtendSteps
        /\ pc[r] # "idle" /\ pc[r] \notin CreateSteps /\ pc[r] \in DeleteSteps
    BY <1>1 DEF LockedSteps, MappingSteps, ExtendSteps, CreateSteps, DeleteSteps
  <2>3. SameBdev(db, local[r]) /\ SameBdev(draft, local[r])
    BY <2>2 DEF VolumeInv, BdevKept
  <2> QED
    BY <1>1, <1>3, <2>1, <2>2, <2>3, LoadVolumes
<1> QED
  BY <1>2, <1>3 DEF CheckMappings

\* Marking the row before the SPDK call.
LEMMA MarkVolumes ==
  ASSUME Inv, VolumeInv, NEW r \in Requests, UNCHANGED freshVolumes,
         NEW status \in {"deleting", "extending"},
         NEW step, <<pc[r], step, status>> \in {<<"mark_deleting", "deprovision", "deleting">>,
                                        <<"mark_extending", "resize", "extending">>},
         db.volume[local[r].volume] # Null,
         BeginWrite(r, SetStatus(db, local[r].volume, status), step)
  PROVE  VolumeInv'
<1> DEFINE v == local[r].volume
           t == SetStatus(db, v, status)
<1>1. pc[r] \in {"mark_deleting", "mark_extending"} /\ step \in {"deprovision", "resize"}
  OBVIOUS
<1>2. TablesOK(db) /\ v \in Volumes /\ status \in Status
  BY <1>1, Known DEF Status
<1>3. /\ t.volume[v].bdev = db.volume[v].bdev /\ t.volume[v].status = status
      /\ t.mapping = db.mapping
      /\ \A w \in Volumes \ {v} : t.volume[w] = db.volume[w]
  BY <1>2, StatusOf
<1>4. BeginWrite(r, t, step)
  OBVIOUS
<1>5. DraftAt(r)'
  <2>1. pc'[r] = step /\ draft' = t /\ db' = db /\ local' = local
    BY <1>1 DEF BeginWrite, GoTo, Inv, CoreInv
  <2> QED
    BY <2>1 DEF DraftAt
<1> HIDE DEF t
<1>6. /\ pc[r] \in FlushSteps \ {"insert_volume"}
      /\ step \in LockedSteps \ {"provision", "commit"}
      /\ step \notin MappingSteps
      /\ step \in ExtendSteps => pc[r] \in ExtendSteps
      /\ step \in DeleteSteps => pc[r] \in DeleteSteps
  BY DEF FlushSteps, LockedSteps, MappingSteps, ExtendSteps, DeleteSteps
<1>7. \A w \in Volumes :
        \/ t.volume[w] = db.volume[w]
        \/ /\ db.volume[w] # Null /\ t.volume[w].bdev = db.volume[w].bdev
           /\ t.volume[w].status \notin {"available", "in_use"}
  BY <1>3
<1> QED
  BY <1>3, <1>4, <1>5, <1>6, <1>7, BeginVolumes

\* delete_volume flushes the status.
LEMMA MarkDeletingVolumes ==
  ASSUME Inv, VolumeInv, NEW r \in Requests, MarkDeleting(r)
  PROVE  VolumeInv'
<1>1. pc[r] = "mark_deleting" /\ freshVolumes' = freshVolumes
  BY DEF MarkDeleting, supply
<1>2. CASE db.volume[local[r].volume] = Null
  BY <1>1, <1>2, LeaveVolumes DEF MarkDeleting, StaleRow
<1>3. CASE db.volume[local[r].volume] # Null
  BY <1>1, <1>3, MarkVolumes DEF MarkDeleting
<1> QED
  BY <1>2, <1>3

\* delete_volume erases the row after its lvol.
LEMMA EraseVolumes ==
  ASSUME Inv, VolumeInv, NEW r \in Requests, pc[r] = "deprovision", EraseVolume(r),
         UNCHANGED freshVolumes
  PROVE  VolumeInv'
<1> DEFINE v == local[r].volume
           t == SetRow(draft, v, Null)
<1>1. /\ pc[r] \in LockedSteps /\ v \in Volumes /\ TablesOK(draft)
  BY OutstandingCall DEF TransientSteps
<1>2. CASE local[r].children
  BY <1>1, <1>2, ReleaseVolumes DEF EraseVolume, Rollback
<1>3. CASE ~local[r].children
  <2>1. Written(r, t)
    BY <1>3 DEF EraseVolume
  <2>2. /\ t.volume[v] = Null /\ t.mapping = draft.mapping
        /\ \A w \in Volumes \ {v} : t.volume[w] = draft.volume[w]
    BY <1>1, RowOf
  <2> HIDE DEF t
  <2> QED
    BY <1>1, <2>1, <2>2, WriteVolumes
<1> QED
  BY <1>2, <1>3

\* delete_volume hears from SPDK.
LEMMA DeprovisionVolumes ==
  ASSUME Inv, VolumeInv, NEW r \in Requests, DeprovisionVolume(r)
  PROVE  VolumeInv'
<1>1. pc[r] = "deprovision" /\ pc[r] \in TransientSteps /\ freshVolumes' = freshVolumes
  BY DEF DeprovisionVolume, TransientSteps, supply
<1>2. EraseVolume(r) \/ FailWrite(r, local[r].volume)
  BY DEF DeprovisionVolume, FinishDelete
<1> QED
  BY <1>1, <1>2, EraseVolumes, FailVolumes

\* extend_volume judges the new size.
LEMMA ExtendVolumeVolumes ==
  ASSUME Inv, VolumeInv, NEW r \in Requests, ExtendVolume(r)
  PROVE  VolumeInv'
<1>1. PICK v \in Volumes, size \in 1..MaxSize, p \in BOOLEAN :
        /\ db.volume[v] # Null
        /\ GoTo(r, "mark_extending")
        /\ Remember(r, [Blank EXCEPT !.volume = v, !.seen = db.volume[v],
                                     !.size = size, !.persists = p])
  BY DEF ExtendVolume
<1> DEFINE l == [Blank EXCEPT !.volume = v, !.seen = db.volume[v],
                              !.size = size, !.persists = p]
<1>2. l.volume = v /\ l.seen = db.volume[v]
  BY DEF Blank
<1>3. Remember(r, l)
  BY <1>1
<1> HIDE DEF l
<1>4. l.seen.bdev => HasBdev(db, v) /\ HasBdev(draft, v)
  BY <1>1, <1>2 DEF HasBdev, VolumeInv, BdevKept, BdevSame
<1>5. /\ "mark_extending" \notin LockedSteps \cup {"insert_volume"} \cup MappingSteps \cup DeleteSteps
      /\ UNCHANGED <<tables, freshVolumes>>
  BY DEF LockedSteps, MappingSteps, DeleteSteps, ExtendVolume, supply
<1> QED
  BY <1>1, <1>2, <1>3, <1>4, <1>5, LoadVolumes

\* extend_volume flushes the status.
LEMMA MarkExtendingVolumes ==
  ASSUME Inv, VolumeInv, NEW r \in Requests, MarkExtending(r)
  PROVE  VolumeInv'
<1>1. pc[r] = "mark_extending" /\ freshVolumes' = freshVolumes
  BY DEF MarkExtending, supply
<1>2. CASE db.volume[local[r].volume] = Null
  BY <1>1, <1>2, LeaveVolumes DEF MarkExtending, StaleRow
<1>3. CASE db.volume[local[r].volume] # Null
  BY <1>1, <1>3, MarkVolumes DEF MarkExtending
<1> QED
  BY <1>2, <1>3

\* A row with another size.
LEMMA SizedRow ==
  ASSUME NEW row \in VolumeRow, NEW size \in 1..MaxSize
  PROVE  LET new == [row EXCEPT !.size = size]
         IN /\ new \in VolumeRow /\ new.size = size
            /\ new.name = row.name /\ new.bdev = row.bdev
BY DEF VolumeRow

\* The table with another size in the row of v.
Resized(t, v, size) == [t EXCEPT !.volume[v].size = size]

\* What a new size does.
LEMMA SizeOf ==
  ASSUME NEW t, TablesOK(t), NEW v \in Volumes, t.volume[v] # Null, NEW size \in 1..MaxSize
  PROVE  LET u == Resized(t, v, size)
         IN /\ TablesOK(u)
            /\ u.volume[v].bdev = t.volume[v].bdev
            /\ u.volume[v].name = t.volume[v].name /\ u.volume[v].size = size
            /\ u.volume[v] # Null
            /\ u.mapping = t.mapping
            /\ \A w \in Volumes \ {v} : u.volume[w] = t.volume[w]
<1> DEFINE row == [t.volume[v] EXCEPT !.size = size]
<1>1. t.volume[v] \in VolumeRow
  BY DEF TablesOK, Tables
<1>2. /\ row \in VolumeRow /\ row.size = size
      /\ row.name = t.volume[v].name /\ row.bdev = t.volume[v].bdev
  BY <1>1, SizedRow
<1>3. Resized(t, v, size) = SetRow(t, v, row)
  BY DEF SetRow, Resized
<1>4. row # Null
  BY <1>2, VolumeRowFields
<1> HIDE DEF row
<1>5. /\ TablesOK(SetRow(t, v, row)) /\ SetRow(t, v, row).volume[v] = row
      /\ SetRow(t, v, row).mapping = t.mapping
      /\ \A w \in Volumes \ {v} : SetRow(t, v, row).volume[w] = t.volume[w]
  BY <1>2, SetRowTyped, RowOf
<1> QED
  BY <1>2, <1>3, <1>4, <1>5

\* What recording an extension does.
LEMMA ExtendedOf ==
  ASSUME NEW t, TablesOK(t), NEW v \in Volumes, t.volume[v] # Null, NEW size \in 1..MaxSize
  PROVE  LET u == Extended(t, v, size)
         IN /\ u.volume[v].bdev = t.volume[v].bdev /\ u.volume[v].status = "available"
            /\ u.volume[v].name = t.volume[v].name /\ u.volume[v].size = size
            /\ u.volume[v] \in VolumeRow /\ u.volume[v] # Null
            /\ u.mapping = t.mapping
            /\ \A w \in Volumes \ {v} : u.volume[w] = t.volume[w]
<1> DEFINE resized == Resized(t, v, size)
           u == SetStatus(resized, v, "available")
<1>1. /\ resized.volume[v].bdev = t.volume[v].bdev
      /\ resized.volume[v].name = t.volume[v].name /\ resized.volume[v].size = size
      /\ resized.volume[v] # Null
      /\ resized.mapping = t.mapping
      /\ \A w \in Volumes \ {v} : resized.volume[w] = t.volume[w]
  BY SizeOf
<1>2. TablesOK(resized) /\ "available" \in Status
  BY SizeOf DEF Status
<1> HIDE DEF resized
<1>3. /\ u.volume[v].bdev = resized.volume[v].bdev /\ u.volume[v].status = "available"
      /\ u.volume[v].name = resized.volume[v].name
      /\ u.volume[v].size = resized.volume[v].size
      /\ u.volume[v] \in VolumeRow /\ u.volume[v] # Null
      /\ u.mapping = resized.mapping
      /\ \A w \in Volumes \ {v} : u.volume[w] = resized.volume[w]
  BY <1>1, <1>2, StatusOf
<1> HIDE DEF u
<1>4. Extended(t, v, size) = u
  BY DEF Extended, Resized, resized, u
<1> QED
  BY <1>1, <1>3, <1>4

\* extend_volume hears from SPDK.
LEMMA ResizeVolumes ==
  ASSUME Inv, VolumeInv, NEW r \in Requests, ResizeVolume(r)
  PROVE  VolumeInv'
<1> DEFINE v == local[r].volume
           t == Extended(draft, v, local[r].size)
<1>1. pc[r] = "resize" /\ pc[r] \in TransientSteps /\ freshVolumes' = freshVolumes
  BY DEF ResizeVolume, TransientSteps, supply
<1>2. /\ pc[r] \in LockedSteps /\ v \in Volumes /\ local[r].size \in 1..MaxSize
      /\ TablesOK(draft) /\ draft.volume[v] \in VolumeRow
  BY <1>1, OutstandingCall
<1>3. CASE FailWrite(r, v)
  BY <1>1, <1>3, FailVolumes
<1>4. CASE local[r].seen.bdev /\ Written(r, t)
  <2>1. draft.volume[v] # Null
    BY <1>2, VolumeRowFields
  <2>2. /\ t.volume[v].bdev = draft.volume[v].bdev /\ t.mapping = draft.mapping
        /\ \A w \in Volumes \ {v} : t.volume[w] = draft.volume[w]
    BY <1>2, <2>1, ExtendedOf
  <2>3. draft.volume[v].bdev
    BY <1>1, <1>4, <2>1 DEF VolumeInv, BdevKept, HasBdev, ExtendSteps
  <2>4. Written(r, t)
    BY <1>4
  <2> HIDE DEF t
  <2> QED
    BY <1>1, <1>2, <2>1, <2>2, <2>3, <2>4, WriteVolumes
<1> QED
  BY <1>3, <1>4 DEF ResizeVolume

\* create_mapping loads its rows, directly or for mkvdiskhostmap.
LEMMA MappingVolumes ==
  ASSUME Inv, VolumeInv, NEW r \in Requests, CreateMapping(r) \/ MkVdiskHostMap(r)
  PROVE  VolumeInv'
<1>1. PICK v \in Volumes, host \in Hosts, path \in Paths : LoadForMapping(r, v, host, path)
  BY DEF CreateMapping, MkVdiskHostMap
<1> DEFINE l == [Blank EXCEPT !.volume = v, !.seen = db.volume[v],
                              !.row = NewMapping(v, host, path)]
<1>2. /\ db.volume[v] # Null /\ db.volume[v].status \in {"available", "in_use"}
      /\ GoTo(r, "allocate_ids") /\ Remember(r, l)
      /\ UNCHANGED <<tables, freshVolumes>>
  BY <1>1 DEF LoadForMapping
<1>3. l.volume = v /\ l.row.volume = v
  BY DEF Blank, NewMapping
<1> HIDE DEF l
<1>4. HasBdev(db, v) /\ HasBdev(draft, v)
  BY <1>2 DEF HasBdev, VolumeInv, BdevKept, BdevSame, OfferedIn
<1>5. "allocate_ids" \notin LockedSteps \cup {"insert_volume"} \cup ExtendSteps \cup DeleteSteps
  BY DEF LockedSteps, ExtendSteps, DeleteSteps
<1> QED
  BY <1>2, <1>3, <1>4, <1>5, LoadVolumes

\* create_mapping picks its numbers.
LEMMA AllocateIdsVolumes ==
  ASSUME Inv, VolumeInv, NEW r \in Requests, AllocateIds(r)
  PROVE  VolumeInv'
<1> DEFINE old == local[r]
           l == [old EXCEPT !.row =
                   [old.row EXCEPT !.lun = AllocateLun(UsedLuns(db, old.row.host, old.row.persona)),
                                   !.uid = AllocateUid(db, old.row.underlay)]]
<1>1. /\ pc[r] = "allocate_ids" /\ GoTo(r, "insert_mapping")
      /\ UNCHANGED <<tables, freshVolumes>>
  BY DEF AllocateIds, supply
<1>2. old \in Local /\ old.volume \in Volumes /\ old.row \in MappingRow /\ local \in [Requests -> Local]
  BY <1>1, Known DEF Inv, CoreInv, MappingSteps
<1>3. Remember(r, l)
  BY <1>2 DEF AllocateIds, Remember, Local, MappingRow
<1>4. l.volume = old.volume /\ l.row.volume = old.row.volume
  BY <1>2 DEF Local, MappingRow
<1> HIDE DEF l
<1>5. /\ old.row.volume = old.volume
      /\ HasBdev(db, old.volume) /\ HasBdev(draft, old.volume)
  BY <1>1 DEF VolumeInv, UuidsOnce, BdevKept, MappingSteps
<1>6. /\ "insert_mapping" \notin LockedSteps \cup {"insert_volume"} \cup ExtendSteps \cup DeleteSteps
      /\ pc[r] # "idle" /\ pc[r] \notin CreateSteps
  BY <1>1 DEF LockedSteps, ExtendSteps, DeleteSteps, CreateSteps
<1> QED
  BY <1>1, <1>2, <1>3, <1>4, <1>5, <1>6, LoadVolumes

\* A mapping more or less.
LEMMA MappingsOnly ==
  ASSUME NEW t, TablesOK(t), NEW m
  PROVE  /\ [t EXCEPT !.mapping = @ \cup {m}].volume = t.volume
         /\ [t EXCEPT !.mapping = @ \cup {m}].mapping = t.mapping \cup {m}
         /\ [t EXCEPT !.mapping = @ \ {m}].volume = t.volume
         /\ [t EXCEPT !.mapping = @ \ {m}].mapping = t.mapping \ {m}
BY DEF TablesOK, Tables

\* create_mapping flushes the new row.
LEMMA InsertMappingVolumes ==
  ASSUME Inv, VolumeInv, NEW r \in Requests, InsertMapping(r)
  PROVE  VolumeInv'
<1> DEFINE t == [db EXCEPT !.mapping = @ \cup {local[r].row}]
<1>1. /\ pc[r] = "insert_mapping" /\ BeginWrite(r, t, "wire") /\ freshVolumes' = freshVolumes
  BY DEF InsertMapping, supply
<1>2. t.volume = db.volume /\ t.mapping = db.mapping \cup {local[r].row}
  BY Known, MappingsOnly
<1>3. DraftAt(r)'
  <2>1. pc'[r] = "wire" /\ draft' = t /\ db' = db /\ local' = local
    BY <1>1 DEF BeginWrite, GoTo, Inv, CoreInv
  <2> QED
    BY <2>1 DEF DraftAt
<1> HIDE DEF t
<1>4. /\ pc[r] \in FlushSteps \ {"insert_volume"} /\ pc[r] \in MappingSteps
      /\ "wire" \in LockedSteps \ {"provision", "commit"}
      /\ "wire" \notin ExtendSteps \cup DeleteSteps
  BY <1>1 DEF FlushSteps, LockedSteps, MappingSteps, ExtendSteps, DeleteSteps
<1> QED
  BY <1>1, <1>2, <1>3, <1>4, BeginVolumes

\* The status that a mapping operation writes.
LEMMA SettleVolumes ==
  ASSUME Inv, VolumeInv, NEW r \in Requests, pc[r] \in {"wire", "unwire"},
         NEW t, TablesOK(t), t.volume = draft.volume, t.mapping \subseteq draft.mapping,
         NEW status \in {"available", "in_use"}, SettleStatus(r, t, status),
         UNCHANGED freshVolumes
  PROVE  VolumeInv'
<1> DEFINE v == local[r].volume
           u == SetStatus(t, v, status)
<1>1. /\ pc[r] \in LockedSteps /\ pc[r] \in MappingSteps /\ v \in Volumes
  BY Known DEF LockedSteps, MappingSteps
<1>2. HasBdev(draft, v) /\ OfferedIn(draft)
  BY <1>1 DEF VolumeInv, BdevKept
<1>3. CASE Written(r, t)
  BY <1>1, <1>2, <1>3, WriteVolumes DEF HasBdev
<1>4. CASE Rollback(r)
  BY <1>1, <1>4, ReleaseVolumes DEF Rollback
<1>5. CASE t.volume[v] # Null /\ Written(r, u)
  <2>1. status \in Status
    BY DEF Status
  <2>2. /\ u.volume[v].bdev = draft.volume[v].bdev /\ u.mapping = t.mapping
        /\ \A w \in Volumes \ {v} : u.volume[w] = draft.volume[w]
    BY <1>1, <1>5, <2>1, StatusOf
  <2>3. Written(r, u) /\ draft.volume[v] # Null
    BY <1>5
  <2> HIDE DEF u
  <2> QED
    <3>1. /\ u.mapping \subseteq draft.mapping /\ draft.volume[v].bdev
          /\ \A w \in Volumes \ {v} : u.volume[w] = draft.volume[w]
      BY <1>2, <2>2, <2>3 DEF HasBdev
    <3>2. draft.volume[v] # Null /\ u.volume[v].bdev = draft.volume[v].bdev /\ u.volume[v].bdev
      BY <2>2, <2>3, <3>1
    <3> QED
      BY <1>1, <2>3, <3>1, <3>2, WriteVolumes
<1> QED
  BY <1>3, <1>4, <1>5 DEF SettleStatus

\* create_mapping hears from SPDK.
LEMMA WireVolumes ==
  ASSUME Inv, VolumeInv, NEW r \in Requests, WireMapping(r)
  PROVE  VolumeInv'
<1>1. pc[r] = "wire" /\ pc[r] \in LockedSteps /\ freshVolumes' = freshVolumes /\ TablesOK(draft)
  BY Known DEF WireMapping, supply, LockedSteps
<1>2. SettleStatus(r, draft, "in_use") \/ Rollback(r)
  BY DEF WireMapping
<1> QED
  BY <1>1, <1>2, SettleVolumes, ReleaseVolumes DEF Rollback

\* delete_mapping loads its rows.
LEMMA DeleteMappingVolumes ==
  ASSUME Inv, VolumeInv, NEW r \in Requests, DeleteMapping(r)
  PROVE  VolumeInv'
<1>1. PICK m \in db.mapping :
        /\ GoTo(r, "mark_detached")
        /\ Remember(r, [Blank EXCEPT !.row = m, !.volume = m.volume,
                                     !.seen = db.volume[m.volume]])
  BY DEF DeleteMapping
<1> DEFINE l == [Blank EXCEPT !.row = m, !.volume = m.volume,
                              !.seen = db.volume[m.volume]]
<1>2. l.volume = m.volume /\ l.row = m
  BY DEF Blank
<1>3. Remember(r, l)
  BY <1>1
<1> HIDE DEF l
<1>4. HasBdev(db, m.volume) /\ HasBdev(draft, m.volume) /\ Mapped(db, m.volume)
  BY DEF VolumeInv, BdevKept, Mapped
<1>5. /\ "mark_detached" \notin LockedSteps \cup {"insert_volume"} \cup ExtendSteps \cup DeleteSteps
      /\ m.volume \in Volumes /\ UNCHANGED <<tables, freshVolumes>>
  BY Known
     DEF LockedSteps, ExtendSteps, DeleteSteps, DeleteMapping, supply, TablesOK, Tables,
         MappingRow
<1> QED
  BY <1>1, <1>2, <1>3, <1>4, <1>5, LoadVolumes

\* delete_mapping flushes the desired state.
LEMMA MarkDetachedVolumes ==
  ASSUME Inv, VolumeInv, NEW r \in Requests, MarkDetached(r)
  PROVE  VolumeInv'
<1>1. pc[r] = "mark_detached" /\ freshVolumes' = freshVolumes
  BY DEF MarkDetached, supply
<1>2. CASE StaleRow(r)
  BY <1>1, <1>2, LeaveVolumes DEF StaleRow
<1>3. CASE BeginWrite(r, db, "unwire")
  <2>1. DraftAt(r)'
    <3>1. pc'[r] = "unwire" /\ draft' = db /\ db' = db
      BY <1>1, <1>3 DEF BeginWrite, GoTo, Inv, CoreInv
    <3> QED
      BY <3>1 DEF DraftAt
  <2>2. /\ pc[r] \in FlushSteps \ {"insert_volume"} /\ pc[r] \in MappingSteps
        /\ "unwire" \in LockedSteps \ {"provision", "commit"}
        /\ "unwire" \notin ExtendSteps \cup DeleteSteps
    BY <1>1 DEF FlushSteps, LockedSteps, MappingSteps, ExtendSteps, DeleteSteps
  <2> QED
    BY <1>1, <1>3, <2>1, <2>2, BeginVolumes
<1> QED
  BY <1>2, <1>3 DEF MarkDetached

\* delete_mapping hears from SPDK and erases the row.
LEMMA UnwireVolumes ==
  ASSUME Inv, VolumeInv, NEW r \in Requests, UnwireMapping(r)
  PROVE  VolumeInv'
<1> DEFINE rest == [draft EXCEPT !.mapping = @ \ {local[r].row}]
<1>1. /\ pc[r] = "unwire" /\ pc[r] \in LockedSteps /\ freshVolumes' = freshVolumes
      /\ TablesOK(draft)
  BY Known DEF UnwireMapping, supply, LockedSteps
<1>2. rest.volume = draft.volume /\ rest.mapping = draft.mapping \ {local[r].row}
  BY <1>1, MappingsOnly
<1>3. TablesOK(rest)
  <2>1. IsFiniteSet(draft.mapping \ {local[r].row})
    BY <1>1, FS_RemoveElement DEF TablesOK
  <2> QED
    BY <1>1, <1>2, <2>1 DEF TablesOK, Tables
<1>4. Rollback(r) \/ Written(r, rest) \/ SettleStatus(r, rest, "available")
  BY DEF UnwireMapping, EraseMapping
<1> HIDE DEF rest
<1>5. CASE Rollback(r)
  BY <1>1, <1>5, ReleaseVolumes DEF Rollback
<1>6. CASE Written(r, rest)
  <2>1. OfferedIn(draft) /\ local[r].volume \in Volumes
    BY <1>1, Known DEF VolumeInv, BdevKept
  <2> QED
    BY <1>1, <1>2, <1>6, <2>1, WriteVolumes DEF OfferedIn
<1>7. CASE SettleStatus(r, rest, "available")
  BY <1>1, <1>2, <1>3, <1>7, SettleVolumes
<1> QED
  BY <1>4, <1>5, <1>6, <1>7

\* A request commits, or waits for the lock in vain.
LEMMA EndVolumes ==
  ASSUME Inv, VolumeInv, NEW r \in Requests, Commit(r) \/ LockTimeout(r)
  PROVE  VolumeInv'
<1>1. CASE Commit(r)
  BY <1>1, ReleaseVolumes DEF Commit, supply, LockedSteps
<1>2. CASE LockTimeout(r)
  BY <1>2, LeaveVolumes DEF LockTimeout, supply
<1> QED
  BY <1>1, <1>2

\* Nothing is in flight and the tables keep what they say of bdevs.
LEMMA QuietVolumes ==
  ASSUME Inv, VolumeInv, UNCHANGED freshVolumes, draft' = db',
         \A r \in Requests : pc'[r] = "idle",
         db'.mapping = db.mapping,
         \A v \in Volumes : \/ db'.volume[v] = db.volume[v]
                            \/ db.volume[v] # Null /\ db'.volume[v].bdev
  PROVE  VolumeInv'
<1>1. "idle" \notin MappingSteps \cup CreateSteps \cup ExtendSteps \cup DeleteSteps
  BY DEF MappingSteps, CreateSteps, ExtendSteps, DeleteSteps
<1>2. UuidsOnce'
  BY <1>1, Known DEF VolumeInv, UuidsOnce, Unknown, Refers, Mapped
<1>3. DraftKnown'
  BY DEF DraftKnown, DraftAt
<1>4. BdevKept'
  <2>1. \A m \in db.mapping : m.volume \in Volumes
    BY Known DEF TablesOK, Tables, MappingRow
  <2> QED
    BY <1>1, <2>1 DEF VolumeInv, BdevKept, BdevSame, OfferedIn, HasBdev
<1> QED
  BY <1>2, <1>3, <1>4 DEF VolumeInv

\* Whatever crashes: the transaction is rolled back and all requests are gone.
LEMMA DisruptionVolumes ==
  ASSUME Inv, VolumeInv, GatewayCrash \/ SpdkRestart \/ HostReboot
  PROVE  VolumeInv'
<1>1. CASE GatewayCrash \/ HostReboot
  <2>1. /\ draft' = db' /\ db' = db /\ freshVolumes' = freshVolumes
        /\ \A r \in Requests : pc'[r] = "idle"
    BY <1>1 DEF GatewayCrash, HostReboot, GatewayDies, supply
  <2> QED
    BY <2>1, QuietVolumes
<1>2. CASE SpdkRestart
  BY <1>2
     DEF SpdkRestart, tables, requests, supply, VolumeInv, UuidsOnce, Unknown, Refers, Mapped,
       DraftKnown, DraftAt, BdevKept, BdevSame, SameBdev, OfferedIn, HasBdev
<1> QED
  BY <1>1, <1>2

\* reconcile only adds bdev names.
LEMMA StartupVolumes ==
  ASSUME Inv, VolumeInv, Startup
  PROVE  VolumeInv'
<1>1. PICK ensured \in SUBSET {v \in Volumes : Healthy(v)} :
        db' = [db EXCEPT !.volume = [v \in Volumes |->
                  IF v \in ensured THEN [db.volume[v] EXCEPT !.bdev = TRUE] ELSE db.volume[v]]]
  BY Zenon DEF Startup
<1>2. \A r \in Requests : pc'[r] = "idle"
  BY DEF Startup, Inv, CoreInv, requests
<1>3. /\ db'.mapping = db.mapping
      /\ \A v \in Volumes : db'.volume[v] = IF v \in ensured THEN [db.volume[v] EXCEPT !.bdev = TRUE]
                                                             ELSE db.volume[v]
  BY <1>1, Known DEF TablesOK, Tables
<1>4. \A v \in ensured : v \in Volumes /\ db.volume[v] # Null /\ db.volume[v] \in VolumeRow
  BY Known DEF Healthy, TablesOK, Tables
<1>5. \A v \in Volumes : \/ db'.volume[v] = db.volume[v]
                         \/ db.volume[v] # Null /\ db'.volume[v].bdev
  BY <1>3, <1>4 DEF VolumeRow
<1>6. draft' = db' /\ freshVolumes' = freshVolumes
  BY DEF Startup, supply
<1> QED
  BY <1>2, <1>3, <1>5, <1>6, QuietVolumes

\* At first nothing is drawn.
LEMMA InitVolumes == Init => VolumeInv
BY DEF Init, VolumeInv, UuidsOnce, Unknown, Refers, Mapped, DraftKnown, DraftAt, BdevKept,
       BdevSame, OfferedIn, HasBdev, MappingSteps, CreateSteps, ExtendSteps, DeleteSteps

\* VolumeInv is inductive, given Inv.
LEMMA NextVolumes == Inv /\ VolumeInv /\ [Next]_vars => VolumeInv'
<1> SUFFICES ASSUME Inv, VolumeInv, [Next]_vars PROVE VolumeInv'
  OBVIOUS
<1>1. ASSUME NEW r \in Requests, Begin(r) PROVE VolumeInv'
  BY <1>1, CreateVolumeVolumes, DeleteVolumeVolumes, ExtendVolumeVolumes, MappingVolumes,
     DeleteMappingVolumes DEF Begin
<1>2. ASSUME NEW r \in Requests, Continue(r) PROVE VolumeInv'
  <2>1. CASE InsertVolume(r) \/ ProvisionVolume(r)
    BY <2>1, InsertVolumeVolumes, ProvisionVolumes
  <2>2. CASE CheckMappings(r) \/ MarkDeleting(r) \/ DeprovisionVolume(r)
    BY <2>2, CheckMappingsVolumes, MarkDeletingVolumes, DeprovisionVolumes
  <2>3. CASE MarkExtending(r) \/ ResizeVolume(r)
    BY <2>3, MarkExtendingVolumes, ResizeVolumes
  <2>4. CASE AllocateIds(r) \/ InsertMapping(r) \/ WireMapping(r)
    BY <2>4, AllocateIdsVolumes, InsertMappingVolumes, WireVolumes
  <2>5. CASE MarkDetached(r) \/ UnwireMapping(r)
    BY <2>5, MarkDetachedVolumes, UnwireVolumes
  <2>6. CASE Commit(r) \/ LockTimeout(r)
    BY <2>6, EndVolumes
  <2> QED
    BY <1>2, <2>1, <2>2, <2>3, <2>4, <2>5, <2>6 DEF Continue
<1>3. CASE GatewayCrash \/ SpdkRestart \/ HostReboot
  BY <1>3, DisruptionVolumes
<1>4. CASE Startup
  BY <1>4, StartupVolumes
<1>5. CASE UNCHANGED vars
  <2>1. UNCHANGED <<db, draft, writer, pc, local, freshVolumes>>
    BY <1>5 DEF vars, tables, requests, supply
  <2>2. UuidsOnce' <=> UuidsOnce
    BY <2>1 DEF UuidsOnce, Unknown, Refers, Mapped
  <2>3. DraftKnown' <=> DraftKnown
    BY <2>1 DEF DraftKnown, DraftAt
  <2>4. BdevKept' <=> BdevKept
    BY <2>1 DEF BdevKept, BdevSame, SameBdev, OfferedIn, HasBdev
  <2> QED
    BY <2>2, <2>3, <2>4 DEF VolumeInv
<1> QED
  BY <1>1, <1>2, <1>3, <1>4, <1>5 DEF Next

\* Always: fresh UUIDs are unknown, drafts are as the operation under way has
\* made them, and bdev names that a request has seen are still there.
THEOREM VolumeInvariance == Spec => [](Inv /\ VolumeInv)
<1>1. Init => Inv /\ VolumeInv
  BY InitInv, InitVolumes
<1>2. Inv /\ VolumeInv /\ [Next]_vars => (Inv /\ VolumeInv)'
  BY NextInv, NextVolumes
<1> QED
  BY <1>1, <1>2, PTL DEF Spec

\* A volume that is offered to clients has a bdev to export, for any requests
\* at one time, any failure and any crash (volumes.py:101-109, 204-214).
THEOREM OfferedAlwaysHasBdev == Spec => []OfferedHasBdev
<1>1. VolumeInv => OfferedHasBdev
  BY DEF VolumeInv, BdevKept, OfferedIn, OfferedHasBdev, Exists
<1> QED
  BY <1>1, VolumeInvariance, PTL

-----------------------------------------------------------------------------
\* Rows and lvols.

\* No call to SPDK is carried out without its caller hearing of it: no reply is
\* lost, neither process restarts without the other, and the start after a
\* reboot makes every lvol.
NothingLost ==
  /\ "lost" \notin RpcFaults
  /\ Disruptions \subseteq {"host_reboot"}
  /\ Disruptions # {} => RpcFaults = {}

\* No mapping is removed while another request runs: a deletion that has the
\* mapping in its loaded collection fails in its flush, its lvol gone.
MappingsStay == "delete_mapping" \notin Operations \/ \A r, s \in Requests : r = s

\* The tables that SPDK agrees with: those about to be committed, if any.
Shown == IF writer # Null /\ pc[writer] = "commit" THEN draft ELSE db

\* The size of v's lvol if table t is right.
Claimed(t, v) == IF t.volume[v] # Null /\ t.volume[v].bdev THEN t.volume[v].size ELSE 0

LvolsClaimed == \A v \in Volumes : lvol[v] = IF gateway = "up" THEN Claimed(Shown, v) ELSE 0

NoErrors(t) == \A v \in Volumes : t.volume[v] # Null => t.volume[v].status # "error"

Unharmed ==
  /\ gateway = "down" => Disruptions # {}
  /\ RpcFaults = {} => NoErrors(db) /\ NoErrors(draft)

\* What request r knows that reaches SPDK: a volume to be deleted has no
\* mappings, one to be extended has an lvol.
Informed(r) ==
  /\ pc[r] = "check_mappings" /\ local[r].children => Mapped(db, local[r].volume)
  /\ pc[r] \in {"mark_deleting", "deprovision"} => ~local[r].children
  /\ RpcFaults = {} /\ pc[r] \in ExtendSteps => local[r].seen.bdev
  /\ "delete_mapping" \notin Operations => pc[r] \notin {"mark_detached", "unwire"}

LvolInv ==
  /\ LvolsClaimed
  /\ Unharmed
  /\ \A r \in Requests : Informed(r)
  /\ "delete_mapping" \notin Operations => db.mapping \subseteq draft.mapping

\* Which tables count: those about to be committed, once there are any.
LEMMA ShownTables ==
  ASSUME Inv
  PROVE  /\ writer = Null => Shown = db
         /\ \A r \in Requests : pc[r] \in LockedSteps => Shown = IF pc[r] = "commit" THEN draft ELSE db
BY LockHolder DEF Shown, Inv

\* A request that reads, or gives up.
LEMMA LoadLvols ==
  ASSUME Inv, LvolInv, NEW r \in Requests, pc[r] \notin LockedSteps, NEW step, step \notin LockedSteps, NEW l,
         GoTo(r, step), Remember(r, l), UNCHANGED <<tables, lvol, gateway>>,
         Informed(r)'
  PROVE  LvolInv'
<1>1. /\ pc'[r] = step /\ db' = db /\ draft' = draft /\ writer' = writer
      /\ \A s \in Requests \ {r} : pc'[s] = pc[s] /\ local'[s] = local[s]
  BY Moving DEF tables
<1>2. Shown' = Shown
  BY <1>1, ConstantsAssumption DEF Shown, Inv, CoreInv, LockedSteps
<1>3. LvolsClaimed' /\ Unharmed'
  BY <1>1, <1>2 DEF LvolInv, LvolsClaimed, Unharmed, NoErrors
<1>4. \A s \in Requests \ {r} : Informed(s)'
  BY <1>1 DEF LvolInv, Informed, Mapped
<1> QED
  BY <1>1, <1>3, <1>4 DEF LvolInv

\* A request gives up: lvols and tables are as they were.
LEMMA LeaveLvols ==
  ASSUME Inv, LvolInv, NEW r \in Requests, pc[r] \notin LockedSteps, Leave(r),
         UNCHANGED <<tables, lvol, gateway>>
  PROVE  LvolInv'
<1>1. "idle" \notin LockedSteps /\ "idle" \notin ExtendSteps
  BY DEF LockedSteps, ExtendSteps
<1>2. pc'[r] = "idle"
  BY Moving DEF Leave
<1>3. Informed(r)'
  BY <1>1, <1>2 DEF Informed
<1> QED
  BY <1>1, <1>3, LoadLvols DEF Leave

\* A first flush: the lvols still are as committed.
LEMMA BeginLvols ==
  ASSUME Inv, LvolInv, NEW r \in Requests, pc[r] \notin LockedSteps,
         NEW step \in LockedSteps \ {"commit"}, NEW t,
         BeginWrite(r, t, step), UNCHANGED <<lvol, gateway>>,
         RpcFaults = {} => NoErrors(t),
         "delete_mapping" \notin Operations => db.mapping \subseteq t.mapping,
         Informed(r)'
  PROVE  LvolInv'
<1>1. /\ writer = Null /\ pc'[r] = step /\ db' = db /\ draft' = t /\ writer' = r
      /\ local' = local /\ \A s \in Requests \ {r} : pc'[s] = pc[s]
  BY DEF BeginWrite, GoTo, Inv, CoreInv
<1>2. Shown' = db /\ Shown = db
  BY <1>1 DEF Shown
<1>3. LvolsClaimed' /\ Unharmed'
  BY <1>1, <1>2 DEF LvolInv, LvolsClaimed, Unharmed, NoErrors
<1>4. \A s \in Requests \ {r} : Informed(s)'
  BY <1>1 DEF LvolInv, Informed, Mapped
<1> QED
  BY <1>1, <1>3, <1>4 DEF LvolInv

\* The handler is through: the lvols are as about to be committed.
LEMMA WriteLvols ==
  ASSUME Inv, LvolInv, NEW r \in Requests, pc[r] \in LockedSteps, NEW t,
         Written(r, t), UNCHANGED gateway,
         \A v \in Volumes : lvol'[v] = Claimed(t, v),
         RpcFaults = {} => NoErrors(t),
         "delete_mapping" \notin Operations => db.mapping \subseteq t.mapping
  PROVE  LvolInv'
<1>1. /\ pc'[r] = "commit" /\ db' = db /\ draft' = t /\ writer' = writer /\ writer = r /\ r # Null
      /\ local' = local /\ \A s \in Requests \ {r} : pc'[s] = pc[s]
  BY LockHolder DEF Written, GoTo, Inv, CoreInv
<1>2. Shown' = t /\ gateway' = "up"
  BY <1>1, ActiveIsUp DEF Shown, LockedSteps, Inv
<1>3. LvolsClaimed' /\ Unharmed'
  BY <1>1, <1>2 DEF LvolInv, LvolsClaimed, Unharmed, NoErrors
<1>4. \A s \in Requests : Informed(s)'
  BY <1>1 DEF LvolInv, Informed, Mapped, ExtendSteps
<1> QED
  BY <1>1, <1>3, <1>4 DEF LvolInv

\* The transaction ends, with the tables as the lvols are.
LEMMA ReleaseLvols ==
  ASSUME Inv, LvolInv, MappingsStay, NEW r \in Requests, pc[r] \in LockedSteps,
         db' = Shown, draft' = db', writer' = Null, Leave(r), UNCHANGED <<lvol, gateway>>
  PROVE  LvolInv'
<1>1. /\ pc'[r] = "idle" /\ \A s \in Requests \ {r} : pc'[s] = pc[s] /\ local'[s] = local[s]
  BY Moving DEF Leave
<1>2. Shown' = db' /\ (db' = db \/ db' = draft)
  BY DEF Shown
<1>3. LvolsClaimed' /\ Unharmed'
  BY <1>2 DEF LvolInv, LvolsClaimed, Unharmed, NoErrors
<1>4. Informed(r)'
  BY <1>1 DEF Informed, ExtendSteps
<1>5. ASSUME NEW s \in Requests \ {r} PROVE Informed(s)'
  <2>1. "delete_mapping" \notin Operations /\ db.mapping \subseteq db'.mapping
    BY <1>2 DEF MappingsStay, LvolInv
  <2> QED
    BY <1>1, <2>1 DEF LvolInv, Informed, Mapped
<1> QED
  BY <1>3, <1>4, <1>5 DEF LvolInv

\* A request closes its session: the draft is db again.
LEMMA RollbackLvols ==
  ASSUME Inv, LvolInv, MappingsStay, NEW r \in Requests, pc[r] \in LockedSteps \ {"commit"}, Rollback(r),
         UNCHANGED <<lvol, gateway>>
  PROVE  LvolInv'
<1>1. Shown = db
  BY ShownTables
<1> QED
  BY <1>1, ReleaseLvols DEF Rollback

\* Until SPDK has been called, the draft claims what the committed tables do.
LEMMA ClaimedInDraft ==
  ASSUME Inv, VolumeInv, NEW r \in Requests, pc[r] \in LockedSteps \ {"commit"}, NEW w \in Volumes
  PROVE  Claimed(draft, w) = Claimed(db, w)
<1> DEFINE v == local[r].volume
<1>1. TablesOK(db) /\ TablesOK(draft) /\ v \in Volumes /\ DraftAt(r)
  BY Known DEF LockedSteps, VolumeInv, DraftKnown
<1>2. CASE pc[r] = "provision"
  <2>1. draft = SetRow(db, v, local[r].seen) /\ db.volume[v] = Null /\ ~local[r].seen.bdev
    BY <1>1, <1>2 DEF DraftAt, VolumeInv, UuidsOnce, Unknown, CreateSteps
  <2>2. draft.volume[v] = local[r].seen /\ (w # v => draft.volume[w] = db.volume[w])
    BY <1>1, <2>1, RowOf
  <2> QED
    BY <2>1, <2>2 DEF Claimed
<1>3. CASE pc[r] \in {"deprovision", "resize"}
  <2>1. PICK status \in Status : db.volume[v] # Null /\ draft = SetStatus(db, v, status)
    BY <1>1, <1>3 DEF DraftAt, Status
  <2> QED
    BY <1>1, <2>1, StatusOf, VolumeRowFields DEF Claimed
<1>4. CASE pc[r] \in {"wire", "unwire"}
  <2>1. draft.volume = db.volume
    BY <1>1, <1>4 DEF DraftAt, TablesOK, Tables
  <2> QED
    BY <2>1 DEF Claimed
<1> QED
  BY <1>2, <1>3, <1>4 DEF LockedSteps

\* An operation fails with its call not done.
LEMMA FailLvols ==
  ASSUME Inv, VolumeInv, LvolInv, MappingsStay, NEW r \in Requests, pc[r] \in TransientSteps,
         FailWrite(r, local[r].volume), UNCHANGED <<lvol, gateway>>, RpcFaults # {}
  PROVE  LvolInv'
<1> DEFINE v == local[r].volume
           t == SetStatus(draft, v, "error")
<1>1. /\ pc[r] \in LockedSteps \ {"commit"} /\ v \in Volumes /\ draft.volume[v] \in VolumeRow
      /\ TablesOK(draft) /\ TablesOK(db)
  BY OutstandingCall, Known DEF TransientSteps
<1>2. CASE local[r].persists
  <2>1. Written(r, t)
    BY <1>2 DEF FailWrite
  <2>2. draft.volume[v] # Null /\ "error" \in Status
    BY <1>1, VolumeRowFields DEF Status
  <2>3. /\ t.volume[v].bdev = draft.volume[v].bdev /\ t.volume[v].size = draft.volume[v].size
        /\ t.volume[v] # Null /\ t.mapping = draft.mapping
        /\ \A w \in Volumes \ {v} : t.volume[w] = draft.volume[w]
    BY <1>1, <2>2, StatusOf, VolumeRowFields
  <2> HIDE DEF t
  <2>4. \A w \in Volumes : lvol[w] = Claimed(db, w)
    BY <1>1, ShownTables, ActiveIsUp DEF LvolInv, LvolsClaimed, LockedSteps, Inv
  <2>5. \A w \in Volumes : Claimed(t, w) = Claimed(draft, w)
    BY <2>2, <2>3 DEF Claimed
  <2>6. \A w \in Volumes : Claimed(draft, w) = Claimed(db, w)
    BY <1>1, ClaimedInDraft
  <2> QED
    BY <1>1, <2>1, <2>3, <2>4, <2>5, <2>6, WriteLvols DEF LvolInv
<1>3. CASE ~local[r].persists
  BY <1>1, <1>3, RollbackLvols DEF FailWrite
<1> QED
  BY <1>2, <1>3

\* What the invariant says of the lvols in the middle of a transaction.
LEMMA LvolsSoFar ==
  ASSUME Inv, VolumeInv, LvolInv, NEW r \in Requests, pc[r] \in LockedSteps \ {"commit"}
  PROVE  /\ gateway = "up" /\ local[r].volume \in Volumes /\ TablesOK(draft) /\ TablesOK(db)
         /\ \A w \in Volumes : lvol[w] = Claimed(draft, w) /\ lvol[w] = Claimed(db, w)
         /\ RpcFaults = {} => NoErrors(draft)
         /\ "delete_mapping" \notin Operations => db.mapping \subseteq draft.mapping
BY Known, ShownTables, ClaimedInDraft, ActiveIsUp
   DEF LvolInv, LvolsClaimed, Unharmed, LockedSteps, Inv

\* create_volume draws a UUID and judges the name.
LEMMA CreateVolumeLvols ==
  ASSUME Inv, LvolInv, NEW r \in Requests, CreateVolume(r)
  PROVE  LvolInv'
<1>1. PICK l : GoTo(r, "insert_volume") /\ Remember(r, l)
  BY DEF CreateVolume
<1>2. pc'[r] = "insert_volume"
  BY <1>1, Moving
<1>3. Informed(r)'
  BY <1>2 DEF Informed, ExtendSteps
<1> QED
  BY <1>1, <1>3, LoadLvols DEF CreateVolume, Accepts, spdk, LockedSteps

\* create_volume flushes the new row.
LEMMA InsertVolumeLvols ==
  ASSUME Inv, VolumeInv, LvolInv, NEW r \in Requests, InsertVolume(r)
  PROVE  LvolInv'
<1> DEFINE t == SetRow(db, local[r].volume, local[r].seen)
<1>1. /\ pc[r] = "insert_volume" /\ BeginWrite(r, t, "provision") /\ UNCHANGED <<lvol, gateway>>
  BY DEF InsertVolume, spdk
<1>2. local[r].volume \in Volumes /\ TablesOK(db) /\ local[r].seen.status = "creating"
  BY <1>1, Known DEF VolumeInv, UuidsOnce, CreateSteps
<1>3. /\ t.volume[local[r].volume] = local[r].seen /\ t.mapping = db.mapping
      /\ \A w \in Volumes \ {local[r].volume} : t.volume[w] = db.volume[w]
  BY <1>2, RowOf
<1> HIDE DEF t
<1>4. RpcFaults = {} => NoErrors(t)
  BY <1>2, <1>3 DEF NoErrors, LvolInv, Unharmed
<1>5. pc'[r] = "provision"
  BY <1>1 DEF BeginWrite, GoTo, Inv, CoreInv
<1>6. Informed(r)'
  BY <1>5 DEF Informed, ExtendSteps
<1> QED
  BY <1>1, <1>3, <1>4, <1>6, BeginLvols DEF LockedSteps

\* create_volume has its lvol, or the row says error and there is none.
LEMMA ProvisionLvols ==
  ASSUME Inv, VolumeInv, LvolInv, NothingLost, MappingsStay, NEW r \in Requests, ProvisionVolume(r)
  PROVE  LvolInv'
<1> DEFINE v == local[r].volume
           row == local[r].seen
           t == SetRow(draft, v, Provisioned(row))
<1>1. /\ pc[r] = "provision" /\ pc[r] \in TransientSteps /\ pc[r] \in LockedSteps \ {"commit"}
      /\ gateway' = gateway
  BY DEF ProvisionVolume, TransientSteps, LockedSteps
<1>2. PICK outcome \in Outcomes :
        /\ lvol' = IF Done(outcome) /\ lvol[v] = 0
                   THEN [lvol EXCEPT ![v] = row.size] ELSE lvol
        /\ IF outcome = "ok" THEN Written(r, t) ELSE FailWrite(r, v)
  BY DEF ProvisionVolume
<1>3. /\ v \in Volumes /\ row \in VolumeRow /\ TablesOK(draft)
      /\ db.volume[v] = Null /\ lvol \in [Volumes -> 0..MaxSize]
  BY <1>1, OutstandingCall DEF VolumeInv, UuidsOnce, Unknown, CreateSteps, Inv, SupplyOK
<1>4. CASE outcome = "ok"
  <2>1. /\ Provisioned(row).bdev /\ Provisioned(row).size = row.size /\ Provisioned(row) # Null
        /\ Provisioned(row).status = "available"
    <3>1. Provisioned(row) \in VolumeRow
      BY <1>3 DEF Provisioned, VolumeRow, Status
    <3> QED
      BY <1>3, <3>1, VolumeRowFields DEF Provisioned, VolumeRow
  <2>2. /\ t.volume[v] = Provisioned(row) /\ t.mapping = draft.mapping
        /\ \A w \in Volumes \ {v} : t.volume[w] = draft.volume[w]
    BY <1>3, RowOf
  <2>3. Written(r, t)
    BY <1>2, <1>4
  <2> HIDE DEF t
  <2>4. lvol[v] = 0 /\ \A w \in Volumes : lvol[w] = Claimed(draft, w)
    BY <1>1, <1>3, LvolsSoFar DEF Claimed
  <2>5. \A w \in Volumes : lvol'[w] = Claimed(t, w)
    BY <1>2, <1>3, <1>4, <2>1, <2>2, <2>4 DEF Claimed, Done
  <2>6. RpcFaults = {} => NoErrors(t)
    BY <1>1, <2>1, <2>2, LvolsSoFar DEF NoErrors
  <2> QED
    BY <1>1, <2>2, <2>3, <2>5, <2>6, LvolsSoFar, WriteLvols
<1>5. CASE outcome # "ok"
  <2>1. outcome = "refused" /\ RpcFaults # {}
    BY <1>5, ConstantsAssumption DEF NothingLost, Outcomes
  <2> QED
    BY <1>1, <1>2, <1>5, <2>1, FailLvols DEF Done
<1> QED
  BY <1>4, <1>5

\* delete_volume loads the volume.
LEMMA DeleteVolumeLvols ==
  ASSUME Inv, LvolInv, NEW r \in Requests, DeleteVolume(r)
  PROVE  LvolInv'
<1>1. PICK v \in Volumes :
        /\ GoTo(r, "check_mappings")
        /\ Remember(r, [Blank EXCEPT !.volume = v, !.seen = db.volume[v],
                                     !.children = MappingsOf(db, v) # {}])
  BY DEF DeleteVolume
<1> DEFINE l == [Blank EXCEPT !.volume = v, !.seen = db.volume[v],
                              !.children = MappingsOf(db, v) # {}]
<1>2. l.volume = v /\ (l.children => Mapped(db, v))
  BY DEF Blank, Mapped, MappingsOf
<1>3. Remember(r, l)
  BY <1>1
<1> HIDE DEF l
<1>4. pc'[r] = "check_mappings" /\ local'[r] = l /\ db' = db
  BY <1>1, <1>3, Moving DEF DeleteVolume, tables
<1>5. Informed(r)'
  BY <1>2, <1>4 DEF Informed, ExtendSteps, Mapped
<1> QED
  BY <1>1, <1>3, <1>5, LoadLvols DEF DeleteVolume, Accepts, spdk, LockedSteps

\* delete_volume looks for mappings.
LEMMA CheckMappingsLvols ==
  ASSUME Inv, LvolInv, NEW r \in Requests, CheckMappings(r)
  PROVE  LvolInv'
<1>1. pc[r] = "check_mappings" /\ pc[r] \notin LockedSteps /\ UNCHANGED <<tables, lvol, gateway>>
  BY DEF CheckMappings, spdk, LockedSteps
<1>2. CASE Leave(r)
  BY <1>1, <1>2, LeaveLvols
<1>3. CASE /\ MappingsOf(db, local[r].volume) = {}
           /\ GoTo(r, "mark_deleting") /\ UNCHANGED local
  <2>1. ~local[r].children /\ Remember(r, local[r])
    BY <1>1, <1>3 DEF LvolInv, Informed, Mapped, MappingsOf, Remember, Inv, CoreInv
  <2>2. pc'[r] = "mark_deleting" /\ local'[r] = local[r]
    BY <1>3, <2>1, Moving
  <2>3. Informed(r)'
    BY <2>1, <2>2 DEF Informed, ExtendSteps
  <2> QED
    BY <1>1, <1>3, <2>1, <2>3, LoadLvols DEF LockedSteps
<1> QED
  BY <1>2, <1>3 DEF CheckMappings

\* Marking the row before the SPDK call.
LEMMA MarkLvols ==
  ASSUME Inv, LvolInv, NEW r \in Requests, UNCHANGED <<lvol, gateway>>,
         NEW status \in {"deleting", "extending"},
         NEW step, <<pc[r], step, status>> \in {<<"mark_deleting", "deprovision", "deleting">>,
                                        <<"mark_extending", "resize", "extending">>},
         db.volume[local[r].volume] # Null,
         BeginWrite(r, SetStatus(db, local[r].volume, status), step)
  PROVE  LvolInv'
<1> DEFINE v == local[r].volume
           t == SetStatus(db, v, status)
<1>1. pc[r] \in {"mark_deleting", "mark_extending"} /\ step \in {"deprovision", "resize"}
  OBVIOUS
<1>2. TablesOK(db) /\ v \in Volumes /\ status \in Status
  BY <1>1, Known DEF Status
<1>3. /\ t.volume[v].status = status /\ t.mapping = db.mapping
      /\ \A w \in Volumes \ {v} : t.volume[w] = db.volume[w]
  BY <1>2, StatusOf
<1>4. BeginWrite(r, t, step)
  OBVIOUS
<1> HIDE DEF t
<1>5. pc'[r] = step /\ local' = local /\ db' = db
  BY <1>4 DEF BeginWrite, GoTo, Inv, CoreInv
<1>6. Informed(r)'
  BY <1>1, <1>5 DEF LvolInv, Informed, ExtendSteps
<1>7. RpcFaults = {} => NoErrors(t)
  BY <1>3 DEF NoErrors, LvolInv, Unharmed
<1> QED
  BY <1>1, <1>3, <1>4, <1>6, <1>7, BeginLvols DEF LockedSteps

\* delete_volume and extend_volume flush the status.
LEMMA MarkingLvols ==
  ASSUME Inv, LvolInv, NEW r \in Requests, MarkDeleting(r) \/ MarkExtending(r)
  PROVE  LvolInv'
<1>1. /\ pc[r] \in {"mark_deleting", "mark_extending"} /\ pc[r] \notin LockedSteps
      /\ UNCHANGED <<lvol, gateway>>
  BY DEF MarkDeleting, MarkExtending, spdk, LockedSteps
<1>2. CASE db.volume[local[r].volume] = Null
  BY <1>1, <1>2, LeaveLvols DEF MarkDeleting, MarkExtending, StaleRow
<1>3. CASE db.volume[local[r].volume] # Null
  BY <1>1, <1>3, MarkLvols DEF MarkDeleting, MarkExtending
<1> QED
  BY <1>2, <1>3

\* The row goes, and its lvol is gone.
LEMMA EraseLvols ==
  ASSUME Inv, VolumeInv, LvolInv, NEW r \in Requests, pc[r] = "deprovision", EraseVolume(r),
         UNCHANGED gateway,
         lvol'[local[r].volume] = 0,
         \A w \in Volumes \ {local[r].volume} : lvol'[w] = lvol[w]
  PROVE  LvolInv'
<1> DEFINE v == local[r].volume
           t == SetRow(draft, v, Null)
<1>1. pc[r] \in LockedSteps \ {"commit"} /\ v \in Volumes /\ TablesOK(draft)
  BY OutstandingCall DEF TransientSteps
<1>2. Written(r, t)
  BY DEF EraseVolume, LvolInv, Informed
<1>3. /\ t.volume[v] = Null /\ t.mapping = draft.mapping
      /\ \A w \in Volumes \ {v} : t.volume[w] = draft.volume[w]
  BY <1>1, RowOf
<1> HIDE DEF t
<1>4. \A w \in Volumes : lvol'[w] = Claimed(t, w)
  BY <1>1, <1>3, LvolsSoFar DEF Claimed
<1>5. RpcFaults = {} => NoErrors(t)
  BY <1>1, <1>3, LvolsSoFar DEF NoErrors
<1> QED
  BY <1>1, <1>2, <1>3, <1>4, <1>5, LvolsSoFar, WriteLvols

\* delete_volume hears from SPDK: lvol and row are gone, or neither is.
LEMMA DeprovisionLvols ==
  ASSUME Inv, VolumeInv, LvolInv, NothingLost, MappingsStay, NEW r \in Requests, DeprovisionVolume(r)
  PROVE  LvolInv'
<1> DEFINE v == local[r].volume
<1>1. /\ pc[r] = "deprovision" /\ pc[r] \in TransientSteps /\ pc[r] \in LockedSteps \ {"commit"}
      /\ gateway' = gateway /\ v \in Volumes /\ lvol \in [Volumes -> 0..MaxSize]
  BY OutstandingCall DEF DeprovisionVolume, TransientSteps, LockedSteps, Inv, SupplyOK
<1>2. CASE local[r].seen.bdev
  <2>1. PICK outcome \in Outcomes :
          /\ lvol' = IF Done(outcome) THEN [lvol EXCEPT ![v] = 0] ELSE lvol
          /\ FinishDelete(r, outcome)
    BY <1>2 DEF DeprovisionVolume
  <2>2. CASE outcome = "ok"
    BY <1>1, <2>1, <2>2, EraseLvols DEF FinishDelete, Done
  <2>3. CASE outcome # "ok"
    <3>1. outcome = "refused" /\ RpcFaults # {}
      BY <2>3, ConstantsAssumption DEF NothingLost, Outcomes
    <3> QED
      BY <1>1, <2>1, <2>3, <3>1, FailLvols DEF FinishDelete, Done
  <2> QED
    BY <2>2, <2>3
<1>3. CASE ~local[r].seen.bdev
  <2>1. lvol[v] = 0
    <3>1. SameBdev(db, local[r]) /\ lvol[v] = Claimed(db, v)
      BY <1>1, LvolsSoFar DEF VolumeInv, BdevKept, DeleteSteps
    <3> QED
      BY <1>3, <3>1 DEF SameBdev, Claimed
  <2> QED
    BY <1>1, <1>3, <2>1, EraseLvols DEF DeprovisionVolume, spdk
<1> QED
  BY <1>2, <1>3

\* extend_volume judges the new size.
LEMMA ExtendVolumeLvols ==
  ASSUME Inv, VolumeInv, LvolInv, NEW r \in Requests, ExtendVolume(r)
  PROVE  LvolInv'
<1>1. PICK v \in Volumes, size \in 1..MaxSize, p \in BOOLEAN :
        /\ db.volume[v] # Null
        /\ GoTo(r, "mark_extending")
        /\ Remember(r, [Blank EXCEPT !.volume = v, !.seen = db.volume[v],
                                     !.size = size, !.persists = p])
  BY DEF ExtendVolume
<1> DEFINE l == [Blank EXCEPT !.volume = v, !.seen = db.volume[v],
                              !.size = size, !.persists = p]
<1>2. l.seen = db.volume[v]
  BY DEF Blank
<1>3. Remember(r, l)
  BY <1>1
<1> HIDE DEF l
<1>4. pc'[r] = "mark_extending" /\ local'[r] = l
  BY <1>1, <1>3, Moving
<1>5. RpcFaults = {} => l.seen.bdev
  BY <1>1, <1>2
     DEF LvolInv, Unharmed, NoErrors, VolumeInv, BdevKept, OfferedIn, Inv, CoreInv, SettledBut,
         Settled
<1>6. Informed(r)'
  BY <1>4, <1>5 DEF Informed
<1> QED
  BY <1>1, <1>3, <1>6, LoadLvols DEF ExtendVolume, Accepts, spdk, LockedSteps

\* extend_volume hears from SPDK: lvol and row have the new size, or neither has.
LEMMA ResizeLvols ==
  ASSUME Inv, VolumeInv, LvolInv, NothingLost, MappingsStay, NEW r \in Requests, ResizeVolume(r)
  PROVE  LvolInv'
<1> DEFINE v == local[r].volume
           size == local[r].size
           t == Extended(draft, v, size)
           exists == local[r].seen.bdev /\ lvol[v] # 0
<1>1. /\ pc[r] = "resize" /\ pc[r] \in TransientSteps /\ pc[r] \in LockedSteps \ {"commit"}
      /\ gateway' = gateway
  BY DEF ResizeVolume, TransientSteps, LockedSteps
<1>2. /\ v \in Volumes /\ size \in 1..MaxSize /\ TablesOK(draft) /\ TablesOK(db)
      /\ draft.volume[v] # Null /\ db.volume[v] # Null
      /\ lvol \in [Volumes -> 0..MaxSize]
  BY <1>1, Known, OutstandingCall, VolumeRowFields
     DEF VolumeInv, DraftKnown, DraftAt, Inv, SupplyOK
<1>3. CASE exists /\ lvol' = [lvol EXCEPT ![v] = size] /\ Written(r, t)
  <2>1. /\ t.volume[v].bdev = draft.volume[v].bdev /\ t.volume[v].size = size
        /\ t.volume[v] # Null /\ t.volume[v].status = "available"
        /\ t.mapping = draft.mapping
        /\ \A w \in Volumes \ {v} : t.volume[w] = draft.volume[w]
    BY <1>2, ExtendedOf
  <2>2. draft.volume[v].bdev
    BY <1>1, <1>2, <1>3 DEF VolumeInv, BdevKept, HasBdev, ExtendSteps
  <2>3. Written(r, t) /\ lvol' = [lvol EXCEPT ![v] = size]
    BY <1>3
  <2> HIDE DEF t
  <2>4. ASSUME NEW w \in Volumes PROVE lvol'[w] = Claimed(t, w)
    <3>1. CASE w = v
      BY <1>2, <2>1, <2>2, <2>3, <3>1 DEF Claimed
    <3>2. CASE w # v
      <4>1. lvol'[w] = lvol[w] /\ t.volume[w] = draft.volume[w]
        BY <1>2, <2>1, <2>3, <3>2
      <4>2. lvol[w] = Claimed(draft, w)
        BY <1>1, LvolsSoFar
      <4> QED
        BY <4>1, <4>2 DEF Claimed
    <3> QED
      BY <3>1, <3>2
  <2>5. RpcFaults = {} => NoErrors(t)
    BY <1>1, <2>1, LvolsSoFar DEF NoErrors
  <2> QED
    BY <1>1, <2>1, <2>3, <2>4, <2>5, LvolsSoFar, WriteLvols
<1>4. CASE ~exists \/ RpcFaults # {}
  <2>1. RpcFaults # {}
    <3>1. SUFFICES ASSUME RpcFaults = {} PROVE exists
      BY <1>4
    <3>2. local[r].seen.bdev
      BY <1>1, <3>1 DEF LvolInv, Informed, ExtendSteps
    <3>3. db.volume[v].bdev /\ db.volume[v] \in VolumeRow
      BY <1>1, <1>2, <3>2 DEF VolumeInv, BdevKept, HasBdev, ExtendSteps, TablesOK, Tables
    <3>4. lvol[v] = db.volume[v].size
      BY <1>1, <1>2, <3>3, LvolsSoFar DEF Claimed
    <3>5. lvol[v] # 0
      BY <3>3, <3>4, ConstantsAssumption DEF VolumeRow
    <3> QED
      BY <3>2, <3>5
  <2>2. CASE FailWrite(r, v) /\ UNCHANGED lvol
    BY <1>1, <2>1, <2>2, FailLvols
  <2> QED
    BY <1>3, <2>2 DEF ResizeVolume, NothingLost
<1> QED
  BY <1>3, <1>4 DEF ResizeVolume, NothingLost

\* create_mapping loads its rows.
LEMMA MappingLvols ==
  ASSUME Inv, LvolInv, NEW r \in Requests, CreateMapping(r) \/ MkVdiskHostMap(r)
  PROVE  LvolInv'
<1>1. PICK l : /\ GoTo(r, "allocate_ids") /\ Remember(r, l)
               /\ UNCHANGED <<tables, lvol, gateway>>
  BY DEF CreateMapping, MkVdiskHostMap, LoadForMapping, spdk
<1>2. pc'[r] = "allocate_ids"
  BY <1>1, Moving
<1>3. Informed(r)'
  BY <1>2 DEF Informed, ExtendSteps
<1> QED
  BY <1>1, <1>3, LoadLvols DEF CreateMapping, MkVdiskHostMap, Accepts, LockedSteps

\* create_mapping picks its numbers.
LEMMA AllocateIdsLvols ==
  ASSUME Inv, LvolInv, NEW r \in Requests, AllocateIds(r)
  PROVE  LvolInv'
<1>1. /\ pc[r] = "allocate_ids" /\ pc[r] \notin LockedSteps
      /\ GoTo(r, "insert_mapping") /\ UNCHANGED <<tables, lvol, gateway>>
  BY DEF AllocateIds, spdk, LockedSteps
<1>2. PICK l : local' = [local EXCEPT ![r] = l]
  <2>1. local \in [Requests -> Local]
    BY DEF Inv, CoreInv
  <2> DEFINE old == local[r]
             l == [old EXCEPT
               !.row.lun = AllocateLun(UsedLuns(db, old.row.host, old.row.persona)),
               !.row.uid = AllocateUid(db, old.row.underlay)]
  <2>2. local' = [local EXCEPT ![r] = l]
    BY <2>1 DEF AllocateIds
  <2> QED
    BY <2>2
<1>3. pc'[r] = "insert_mapping"
  BY <1>1 DEF GoTo, Inv, CoreInv
<1>4. Informed(r)'
  BY <1>3 DEF Informed, ExtendSteps
<1> QED
  BY <1>1, <1>2, <1>4, LoadLvols DEF Remember, LockedSteps

\* create_mapping flushes the new row.
LEMMA InsertMappingLvols ==
  ASSUME Inv, LvolInv, NEW r \in Requests, InsertMapping(r)
  PROVE  LvolInv'
<1> DEFINE t == [db EXCEPT !.mapping = @ \cup {local[r].row}]
<1>1. /\ pc[r] = "insert_mapping" /\ BeginWrite(r, t, "wire") /\ UNCHANGED <<lvol, gateway>>
  BY DEF InsertMapping, spdk
<1>2. t.volume = db.volume /\ t.mapping = db.mapping \cup {local[r].row}
  BY Known, MappingsOnly
<1> HIDE DEF t
<1>3. RpcFaults = {} => NoErrors(t)
  BY <1>2 DEF NoErrors, LvolInv, Unharmed
<1>4. pc'[r] = "wire"
  BY <1>1 DEF BeginWrite, GoTo, Inv, CoreInv
<1>5. Informed(r)'
  BY <1>4 DEF Informed, ExtendSteps
<1> QED
  BY <1>1, <1>2, <1>3, <1>5, BeginLvols DEF LockedSteps

\* The status that a mapping operation writes.
LEMMA SettleLvols ==
  ASSUME Inv, VolumeInv, LvolInv, MappingsStay, NEW r \in Requests, pc[r] \in {"wire", "unwire"},
         NEW t, TablesOK(t), t.volume = draft.volume,
         "delete_mapping" \notin Operations => db.mapping \subseteq t.mapping,
         NEW status \in {"available", "in_use"}, SettleStatus(r, t, status) \/ Written(r, t),
         UNCHANGED <<lvol, gateway>>
  PROVE  LvolInv'
<1> DEFINE v == local[r].volume
           u == SetStatus(t, v, status)
<1>1. pc[r] \in LockedSteps \ {"commit"}
  BY DEF LockedSteps
<1>2. /\ v \in Volumes /\ \A w \in Volumes : lvol[w] = Claimed(t, w)
      /\ RpcFaults = {} => NoErrors(t)
  BY <1>1, LvolsSoFar DEF Claimed, NoErrors
<1>3. CASE Written(r, t)
  BY <1>1, <1>2, <1>3, WriteLvols
<1>4. CASE Rollback(r)
  BY <1>1, <1>4, RollbackLvols
<1>5. CASE t.volume[v] # Null /\ Written(r, u)
  <2>1. status \in Status
    BY DEF Status
  <2>2. /\ u.volume[v].bdev = t.volume[v].bdev /\ u.volume[v].size = t.volume[v].size
        /\ u.volume[v].status = status /\ u.volume[v] # Null
        /\ u.mapping = t.mapping
        /\ \A w \in Volumes \ {v} : u.volume[w] = t.volume[w]
    <3>1. v \in Volumes /\ t.volume[v] # Null
      BY <1>2, <1>5
    <3> HIDE DEF v
    <3> QED
      BY <2>1, <3>1, StatusOf
  <2>3. Written(r, u)
    BY <1>5
  <2> HIDE DEF u
  <2>4. \A w \in Volumes : Claimed(u, w) = Claimed(t, w)
    BY <1>5, <2>2 DEF Claimed
  <2>5. RpcFaults = {} => NoErrors(u)
    BY <1>2, <2>2 DEF NoErrors
  <2> QED
    BY <1>1, <1>2, <2>2, <2>3, <2>4, <2>5, WriteLvols
<1> QED
  BY <1>3, <1>4, <1>5 DEF SettleStatus

\* create_mapping hears from SPDK.
LEMMA WireLvols ==
  ASSUME Inv, VolumeInv, LvolInv, MappingsStay, NEW r \in Requests, WireMapping(r)
  PROVE  LvolInv'
<1>1. pc[r] = "wire" /\ pc[r] \in LockedSteps \ {"commit"} /\ UNCHANGED <<lvol, gateway>>
  BY DEF WireMapping, LockedSteps
<1>2. SettleStatus(r, draft, "in_use") \/ Rollback(r)
  BY DEF WireMapping
<1> QED
  BY <1>1, <1>2, SettleLvols, RollbackLvols, LvolsSoFar

\* delete_mapping loads its rows.
LEMMA DeleteMappingLvols ==
  ASSUME Inv, LvolInv, NEW r \in Requests, DeleteMapping(r)
  PROVE  LvolInv'
<1>1. PICK l : GoTo(r, "mark_detached") /\ Remember(r, l)
  BY DEF DeleteMapping
<1>2. pc'[r] = "mark_detached"
  BY <1>1, Moving
<1>3. Informed(r)'
  BY <1>2 DEF Informed, ExtendSteps, DeleteMapping, Accepts
<1> QED
  BY <1>1, <1>3, LoadLvols DEF DeleteMapping, Accepts, spdk, LockedSteps

\* delete_mapping flushes the desired state.
LEMMA MarkDetachedLvols ==
  ASSUME Inv, LvolInv, NEW r \in Requests, MarkDetached(r)
  PROVE  LvolInv'
<1>1. pc[r] = "mark_detached" /\ pc[r] \notin LockedSteps /\ UNCHANGED <<lvol, gateway>>
  BY DEF MarkDetached, spdk, LockedSteps
<1>2. CASE StaleRow(r)
  BY <1>1, <1>2, LeaveLvols DEF StaleRow
<1>3. CASE BeginWrite(r, db, "unwire")
  <2>1. pc'[r] = "unwire"
    BY <1>3 DEF BeginWrite, GoTo, Inv, CoreInv
  <2>2. Informed(r)'
    BY <1>1, <2>1 DEF LvolInv, Informed, ExtendSteps
  <2> QED
    BY <1>1, <1>3, <2>2, BeginLvols DEF LockedSteps, LvolInv, Unharmed
<1> QED
  BY <1>2, <1>3 DEF MarkDetached

\* delete_mapping hears from SPDK and erases the row.
LEMMA UnwireLvols ==
  ASSUME Inv, VolumeInv, LvolInv, MappingsStay, NEW r \in Requests, UnwireMapping(r)
  PROVE  LvolInv'
<1> DEFINE rest == [draft EXCEPT !.mapping = @ \ {local[r].row}]
<1>1. /\ pc[r] = "unwire" /\ pc[r] \in LockedSteps \ {"commit"} /\ UNCHANGED <<lvol, gateway>>
      /\ TablesOK(draft)
  BY Known DEF UnwireMapping, LockedSteps
<1>2. rest.volume = draft.volume /\ rest.mapping = draft.mapping \ {local[r].row}
  BY <1>1, MappingsOnly
<1>3. TablesOK(rest)
  <2>1. IsFiniteSet(draft.mapping \ {local[r].row})
    BY <1>1, FS_RemoveElement DEF TablesOK
  <2> QED
    BY <1>1, <1>2, <2>1 DEF TablesOK, Tables
<1>4. Rollback(r) \/ Written(r, rest) \/ SettleStatus(r, rest, "available")
  BY DEF UnwireMapping, EraseMapping
<1>5. "delete_mapping" \in Operations
  BY <1>1 DEF LvolInv, Informed
<1> HIDE DEF rest
<1> QED
  BY <1>1, <1>2, <1>3, <1>4, <1>5, SettleLvols, RollbackLvols

\* A request commits, or waits for the lock in vain.
LEMMA EndLvols ==
  ASSUME Inv, LvolInv, MappingsStay, NEW r \in Requests, Commit(r) \/ LockTimeout(r)
  PROVE  LvolInv'
<1>1. CASE Commit(r)
  <2>1. pc[r] = "commit" /\ pc[r] \in LockedSteps
    BY <1>1 DEF Commit, LockedSteps
  <2>2. Shown = draft
    BY <2>1, ShownTables
  <2> QED
    BY <1>1, <2>1, <2>2, ReleaseLvols DEF Commit, spdk
<1>2. CASE LockTimeout(r)
  BY <1>2, LeaveLvols DEF LockTimeout, spdk, FlushSteps, LockedSteps
<1> QED
  BY <1>1, <1>2

\* A reboot takes the lvols and the transaction.
LEMMA DisruptionLvols ==
  ASSUME Inv, LvolInv, NothingLost, GatewayCrash \/ SpdkRestart \/ HostReboot
  PROVE  LvolInv'
<1>1. HostReboot /\ Disruptions # {}
  BY DEF NothingLost, GatewayCrash, SpdkRestart, HostReboot
<1>2. /\ db' = db /\ draft' = db /\ gateway' = "down"
      /\ \A v \in Volumes : lvol'[v] = 0
      /\ \A r \in Requests : pc'[r] = "idle"
  BY <1>1 DEF HostReboot, GatewayDies, SpdkDies
<1> QED
  BY <1>1, <1>2 DEF LvolInv, LvolsClaimed, Unharmed, NoErrors, Informed, ExtendSteps

\* reconcile makes an lvol for each volume in the tables, and no other change.
LEMMA StartupMakes ==
  ASSUME Inv, LvolInv, NothingLost, Startup
  PROVE  /\ RpcFaults = {} /\ NoErrors(db) /\ db'.mapping = db.mapping
         /\ \A v \in Volumes : db.volume[v] # Null =>
              /\ db'.volume[v] # Null /\ db'.volume[v].bdev
              /\ db'.volume[v].size = db.volume[v].size
              /\ db'.volume[v].status = db.volume[v].status
         /\ \A v \in Volumes : db.volume[v] = Null => db'.volume[v] = Null
         /\ \A v \in Volumes : lvol'[v] = IF db.volume[v] # Null THEN db.volume[v].size ELSE 0
<1>1. RpcFaults = {} /\ NoErrors(db)
  BY DEF Startup, LvolInv, Unharmed, NothingLost
<1>2. PICK ensured, made \in SUBSET {v \in Volumes : Healthy(v)} :
        /\ ensured \subseteq made
        /\ "lost" \notin RpcFaults => made = ensured
        /\ RpcFaults = {} => \A v \in Volumes : Healthy(v) => v \in ensured
        /\ lvol' = [v \in Volumes |-> IF v \in made /\ lvol[v] = 0
                                      THEN db.volume[v].size ELSE lvol[v]]
        /\ db' = [db EXCEPT !.volume = [v \in Volumes |->
                     IF v \in ensured THEN [db.volume[v] EXCEPT !.bdev = TRUE]
                                      ELSE db.volume[v]]]
  BY Zenon DEF Startup
<1>3. /\ gateway = "down" /\ draft' = db' /\ gateway' = "up" /\ writer' = writer /\ writer = Null
      /\ \A r \in Requests : pc'[r] = "idle"
  BY DEF Startup, requests, Inv, CoreInv
<1>4. TablesOK(db)
  BY Known
<1>5. /\ db'.mapping = db.mapping
      /\ \A v \in Volumes : db'.volume[v] = IF v \in ensured THEN [db.volume[v] EXCEPT !.bdev = TRUE]
                                                             ELSE db.volume[v]
  BY <1>2, <1>4 DEF TablesOK, Tables
<1>6. \A v \in Volumes : v \in ensured <=> db.volume[v] # Null
  BY <1>1, <1>2 DEF Healthy, NoErrors
<1>7. \A v \in Volumes : db.volume[v] # Null =>
        /\ db'.volume[v] # Null /\ db'.volume[v].bdev
        /\ db'.volume[v].size = db.volume[v].size
        /\ db'.volume[v].status = db.volume[v].status
  <2> SUFFICES ASSUME NEW v \in Volumes, db.volume[v] # Null
               PROVE  /\ db'.volume[v] # Null /\ db'.volume[v].bdev
                      /\ db'.volume[v].size = db.volume[v].size
                      /\ db'.volume[v].status = db.volume[v].status
    OBVIOUS
  <2>1. db.volume[v] \in VolumeRow
    BY <1>4 DEF TablesOK, Tables
  <2>2. db'.volume[v] = [db.volume[v] EXCEPT !.bdev = TRUE]
    BY <1>5, <1>6
  <2>3. [db.volume[v] EXCEPT !.bdev = TRUE] # Null
    BY <2>1, FlaggedRow, VolumeRowFields
  <2>4. /\ [db.volume[v] EXCEPT !.bdev = TRUE].bdev
        /\ [db.volume[v] EXCEPT !.bdev = TRUE].size = db.volume[v].size
        /\ [db.volume[v] EXCEPT !.bdev = TRUE].status = db.volume[v].status
    BY <2>1, FlaggedRow
  <2> QED
    BY <2>2, <2>3, <2>4
<1>8. \A v \in Volumes : lvol'[v] = IF db.volume[v] # Null THEN db.volume[v].size ELSE 0
  BY <1>1, <1>2, <1>3, <1>6 DEF LvolInv, LvolsClaimed
<1> QED
  BY <1>1, <1>5, <1>6, <1>7, <1>8

\* reconcile makes the lvols that the tables claim.
LEMMA StartupLvols ==
  ASSUME Inv, LvolInv, NothingLost, Startup
  PROVE  LvolInv'
<1>1. /\ draft' = db' /\ gateway' = "up" /\ writer' = Null
      /\ \A r \in Requests : pc'[r] = "idle"
  BY DEF Startup, requests, Inv, CoreInv
<1>2. LvolsClaimed'
  <2>1. Shown' = db'
    BY <1>1 DEF Shown
  <2>2. \A v \in Volumes : Claimed(db', v) = IF db.volume[v] # Null THEN db.volume[v].size ELSE 0
    BY StartupMakes DEF Claimed
  <2> QED
    BY <1>1, <2>1, <2>2, StartupMakes DEF LvolsClaimed
<1>3. Unharmed'
  BY <1>1, StartupMakes DEF Unharmed, NoErrors
<1> QED
  BY <1>1, <1>2, <1>3 DEF LvolInv, Informed, ExtendSteps

\* At first there is no lvol.
LEMMA InitLvols == Init => LvolInv
BY DEF Init, LvolInv, LvolsClaimed, Claimed, Shown, Unharmed, NoErrors, Informed, ExtendSteps

\* LvolInv is inductive, given Inv and VolumeInv.
LEMMA NextLvols ==
  ASSUME NothingLost, MappingsStay
  PROVE  Inv /\ VolumeInv /\ LvolInv /\ [Next]_vars => LvolInv'
<1> SUFFICES ASSUME Inv, VolumeInv, LvolInv, [Next]_vars PROVE LvolInv'
  OBVIOUS
<1>1. ASSUME NEW r \in Requests, Begin(r) PROVE LvolInv'
  BY <1>1, CreateVolumeLvols, DeleteVolumeLvols, ExtendVolumeLvols, MappingLvols,
     DeleteMappingLvols DEF Begin
<1>2. ASSUME NEW r \in Requests, Continue(r) PROVE LvolInv'
  <2>1. CASE InsertVolume(r) \/ ProvisionVolume(r)
    BY <2>1, InsertVolumeLvols, ProvisionLvols
  <2>2. CASE CheckMappings(r) \/ MarkDeleting(r) \/ DeprovisionVolume(r)
    BY <2>2, CheckMappingsLvols, MarkingLvols, DeprovisionLvols
  <2>3. CASE MarkExtending(r) \/ ResizeVolume(r)
    BY <2>3, MarkingLvols, ResizeLvols
  <2>4. CASE AllocateIds(r) \/ InsertMapping(r) \/ WireMapping(r)
    BY <2>4, AllocateIdsLvols, InsertMappingLvols, WireLvols
  <2>5. CASE MarkDetached(r) \/ UnwireMapping(r)
    BY <2>5, MarkDetachedLvols, UnwireLvols
  <2>6. CASE Commit(r) \/ LockTimeout(r)
    BY <2>6, EndLvols
  <2> QED
    BY <1>2, <2>1, <2>2, <2>3, <2>4, <2>5, <2>6 DEF Continue
<1>3. CASE GatewayCrash \/ SpdkRestart \/ HostReboot
  BY <1>3, DisruptionLvols
<1>4. CASE Startup
  BY <1>4, StartupLvols
<1>5. CASE UNCHANGED vars
  BY <1>5
     DEF vars, tables, requests, supply, spdk, LvolInv, LvolsClaimed, Claimed, Shown, Unharmed,
       NoErrors, Informed, Mapped
<1> QED
  BY <1>1, <1>2, <1>3, <1>4, <1>5 DEF Next

\* Where nothing is lost: SPDK holds exactly the lvols that the tables claim.
THEOREM LvolInvariance ==
  ASSUME NothingLost, MappingsStay
  PROVE  Spec => [](Inv /\ VolumeInv /\ LvolInv)
<1>1. Init => Inv /\ VolumeInv /\ LvolInv
  BY InitInv, InitVolumes, InitLvols
<1>2. Inv /\ VolumeInv /\ LvolInv /\ [Next]_vars => (Inv /\ VolumeInv /\ LvolInv)'
  BY NextInv, NextVolumes, NextLvols
<1> QED
  BY <1>1, <1>2, PTL DEF Spec

\* Where nothing is lost, a recorded volume has its lvol, of the recorded size,
\* but for the moment before the commit (volumes.py:98-101, 169-178, 201-204).
THEOREM RecordedAlwaysProvisioned ==
  ASSUME NothingLost, MappingsStay
  PROVE  Spec => []RecordedIsProvisioned
<1>1. Inv /\ VolumeInv /\ LvolInv => RecordedIsProvisioned
  <2> SUFFICES ASSUME Inv, VolumeInv, LvolInv, gateway = "up", NEW v \in Volumes
               PROVE  LvolMatches(db, v) \/ (writer # Null /\ pc[writer] = "commit" /\ LvolMatches(draft, v))
    BY DEF RecordedIsProvisioned
  <2>1. ASSUME NEW t \in {db, draft}, SettledBut(t, {}), Shown = t PROVE LvolMatches(t, v)
    <3> SUFFICES ASSUME t.volume[v] # Null, t.volume[v].status # "error"
                 PROVE  lvol[v] = t.volume[v].size
      BY DEF LvolMatches
    <3>1. t.volume[v].bdev
      BY <2>1 DEF SettledBut, Settled, VolumeInv, BdevKept, OfferedIn
    <3> QED
      BY <2>1, <3>1 DEF LvolInv, LvolsClaimed, Claimed
  <2>2. CASE writer # Null /\ pc[writer] = "commit"
    <3>1. SettledBut(draft, {})
      BY <2>2 DEF Inv, CoreInv, RequestOK, Transient, TransientSteps, LockedSteps
    <3> QED
      BY <2>1, <2>2, <3>1 DEF Shown
  <2>3. CASE ~(writer # Null /\ pc[writer] = "commit")
    BY <2>1, <2>3 DEF Shown, Inv, CoreInv
  <2> QED
    BY <2>2, <2>3
<1> QED
  BY <1>1, LvolInvariance, PTL

\* Where nothing is lost, no lvol is left that no row claims, whichever requests
\* fail or time out in between (volumes.py:101-109, 169-178).
THEOREM NeverOrphanLvol ==
  ASSUME NothingLost, MappingsStay
  PROVE  Spec => []NoOrphanLvol
<1>1. LvolInv => NoOrphanLvol
  BY DEF LvolInv, LvolsClaimed, Claimed, Shown, NoOrphanLvol, Exists
<1> QED
  BY <1>1, LvolInvariance, PTL
=============================================================================
