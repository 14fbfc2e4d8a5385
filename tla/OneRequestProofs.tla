-------------------------- MODULE OneRequestProofs --------------------------
(***************************************************************************)
(* What holds of requests that run one at a time, whichever fail and       *)
(* whenever a process crashes: names, LUNs and targets' numbers are        *)
(* unique, mappings are of volumes, sizes grow, and the committed tables   *)
(* implement the abstract specification Provisioning.  And where SPDK does *)
(* what it is asked, it exports what the tables record (ExportInv).        *)
(*                                                                         *)
(* The hypothesis is OneRequest.  No code makes it true: what two requests *)
(* at one time can do to each of these is in the README.                   *)
(*                                                                         *)
(* The inductive invariant OneInv says what the request under way knows of *)
(* the committed tables, which nobody else can change, and that its draft, *)
(* once it is about to be committed, advances them by one operation of     *)
(* Provisioning (Advances).                                                *)
(***************************************************************************)
EXTENDS GatewayCoreProofs

OneRequest == \A r, s \in Requests : r = s

-----------------------------------------------------------------------------
\* What is right of one state t of the tables.

NameIn(t, name) == \E v \in Volumes : t.volume[v] # Null /\ t.volume[v].name = name

NamesOK(t) == \A v, w \in Volumes :
  t.volume[v] # Null /\ t.volume[w] # Null /\ t.volume[v].name = t.volume[w].name => v = w

LunsOK(t) == \A m, n \in t.mapping : m # n =>
  /\ ~(m.host = n.host /\ m.persona = n.persona /\ m.lun = n.lun)
  /\ ~(m.underlay = n.underlay /\ m.uid = n.uid)

NoDangling(t) == \A m \in t.mapping : t.volume[m.volume] # Null

Orderly(t) == NamesOK(t) /\ LunsOK(t) /\ NoDangling(t)

InUseMapped(t) == \A v \in Volumes :
  t.volume[v] # Null /\ t.volume[v].status = "in_use" => Mapped(t, v)

-----------------------------------------------------------------------------
\* One operation takes the tables from t to u.

\* Rows that clients of Provisioning see no difference between.
SameRow(a, b) == (a = Null <=> b = Null) /\ (a # Null => a.name = b.name /\ a.size = b.size)
SameBut(t, u, but) == \A w \in Volumes \ but : SameRow(t.volume[w], u.volume[w])

\* m is of a volume and has the numbers that are next, and free.
Fits(t, m) ==
  /\ t.volume[m.volume] # Null
  /\ m.lun \notin UsedLuns(t, m.host, m.persona)
  /\ \A k \in 0..m.lun : k # m.lun => k \in UsedLuns(t, m.host, m.persona)
  /\ m.uid \notin UsedUids(t, m.underlay)

Creates(t, u) == \E v \in Volumes :
  /\ t.volume[v] = Null /\ u.volume[v] # Null /\ ~NameIn(t, u.volume[v].name)
  /\ SameBut(t, u, {v}) /\ u.mapping = t.mapping
Extends(t, u) == \E v \in Volumes :
  /\ t.volume[v] # Null /\ u.volume[v] # Null
  /\ u.volume[v].name = t.volume[v].name /\ u.volume[v].size > t.volume[v].size
  /\ SameBut(t, u, {v}) /\ u.mapping = t.mapping
Deletes(t, u) == \E v \in Volumes :
  /\ ~Mapped(t, v) /\ u.volume[v] = Null
  /\ SameBut(t, u, {v}) /\ u.mapping = t.mapping
Attaches(t, u) == \E m \in u.mapping :
  /\ Fits(t, m) /\ SameBut(t, u, {}) /\ u.mapping = t.mapping \cup {m}
Detaches(t, u) == \E m \in t.mapping : SameBut(t, u, {}) /\ u.mapping = t.mapping \ {m}
Keeps(t, u) == SameBut(t, u, {}) /\ u.mapping = t.mapping

Advances(t, u) ==
  \/ Creates(t, u) \/ Extends(t, u) \/ Deletes(t, u)
  \/ Attaches(t, u) \/ Detaches(t, u) \/ Keeps(t, u)

-----------------------------------------------------------------------------
\* What request r knows of the committed tables, step by step.
Aware(r) ==
  LET l == local[r]
  IN /\ pc[r] \in CreateSteps => ~NameIn(db, l.seen.name)
     /\ pc[r] \in {"mark_deleting", "deprovision"} => ~Mapped(db, l.volume)
     /\ pc[r] \in ExtendSteps \cup MappingSteps =>
          db.volume[l.volume] # Null /\ l.seen = db.volume[l.volume]
     /\ pc[r] \in ExtendSteps => l.size > l.seen.size
     /\ pc[r] \in {"insert_mapping", "wire"} => Fits(db, l.row)
     /\ pc[r] \in {"mark_detached", "unwire"} => l.row \in db.mapping
     /\ pc[r] = "commit" => Advances(db, draft) /\ InUseMapped(draft)

OneInv == Orderly(db) /\ InUseMapped(db) /\ \A r \in Requests : Aware(r)

-----------------------------------------------------------------------------
\* Operations keep names unique.
LEMMA AdvancesNames ==
  ASSUME NEW t, NEW u, NamesOK(t), Advances(t, u)
  PROVE  NamesOK(u)
<1>1. ASSUME SameBut(t, u, {}) PROVE NamesOK(u)
  BY <1>1 DEF SameBut, SameRow, NamesOK
<1>2. CASE Creates(t, u)
  BY <1>2 DEF Creates, SameBut, SameRow, NamesOK, NameIn
<1>3. CASE Extends(t, u)
  BY <1>3 DEF Extends, SameBut, SameRow, NamesOK
<1>4. CASE Deletes(t, u)
  BY <1>4 DEF Deletes, SameBut, SameRow, NamesOK
<1> QED
  BY <1>1, <1>2, <1>3, <1>4 DEF Advances, Attaches, Detaches, Keeps

\* Neither of two rows fits beside the other with a number it has.
LEMMA FitsBeside ==
  ASSUME NEW t, NEW m, Fits(t, m), NEW n \in t.mapping
  PROVE  /\ ~(m.host = n.host /\ m.persona = n.persona /\ m.lun = n.lun)
         /\ ~(m.underlay = n.underlay /\ m.uid = n.uid)
BY DEF Fits, UsedLuns, UsedUids

\* Operations keep LUNs and numbers unique.
LEMMA AdvancesLuns ==
  ASSUME NEW t, NEW u, LunsOK(t), Advances(t, u)
  PROVE  LunsOK(u)
<1>1. CASE u.mapping \subseteq t.mapping
  BY <1>1 DEF LunsOK
<1>2. CASE Attaches(t, u)
  <2>1. PICK m \in u.mapping : Fits(t, m) /\ u.mapping = t.mapping \cup {m}
    BY <1>2 DEF Attaches
  <2> QED
    BY <2>1, FitsBeside DEF LunsOK
<1> QED
  BY <1>1, <1>2 DEF Advances, Creates, Extends, Deletes, Detaches, Keeps

\* Operations leave no mapping without its volume.
LEMMA AdvancesDangling ==
  ASSUME NEW t, TablesOK(t), NEW u, TablesOK(u), NoDangling(t), Advances(t, u)
  PROVE  NoDangling(u)
<1>1. \A m \in t.mapping \cup u.mapping : m.volume \in Volumes
  BY DEF TablesOK, Tables, MappingRow
<1>2. ASSUME SameBut(t, u, {}), NEW m \in u.mapping, t.volume[m.volume] # Null, m.volume \in Volumes
      PROVE  u.volume[m.volume] # Null
  BY <1>2 DEF SameBut, SameRow
<1>3. CASE Attaches(t, u)
  <2>1. PICK m \in u.mapping : /\ Fits(t, m) /\ SameBut(t, u, {})
                               /\ u.mapping = t.mapping \cup {m}
    BY <1>3 DEF Attaches
  <2> QED
    BY <1>1, <1>2, <2>1 DEF NoDangling, Fits
<1>4. CASE Detaches(t, u) \/ Keeps(t, u)
  BY <1>1, <1>2, <1>4 DEF Detaches, Keeps, NoDangling
<1>5. CASE Creates(t, u)
  BY <1>1, <1>5 DEF Creates, SameBut, SameRow, NoDangling
<1>6. CASE Extends(t, u)
  BY <1>1, <1>6 DEF Extends, SameBut, SameRow, NoDangling
<1>7. CASE Deletes(t, u)
  BY <1>1, <1>7 DEF Deletes, SameBut, SameRow, NoDangling, Mapped
<1> QED
  BY <1>3, <1>4, <1>5, <1>6, <1>7 DEF Advances

\* Operations keep the tables orderly.
LEMMA AdvancesOrderly ==
  ASSUME NEW t, TablesOK(t), NEW u, TablesOK(u), Orderly(t), Advances(t, u)
  PROVE  Orderly(u)
BY AdvancesNames, AdvancesLuns, AdvancesDangling DEF Orderly

-----------------------------------------------------------------------------
\* What is committed stays as it is while a request is under way.
LEMMA SameDb ==
  ASSUME OneInv, db' = db, \A r \in Requests : Aware(r)'
  PROVE  OneInv'
BY DEF OneInv, Orderly, NamesOK, LunsOK, NoDangling, InUseMapped, Mapped

\* An idle request knows nothing.
LEMMA AwareIdle ==
  ASSUME NEW r \in Requests, pc'[r] = "idle"
  PROVE  Aware(r)'
BY DEF Aware, CreateSteps, ExtendSteps, MappingSteps

\* All requests are gone and nothing is committed.
LEMMA IdleOne ==
  ASSUME OneInv, \A r \in Requests : pc'[r] = "idle", db' = db
  PROVE  OneInv'
<1>1. \A r \in Requests : Aware(r)'
  BY AwareIdle
<1> QED
  BY <1>1, SameDb

\* The request gives up with nothing written.
LEMMA LeaveOne ==
  ASSUME Inv, OneInv, OneRequest, NEW r \in Requests, Leave(r), db' = db
  PROVE  OneInv'
<1>1. pc'[r] = "idle" /\ \A s \in Requests : s = r
  BY Moving DEF Leave, OneRequest
<1> QED
  BY <1>1, IdleOne

\* The handler is through, with one operation done in its draft.
LEMMA WriteOne ==
  ASSUME Inv, OneInv, OneRequest, NEW r \in Requests, NEW t, Written(r, t),
         Advances(db, t), InUseMapped(t)
  PROVE  OneInv'
<1>1. pc'[r] = "commit" /\ draft' = t /\ db' = db /\ \A s \in Requests : s = r
  BY DEF Written, GoTo, Inv, CoreInv, OneRequest
<1>2. Aware(r)'
  <2>1. Advances(db, draft)' /\ InUseMapped(draft)'
    BY <1>1
  <2> QED
    BY <1>1, <2>1 DEF Aware, CreateSteps, ExtendSteps, MappingSteps
<1> QED
  BY <1>1, <1>2, SameDb

\* create_volume has looked for the name.
LEMMA CreateVolumeOne ==
  ASSUME Inv, OneInv, OneRequest, NEW r \in Requests, CreateVolume(r)
  PROVE  OneInv'
<1>1. PICK v \in freshVolumes, name \in Names, size \in 1..MaxSize, p \in BOOLEAN :
        /\ ~NameTaken(name)
        /\ GoTo(r, "insert_volume")
        /\ Remember(r, [Blank EXCEPT !.volume = v, !.seen = NewVolume(name, size),
                                     !.persists = p])
  BY DEF CreateVolume
<1> DEFINE l == [Blank EXCEPT !.volume = v, !.seen = NewVolume(name, size), !.persists = p]
<1>2. l.seen.name = name
  BY DEF Blank, NewVolume
<1>3. Remember(r, l)
  BY <1>1
<1> HIDE DEF l
<1>4. /\ pc'[r] = "insert_volume" /\ local'[r] = l /\ db' = db
      /\ \A s \in Requests : s = r
  BY <1>1, <1>3, Moving DEF CreateVolume, tables, OneRequest
<1>5. Aware(r)'
  BY <1>1, <1>2, <1>4 DEF Aware, NameTaken, NameIn, ExtendSteps, MappingSteps
<1> QED
  BY <1>4, <1>5, SameDb

\* create_volume flushes the new row.
LEMMA InsertVolumeOne ==
  ASSUME Inv, OneInv, OneRequest, NEW r \in Requests, InsertVolume(r)
  PROVE  OneInv'
<1>1. /\ pc[r] = "insert_volume" /\ pc'[r] = "provision" /\ db' = db /\ local' = local
      /\ \A s \in Requests : s = r
  BY DEF InsertVolume, BeginWrite, GoTo, Inv, CoreInv, OneRequest
<1>2. Aware(r)'
  BY <1>1 DEF OneInv, Aware, NameIn, CreateSteps, ExtendSteps, MappingSteps
<1> QED
  BY <1>1, <1>2, SameDb

\* A volume is new.
LEMMA NewRow ==
  ASSUME OneInv, TablesOK(db), NEW v \in Volumes, db.volume[v] = Null, NEW u,
         u.mapping = db.mapping, \A w \in Volumes \ {v} : u.volume[w] = db.volume[w],
         u.volume[v] # Null, u.volume[v].status # "in_use", ~NameIn(db, u.volume[v].name)
  PROVE  Advances(db, u) /\ InUseMapped(u)
<1>1. SameBut(db, u, {v})
  BY DEF SameBut, SameRow
<1>2. Creates(db, u)
  BY <1>1 DEF Creates
<1>3. InUseMapped(u)
  BY DEF InUseMapped, OneInv, Mapped
<1> QED
  BY <1>2, <1>3 DEF Advances

\* A volume has a new status.
LEMMA NewStatus ==
  ASSUME OneInv, TablesOK(db), NEW v \in Volumes, db.volume[v] # Null, NEW u,
         u.mapping = db.mapping, \A w \in Volumes \ {v} : u.volume[w] = db.volume[w],
         u.volume[v] # Null, u.volume[v].status # "in_use",
         u.volume[v].name = db.volume[v].name, u.volume[v].size = db.volume[v].size
  PROVE  Advances(db, u) /\ InUseMapped(u)
<1>1. SameBut(db, u, {})
  BY DEF SameBut, SameRow
<1>2. Keeps(db, u)
  BY <1>1 DEF Keeps
<1>3. InUseMapped(u)
  BY DEF InUseMapped, OneInv, Mapped
<1> QED
  BY <1>2, <1>3 DEF Advances

\* An operation fails: its volume is there with its status, or nothing is.
LEMMA FailOne ==
  ASSUME Inv, VolumeInv, OneInv, OneRequest, NEW r \in Requests, pc[r] \in TransientSteps,
         FailWrite(r, local[r].volume)
  PROVE  OneInv'
<1> DEFINE v == local[r].volume
           t == SetStatus(draft, v, "error")
<1>1. /\ pc[r] \in LockedSteps /\ v \in Volumes /\ draft.volume[v] \in VolumeRow
      /\ TablesOK(draft) /\ TablesOK(db)
  BY OutstandingCall, Known
<1>2. CASE local[r].persists
  <2>1. Written(r, t)
    BY <1>2 DEF FailWrite
  <2>2. draft.volume[v] # Null /\ "error" \in Status
    BY <1>1, VolumeRowFields DEF Status
  <2>3. /\ t.volume[v].name = draft.volume[v].name /\ t.volume[v].size = draft.volume[v].size
        /\ t.volume[v] # Null /\ t.volume[v].status = "error" /\ t.mapping = draft.mapping
        /\ \A w \in Volumes \ {v} : t.volume[w] = draft.volume[w]
    BY <1>1, <2>2, StatusOf, VolumeRowFields
  <2> HIDE DEF t
  <2>4. Advances(db, t) /\ InUseMapped(t)
    <3>1. CASE pc[r] = "provision"
      <4>1. /\ draft = SetRow(db, v, local[r].seen) /\ db.volume[v] = Null
            /\ ~NameIn(db, local[r].seen.name)
        BY <3>1
           DEF VolumeInv, DraftKnown, DraftAt, UuidsOnce, Unknown, CreateSteps, OneInv, Aware
      <4>2. /\ draft.volume[v] = local[r].seen /\ draft.mapping = db.mapping
            /\ \A w \in Volumes \ {v} : draft.volume[w] = db.volume[w]
        BY <1>1, <4>1, RowOf
      <4> HIDE DEF v
      <4> QED
        BY <1>1, <2>3, <4>1, <4>2, NewRow
    <3>2. CASE pc[r] \in {"deprovision", "resize"}
      <4>1. PICK status \in Status : db.volume[v] # Null /\ draft = SetStatus(db, v, status)
        BY <3>2 DEF VolumeInv, DraftKnown, DraftAt, Status
      <4>2. /\ draft.volume[v].name = db.volume[v].name /\ draft.volume[v].size = db.volume[v].size
            /\ draft.mapping = db.mapping
            /\ \A w \in Volumes \ {v} : draft.volume[w] = db.volume[w]
        BY <1>1, <4>1, StatusOf
      <4> HIDE DEF v
      <4>3. /\ v \in Volumes /\ TablesOK(db) /\ db.volume[v] # Null
            /\ t.volume[v] # Null /\ t.volume[v].status # "in_use" /\ t.mapping = db.mapping
            /\ t.volume[v].name = db.volume[v].name /\ t.volume[v].size = db.volume[v].size
            /\ \A w \in Volumes \ {v} : t.volume[w] = db.volume[w]
        BY <1>1, <2>3, <4>1, <4>2
      <4> QED
        BY <4>3, NewStatus
    <3> QED
      BY <3>1, <3>2 DEF TransientSteps
  <2> QED
    BY <2>1, <2>4, WriteOne
<1>3. CASE ~local[r].persists
  BY <1>3, LeaveOne DEF FailWrite, Rollback
<1> QED
  BY <1>2, <1>3

\* create_volume hears from SPDK.
LEMMA ProvisionOne ==
  ASSUME Inv, VolumeInv, OneInv, OneRequest, NEW r \in Requests, ProvisionVolume(r)
  PROVE  OneInv'
<1> DEFINE v == local[r].volume
           row == local[r].seen
           t == SetRow(draft, v, Provisioned(row))
<1>1. pc[r] = "provision" /\ pc[r] \in TransientSteps
  BY DEF ProvisionVolume, TransientSteps
<1>2. /\ v \in Volumes /\ row \in VolumeRow /\ TablesOK(draft) /\ TablesOK(db)
      /\ draft = SetRow(db, v, row) /\ db.volume[v] = Null /\ ~NameIn(db, row.name)
  BY <1>1, OutstandingCall, Known
     DEF VolumeInv, DraftKnown, DraftAt, UuidsOnce, Unknown, CreateSteps, OneInv, Aware
<1>3. CASE Written(r, t)
  <2>1. /\ Provisioned(row).name = row.name /\ Provisioned(row).status = "available"
        /\ Provisioned(row) # Null
    <3>1. Provisioned(row) \in VolumeRow
      BY <1>2 DEF Provisioned, VolumeRow, Status
    <3> QED
      BY <1>2, <3>1, VolumeRowFields DEF Provisioned, VolumeRow
  <2>2. /\ t.volume[v] = Provisioned(row) /\ t.mapping = draft.mapping
        /\ \A w \in Volumes \ {v} : t.volume[w] = draft.volume[w]
    BY <1>2, RowOf
  <2>3. /\ draft.mapping = db.mapping
        /\ \A w \in Volumes \ {v} : draft.volume[w] = db.volume[w]
    BY <1>2, RowOf
  <2> HIDE DEF t
  <2>4. Advances(db, t) /\ InUseMapped(t)
    BY <1>2, <2>1, <2>2, <2>3, NewRow
  <2> QED
    BY <1>3, <2>4, WriteOne DEF t
<1>4. CASE FailWrite(r, v)
  BY <1>1, <1>4, FailOne
<1> QED
  BY <1>3, <1>4 DEF ProvisionVolume

\* delete_volume loads the volume and its mappings.
LEMMA DeleteVolumeOne ==
  ASSUME Inv, OneInv, OneRequest, NEW r \in Requests, DeleteVolume(r)
  PROVE  OneInv'
<1>1. PICK l : GoTo(r, "check_mappings") /\ Remember(r, l)
  BY DEF DeleteVolume
<1>2. pc'[r] = "check_mappings" /\ db' = db /\ \A s \in Requests : s = r
  BY <1>1, Moving DEF DeleteVolume, tables, OneRequest
<1>3. Aware(r)'
  BY <1>2 DEF Aware, CreateSteps, ExtendSteps, MappingSteps
<1> QED
  BY <1>2, <1>3, SameDb

\* delete_volume looks for mappings.
LEMMA CheckMappingsOne ==
  ASSUME Inv, OneInv, OneRequest, NEW r \in Requests, CheckMappings(r)
  PROVE  OneInv'
<1>1. db' = db /\ \A s \in Requests : s = r
  BY DEF CheckMappings, tables, OneRequest
<1>2. CASE Leave(r)
  BY <1>1, <1>2, LeaveOne
<1>3. CASE /\ MappingsOf(db, local[r].volume) = {}
           /\ GoTo(r, "mark_deleting") /\ UNCHANGED local
  <2>1. pc'[r] = "mark_deleting" /\ local' = local /\ ~Mapped(db, local[r].volume)
    BY <1>3 DEF GoTo, Inv, CoreInv, MappingsOf, Mapped
  <2>2. Aware(r)'
    BY <1>1, <2>1 DEF Aware, Mapped, CreateSteps, ExtendSteps, MappingSteps
  <2> QED
    BY <1>1, <2>2, SameDb
<1> QED
  BY <1>2, <1>3 DEF CheckMappings

\* Marking a row for what is to be done.
LEMMA MarkingOne ==
  ASSUME Inv, OneInv, OneRequest, NEW r \in Requests, MarkDeleting(r) \/ MarkExtending(r)
  PROVE  OneInv'
<1>1. db' = db /\ \A s \in Requests : s = r
  BY DEF MarkDeleting, MarkExtending, StaleRow, BeginWrite, tables, OneRequest
<1>2. CASE Leave(r)
  BY <1>1, <1>2, LeaveOne
<1>3. CASE /\ <<pc[r], pc'[r]>> \in {<<"mark_deleting", "deprovision">>, <<"mark_extending", "resize">>}
           /\ local' = local
  <2>1. Aware(r)'
    BY <1>1, <1>3 DEF OneInv, Aware, Mapped, CreateSteps, ExtendSteps, MappingSteps
  <2> QED
    BY <1>1, <2>1, SameDb
<1> QED
  BY <1>2, <1>3 DEF MarkDeleting, MarkExtending, StaleRow, BeginWrite, GoTo, Inv, CoreInv

\* delete_volume erases a row that no mapping names.
LEMMA EraseOne ==
  ASSUME Inv, VolumeInv, OneInv, OneRequest, NEW r \in Requests, pc[r] = "deprovision", EraseVolume(r)
  PROVE  OneInv'
<1> DEFINE v == local[r].volume
           t == SetRow(draft, v, Null)
<1>1. /\ v \in Volumes /\ TablesOK(draft) /\ TablesOK(db) /\ ~Mapped(db, v)
      /\ db.volume[v] # Null /\ draft = SetStatus(db, v, "deleting")
  BY OutstandingCall, Known
     DEF TransientSteps, VolumeInv, DraftKnown, DraftAt, OneInv, Aware
<1>2. CASE Leave(r) /\ db' = db
  BY <1>2, LeaveOne
<1>3. CASE Written(r, t)
  <2>1. /\ t.volume[v] = Null /\ t.mapping = draft.mapping
        /\ \A w \in Volumes \ {v} : t.volume[w] = draft.volume[w]
    BY <1>1, RowOf
  <2>2. /\ draft.mapping = db.mapping
        /\ \A w \in Volumes \ {v} : draft.volume[w] = db.volume[w]
    BY <1>1, StatusOf DEF Status
  <2>3. Written(r, t)
    BY <1>3
  <2> HIDE DEF t
  <2>4. SameBut(db, t, {v})
    BY <2>1, <2>2 DEF SameBut, SameRow
  <2>5. Deletes(db, t)
    BY <1>1, <2>1, <2>2, <2>4 DEF Deletes
  <2>6. InUseMapped(t)
    BY <2>1, <2>2 DEF InUseMapped, OneInv, Mapped
  <2> QED
    BY <2>3, <2>5, <2>6, WriteOne DEF Advances
<1> QED
  BY <1>2, <1>3 DEF EraseVolume, Rollback

\* delete_volume hears from SPDK.
LEMMA DeprovisionOne ==
  ASSUME Inv, VolumeInv, OneInv, OneRequest, NEW r \in Requests, DeprovisionVolume(r)
  PROVE  OneInv'
<1>1. pc[r] = "deprovision" /\ pc[r] \in TransientSteps
  BY DEF DeprovisionVolume, TransientSteps
<1>2. EraseVolume(r) \/ FailWrite(r, local[r].volume)
  BY DEF DeprovisionVolume, FinishDelete
<1> QED
  BY <1>1, <1>2, EraseOne, FailOne

\* extend_volume judges the new size.
LEMMA ExtendVolumeOne ==
  ASSUME Inv, OneInv, OneRequest, NEW r \in Requests, ExtendVolume(r)
  PROVE  OneInv'
<1>1. PICK v \in Volumes, size \in 1..MaxSize, p \in BOOLEAN :
        /\ db.volume[v] # Null
        /\ size > db.volume[v].size
        /\ GoTo(r, "mark_extending")
        /\ Remember(r, [Blank EXCEPT !.volume = v, !.seen = db.volume[v],
                                     !.size = size, !.persists = p])
  BY DEF ExtendVolume, MayExtend
<1> DEFINE l == [Blank EXCEPT !.volume = v, !.seen = db.volume[v],
                              !.size = size, !.persists = p]
<1>2. l.volume = v /\ l.seen = db.volume[v] /\ l.size = size
  BY DEF Blank
<1>3. Remember(r, l)
  BY <1>1
<1> HIDE DEF l
<1>4. /\ pc'[r] = "mark_extending" /\ local'[r] = l /\ db' = db
      /\ \A s \in Requests : s = r
  BY <1>1, <1>3, Moving DEF ExtendVolume, tables, OneRequest
<1>5. Aware(r)'
  BY <1>1, <1>2, <1>4 DEF Aware, CreateSteps, MappingSteps
<1> QED
  BY <1>4, <1>5, SameDb

\* extend_volume hears from SPDK.
LEMMA ResizeOne ==
  ASSUME Inv, VolumeInv, OneInv, OneRequest, NEW r \in Requests, ResizeVolume(r)
  PROVE  OneInv'
<1> DEFINE v == local[r].volume
           size == local[r].size
           t == Extended(draft, v, size)
<1>1. pc[r] = "resize" /\ pc[r] \in TransientSteps
  BY DEF ResizeVolume, TransientSteps
<1>2. /\ v \in Volumes /\ size \in 1..MaxSize /\ TablesOK(draft) /\ TablesOK(db)
      /\ draft.volume[v] # Null /\ db.volume[v] # Null /\ size > db.volume[v].size
      /\ draft = SetStatus(db, v, "extending")
  <2>1. /\ v \in Volumes /\ size \in 1..MaxSize /\ TablesOK(draft) /\ TablesOK(db)
        /\ draft.volume[v] # Null
    BY <1>1, Known, OutstandingCall, VolumeRowFields
  <2>2. DraftAt(r) /\ Aware(r)
    BY DEF VolumeInv, DraftKnown, OneInv
  <2> QED
    BY <1>1, <2>1, <2>2 DEF DraftAt, Aware, ExtendSteps
<1>3. CASE Written(r, t)
  <2>1. /\ t.volume[v].name = draft.volume[v].name /\ t.volume[v].size = size
        /\ t.volume[v] # Null /\ t.volume[v].status = "available"
        /\ t.mapping = draft.mapping
        /\ \A w \in Volumes \ {v} : t.volume[w] = draft.volume[w]
    <3>1. v \in Volumes /\ size \in 1..MaxSize /\ TablesOK(draft) /\ draft.volume[v] # Null
      BY <1>2
    <3> HIDE DEF v, size
    <3> QED
      BY <3>1, ExtendedOf
  <2>0. "extending" \in Status
    BY DEF Status
  <2>2. /\ draft.volume[v].name = db.volume[v].name /\ draft.mapping = db.mapping
        /\ \A w \in Volumes \ {v} : draft.volume[w] = db.volume[w]
    BY <1>2, <2>0, StatusOf
  <2>3. Written(r, t)
    BY <1>3
  <2> HIDE DEF t
  <2>4. SameBut(db, t, {v})
    BY <2>1, <2>2 DEF SameBut, SameRow
  <2>5. Extends(db, t)
    <3> HIDE DEF v, size
    <3>1. /\ v \in Volumes /\ db.volume[v] # Null /\ size > db.volume[v].size
          /\ t.volume[v] # Null /\ t.volume[v].name = db.volume[v].name /\ t.volume[v].size = size
          /\ t.mapping = db.mapping
      BY <1>2, <2>1, <2>2
    <3> QED
      BY <3>1, <2>4 DEF Extends
  <2>6. InUseMapped(t)
    BY <2>1, <2>2 DEF InUseMapped, OneInv, Mapped
  <2> QED
    BY <2>3, <2>5, <2>6, WriteOne DEF Advances
<1>4. CASE FailWrite(r, v)
  BY <1>1, <1>4, FailOne
<1> QED
  BY <1>3, <1>4 DEF ResizeVolume

\* create_mapping loads its rows.
LEMMA MappingOne ==
  ASSUME Inv, OneInv, OneRequest, NEW r \in Requests, CreateMapping(r) \/ MkVdiskHostMap(r)
  PROVE  OneInv'
<1>1. PICK v \in Volumes, host \in Hosts, path \in Paths : LoadForMapping(r, v, host, path)
  BY DEF CreateMapping, MkVdiskHostMap
<1> DEFINE l == [Blank EXCEPT !.volume = v, !.seen = db.volume[v],
                              !.row = NewMapping(v, host, path)]
<1>2. /\ db.volume[v] # Null
      /\ GoTo(r, "allocate_ids") /\ Remember(r, l) /\ db' = db
  BY <1>1 DEF LoadForMapping, tables
<1>3. l.volume = v /\ l.seen = db.volume[v]
  BY DEF Blank
<1> HIDE DEF l
<1>4. pc'[r] = "allocate_ids" /\ local'[r] = l /\ \A s \in Requests : s = r
  BY <1>2, Moving DEF OneRequest
<1>5. Aware(r)'
  BY <1>2, <1>3, <1>4 DEF Aware, CreateSteps, ExtendSteps
<1> QED
  BY <1>2, <1>4, <1>5, SameDb

\* The numbers that are allocated are free.
LEMMA AllocatedFit ==
  ASSUME Inv, NEW m \in MappingRow, db.volume[m.volume] # Null,
         m.lun = AllocateLun(UsedLuns(db, m.host, m.persona)),
         m.uid = AllocateUid(db, m.underlay)
  PROVE  Fits(db, m)
<1>1. TablesOK(db) /\ LunBase \in Nat
  BY Known, ConstantsAssumption
<1>2. /\ IsFiniteSet(UsedLuns(db, m.host, m.persona))
      /\ IsFiniteSet(UsedUids(db, m.underlay))
      /\ UsedUids(db, m.underlay) \subseteq Nat
  BY <1>1, UsedNumbers
<1>3. /\ m.lun \in Nat /\ m.lun \notin UsedLuns(db, m.host, m.persona)
      /\ \A k \in Nat : k < m.lun => k \in UsedLuns(db, m.host, m.persona)
  BY <1>2, AllocateLunCorrect
<1>4. AllocateNsid(UsedUids(db, m.underlay)) \notin UsedUids(db, m.underlay)
  BY <1>2, AllocateNsidCorrect
<1>5. AllocateLunFromBase(UsedUids(db, m.underlay), LunBase) \notin UsedUids(db, m.underlay)
  BY <1>1, <1>2, AllocateLunFromBaseCorrect
<1>6. m.uid \notin UsedUids(db, m.underlay)
  BY <1>4, <1>5 DEF AllocateUid
<1> QED
  BY <1>3, <1>6 DEF Fits

\* create_mapping picks its numbers.
LEMMA AllocateIdsOne ==
  ASSUME Inv, VolumeInv, OneInv, OneRequest, NEW r \in Requests, AllocateIds(r)
  PROVE  OneInv'
<1> DEFINE old == local[r]
           row == [old.row EXCEPT !.lun = AllocateLun(UsedLuns(db, old.row.host, old.row.persona)),
                                  !.uid = AllocateUid(db, old.row.underlay)]
           l == [old EXCEPT !.row = row]
<1>1. /\ pc[r] = "allocate_ids" /\ GoTo(r, "insert_mapping") /\ db' = db
  BY DEF AllocateIds, tables
<1>2. /\ old \in Local /\ old.row \in MappingRow /\ local \in [Requests -> Local]
      /\ old.row.volume = old.volume /\ db.volume[old.volume] # Null
      /\ old.seen = db.volume[old.volume]
  BY <1>1, Known DEF Inv, CoreInv, MappingSteps, VolumeInv, UuidsOnce, OneInv, Aware
<1>3. Remember(r, l)
  BY <1>2 DEF AllocateIds, Remember, Local, MappingRow
<1>4. AllocateUid(db, old.row.underlay) \in Nat
      /\ AllocateLun(UsedLuns(db, old.row.host, old.row.persona)) \in Nat
  BY <1>2, AllocatedTyped DEF MappingRow
<1>5. /\ row \in MappingRow /\ row.volume = old.row.volume
      /\ row.host = old.row.host /\ row.persona = old.row.persona /\ row.underlay = old.row.underlay
      /\ row.lun = AllocateLun(UsedLuns(db, old.row.host, old.row.persona))
      /\ row.uid = AllocateUid(db, old.row.underlay)
  BY <1>2, <1>4 DEF MappingRow
<1> HIDE DEF row
<1>6. Fits(db, row)
  BY <1>2, <1>5, AllocatedFit
<1>7. l.volume = old.volume /\ l.seen = old.seen /\ l.row = row
  BY <1>2 DEF Local
<1> HIDE DEF l
<1>8. pc'[r] = "insert_mapping" /\ local'[r] = l /\ \A s \in Requests : s = r
  BY <1>1, <1>3, Moving DEF OneRequest
<1>9. Aware(r)'
  BY <1>1, <1>2, <1>6, <1>7, <1>8 DEF Aware, CreateSteps, ExtendSteps
<1> QED
  BY <1>1, <1>8, <1>9, SameDb

\* create_mapping flushes the new row.
LEMMA InsertMappingOne ==
  ASSUME Inv, OneInv, OneRequest, NEW r \in Requests, InsertMapping(r)
  PROVE  OneInv'
<1>1. /\ pc[r] = "insert_mapping" /\ pc'[r] = "wire" /\ db' = db /\ local' = local
      /\ \A s \in Requests : s = r
  BY DEF InsertMapping, BeginWrite, GoTo, Inv, CoreInv, OneRequest
<1>2. Aware(r)'
  BY <1>1 DEF OneInv, Aware, CreateSteps, ExtendSteps, MappingSteps
<1> QED
  BY <1>1, <1>2, SameDb

\* The status of a volume is written, or was so already.
LEMMA Settling ==
  ASSUME Inv, OneInv, NEW r \in Requests, pc[r] \in MappingSteps,
         NEW t, TablesOK(t), t.volume = db.volume,
         NEW status \in Status, SettleStatus(r, t, status)
  PROVE  \E u : /\ Written(r, u) /\ u.mapping = t.mapping /\ SameBut(db, u, {})
                /\ u.volume[local[r].volume] # Null
                /\ u.volume[local[r].volume].status = status
                /\ \A w \in Volumes \ {local[r].volume} : u.volume[w] = db.volume[w]
<1> DEFINE v == local[r].volume
           u == SetStatus(t, v, status)
<1>1. /\ v \in Volumes /\ db.volume[v] # Null /\ local[r].seen = db.volume[v]
  BY Known DEF OneInv, Aware, MappingSteps
<1>2. SameBut(db, t, {})
  BY DEF SameBut, SameRow
<1>3. CASE local[r].seen.status = status
  BY <1>1, <1>2, <1>3 DEF SettleStatus
<1>4. CASE local[r].seen.status # status
  <2>1. Written(r, u)
    BY <1>1, <1>4 DEF SettleStatus
  <2>2. /\ u.volume[v].status = status /\ u.volume[v] # Null /\ u.mapping = t.mapping
        /\ u.volume[v].name = db.volume[v].name /\ u.volume[v].size = db.volume[v].size
        /\ \A w \in Volumes \ {v} : u.volume[w] = db.volume[w]
    <3>1. v \in Volumes /\ t.volume[v] # Null
      BY <1>1
    <3> HIDE DEF v
    <3> QED
      BY <3>1, StatusOf
  <2> HIDE DEF u
  <2>3. SameBut(db, u, {})
    BY <1>1, <2>2 DEF SameBut, SameRow
  <2> QED
    BY <2>1, <2>2, <2>3
<1> QED
  BY <1>3, <1>4

\* create_mapping hears from SPDK.
LEMMA WireOne ==
  ASSUME Inv, VolumeInv, OneInv, OneRequest, NEW r \in Requests, WireMapping(r)
  PROVE  OneInv'
<1> DEFINE v == local[r].volume
           m == local[r].row
<1>1. pc[r] = "wire" /\ (SettleStatus(r, draft, "in_use") \/ Rollback(r))
  BY DEF WireMapping
<1>2. /\ pc[r] \in MappingSteps /\ TablesOK(draft) /\ TablesOK(db) /\ Fits(db, m)
      /\ draft = [db EXCEPT !.mapping = @ \cup {m}] /\ m.volume = v
  BY <1>1, Known DEF MappingSteps, VolumeInv, DraftKnown, DraftAt, UuidsOnce, OneInv, Aware
<1>3. /\ draft.volume = db.volume /\ draft.mapping = db.mapping \cup {m}
      /\ pc[r] \in MappingSteps /\ TablesOK(draft)
  BY <1>2 DEF TablesOK, Tables
<1>4. CASE Rollback(r)
  BY <1>4, LeaveOne DEF Rollback
<1>5. CASE SettleStatus(r, draft, "in_use")
  <2> "in_use" \in Status
    BY DEF Status
  <2>1. PICK u : /\ Written(r, u) /\ u.mapping = draft.mapping /\ SameBut(db, u, {})
                 /\ u.volume[v] # Null /\ u.volume[v].status = "in_use"
                 /\ \A w \in Volumes \ {v} : u.volume[w] = db.volume[w]
    BY <1>3, <1>5, Settling
  <2>2. Attaches(db, u)
    BY <1>2, <1>3, <2>1 DEF Attaches
  <2>3. InUseMapped(u)
    BY <1>2, <1>3, <2>1 DEF InUseMapped, Mapped, OneInv
  <2> QED
    BY <2>1, <2>2, <2>3, WriteOne DEF Advances
<1> QED
  BY <1>1, <1>4, <1>5

\* delete_mapping loads its rows.
LEMMA DeleteMappingOne ==
  ASSUME Inv, OneInv, OneRequest, NEW r \in Requests, DeleteMapping(r)
  PROVE  OneInv'
<1>1. PICK m \in db.mapping :
        /\ GoTo(r, "mark_detached")
        /\ Remember(r, [Blank EXCEPT !.row = m, !.volume = m.volume,
                                     !.seen = db.volume[m.volume]])
  BY DEF DeleteMapping
<1> DEFINE l == [Blank EXCEPT !.row = m, !.volume = m.volume,
                              !.seen = db.volume[m.volume]]
<1>2. l.volume = m.volume /\ l.row = m /\ l.seen = db.volume[m.volume]
  BY DEF Blank
<1>3. Remember(r, l)
  BY <1>1
<1> HIDE DEF l
<1>4. /\ pc'[r] = "mark_detached" /\ local'[r] = l /\ db' = db /\ db.volume[m.volume] # Null
      /\ \A s \in Requests : s = r
  BY <1>1, <1>3, Moving DEF DeleteMapping, tables, OneRequest, OneInv, Orderly, NoDangling
<1>5. Aware(r)'
  BY <1>2, <1>4 DEF Aware, CreateSteps, ExtendSteps
<1> QED
  BY <1>4, <1>5, SameDb

\* delete_mapping flushes the desired state.
LEMMA MarkDetachedOne ==
  ASSUME Inv, OneInv, OneRequest, NEW r \in Requests, MarkDetached(r)
  PROVE  OneInv'
<1>1. db' = db /\ \A s \in Requests : s = r
  BY DEF MarkDetached, StaleRow, BeginWrite, tables, OneRequest
<1>2. CASE Leave(r)
  BY <1>1, <1>2, LeaveOne
<1>3. CASE pc[r] = "mark_detached" /\ pc'[r] = "unwire" /\ local' = local
  <2>1. Aware(r)'
    BY <1>1, <1>3 DEF OneInv, Aware, CreateSteps, ExtendSteps, MappingSteps
  <2> QED
    BY <1>1, <2>1, SameDb
<1> QED
  BY <1>2, <1>3 DEF MarkDetached, StaleRow, BeginWrite, GoTo, Inv, CoreInv

\* delete_mapping erases the row, and frees the volume with its last mapping.
LEMMA UnwireOne ==
  ASSUME Inv, VolumeInv, OneInv, OneRequest, NEW r \in Requests, UnwireMapping(r)
  PROVE  OneInv'
<1> DEFINE v == local[r].volume
           m == local[r].row
           rest == [draft EXCEPT !.mapping = @ \ {m}]
<1>1. /\ pc[r] = "unwire" /\ pc[r] \in MappingSteps /\ TablesOK(draft)
      /\ draft = db /\ m \in db.mapping /\ m.volume = v /\ v \in Volumes
      /\ db.volume[v] # Null
  BY Known
     DEF UnwireMapping, MappingSteps, VolumeInv, DraftKnown, DraftAt, UuidsOnce, OneInv, Aware
<1>2. rest.volume = db.volume /\ rest.mapping = db.mapping \ {m}
  BY <1>1, MappingsOnly
<1>3. TablesOK(rest)
  <2>1. IsFiniteSet(draft.mapping \ {m})
    BY <1>1, FS_RemoveElement DEF TablesOK
  <2> QED
    BY <1>1, <1>2, <2>1 DEF TablesOK, Tables
<1>4. \/ Rollback(r)
      \/ Written(r, rest) /\ Mapped(rest, v)
      \/ SettleStatus(r, rest, "available")
  BY DEF UnwireMapping, EraseMapping, MappingsOf, Mapped
<1> HIDE DEF rest
<1>5. CASE Rollback(r)
  BY <1>5, LeaveOne DEF Rollback
<1>6. CASE Written(r, rest) /\ Mapped(rest, v)
  <2>1. SameBut(db, rest, {})
    BY <1>2 DEF SameBut, SameRow
  <2>2. Detaches(db, rest)
    BY <1>1, <1>2, <2>1 DEF Detaches
  <2>3. InUseMapped(rest)
    BY <1>1, <1>2, <1>6 DEF InUseMapped, Mapped, OneInv
  <2> QED
    BY <1>6, <2>2, <2>3, WriteOne DEF Advances
<1>7. CASE SettleStatus(r, rest, "available")
  <2>1. PICK u : /\ Written(r, u) /\ u.mapping = rest.mapping /\ SameBut(db, u, {})
                 /\ u.volume[v].status = "available"
                 /\ \A w \in Volumes \ {v} : u.volume[w] = db.volume[w]
    <3>1. rest.volume = db.volume /\ pc[r] \in MappingSteps /\ "available" \in Status
      BY <1>1, <1>2 DEF Status
    <3> QED
      BY <3>1, <1>3, <1>7, Settling
  <2>2. Detaches(db, u)
    BY <1>1, <1>2, <2>1 DEF Detaches
  <2>3. InUseMapped(u)
    BY <1>1, <1>2, <2>1 DEF InUseMapped, Mapped, OneInv
  <2> QED
    BY <2>1, <2>2, <2>3, WriteOne DEF Advances
<1> QED
  BY <1>4, <1>5, <1>6, <1>7

\* What a step does to the committed tables.
LEMMA CommitOne ==
  ASSUME Inv, OneInv, OneRequest, NEW r \in Requests, Commit(r)
  PROVE  OneInv' /\ Advances(db, db')
<1>1. pc[r] = "commit" /\ db' = draft /\ Leave(r)
  BY DEF Commit
<1>2. pc'[r] = "idle" /\ \A s \in Requests : s = r
  BY <1>1, Moving DEF Leave, OneRequest
<1>3. Advances(db, db') /\ InUseMapped(db')
  BY <1>1 DEF OneInv, Aware
<1>4. Orderly(db')
  BY <1>1, <1>3, Known, AdvancesOrderly DEF OneInv
<1>5. \A s \in Requests : Aware(s)'
  BY <1>2, AwareIdle
<1> QED
  BY <1>3, <1>4, <1>5 DEF OneInv

\* reconcile changes nothing that clients see.
LEMMA StartupOne ==
  ASSUME Inv, OneInv, Startup
  PROVE  OneInv' /\ Advances(db, db')
<1>1. PICK ensured \in SUBSET {v \in Volumes : Healthy(v)} :
        db' = [db EXCEPT !.volume = [v \in Volumes |->
                  IF v \in ensured THEN [db.volume[v] EXCEPT !.bdev = TRUE] ELSE db.volume[v]]]
  BY Zenon DEF Startup
<1>2. \A r \in Requests : pc'[r] = "idle"
  BY DEF Startup, Inv, CoreInv, requests
<1>3. /\ db'.mapping = db.mapping
      /\ \A v \in Volumes : db'.volume[v] = IF v \in ensured THEN [db.volume[v] EXCEPT !.bdev = TRUE]
                                                             ELSE db.volume[v]
  BY <1>1, Known DEF TablesOK, Tables
<1>4. \A v \in ensured : v \in Volumes /\ db.volume[v] # Null /\ db.volume[v] \in VolumeRow
  BY Known DEF Healthy, TablesOK, Tables
<1>5. \A v \in Volumes : /\ SameRow(db.volume[v], db'.volume[v])
                         /\ db.volume[v] # Null => db'.volume[v].status = db.volume[v].status
  <2> SUFFICES ASSUME NEW v \in ensured
               PROVE  /\ SameRow(db.volume[v], db'.volume[v])
                      /\ db'.volume[v].status = db.volume[v].status
    BY <1>3, <1>4 DEF SameRow
  <2> DEFINE row == [db.volume[v] EXCEPT !.bdev = TRUE]
  <2>1. row \in VolumeRow /\ row.name = db.volume[v].name /\ row.size = db.volume[v].size
        /\ row.status = db.volume[v].status
    BY <1>4 DEF VolumeRow
  <2>2. db'.volume[v] = row
    BY <1>3, <1>4
  <2> QED
    BY <1>4, <2>1, <2>2, VolumeRowFields DEF SameRow
<1>6. SameBut(db, db', {})
  BY <1>5 DEF SameBut
<1>7. Advances(db, db')
  BY <1>3, <1>6 DEF Advances, Keeps
<1>8. InUseMapped(db')
  BY <1>3, <1>5 DEF InUseMapped, SameRow, Mapped, OneInv
<1>9. Orderly(db')
  <2>1. TablesOK(db) /\ TablesOK(db')
    BY Known, StartupStep DEF Inv, CoreInv
  <2> QED
    BY <1>7, <2>1, AdvancesOrderly DEF OneInv
<1>10. \A s \in Requests : Aware(s)'
  BY <1>2, AwareIdle
<1> QED
  BY <1>7, <1>8, <1>9, <1>10 DEF OneInv

\* Whatever crashes: the transaction is rolled back and all requests are gone.
LEMMA DisruptionOne ==
  ASSUME OneInv, GatewayCrash \/ SpdkRestart \/ HostReboot
  PROVE  OneInv'
<1>1. CASE GatewayCrash \/ HostReboot
  BY <1>1, IdleOne DEF GatewayCrash, HostReboot, GatewayDies
<1>2. CASE SpdkRestart
  BY <1>2
     DEF SpdkRestart, tables, requests, OneInv, Orderly, NamesOK, LunsOK, NoDangling,
         InUseMapped,
     Mapped, Aware, NameIn, Fits, UsedLuns, UsedUids
<1> QED
  BY <1>1, <1>2

\* At first the tables are empty.
LEMMA InitOne == Init => OneInv
BY DEF Init, OneInv, Orderly, NamesOK, LunsOK, NoDangling, InUseMapped, Aware, CreateSteps,
   ExtendSteps,
       MappingSteps

\* OneInv is inductive, given Inv and VolumeInv.
LEMMA NextOne ==
  ASSUME OneRequest
  PROVE  Inv /\ VolumeInv /\ OneInv /\ [Next]_vars => OneInv'
<1> SUFFICES ASSUME Inv, VolumeInv, OneInv, [Next]_vars PROVE OneInv'
  OBVIOUS
<1>1. ASSUME NEW r \in Requests, Begin(r) PROVE OneInv'
  BY <1>1, CreateVolumeOne, DeleteVolumeOne, ExtendVolumeOne, MappingOne, DeleteMappingOne
     DEF Begin
<1>2. ASSUME NEW r \in Requests, Continue(r) PROVE OneInv'
  <2>1. CASE InsertVolume(r) \/ ProvisionVolume(r)
    BY <2>1, InsertVolumeOne, ProvisionOne
  <2>2. CASE CheckMappings(r) \/ MarkDeleting(r) \/ DeprovisionVolume(r)
    BY <2>2, CheckMappingsOne, MarkingOne, DeprovisionOne
  <2>3. CASE MarkExtending(r) \/ ResizeVolume(r)
    BY <2>3, MarkingOne, ResizeOne
  <2>4. CASE AllocateIds(r) \/ InsertMapping(r) \/ WireMapping(r)
    BY <2>4, AllocateIdsOne, InsertMappingOne, WireOne
  <2>5. CASE MarkDetached(r) \/ UnwireMapping(r)
    BY <2>5, MarkDetachedOne, UnwireOne
  <2>6. CASE Commit(r)
    BY <2>6, CommitOne
  <2>7. CASE LockTimeout(r)
    BY <2>7, LeaveOne DEF LockTimeout, tables
  <2> QED
    BY <1>2, <2>1, <2>2, <2>3, <2>4, <2>5, <2>6, <2>7 DEF Continue
<1>3. CASE GatewayCrash \/ SpdkRestart \/ HostReboot
  BY <1>3, DisruptionOne
<1>4. CASE Startup
  BY <1>4, StartupOne
<1>5. CASE UNCHANGED vars
  BY <1>5 DEF vars, tables, requests, OneInv, Orderly, NamesOK, LunsOK, NoDangling, InUseMapped,
     Mapped, Aware, NameIn, Fits, UsedLuns, UsedUids
<1> QED
  BY <1>1, <1>2, <1>3, <1>4, <1>5 DEF Next

\* Always: the tables are orderly, and the request under way knows them.
THEOREM OneInvariance ==
  ASSUME OneRequest
  PROVE  Spec => [](Inv /\ VolumeInv /\ OneInv)
<1>1. Init => Inv /\ VolumeInv /\ OneInv
  BY InitInv, InitVolumes, InitOne
<1>2. Inv /\ VolumeInv /\ OneInv /\ [Next]_vars => (Inv /\ VolumeInv /\ OneInv)'
  BY NextInv, NextVolumes, NextOne
<1> QED
  BY <1>1, <1>2, PTL DEF Spec

-----------------------------------------------------------------------------
\* The theorems on the tables.

\* Of requests that run one at a time, whichever fail or crash: no two volumes
\* have one name (volumes.py:70-76).
THEOREM NamesAlwaysUnique ==
  ASSUME OneRequest
  PROVE  Spec => []NamesUnique
<1>1. OneInv => NamesUnique
  BY DEF OneInv, Orderly, NamesOK, NamesUnique, Exists
<1> QED
  BY <1>1, OneInvariance, PTL

\* No two mappings claim a LUN of a host on a persona endpoint, or a number of a
\* target (mappings.py:172-202).
THEOREM LunsAlwaysUnique ==
  ASSUME OneRequest
  PROVE  Spec => []LunsUnique
<1>1. OneInv => LunsUnique
  BY DEF OneInv, Orderly, LunsOK, LunsUnique
<1> QED
  BY <1>1, OneInvariance, PTL

\* A volume with mappings is not deleted (volumes.py:160-164).
THEOREM NeverDanglingMapping ==
  ASSUME OneRequest
  PROVE  Spec => []NoDanglingMapping
<1>1. OneInv => NoDanglingMapping
  BY DEF OneInv, Orderly, NoDangling, NoDanglingMapping, Exists
<1> QED
  BY <1>1, OneInvariance, PTL

\* The last unmapping frees its volume (mappings.py:310-315).
THEOREM InUseIsAlwaysMapped ==
  ASSUME OneRequest
  PROVE  Spec => []InUseIsMapped
<1>1. OneInv => InUseIsMapped
  BY DEF OneInv, InUseMapped, Mapped, InUseIsMapped, Exists, MappingsOf
<1> QED
  BY <1>1, OneInvariance, PTL

\* A request that begins reads the tables and leaves them and SPDK alone.
LEMMA BeginLeaves ==
  ASSUME NEW r \in Requests, Begin(r)
  PROVE  /\ pc[r] = "idle" /\ UNCHANGED <<db, export, gateway>>
         /\ GoTo(r, "insert_volume") \/ GoTo(r, "check_mappings") \/ GoTo(r, "mark_extending")
            \/ GoTo(r, "allocate_ids") \/ GoTo(r, "mark_detached")
<1>1. CASE CreateVolume(r)
  BY <1>1 DEF CreateVolume, Accepts, tables, spdk
<1>2. CASE DeleteVolume(r)
  BY <1>2 DEF DeleteVolume, Accepts, tables, spdk
<1>3. CASE ExtendVolume(r)
  BY <1>3 DEF ExtendVolume, Accepts, tables, spdk
<1>4. CASE CreateMapping(r)
  BY <1>4 DEF CreateMapping, LoadForMapping, Accepts, tables, spdk
<1>5. CASE MkVdiskHostMap(r)
  BY <1>5 DEF MkVdiskHostMap, LoadForMapping, Accepts, tables, spdk
<1>6. CASE DeleteMapping(r)
  BY <1>6 DEF DeleteMapping, Accepts, tables, spdk
<1> QED
  BY <1>1, <1>2, <1>3, <1>4, <1>5, <1>6 DEF Begin

\* Whatever step: the committed tables advance by one operation or not at all.
LEMMA StepAdvances ==
  ASSUME OneRequest, Inv, OneInv, [Next]_vars
  PROVE  Advances(db, db') \/ db' = db
<1>1. ASSUME NEW r \in Requests, Begin(r) PROVE db' = db
  BY <1>1, BeginLeaves
<1>2. ASSUME NEW r \in Requests, Continue(r) PROVE Advances(db, db') \/ db' = db
  <2>1. CASE Commit(r)
    BY <2>1, CommitOne
  <2>2. CASE InsertVolume(r) \/ ProvisionVolume(r)
    BY <2>2 DEF InsertVolume, ProvisionVolume, BeginWrite, Written, FailWrite, Rollback
  <2>3. CASE CheckMappings(r) \/ MarkDeleting(r) \/ DeprovisionVolume(r)
    BY <2>3
       DEF CheckMappings, MarkDeleting, DeprovisionVolume, FinishDelete, EraseVolume, StaleRow,
           tables,
       BeginWrite, Written, FailWrite, Rollback
  <2>4. CASE MarkExtending(r) \/ ResizeVolume(r)
    BY <2>4
       DEF MarkExtending, ResizeVolume, StaleRow, tables, BeginWrite, Written, FailWrite,
           Rollback
  <2>5. CASE AllocateIds(r) \/ InsertMapping(r) \/ WireMapping(r)
    BY <2>5
       DEF AllocateIds, InsertMapping, WireMapping, SettleStatus, tables, BeginWrite, Written,
           Rollback
  <2>6. CASE MarkDetached(r) \/ UnwireMapping(r) \/ LockTimeout(r)
    BY <2>6
       DEF MarkDetached, UnwireMapping, EraseMapping, LockTimeout, SettleStatus, StaleRow,
           tables,
       BeginWrite, Written, Rollback
  <2> QED
    BY <1>2, <2>1, <2>2, <2>3, <2>4, <2>5, <2>6 DEF Continue
<1>3. CASE GatewayCrash \/ SpdkRestart \/ HostReboot \/ UNCHANGED vars
  BY <1>3 DEF GatewayCrash, SpdkRestart, HostReboot, tables, vars
<1>4. CASE Startup
  BY <1>4, StartupOne
<1> QED
  BY <1>1, <1>2, <1>3, <1>4 DEF Next

\* No commit shrinks a volume (volumes.py:189, 195-196).
THEOREM SizesAlwaysGrow ==
  ASSUME OneRequest
  PROVE  Spec => SizesOnlyGrow
<1>1. ASSUME Inv, OneInv, [Next]_vars
      PROVE  [\A v \in Volumes :
                Exists(v) /\ db'.volume[v] # Null => db'.volume[v].size >= db.volume[v].size]_vars
  <2>1. TablesOK(db)
    BY <1>1, Known
  <2>2. \A v \in Volumes :
          /\ db.volume[v] # Null => db.volume[v].size \in 1..MaxSize
          /\ db'.volume[v] # Null => db'.volume[v].size \in 1..MaxSize
    <3>1. TablesOK(db')
      BY <1>1, NextInv DEF Inv, CoreInv
    <3> QED
      BY <2>1, <3>1 DEF TablesOK, Tables, VolumeRow
  <2> SUFFICES ASSUME NEW v \in Volumes, db.volume[v] # Null, db'.volume[v] # Null
               PROVE  db'.volume[v].size >= db.volume[v].size
    BY DEF Exists
  <2>3. \/ SameRow(db.volume[v], db'.volume[v])
        \/ db'.volume[v].size > db.volume[v].size /\ SameBut(db, db', {v})
        \/ db' = db
    BY <1>1, <2>1, StepAdvances
       DEF Advances, Creates, Extends, Deletes, Attaches, Detaches, Keeps, SameBut
  <2> QED
    BY <2>2, <2>3 DEF SameRow
<1> QED
  BY <1>1, OneInvariance, PTL DEF Spec, SizesOnlyGrow

-----------------------------------------------------------------------------
\* The refinement.

\* What Provisioning sees of a row.
Shape(row) == IF row # Null THEN [name |-> row.name, size |-> row.size] ELSE Null

\* What Provisioning sees of a mapping.
Attachment(m) == [volume |-> m.volume, host |-> m.host, persona |-> m.persona,
                  underlay |-> m.underlay, lun |-> m.lun, uid |-> m.uid]

PromisedVolumes(t) == [v \in Volumes |-> Shape(t.volume[v])]
PromisedAttachments(t) == {Attachment(m) : m \in t.mapping}

\* Provisioning's state, over the committed tables.
LEMMA PromisedIs ==
  /\ Promise!promised = <<PromisedVolumes(db), PromisedAttachments(db)>>
  /\ Promise!promised' = <<PromisedVolumes(db)', PromisedAttachments(db)'>>
BY DEF PromisedVolumes, PromisedAttachments, Shape, Attachment, Promise!promised

\* Provisioning!Create, over the committed tables.
LEMMA CreateIs ==
  ASSUME NEW v
  PROVE  LET V == PromisedVolumes(db)
             W == PromisedVolumes(db)'
         IN Promise!Create(v, W[v].name, W[v].size) <=>
              /\ V[v] = Null
              /\ \A w \in Volumes : V[w] # Null => V[w].name # W[v].name
              /\ W = [V EXCEPT ![v] = [name |-> W[v].name, size |-> W[v].size]]
              /\ PromisedAttachments(db)' = PromisedAttachments(db)
BY DEF PromisedVolumes, PromisedAttachments, Shape, Attachment, Promise!Create

\* Provisioning!Extend, over the committed tables.
LEMMA ExtendIs ==
  ASSUME NEW v
  PROVE  LET V == PromisedVolumes(db)
             W == PromisedVolumes(db)'
         IN Promise!Extend(v, W[v].size) <=>
              /\ V[v] # Null /\ W[v].size > V[v].size
              /\ W = [V EXCEPT ![v].size = W[v].size]
              /\ PromisedAttachments(db)' = PromisedAttachments(db)
BY DEF PromisedVolumes, PromisedAttachments, Shape, Attachment, Promise!Extend

\* Provisioning!Delete, over the committed tables.
LEMMA DeleteIs ==
  ASSUME NEW v
  PROVE  Promise!Delete(v) <=>
           /\ \A a \in PromisedAttachments(db) : a.volume # v
           /\ PromisedVolumes(db)' = [PromisedVolumes(db) EXCEPT ![v] = Null]
           /\ PromisedAttachments(db)' = PromisedAttachments(db)
BY DEF PromisedVolumes, PromisedAttachments, Shape, Attachment, Promise!Delete

\* Provisioning!Attach, over the committed tables.
LEMMA AttachIs ==
  ASSUME NEW a
  PROVE  Promise!Attach(a) <=>
           LET A == PromisedAttachments(db)
           IN /\ a \in [volume : Volumes, host : Hosts, persona : Endpoints,
                        underlay : Endpoints, lun : Nat, uid : Nat]
              /\ PromisedVolumes(db)[a.volume] # Null
              /\ \A b \in A : a.host = b.host /\ a.persona = b.persona => a.lun # b.lun
              /\ \A n \in 0..a.lun : n # a.lun =>
                   \E b \in A : (a.host = b.host /\ a.persona = b.persona) /\ b.lun = n
              /\ \A b \in A : a.underlay = b.underlay => a.uid # b.uid
              /\ PromisedAttachments(db)' = A \cup {a}
              /\ PromisedVolumes(db)' = PromisedVolumes(db)
BY DEF PromisedVolumes, PromisedAttachments, Shape, Attachment, Promise!Attach,
   Promise!Attachment, Promise!OnSamePort

\* Provisioning!Detach, over the committed tables.
LEMMA DetachIs ==
  ASSUME NEW a
  PROVE  Promise!Detach(a) <=>
           /\ PromisedAttachments(db)' = PromisedAttachments(db) \ {a}
           /\ PromisedVolumes(db)' = PromisedVolumes(db)
BY DEF PromisedVolumes, PromisedAttachments, Shape, Attachment, Promise!Detach

\* A step of Provisioning, its values read off the tables.
LEMMA NextIs ==
  Promise!Next <=>
    LET V == PromisedVolumes(db)
        W == PromisedVolumes(db)'
    IN \/ \E v \in Volumes :
            \/ W[v] # Null /\ Promise!Create(v, W[v].name, W[v].size)
            \/ W[v] # Null /\ Promise!Extend(v, W[v].size)
            \/ Promise!Delete(v)
       \/ \E a \in PromisedAttachments(db)' \ PromisedAttachments(db) : Promise!Attach(a)
       \/ \E a \in PromisedAttachments(db) \ PromisedAttachments(db)' : Promise!Detach(a)
BY DEF PromisedVolumes, PromisedAttachments, Shape, Attachment, Promise!Next

\* What Shape says of rows.
LEMMA Shapes ==
  ASSUME NEW row \in VolumeRow \cup {Null}
  PROVE  /\ Shape(row) = Null <=> row = Null
         /\ row # Null => /\ Shape(row) = [name |-> row.name, size |-> row.size]
                          /\ Shape(row).name = row.name /\ Shape(row).size = row.size
<1>1. row # Null => [name |-> row.name, size |-> row.size] \in [name : Names, size : 1..MaxSize]
  BY DEF VolumeRow
<1> QED
  BY <1>1, NullAssumption DEF Shape

\* Provisioning sees no difference between rows that SameBut relates.
LEMMA SameShapes ==
  ASSUME NEW t, NEW u, NEW but, SameBut(t, u, but)
  PROVE  /\ \A w \in Volumes \ but : PromisedVolumes(u)[w] = PromisedVolumes(t)[w]
         /\ but = {} => PromisedVolumes(u) = PromisedVolumes(t)
<1>1. \A w \in Volumes \ but : Shape(t.volume[w]) = Shape(u.volume[w])
  BY DEF SameBut, SameRow, Shape
<1> QED
  BY <1>1 DEF PromisedVolumes

\* One operation on the committed tables is one step of Provisioning.
LEMMA AdvanceIsPromised ==
  ASSUME Inv, OneInv, TablesOK(db'), Advances(db, db')
  PROVE  [Promise!Next]_(Promise!promised)
<1> DEFINE V == PromisedVolumes(db)
           W == PromisedVolumes(db)'
           A == PromisedAttachments(db)
           B == PromisedAttachments(db)'
<1>1. W = PromisedVolumes(db') /\ B = PromisedAttachments(db')
  BY DEF PromisedVolumes, PromisedAttachments, Shape, Attachment
<1>2. /\ V \in [Volumes -> {Shape(db.volume[v]) : v \in Volumes}]
      /\ W \in [Volumes -> {Shape(db'.volume[v]) : v \in Volumes}]
      /\ DOMAIN V = Volumes /\ DOMAIN W = Volumes
      /\ \A v \in Volumes : V[v] = Shape(db.volume[v]) /\ W[v] = Shape(db'.volume[v])
  BY <1>1 DEF PromisedVolumes
<1>3. TablesOK(db)
  BY Known
<1>4. \A v \in Volumes :
        /\ V[v] = Null <=> db.volume[v] = Null
        /\ W[v] = Null <=> db'.volume[v] = Null
        /\ db.volume[v] # Null => V[v] = [name |-> db.volume[v].name, size |-> db.volume[v].size]
        /\ db'.volume[v] # Null => W[v] = [name |-> db'.volume[v].name, size |-> db'.volume[v].size]
        /\ db.volume[v] # Null => V[v].name = db.volume[v].name /\ V[v].size = db.volume[v].size
        /\ db'.volume[v] # Null => W[v].name = db'.volume[v].name /\ W[v].size = db'.volume[v].size
  BY <1>2, <1>3, Shapes DEF TablesOK, Tables
<1>5. db'.mapping = db.mapping => B = A
  BY <1>1 DEF PromisedAttachments
<1> HIDE DEF V, W, A, B
<1>6. ASSUME NEW v \in Volumes, SameBut(db, db', {v}), NEW x, W[v] = x
      PROVE  W = [V EXCEPT ![v] = x]
  <2>1. \A w \in Volumes \ {v} : W[w] = V[w]
    BY <1>1, <1>6, SameShapes DEF V, W
  <2> QED
    BY <1>2, <1>6, <2>1
<1>7. SameBut(db, db', {}) => W = V
  BY <1>1, SameShapes DEF V, W
<1>8. CASE Creates(db, db')
  <2>1. PICK v \in Volumes :
          /\ db.volume[v] = Null /\ db'.volume[v] # Null /\ ~NameIn(db, db'.volume[v].name)
          /\ SameBut(db, db', {v}) /\ db'.mapping = db.mapping
    BY <1>8 DEF Creates
  <2>2. /\ V[v] = Null /\ W[v] # Null
        /\ W[v] = [name |-> W[v].name, size |-> W[v].size]
        /\ W[v].name = db'.volume[v].name
    BY <1>4, <2>1
  <2>3. \A w \in Volumes : V[w] # Null => V[w].name # W[v].name
    BY <1>4, <2>1, <2>2 DEF NameIn
  <2>4. W = [V EXCEPT ![v] = [name |-> W[v].name, size |-> W[v].size]]
    BY <1>6, <2>1, <2>2
  <2>5. Promise!Create(v, W[v].name, W[v].size)
    <3>1. B = A
      BY <1>5, <2>1
    <3> QED
      BY <2>2, <2>3, <2>4, <3>1, CreateIs DEF V, W, A, B
  <2> QED
    BY <2>2, <2>5, NextIs DEF W
<1>9. CASE Extends(db, db')
  <2>1. PICK v \in Volumes :
          /\ db.volume[v] # Null /\ db'.volume[v] # Null
          /\ db'.volume[v].name = db.volume[v].name /\ db'.volume[v].size > db.volume[v].size
          /\ SameBut(db, db', {v}) /\ db'.mapping = db.mapping
    BY <1>9 DEF Extends
  <2>2. /\ V[v] # Null /\ W[v] # Null /\ W[v].size > V[v].size
        /\ W[v] = [V[v] EXCEPT !.size = W[v].size]
    <3> DEFINE old == db.volume[v]
               new == db'.volume[v]
    <3>1. old # Null /\ new # Null /\ new.name = old.name /\ new.size > old.size
      BY <2>1
    <3> HIDE DEF old, new
    <3>2. V[v] # Null /\ V[v] = [name |-> old.name, size |-> old.size]
      BY <1>4, <3>1 DEF old
    <3>3. W[v] # Null /\ W[v] = [name |-> new.name, size |-> new.size]
      BY <1>4, <3>1 DEF new
    <3> QED
      BY <3>1, <3>2, <3>3
  <2>3. W = [V EXCEPT ![v] = [V[v] EXCEPT !.size = W[v].size]]
    BY <1>6, <2>1, <2>2
  <2>4. W = [V EXCEPT ![v].size = W[v].size]
    BY <1>2, <2>3
  <2>5. Promise!Extend(v, W[v].size)
    <3>1. B = A
      BY <1>5, <2>1
    <3> QED
      BY <2>2, <2>4, <3>1, ExtendIs DEF V, W, A, B
  <2> QED
    BY <2>2, <2>5, NextIs DEF W
<1>10. CASE Deletes(db, db')
  <2>1. PICK v \in Volumes :
          /\ ~Mapped(db, v) /\ db'.volume[v] = Null
          /\ SameBut(db, db', {v}) /\ db'.mapping = db.mapping
    BY <1>10 DEF Deletes
  <2>2. \A a \in A : a.volume # v
    BY <2>1 DEF A, PromisedAttachments, Attachment, Mapped
  <2>3. W = [V EXCEPT ![v] = Null]
    BY <1>4, <1>6, <2>1
  <2>4. Promise!Delete(v)
    BY <1>5, <2>1, <2>2, <2>3, DeleteIs DEF V, W, A, B
  <2> QED
    BY <2>4, NextIs
<1>11. CASE Attaches(db, db')
  <2>1. PICK m \in db'.mapping :
          /\ Fits(db, m) /\ SameBut(db, db', {}) /\ db'.mapping = db.mapping \cup {m}
    BY <1>11 DEF Attaches
  <2>2. m \in MappingRow /\ db.mapping \subseteq MappingRow
    BY <1>3 DEF TablesOK, Tables
  <2> DEFINE a == Attachment(m)
  <2>3. /\ a \in [volume : Volumes, host : Hosts, persona : Endpoints,
                  underlay : Endpoints, lun : Nat, uid : Nat]
        /\ a.volume = m.volume /\ a.host = m.host /\ a.persona = m.persona
        /\ a.underlay = m.underlay /\ a.lun = m.lun /\ a.uid = m.uid
    BY <2>2 DEF Attachment, MappingRow
  <2>4. B = A \cup {a}
    BY <1>1, <2>1 DEF A, PromisedAttachments
  <2> HIDE DEF a
  <2>5. \A b \in A : \E n \in db.mapping : b = Attachment(n)
    BY DEF A, PromisedAttachments
  <2>6. \A n \in db.mapping : Attachment(n) \in A
    BY DEF A, PromisedAttachments
  <2>7. /\ V[a.volume] # Null
        /\ \A b \in A : a.host = b.host /\ a.persona = b.persona => a.lun # b.lun
        /\ \A b \in A : a.underlay = b.underlay => a.uid # b.uid
    <3>1. m.volume \in Volumes /\ db.volume[m.volume] # Null
      BY <2>1, <2>2 DEF Fits, MappingRow
    <3>2. V[a.volume] # Null
      BY <1>4, <2>3, <3>1
    <3>3. ASSUME NEW b \in A
          PROVE  /\ a.host = b.host /\ a.persona = b.persona => a.lun # b.lun
                 /\ a.underlay = b.underlay => a.uid # b.uid
      <4>1. PICK n \in db.mapping : b = Attachment(n)
        BY <2>5
      <4>2. /\ b.host = n.host /\ b.persona = n.persona /\ b.underlay = n.underlay
            /\ b.lun = n.lun /\ b.uid = n.uid
        BY <4>1 DEF Attachment
      <4> QED
        BY <2>1, <2>3, <4>2 DEF Fits, UsedLuns, UsedUids
    <3> QED
      BY <3>2, <3>3
  <2>8. ASSUME NEW k \in 0..a.lun, k # a.lun
        PROVE  \E b \in A : (a.host = b.host /\ a.persona = b.persona) /\ b.lun = k
    <3>1. k \in UsedLuns(db, m.host, m.persona)
      BY <2>1, <2>3, <2>8 DEF Fits
    <3>2. PICK n \in db.mapping : n.host = m.host /\ n.persona = m.persona /\ n.lun = k
      BY <3>1 DEF UsedLuns
    <3> QED
      BY <2>3, <2>6, <3>2 DEF Attachment
  <2>9. a \notin A
    BY <2>7
  <2>10. Promise!Attach(a)
    BY <1>7, <2>1, <2>3, <2>4, <2>7, <2>8, AttachIs DEF V, W, A, B
  <2> QED
    BY <2>4, <2>9, <2>10, NextIs DEF A, B
<1>12. CASE Detaches(db, db')
  <2>1. PICK m \in db.mapping : SameBut(db, db', {}) /\ db'.mapping = db.mapping \ {m}
    BY <1>12 DEF Detaches
  <2> DEFINE a == Attachment(m)
  <2>2. \A n \in db.mapping : n # m => Attachment(n) # a
    BY DEF OneInv, Orderly, LunsOK, Attachment
  <2>3. a \in A
    BY DEF A, PromisedAttachments
  <2> HIDE DEF a
  <2>4. B = A \ {a}
    <3>1. B = {Attachment(n) : n \in db.mapping \ {m}}
      BY <1>1, <2>1 DEF PromisedAttachments
    <3>2. A = {Attachment(n) : n \in db.mapping}
      BY DEF A, PromisedAttachments
    <3> QED
      BY <2>2, <3>1, <3>2 DEF a
  <2>5. Promise!Detach(a)
    BY <1>7, <2>1, <2>4, DetachIs DEF V, W, A, B
  <2> QED
    BY <2>3, <2>4, <2>5, NextIs DEF A, B
<1>13. CASE Keeps(db, db')
  <2>1. W = V /\ B = A
    BY <1>5, <1>7, <1>13 DEF Keeps
  <2> QED
    BY <2>1, PromisedIs DEF V, W, A, B
<1> QED
  BY <1>8, <1>9, <1>10, <1>11, <1>12, <1>13 DEF Advances

\* Requests that run one at a time implement Provisioning: each commit is one
\* of its operations, and every other step, failure and crash a stutter.
THEOREM PromiseKept ==
  ASSUME OneRequest
  PROVE  Spec => KeepsPromise
<1>1. Init => Promise!Init
  BY DEF Init, Promise!Init
<1>2. ASSUME Inv, OneInv, [Next]_vars PROVE [Promise!Next]_(Promise!promised)
  <2>1. CASE Advances(db, db')
    <3>1. TablesOK(db')
      BY <1>2, NextInv DEF Inv, CoreInv
    <3> QED
      BY <1>2, <2>1, <3>1, AdvanceIsPromised
  <2>2. CASE db' = db
    <3>1. PromisedVolumes(db)' = PromisedVolumes(db) /\ PromisedAttachments(db)' = PromisedAttachments(db)
      BY <2>2 DEF PromisedVolumes, PromisedAttachments, Shape, Attachment
    <3> QED
      BY <3>1, PromisedIs
  <2> QED
    BY <1>2, <2>1, <2>2, StepAdvances
<1> QED
  BY <1>1, <1>2, OneInvariance, PTL DEF Spec, KeepsPromise, Promise!Spec

-----------------------------------------------------------------------------
\* What SPDK exports.

\* SPDK does what it is asked, and no mapping is deleted from an iSCSI target:
\* that takes down the target's other LUNs.
ExportsKept ==
  /\ RpcFaults = {} /\ Disruptions \subseteq {"host_reboot"}
  /\ \/ "delete_mapping" \notin Operations
     \/ \A e \in Endpoints : Wired(e) => Protocol[e] # "iscsi"

\* What SPDK exports if table t is right.
SlotsOf(t) == {Slot(m) : m \in {n \in t.mapping : Wired(n.underlay)}}

ExportInv == export = IF gateway = "up" THEN SlotsOf(Shown) ELSE {}

\* A request's draft counts once its SPDK call is over.
LEMMA ShownToOne ==
  ASSUME Inv, OneRequest, NEW r \in Requests
  PROVE  Shown = IF pc[r] = "commit" THEN draft ELSE db
<1>1. pc[r] = "commit" => writer = r /\ writer # Null
  BY LockHolder DEF Inv, LockedSteps
<1>2. writer # Null => writer = r
  BY DEF OneRequest, Inv, CoreInv
<1> QED
  BY <1>1, <1>2 DEF Shown

\* The same of the next state.
LEMMA ShownToOneNext ==
  ASSUME Inv', OneRequest, NEW r \in Requests
  PROVE  Shown' = IF pc'[r] = "commit" THEN draft' ELSE db'
<1>1. pc'[r] = "commit" => writer' = r
  BY DEF Inv, CoreInv, RequestOK, LockedSteps
<1>2. writer' # Null => writer' = r
  BY DEF OneRequest, Inv, CoreInv
<1>3. r # Null
  BY ConstantsAssumption
<1> QED
  BY <1>1, <1>2, <1>3 DEF Shown

\* A step that has nothing to do with exports.
LEMMA ExportsStay ==
  ASSUME Inv, Inv', ExportInv, OneRequest, NEW r \in Requests, pc[r] # "commit",
         UNCHANGED <<db, export, gateway>>,
         pc'[r] = "commit" => draft'.mapping = db.mapping
  PROVE  ExportInv'
<1>1. Shown = db
  BY ShownToOne
<1>2. Shown' = IF pc'[r] = "commit" THEN draft' ELSE db'
  BY ShownToOneNext
<1>3. SlotsOf(Shown') = SlotsOf(Shown)
  BY <1>1, <1>2 DEF SlotsOf
<1> QED
  BY <1>3 DEF ExportInv, SlotsOf, Slot, Wired

\* A step that has to do with one mapping.
LEMMA ExportsMove ==
  ASSUME Inv', OneRequest, NEW r \in Requests, pc'[r] = "commit", gateway' = "up",
         export' = SlotsOf(draft')
  PROVE  ExportInv'
<1>1. Shown' = draft'
  BY ShownToOneNext
<1> QED
  BY <1>1 DEF ExportInv, SlotsOf, Slot, Wired

\* Requests that begin, read, flush or give up.
LEMMA ReadExports ==
  ASSUME Inv, Inv', ExportInv, OneRequest, NEW r \in Requests,
         \/ Begin(r) \/ InsertVolume(r) \/ CheckMappings(r) \/ MarkDeleting(r) \/ MarkExtending(r)
         \/ AllocateIds(r) \/ InsertMapping(r) \/ MarkDetached(r) \/ LockTimeout(r)
  PROVE  ExportInv'
<1>1. pc \in [Requests -> Steps]
  BY DEF Inv, CoreInv
<1>2. CASE Begin(r)
  <2>1. pc[r] = "idle" /\ UNCHANGED <<db, export, gateway>>
    BY <1>2, BeginLeaves
  <2>2. pc'[r] # "commit"
    BY <1>1, <1>2, BeginLeaves DEF GoTo
  <2> QED
    BY <2>1, <2>2, ExportsStay
<1>3. CASE InsertVolume(r) \/ CheckMappings(r) \/ MarkDeleting(r) \/ MarkExtending(r)
  <2>1. pc[r] # "commit" /\ pc'[r] # "commit" /\ UNCHANGED <<db, export, gateway>>
    BY <1>1, <1>3
       DEF InsertVolume, CheckMappings, MarkDeleting, MarkExtending, BeginWrite, StaleRow,
       Leave, GoTo, tables, spdk
  <2> QED
    BY <2>1, ExportsStay
<1>4. CASE AllocateIds(r) \/ InsertMapping(r) \/ MarkDetached(r) \/ LockTimeout(r)
  <2>1. pc[r] # "commit" /\ pc'[r] # "commit" /\ UNCHANGED <<db, export, gateway>>
    BY <1>1, <1>4
       DEF AllocateIds, InsertMapping, MarkDetached, LockTimeout, BeginWrite, StaleRow,
       Leave, GoTo, tables, spdk, FlushSteps
  <2> QED
    BY <2>1, ExportsStay
<1> QED
  BY <1>2, <1>3, <1>4

\* What an operation on a volume has flushed leaves the mappings alone.
LEMMA MappingsUntouched ==
  ASSUME VolumeInv, NEW r \in Requests, pc[r] \in {"provision", "deprovision", "resize"},
         TablesOK(db)
  PROVE  draft.mapping = db.mapping
<1>1. \A v, row : SetRow(db, v, row).mapping = db.mapping
  BY DEF SetRow, TablesOK, Tables
<1>2. \A v, status : SetStatus(db, v, status).mapping = db.mapping
  BY DEF SetStatus, TablesOK, Tables
<1>3. DraftAt(r)
  BY DEF VolumeInv, DraftKnown
<1> QED
  BY <1>1, <1>2, <1>3 DEF DraftAt

\* An operation fails.
LEMMA FailExports ==
  ASSUME Inv, Inv', VolumeInv, ExportInv, OneRequest, NEW r \in Requests,
         pc[r] \in {"provision", "deprovision", "resize"},
         NEW v, FailWrite(r, v), UNCHANGED <<export, gateway>>
  PROVE  ExportInv'
<1>1. TablesOK(db) /\ pc \in [Requests -> Steps]
  BY DEF Inv, CoreInv
<1>2. draft.mapping = db.mapping
  BY <1>1, MappingsUntouched
<1>3. SetStatus(draft, v, "error").mapping = draft.mapping
  BY Known DEF SetStatus, TablesOK, Tables
<1>4. db' = db /\ (pc'[r] = "commit" => draft'.mapping = db.mapping)
  BY <1>1, <1>2, <1>3 DEF FailWrite, Written, Rollback, Leave, GoTo
<1> QED
  BY <1>4, ExportsStay

\* create_volume and extend_volume hear from SPDK.
LEMMA SizeExports ==
  ASSUME Inv, Inv', VolumeInv, ExportInv, OneRequest, NEW r \in Requests,
         ProvisionVolume(r) \/ ResizeVolume(r)
  PROVE  ExportInv'
<1>1. /\ TablesOK(db) /\ TablesOK(draft) /\ pc \in [Requests -> Steps]
      /\ pc[r] \in {"provision", "resize"} /\ UNCHANGED <<export, gateway>>
  BY DEF Inv, CoreInv, ProvisionVolume, ResizeVolume, spdk
<1>2. draft.mapping = db.mapping
  BY <1>1, MappingsUntouched
<1>3. ASSUME NEW t, t.mapping = draft.mapping, Written(r, t) PROVE ExportInv'
  <2>1. db' = db /\ draft' = t
    BY <1>3 DEF Written
  <2> QED
    BY <1>1, <1>2, <1>3, <2>1, ExportsStay
<1>4. CASE \E v : FailWrite(r, v)
  BY <1>1, <1>4, FailExports
<1>5. CASE ProvisionVolume(r)
  <2>1. SetRow(draft, local[r].volume, Provisioned(local[r].seen)).mapping = draft.mapping
    BY <1>1 DEF SetRow, TablesOK, Tables
  <2> QED
    BY <1>3, <1>4, <1>5, <2>1 DEF ProvisionVolume
<1>6. CASE ResizeVolume(r)
  <2>1. Extended(draft, local[r].volume, local[r].size).mapping = draft.mapping
    BY <1>1 DEF Extended, SetStatus, TablesOK, Tables
  <2> QED
    BY <1>3, <1>4, <1>6, <2>1 DEF ResizeVolume
<1> QED
  BY <1>5, <1>6
\* delete_volume hears from SPDK: nothing was exported of a volume without
\* mappings.
LEMMA DeprovisionExports ==
  ASSUME Inv, Inv', VolumeInv, OneInv, ExportInv, OneRequest, NEW r \in Requests,
         DeprovisionVolume(r)
  PROVE  ExportInv'
<1> DEFINE v == local[r].volume
<1>1. /\ pc[r] = "deprovision" /\ gateway' = gateway /\ pc \in [Requests -> Steps]
      /\ EraseVolume(r) \/ FailWrite(r, v)
      /\ export' \in {export, {x \in export : x.volume # v}}
  BY DEF DeprovisionVolume, FinishDelete, Inv, CoreInv, spdk
<1>2. /\ TablesOK(db) /\ TablesOK(draft) /\ ~Mapped(db, v)
      /\ draft = SetStatus(db, v, "deleting")
  BY <1>1 DEF Inv, CoreInv, VolumeInv, DraftKnown, DraftAt, OneInv, Aware
<1>3. draft.mapping = db.mapping
  BY <1>2 DEF SetStatus, TablesOK, Tables
<1>4. export' = export
  <2>1. Shown = db
    BY <1>1, ShownToOne
  <2>2. \A x \in export : x.volume # v
    BY <1>2, <2>1 DEF ExportInv, SlotsOf, Slot, Mapped
  <2> QED
    BY <1>1, <2>2
<1>5. CASE FailWrite(r, v)
  BY <1>1, <1>4, <1>5, FailExports
<1>6. CASE EraseVolume(r)
  <2>1. SetRow(draft, v, Null).mapping = draft.mapping
    BY <1>2 DEF SetRow, TablesOK, Tables
  <2>2. db' = db /\ (pc'[r] = "commit" => draft'.mapping = db.mapping)
    BY <1>1, <1>3, <1>6, <2>1 DEF EraseVolume, Written, Rollback, Leave, GoTo
  <2> QED
    BY <1>1, <1>4, <2>2, ExportsStay
<1> QED
  BY <1>1, <1>5, <1>6

\* create_mapping hears from SPDK: the number it picked was free there too.
LEMMA WireExports ==
  ASSUME Inv, Inv', VolumeInv, OneInv, ExportInv, OneRequest, RpcFaults = {},
         NEW r \in Requests, WireMapping(r)
  PROVE  ExportInv'
<1> DEFINE m == local[r].row
<1>1. /\ pc[r] = "wire" /\ gateway' = gateway /\ gateway = "up" /\ pc \in [Requests -> Steps]
  BY ActiveIsUp DEF WireMapping, Inv, CoreInv
<1>2. /\ pc[r] \in MappingSteps /\ TablesOK(db) /\ TablesOK(draft) /\ Fits(db, m)
      /\ draft = [db EXCEPT !.mapping = @ \cup {m}]
  BY <1>1 DEF Inv, CoreInv, MappingSteps, VolumeInv, DraftKnown, DraftAt, OneInv, Aware
<1>3. /\ draft.volume = db.volume /\ draft.mapping = db.mapping \cup {m}
      /\ pc[r] \in MappingSteps /\ TablesOK(draft)
  BY <1>2 DEF TablesOK, Tables
<1>4. export = SlotsOf(db)
  BY <1>1, ShownToOne DEF ExportInv
<1>5. ~Occupied(m)
  BY <1>2, <1>4 DEF Occupied, SlotsOf, Slot, Fits, UsedUids
<1>6. CASE Rollback(r) /\ export' = export
  <2>1. pc'[r] # "commit" /\ db' = db
    BY <1>1, <1>6 DEF Rollback, Leave, GoTo
  <2> QED
    BY <1>1, <1>6, <2>1, ExportsStay
<1>7. CASE /\ SettleStatus(r, draft, "in_use")
           /\ export' = IF Wired(m.underlay) THEN export \cup {Slot(m)} ELSE export
  <2> "in_use" \in Status
    BY DEF Status
  <2>1. PICK u : /\ Written(r, u) /\ u.mapping = draft.mapping /\ SameBut(db, u, {})
                 /\ u.volume[local[r].volume] # Null
                 /\ u.volume[local[r].volume].status = "in_use"
                 /\ \A w \in Volumes \ {local[r].volume} : u.volume[w] = db.volume[w]
    BY <1>3, <1>7, Settling
  <2>2. pc'[r] = "commit" /\ draft'.mapping = db.mapping \cup {m}
    BY <1>1, <1>3, <2>1 DEF Written, GoTo
  <2>3. export' = SlotsOf(draft')
    BY <1>4, <1>7, <2>2 DEF SlotsOf
  <2> QED
    BY <1>1, <2>2, <2>3, ExportsMove
<1> QED
  BY <1>5, <1>6, <1>7 DEF WireMapping

\* delete_mapping hears from SPDK: the LUN or namespace that is gone was this
\* mapping's and no other one's.
LEMMA UnwireExports ==
  ASSUME Inv, Inv', VolumeInv, LvolInv, OneInv, ExportInv, OneRequest, ExportsKept,
         NEW r \in Requests, UnwireMapping(r)
  PROVE  ExportInv'
<1> DEFINE v == local[r].volume
           m == local[r].row
           rest == [draft EXCEPT !.mapping = @ \ {m}]
<1>1. /\ pc[r] = "unwire" /\ gateway' = gateway /\ gateway = "up" /\ pc \in [Requests -> Steps]
      /\ pc[r] \in MappingSteps /\ TablesOK(db) /\ TablesOK(draft)
      /\ draft = db /\ m \in db.mapping /\ local[r].seen = db.volume[v] /\ db.volume[v] # Null
  BY ActiveIsUp
     DEF UnwireMapping, MappingSteps, VolumeInv, DraftKnown, DraftAt, OneInv, Aware, Inv,
         CoreInv
<1>2. rest.volume = db.volume /\ rest.mapping = db.mapping \ {m}
  BY <1>1, MappingsOnly
<1>3. TablesOK(rest)
  <2>1. IsFiniteSet(draft.mapping \ {m})
    BY <1>1, FS_RemoveElement DEF TablesOK
  <2> QED
    BY <1>1, <1>2, <2>1 DEF TablesOK, Tables
<1>4. Written(r, rest) \/ SettleStatus(r, rest, "available")
  BY <1>1 DEF UnwireMapping, EraseMapping
<1> HIDE DEF rest
<1>5. pc'[r] = "commit" /\ draft'.mapping = db.mapping \ {m}
  <2>1. \E u : Written(r, u) /\ u.mapping = rest.mapping
    <3>1. rest.volume = db.volume /\ pc[r] \in MappingSteps /\ "available" \in Status
      BY <1>1, <1>2 DEF Status
    <3> QED
      BY <3>1, <1>3, <1>4, Settling
  <2> QED
    BY <1>1, <1>2, <2>1 DEF Written, GoTo
<1>6. export' = Unwired(m)
  BY DEF UnwireMapping, Outcomes, Done, ExportsKept
<1>7. export = SlotsOf(db)
  BY <1>1, ShownToOne DEF ExportInv
<1>8. \A n \in db.mapping : n # m => ~(m.underlay = n.underlay /\ m.uid = n.uid)
  BY <1>1 DEF OneInv, Orderly, LunsOK
<1>9. export' = SlotsOf(draft')
  <2>1. Wired(m.underlay) => Protocol[m.underlay] = "nvmeof_tcp"
    <3>1. m.underlay \in Endpoints
      BY <1>1 DEF TablesOK, Tables, MappingRow
    <3>2. "delete_mapping" \in Operations
      BY <1>1 DEF LvolInv, Informed
    <3> QED
      BY <3>1, <3>2, ConstantsAssumption DEF ExportsKept, Wired
  <2>2. CASE ~Wired(m.underlay)
    BY <1>5, <1>6, <1>7, <2>2 DEF Unwired, SlotsOf
  <2>3. CASE Wired(m.underlay)
    <3>1. export' = {x \in SlotsOf(db) : x.endpoint # m.underlay \/ x.uid # m.uid}
      BY <1>6, <1>7, <2>1, <2>3 DEF Unwired
    <3> QED
      BY <1>5, <1>8, <3>1 DEF SlotsOf, Slot
  <2> QED
    BY <2>2, <2>3
<1> QED
  BY <1>1, <1>5, <1>9, ExportsMove

\* The draft becomes the committed tables.
LEMMA CommitExports ==
  ASSUME Inv, Inv', ExportInv, OneRequest, NEW r \in Requests, Commit(r)
  PROVE  ExportInv'
<1>1. /\ pc[r] = "commit" /\ pc'[r] # "commit" /\ db' = draft
      /\ UNCHANGED <<export, gateway>>
  BY DEF Commit, Leave, GoTo, spdk, Inv, CoreInv
<1>2. Shown = draft
  BY <1>1, ShownToOne
<1>3. Shown' = db'
  BY <1>1, ShownToOneNext
<1> QED
  BY <1>1, <1>2, <1>3 DEF ExportInv, SlotsOf, Slot, Wired

\* reconcile exports each mapping that is recorded: no two claim one number,
\* and every volume has its lvol by then.
LEMMA StartupExports ==
  ASSUME Inv, LvolInv, OneInv, ExportInv, NothingLost, Startup
  PROVE  ExportInv'
<1>1. /\ gateway = "down" /\ gateway' = "up" /\ writer = Null /\ writer' = Null
      /\ export = {} /\ TablesOK(db)
  BY DEF Startup, Inv, CoreInv, ExportInv
<1>2. /\ db'.mapping = db.mapping
      /\ \A v \in Volumes : db.volume[v] # Null => db'.volume[v].bdev /\ lvol'[v] = db.volume[v].size
  BY StartupMakes
<1>3. \A m \in db.mapping :
        /\ m.volume \in Volumes /\ db.volume[m.volume] \in VolumeRow
        /\ Healthy(m.volume)
  <2>1. \A m \in db.mapping : m.volume \in Volumes /\ db.volume[m.volume] # Null
    BY <1>1 DEF OneInv, Orderly, NoDangling, TablesOK, Tables, MappingRow
  <2>2. NoErrors(db)
    BY StartupMakes
  <2> QED
    BY <1>1, <2>1, <2>2 DEF NoErrors, Healthy, TablesOK, Tables
<1>4. \A row \in VolumeRow : row.size # 0
  BY DEF VolumeRow
<1>5. \A m \in db.mapping :
        /\ lvol'[m.volume] # 0 /\ db'.volume[m.volume].bdev
        /\ Attachable(m) <=> Wired(m.underlay)
  BY <1>1, <1>2, <1>3, <1>4 DEF Attachable, Healthy, Occupied
<1> DEFINE attachable == {m \in db.mapping : Attachable(m) /\ lvol'[m.volume] # 0
                                               /\ db'.volume[m.volume].bdev}
           wired == {m \in db.mapping : Wired(m.underlay)}
<1>6. PICK done \in SUBSET attachable :
        /\ RpcFaults = {} => \A m \in attachable : \E n \in done :
                               m.underlay = n.underlay /\ m.uid = n.uid
        /\ export' = export \cup {Slot(m) : m \in done}
  BY Zenon DEF Startup
<1>7. attachable = wired
  BY <1>5
<1> HIDE DEF attachable
<1>8. done = wired
  <2>1. \A m, n \in wired : m.underlay = n.underlay /\ m.uid = n.uid => m = n
    BY DEF wired, OneInv, Orderly, LunsOK
  <2> QED
    BY <1>6, <1>7, <2>1, StartupMakes
<1>9. Shown' = db'
  BY <1>1 DEF Shown
<1> QED
  BY <1>1, <1>2, <1>6, <1>8, <1>9 DEF ExportInv, SlotsOf, wired, Slot, Wired

\* A reboot empties SPDK.
LEMMA DisruptionExports ==
  ASSUME ExportInv, ExportsKept, GatewayCrash \/ SpdkRestart \/ HostReboot
  PROVE  ExportInv'
BY DEF GatewayCrash, SpdkRestart, HostReboot, GatewayDies, SpdkDies, ExportInv, ExportsKept

\* ExportInv is inductive, given the other invariants.
LEMMA NextExports ==
  ASSUME OneRequest, ExportsKept,
         Inv, VolumeInv, LvolInv, OneInv, ExportInv, [Next]_vars
  PROVE  ExportInv'
<1>1. Inv' /\ RpcFaults = {} /\ NothingLost
  BY NextInv DEF ExportsKept, NothingLost
<1>2. ASSUME NEW r \in Requests, Begin(r) \/ Continue(r) PROVE ExportInv'
  BY <1>1, <1>2, ReadExports, SizeExports, DeprovisionExports, WireExports, UnwireExports,
     CommitExports DEF Continue
<1>3. CASE Startup
  BY <1>1, <1>3, StartupExports
<1>4. CASE UNCHANGED vars
  <2>1. Shown' = Shown
    BY <1>4 DEF vars, tables, requests, Shown
  <2> QED
    BY <1>4, <2>1 DEF vars, spdk, ExportInv, SlotsOf, Slot, Wired
<1> QED
  BY <1>2, <1>3, <1>4, DisruptionExports DEF Next

\* Where SPDK does what it is asked: it exports exactly what is recorded.
THEOREM ExportInvariance ==
  ASSUME OneRequest, ExportsKept
  PROVE  Spec => [](Inv /\ LvolInv /\ OneInv /\ ExportInv)
<1>1. NothingLost /\ MappingsStay
  BY DEF NothingLost, MappingsStay, OneRequest, ExportsKept
<1>2. Spec => [](Inv /\ VolumeInv /\ LvolInv) /\ [](Inv /\ VolumeInv /\ OneInv)
  BY <1>1, LvolInvariance, OneInvariance
<1>3. Init => ExportInv
  BY DEF Init, ExportInv, SlotsOf, Shown
<1>4. Inv /\ VolumeInv /\ LvolInv /\ OneInv /\ ExportInv /\ [Next]_vars => ExportInv'
  BY NextExports
<1> QED
  BY <1>2, <1>3, <1>4, PTL DEF Spec

\* With one request at a time and a SPDK that does what it is asked, every
\* committed mapping of a volume is exported, wherever the host reboots
\* (mappings.py:217-218, 292-304, reconcile.py:112-131).
THEOREM AlwaysExportedAsMapped ==
  ASSUME OneRequest, ExportsKept
  PROVE  Spec => []ExportedAsMapped
<1>1. Inv /\ OneInv /\ ExportInv => ExportedAsMapped
  <2> SUFFICES ASSUME Inv, OneInv, ExportInv, gateway = "up", NEW m \in db.mapping,
                      Wired(m.underlay), m \in draft.mapping
               PROVE  Slot(m) \in export
    BY DEF ExportedAsMapped, BeingErased
  <2> QED
    BY DEF ExportInv, SlotsOf, Shown
<1> QED
  BY <1>1, ExportInvariance, PTL

\* Under the same conditions, the number that a mapping records shows that
\* mapping's volume and no other one (ensure.py:294-346).
THEOREM AlwaysRightVolumeExported ==
  ASSUME OneRequest, ExportsKept
  PROVE  Spec => []RightVolumeExported
<1>1. Inv /\ OneInv /\ ExportInv => RightVolumeExported
  <2> SUFFICES ASSUME Inv, OneInv, ExportInv, NEW m \in db.mapping, NEW x \in export,
                      x.endpoint = m.underlay, x.uid = m.uid
               PROVE  x.volume = m.volume
    BY DEF RightVolumeExported
  <2>1. PICK n \in Shown.mapping : x = Slot(n)
    BY DEF ExportInv, SlotsOf
  <2>2. CASE n \in db.mapping
    BY <2>1, <2>2 DEF OneInv, Orderly, LunsOK, Slot
  <2>3. CASE n \notin db.mapping
    <3>1. writer \in Requests /\ pc[writer] = "commit" /\ n \in draft.mapping
      BY <2>1, <2>3 DEF Shown, Inv, CoreInv
    <3>2. Advances(db, draft)
      BY <3>1 DEF OneInv, Aware
    <3>3. Fits(db, n)
      BY <2>3, <3>1, <3>2 DEF Advances, Creates, Extends, Deletes, Attaches, Detaches, Keeps
    <3> QED
      BY <2>1, <3>3, FitsBeside DEF Slot
  <2> QED
    BY <2>2, <2>3
<1> QED
  BY <1>1, ExportInvariance, PTL
=============================================================================
