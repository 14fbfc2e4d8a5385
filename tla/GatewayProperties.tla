-------------------------- MODULE GatewayProperties --------------------------
(***************************************************************************)
(* What is asked of GatewayCore.  Which of these hold, and of how many     *)
(* concurrent requests and which failures, is what the runs settle.        *)
(***************************************************************************)
EXTENDS GatewayCore

Exists(v) == db.volume[v] # Null

\* No transient status outlives its transaction: a committed volume is never
\* creating, extending or deleting.  Crashes, failing SPDK calls, lost locks
\* and the v1 routes that commit after an exception all aim at this
\* (volumes.py:92-105, 166-175, 198-208, v1.py:145-147, 195-197).
Settled(row) == row.status \in {"available", "in_use", "error"}

StatusSettled == \A v \in Volumes : Exists(v) => Settled(db.volume[v])

\* A volume that may be mapped has a bdev to map, by way of whichever
\* operation it got its status (volumes.py:100-101, 204, mappings.py:221, 315).
OfferedHasBdev ==
  \A v \in Volumes :
    Exists(v) /\ db.volume[v].status \in {"available", "in_use"} => db.volume[v].bdev

\* SPDK is changed for one request at a time: every handler writes to the
\* database, and so takes its only write lock, before its first SPDK call
\* (volumes.py:96, 167, 199, mappings.py:215, 287).
SpdkCallsSerialised ==
  \A r, s \in Requests : pc[r] \in LockedSteps /\ pc[s] \in LockedSteps => r = s

\* Volume names are unique within the array (volumes.py:80-85).
NamesUnique ==
  \A v, w \in Volumes :
    Exists(v) /\ Exists(w) /\ db.volume[v].name = db.volume[w].name => v = w

\* No two mappings show a host the same LUN on the same persona endpoint, or
\* claim the same LUN or namespace of a target (mappings.py:172-202).
LunsUnique ==
  \A m, n \in db.mapping : m # n =>
    /\ ~(m.host = n.host /\ m.persona = n.persona /\ m.lun = n.lun)
    /\ ~(m.underlay = n.underlay /\ m.uid = n.uid)

\* A volume with mappings is not deleted (volumes.py:160-164).
NoDanglingMapping == \A m \in db.mapping : Exists(m.volume)

\* The last unmapping frees the volume: none stays in_use without a mapping
\* (mappings.py:310-315).
InUseIsMapped ==
  \A v \in Volumes :
    Exists(v) /\ db.volume[v].status = "in_use" => MappingsOf(db, v) # {}

\* A mapped volume is not shown as available (README.md:449).  The code breaks
\* this by map and extend: no run asks for it.
AvailableIsUnmapped ==
  \A v \in Volumes :
    Exists(v) /\ db.volume[v].status = "available" => MappingsOf(db, v) = {}

\* The lvol has the size its row says, or there is nothing to say.
LvolMatches(t, v) ==
  t.volume[v] # Null /\ t.volume[v].status # "error" => lvol[v] = t.volume[v].size

\* While the gateway serves, a volume not in error has an lvol of the recorded
\* size, except between a request's SPDK call and its commit; there the row
\* about to be committed says so (volumes.py:98-101, 169-178, 201-204).
RecordedIsProvisioned ==
  gateway = "up" =>
    \A v \in Volumes :
      \/ LvolMatches(db, v)
      \/ writer # Null /\ pc[writer] = "commit" /\ LvolMatches(draft, v)

\* No lvol is left behind without a row that names its volume.
NoOrphanLvol ==
  \A v \in Volumes : lvol[v] # 0 => Exists(v) \/ draft.volume[v] # Null

\* The row of m is still there, the request that deletes it about to commit.
BeingErased(m) == m \notin draft.mapping

\* While the gateway serves, SPDK exports every committed mapping of a
\* healthy volume, at the number the mapping records, with the bdev of the
\* mapping's volume (mappings.py:217-218, 292-304, reconcile.py:112-131).
ExportedAsMapped ==
  gateway = "up" =>
    \A m \in db.mapping :
      Healthy(m.volume) /\ Wired(m.underlay) => Slot(m) \in export \/ BeingErased(m)

\* A LUN or namespace that a mapping records shows that mapping's volume and
\* no other one (ensure.py:294-346).
RightVolumeExported ==
  \A m \in db.mapping, x \in export :
    x.endpoint = m.underlay /\ x.uid = m.uid => x.volume = m.volume

\* A volume never shrinks (volumes.py:189, 195-196).
SizesOnlyGrow ==
  [][\A v \in Volumes :
       Exists(v) /\ db'.volume[v] # Null => db'.volume[v].size >= db.volume[v].size]_vars

\* Every request ends, whoever holds the lock and however SPDK answers.
RequestsEnd == \A r \in Requests : pc[r] # "idle" ~> pc[r] = "idle"

\* Null is not what a client is shown of a volume.
ASSUME NullAssumption == Null \notin [name : Names, size : 1..MaxSize]

\* The committed tables, seen as the promise sees them.
Promise == INSTANCE Provisioning WITH
  volumes <- [v \in Volumes |-> IF db.volume[v] # Null
                THEN [name |-> db.volume[v].name, size |-> db.volume[v].size] ELSE Null],
  attachments <- {[volume |-> m.volume, host |-> m.host, persona |-> m.persona,
                   underlay |-> m.underlay, lun |-> m.lun, uid |-> m.uid] : m \in db.mapping}

\* Requests that run one at a time implement the promise, failures included.
KeepsPromise == Promise!Spec
=============================================================================
