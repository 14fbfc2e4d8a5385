# Strix Gateway in TLA+

Strix Gateway is a storage array in a box: it offers the REST and command
interfaces of several vendors' arrays (IBM SVC, Hitachi, HPE 3PAR and an
interface of its own, v1), keeps pools, volumes, hosts and mappings in a SQLite
database, and provisions them in an SPDK process over JSON-RPC. This directory
holds its formal specification: modules for TLC, the configurations that check
them, and theorems that TLAPS proves.

Paths below are relative to `src/strix_gateway/`.

## 1. The system

| Component | State | Operations | Interacts with |
| --- | --- | --- | --- |
| Core volumes `core/volumes.py` | rows of `volumes`: name, size, status, bdev name | create, delete, extend, expand by delta, lookups | database, SPDK ensure layer |
| Core mappings `core/mappings.py` | rows of `mappings`: volume, host, persona and underlay endpoint, LUN, underlay id | create, delete, resolution of endpoints | database, allocators, ensure layer |
| SPDK layer `spdk/` | none; SPDK holds bdevs, lvols, targets, LUNs, namespaces | `ensure_*`, `allocate_*`, `delete_*`, `resize_lvol`; one JSON-RPC call at a time over a socket | the SPDK process |
| Reconciler `core/reconcile.py` | none | replays pools, volumes, endpoints and mappings at start | database, SPDK |
| Database `core/db.py` | one SQLite file, one session per request | transactions | every handler |
| v1 API `api/v1.py`, `api/arrays.py` | none | a route per operation, which commits or lets the session roll back | core |
| SVC `personalities/svc/` | none | a command interpreter over the core | core |
| Hitachi `personalities/hitachi/` | number maps (LDEV, pool, port, host group), job history, sessions, all in memory | REST routes | core |
| HPE 3PAR `personalities/hpe3par/` | session keys in memory | WSAPI routes, commands | core |
| Hosts, endpoints, arrays, pools `core/` | rows of their tables | create, change, delete | database, SPDK (pools) |
| Topology `topology/` | none | applies a file of arrays, pools, hosts, volumes and mappings in one session | core |
| Virtual hosts, TLS, middleware `tls/`, `middleware/` | a name registry, an authority and leaf certificates, TLS contexts, a cache of arrays | rebuild, issue, reload, dispatch of requests | arrays, personalities |
| Command line `cli/` | none | an HTTP client: looks names up, posts ids, applies topology files | v1 API |

**What is hard.** Handlers are coroutines that yield at every database and SPDK
call (SPDK calls run in threads). Each has a session of its own. SQLite takes
its single write lock at the first `INSERT` or `UPDATE`, not at the first
`SELECT`, so what a handler read before is stale when it writes. Between the
flush and the commit come SPDK calls, which the rollback cannot undo; an SPDK
call may be refused or may be done while its reply is lost; the gateway may die
in between. After a reboot SPDK is empty, and only the reconciler brings the
exports back.

**What makes each part correct.**

- *Volumes*: no transient status is ever committed; names are unique; a volume
  never shrinks; one with mappings is not deleted; what can be mapped has a
  bdev; the lvol has the recorded size; no lvol is orphaned.
- *Mappings*: LUNs are unique per host and persona endpoint, underlay ids per
  underlay endpoint; `in_use` means mapped; SPDK exports every committed mapping,
  with the right volume.
- *Allocators*: the smallest free number.
- *Database use*: SPDK is changed for one request at a time; every request ends.
- *Reconciler*: after a start, SPDK shows what the tables say.
- *Hosts, endpoints, arrays, pools*: no update lost, no row deleted that others
  need, no pool renamed under its lvols, a pool in the tables has its bdev.
- *SVC and 3PAR*: a pair is mapped once, one iSCSI endpoint is made, and all
  listings show the same things.
- *Hitachi*: a number leads to the volume that has it and no other, groups keep
  their numbers, LUNs stay within the array.
- *Sessions and jobs*: tokens and sessions agree; a job is found while it is one
  of the latest.
- *Names and certificates*: the gateway answers to the names its arrays have;
  files that are taken as they are load, and the next start succeeds unless a
  crash tore a certificate in the middle of its write (section 4); a cached
  answer is never wrong for longer than its lifetime.
- *Topology*: whoever applies a file, and however often, it is in place in the
  end, and a success reports what is there.

`PROJECT.json` lists all components and, line by line, the hazards.

## 2. The modules

| Module | Content |
| --- | --- |
| `Allocators`, `AllocatorLoop` | the allocation functions as set expressions, and as the loops the code runs |
| `GatewayCore` | volumes, mappings, reconciliation, database and SPDK, step by step |
| `Provisioning` | what the core promises: an abstract specification |
| `GatewayProperties` | the properties of `GatewayCore`, and its refinement of `Provisioning` |
| `Tables` | the tables, and what each service of `core/` refuses and writes |
| `Requests` | sequences of services in one session each: lock, flush, provisioning, commit, crash and start |
| `Commands` | the calls of every route and vendor command, the vendors' listings, and clients that use them |
| `Apply` | topology files applied by operators with the tool, or in a session |
| `HitachiNumbers` | the numbering functions of the Hitachi mapper |
| `Hitachi`, `HitachiProperties` | the Hitachi personality of one array over its mapper |
| `ClientState` | session stores and job history |
| `FrontDoor` | start, names, certificates, dispatch and cache, over `ClientState` |
| `MCGateway`, `MCCommands`, `MCApply`, `MCHitachi`, `MCClientStores`, `MCFrontDoor` | definitions for the `.cfg` files |
| `AllocatorsProofs`, `AllocatorLoopProofs` | theorems: the allocation functions, and the loops |
| `GatewayCoreProofs`, `OneRequestProofs` | theorems: the core with any number of requests, and with one at a time |
| `HitachiProofs` | theorems: LDEV numbers, groups and LUNs |
| `CommandsProofs`, `InventoryProofs` | theorems: pools and their bdevs, applied topologies; rows, ports and listings |
| `FrontDoorProofs` | theorems: sessions, jobs, names, certificates and the cache |

The models overlap on purpose, each fine where the others are coarse.
`GatewayCore` has one array and the inside of volume and mapping operations;
`Requests` has the rest of the inventory and takes a mapping's SPDK calls for
one that succeeds; `Hitachi` takes a whole core operation for one step and
divides what the mapper does around it; `FrontDoor` knows of the arrays only
their names and vendors. `Apply` extends `Commands`, `Commands` extends
`Requests`, and `FrontDoor` extends `ClientState`, whose specification it is
proved to implement.

### GatewayCore

| Variable | Code |
| --- | --- |
| `db` | the committed tables `volumes` and `mappings` |
| `draft`, `writer` | the tables as the one open write transaction sees them, and whose it is |
| `pc`, `local` | where a handler is between two `await`s, and its local variables and ORM objects |
| `freshVolumes`, `nextMapping` | the UUIDs and ids not yet drawn |
| `lvol` | SPDK's lvol bdevs with their sizes (0: none) |
| `export` | SPDK's LUNs and namespaces: endpoint, number, volume |
| `gateway` | whether requests are served; `down` until reconciliation is over |

| Code | Actions, in order |
| --- | --- |
| `create_volume` | `CreateVolume` (name check), `InsertVolume` (flush), `ProvisionVolume` (`ensure_lvol` and both outcomes), `Commit` |
| `delete_volume` | `DeleteVolume` (`get_volume`), `CheckMappings`, `MarkDeleting` (flush), `DeprovisionVolume` (`delete_lvol`, erasure of the row), `Commit` |
| `extend_volume`, `expand_volume_by_delta` | `ExtendVolume` (size check), `MarkExtending` (flush), `ResizeVolume`, `Commit` |
| `create_mapping` | `CreateMapping` (loads and judges), `AllocateIds` (reads the used numbers), `InsertMapping` (flush), `WireMapping`, `Commit` |
| SVC `mkvdiskhostmap` | `MkVdiskHostMap` (looks for a mapping of the pair), then as `create_mapping` |
| `delete_mapping` | `DeleteMapping` (load), `MarkDetached` (flush), `UnwireMapping` (SPDK cleanup, deletion, status), `Commit` |
| any flush | `LockTimeout` ("database is locked"), and `StaleRow` in those that update a row that is gone |
| `reconcile` in `lifespan` | `Startup` |
| failures | `GatewayCrash`, `SpdkRestart`, `HostReboot` |

The steps divide where the code awaits and another request may see the
difference. Reads before the first write see `db`; a flush takes the lock if
`writer = Null` and waits otherwise; from there to the commit the handler reads
and writes `draft`, and since nobody else can write, the steps in between need
no finer grain for the database. SPDK calls inside are one step with their
consequences in the handler. `persists` tells the routes of v1 that commit after
a `CoreError` (create, extend) from all others, which roll back.

Abstractions:

- A volume's pool and array are fixed (one array); hosts and endpoints are
  constants, and two endpoints never share an IQN or NQN. Endpoint resolution
  (`resolve_endpoints`) is the constant `Paths`.
- `desired_state` is left out: `detached` is written and the row deleted in one
  transaction, which no other session sees.
- UUIDs are drawn when the handler starts, and are never drawn twice.
- Whether an iSCSI target, portal group or NVMe subsystem exists is left out:
  `ensure_*` makes them on demand. An endpoint without an IQN or NQN is one
  outside `Targeted`; its mappings are recorded and not wired.
- `Startup` is one step: no request is served before it ends. A crash in the
  middle of it is covered by outcomes in which some items failed, up to the
  commit of bdev names, which the next start repeats.
- `mkvdiskhostmap` looks for a mapping and loads the volume in one step.
- Sizes are small numbers. SPDK's capacity is not bounded.
- The error-state `FailWrite` and its message are the status alone.

### Tables, Requests, Commands

| Variable | Code |
| --- | --- |
| `db`, `txn`, `writer` | the committed tables, those of the open transaction, and whose it is |
| `request` | each client's handler: its calls, how far it is, what it has read (`seen`), and for some clients the reply |
| `spdk` | the backing bdevs `strix-pool-{id}`, and the bdev under each lvstore `{array}.{pool}` |
| `up` | whether the gateway serves |
| `issued` | UUIDs handed out |
| `raced`, `wanted` | histories, for the properties: the names that two requests at one time were about, and the ports that committed requests asked a host to have |
| `faults` | crashes and refused RPCs, within their bound |

Every vendor's handler is a sequence of calls of the services of `core/` in one
session. A call is a record (`Call`); `Commands` says which ones a route or
command makes, named as in the code. Each goes through `Check` (the service
reads and may refuse), `Write` (the flush: takes the lock, and the database may
object to what changed since), and, for pools, volumes and exports, `Provision`.
`Commit` ends the sequence; an error in any of its calls closes the session
without one. The exception is v1's creation of a volume, which commits the row
in state `error` (`keeps`). `LockFails` is SQLite's busy timeout.

- Arrays and hosts are known by their unique names, pools and volumes by UUIDs.
  No foreign key is enforced; `arrays.name`, `hosts.name` and
  `pools(array_id, name)` are unique, and an array with endpoints cannot be
  deleted because SQLAlchemy empties their `array_id`, which is `NOT NULL`.
- An endpoint is counted and not told from another one of its array; FC and
  NVMe endpoints, which are made by administrators only, are left out.
- `find_none` is the look for a mapping of a pair before one is created,
  `ensure_endpoint` the personalities' `_ensure_iscsi_endpoint`.
- Administrators use the tool of `cli/main.py`, which resolves a name to an id
  in a listing, or the API. They do not attach pools that have volumes unless
  `MovesVolumes`; they do not post mappings or endpoints, which no check stops
  from being second ones (section 4).
- `Crash` may take SPDK with it. `Restart` is `lifespan`: `Reconciled` makes
  backing bdevs and lvstores of the pools in the tables.

### Apply

`op` is each operator's run of a file: as the tool (`cli/topo/apply.py`), with
an action per kind of item that looks it up and posts it, replies that are read
and failures that end the run for another one; or as the gateway's
`apply_topology`, one request whose calls skip what is there (`once`). The API
makes pools on the default array only: for another array the tool makes one
there (`CreatePool`), or takes one that an earlier run has left there, and
attaches it (`AttachCreated`).

### Hitachi

| Variable | Code |
| --- | --- |
| `rows`, `recorded`, `port`, `hosts`, `meta`, `ports`, `luns`, `unnumberedPools` | the tables: volumes in order with their recorded LDEV numbers, ports of endpoints, hosts with the host group and target numbers in their JSON, mappings |
| `ldevOf`, `volumeAt`, `endpointAt`, `due` | the mapper and the age of its contents |
| `pc`, `local` | handlers |
| `granted` | history: the groups and targets clients were told of |

`_get_mapper` is `StartRefresh` (pools, after which the LDEV maps are emptied),
`ReadVolumes` and `ReadAll` (the two SELECTs), `FillLdevs` (the loop, which only
adds to the maps), `FlushLdevs`, `FillPorts` and `CommitRefresh`. Between any two
of them other requests register and unregister LDEVs in the same maps and commit
rows. A flush or the commit may fail for want of the lock, a flush also because a
row has gone, after which the handler goes on with the maps as they are. What
the SELECT saw is in `local` until the loop uses it. A session that has flushed
holds the write lock until it ends (`Holds`). `CreateLdev`, `RegisterLdev` and
`InsertLdev` are `create_ldev` up to the lock, to the commit, and the commit;
`DeleteLdev`, `UnregisterLdev` and `EraseLdev` likewise; `LdevFails` what the
core raises in between. Groups and targets read the host's JSON
(`CreateGroup`, `DeleteGroup`) and write it back whole (`SaveHost`). Core
operations, LUNs and initiators are one step. Other APIs make and delete volumes
(`CreateElsewhere`, `DeleteElsewhere`).

### ClientState and FrontDoor

`ClientState` is the two session stores, with the Hitachi one's second map of
tokens, and the job history. `FrontDoor` is what leads to it in vhost mode with
a certificate per array: `Boot`, `IssuePair`, `WriteOn`, `BuildContexts` and
`Lifespan` start the process; an administrator's request is a commit, the reading
of the arrays, and the swap of the registry, after which the same TLS steps run
without an `await` (phase `refresh`), as at start (phase `boot`). `pair` has the
files of each leaf and of the authority, each absent, torn or whole: a
`write_bytes` opens its file, which empties it, and then fills it, so that a pair
is written in four steps (`Written`) and a crash may come between any two. A look
finds a pair missing or due (`NeedsReissue`), takes it (`Passes`), or raises at a
torn certificate (`Raises`), which ends the start or the administrator's request
(`SyncFails`). A leaf's file bears the one name in its SANs, so these never
differ from what is expected. A client comes by host name (`AskByHost`) or path (`AskByPath`,
`ReadVendor` or `LookupFails`, which is taken for "none", `FillCache`) to a
personality, whose routes look at its session first (`RequireSession`). `lost` is
a history of the answers that stopped being right while someone held them, and
of failed lookups. `GetOld` makes a certificate due for rotation,
right before the look that sees it. The first start is taken to have been made
without vhosts: with an empty table and vhosts enabled, `server.py` builds no
context and raises (section 4).

## 3. What is checked

| Run | Instance | Shows |
| --- | --- | --- |
| `Sequential` | 1 request, 2 volumes, 1 host, iSCSI, NVMe and FC, 3 mappings, refused calls, lost replies, crashes | one request at a time: all invariants of the tables, sizes only grow, and the committed tables implement `Provisioning` |
| `Reboot` | 1 request, 2 volumes, NVMe and an endpoint without target, 3 mappings, host reboots | reconciliation exports exactly what is recorded, wherever the reboot hits |
| `Concurrent` | 2 requests, 2 volumes, 2 mappings, refused calls | lvols and rows agree while requests overlap |
| `Live` | 2 requests, 1 volume, 2 mappings, every operation and every failure | statuses settle, offered volumes have bdevs, SPDK calls are serialised, every request ends |
| `Commands` | 2 clients, 2 arrays, 1 pool, 1 volume, 1 host, 2 ports, 1 fault, 1 raced name | rows that name each other are there, ports are kept, a pair is found once, the vendors' listings agree |
| `Apply` | 2 operators, the tool or a session, 7 items over 2 arrays, 1 crash | everyone's file is applied in the end, success means presence, pools are backed |
| `Hitachi` | 2 requests (one creates LDEVs, with a number or without; the other deletes them and makes groups, targets and LUNs; either refreshes), 2 volumes and one of another array, 2 endpoints, 1 host, other APIs, crashes, failing refreshes | between the steps of a refresh too, numbers lead to their volumes, recorded numbers and groups are kept and no other number is listed, LUNs stay in the array |
| `FrontDoor` | 2 arrays and the authority, 1 administrator, 1 client, 1 crash, cache and sessions of one tick | names, contexts and cache follow the arrays; files that are taken load; the gateway comes up unless a certificate is torn |
| `ClientStores` | 3 sessions of each store, 5 jobs in a history of 2, 3 ticks | tokens and sessions agree, the history is the latest jobs in order |

`KeepsPromise` is a refinement: the rows map to `Provisioning`'s volumes and
attachments, a commit to one of its actions, and every other step to a stutter.

**Why the bounds are enough.** In the core the hazards need two requests (every
one is a race of two, since a third waits behind the same lock), two volumes
where one must be mistaken for the other, one host (the interference is between
LUNs on one host and persona endpoint), two mappings where one outlives the
other and a third where a number is used again. Sizes up to 3 are needed for two
extends above an initial size. In `Commands` a row can be missing, double or
under another array: one of each kind, two arrays and two of the ports that a
host's list holds; a pool and a volume may be made again only while UUIDs last,
which is once, so that a dangling reference cannot be repaired by reuse.
`MaxTwins = 2` lets a second endpoint or mapping appear, which is what
`FoundOnce` excludes. In `Hitachi` one request refreshes while the other
creates, deletes or saves; two volumes compete for a number, and a third shows
what leaks from another array. Only one of them writes hosts' JSON, since two
break `GrantsKept` (section 4). In `FrontDoor` one
array appears, changes its vendor and goes, and the default one stays; it takes
one crash to tear a file and the start after it to meet it. What depends on the
number of sessions and jobs is left to `ClientStores`, where a third session's
creation evicts two that have expired and a job drops the oldest of several;
`FrontDoor` implements its specification (section 5). In
`Apply` the file has one item of each kind, and a pool on either array. UUIDs,
mapping ids and numbers are not used again, so the runs stop when they have run
out: `CHECK_DEADLOCK FALSE`.

**Races that the inventory's properties exempt.** `References`, `PortsKept`,
`FoundOnce` and `ListingsAgree` say what is true of rows that no two requests
were about at one time (`raced`). No code stops such races: of two `mkhost`s,
maps, or a delete and a create, each looks before the other writes. `MaxRaced =
1` lets requests race about one name and asks that everything else is right
nevertheless. Two requests that are not about one name do run at the same time,
with every interleaving of their steps.

**Symmetry** is used in `Sequential`, `Concurrent`, `Commands` and `Hitachi`, over
volumes, names, hosts, requests, clients and ports, which the modules never
order. Runs that check liveness use none.

**Fairness.** `GatewayCore` (`FairSpec`): `WF(Continue(r))`, since the event
loop and the threads of `asyncio.to_thread` run whatever is ready, and the wait
for the lock is bounded by SQLite's busy timeout, an exit that is itself a step;
and `WF(Startup)`, since a service manager starts the process again. That SPDK
answers at all is part of it: `SPDKClient` has no timeout, so a SPDK that hangs
for ever would hold the lock for ever. `FrontDoor`: `WF(Start)`, the same
service manager. `Apply`: each request's steps and the start as above, and
`WF(Tool(c))`, the operator who runs the tool again until it succeeds. New
requests are not fair: nobody has to call. Each liveness property has a failure
to overcome in its run: timeouts of the lock, crashes within the bound, a
crash at each step of a start. `ComesUp` excepts the one that no repetition
overcomes, a torn certificate.

### Runs that end in a violation

Each shows that the code does not do what one of its comments says.

| Run | What happens |
| --- | --- |
| `SiblingUnexported` | deleting a mapping takes down its endpoint's other exports (`core/mappings.py:293-296`) |
| `WrongLdev` | a volume made by way of v1 while `create_ldev` is under way is listed under the new LDEV's number after the next refresh (`translate.py:130`, `210-214`) |
| `AttachedPool` | a pool with volumes, attached to another array, has no lvstore of its new name (`api/arrays.py:279`) |

## 4. What the code does not keep

The passing runs are restricted where the code is known to break the property.
These were met while modelling; the models show them when a run is changed as
said here.

| Property | How it breaks | Shown by |
| --- | --- | --- |
| `LunsUnique` | two mappings created at a time read the same used numbers (`core/mappings.py:172-202`) | `Concurrent.cfg` with this invariant |
| `NoDanglingMapping` | a mapping is created after `delete_volume` has looked (`core/volumes.py:160-167`) | `Concurrent.cfg` with this invariant |
| `NamesUnique` | two creations of one name; volumes have no unique index | `Concurrent.cfg` with this invariant |
| `SizesOnlyGrow` | of two extends the smaller commits last (`core/volumes.py:195`) | `Concurrent.cfg` with this property, without symmetry |
| `AvailableIsUnmapped` | extending a mapped volume makes it `available` (`core/volumes.py:204`) | `Sequential.cfg` with this invariant |
| `RightVolumeExported` | a namespace that SPDK refused to remove is found occupied by the next mapping (`spdk/ensure.py:342-346`) | `Reboot.cfg` with `RpcFaults = {"refused"}` |
| `RecordedIsProvisioned` | the reply to the lvol's deletion is lost and v1 rolls the error status back (`api/v1.py:178-185`) | `Concurrent.cfg` with `RpcFaults = {"lost"}` |
| `LdevsUnique` | two creations choose the next number before either registers it, or one chooses while a refresh has the maps empty (`routes.py:428-439`); an LDEV committed after a refresh's SELECT is in neither map until the next refresh, and its number is free (`translate.py:116-136`) | `Hitachi.cfg` with this invariant |
| `ComesUp` without its exception | a crash between the opening of a `.crt` and its contents leaves it torn beside its key, and every later start raises at it (`tls/manager.py:150-162`; the authority's, `44-50`, `95`) | `FrontDoor.cfg` with `phase = "down" ~> phase = "up"` |
| `GroupLeadsToItsHost` | group numbers are counted per host, and two hosts get one number on one port (`routes.py:656-661`) | `Hitachi.cfg` with this invariant and two hosts |
| `GrantsKept` | two requests write one host's JSON, and the later save undoes the number that the earlier one gave (`routes.py:656-675`) | `Hitachi.cfg` with two requests that create groups |
| `ListingsAgree` | a pool with volumes is attached to another array: volumes keep the old one (`api/arrays.py:279`) | `Commands.cfg` with `MovesVolumes = TRUE` |
| `Converges` | a volume that SPDK refuses leaves a row in error, which every later run takes for the declared volume, so that its mapping is refused for good | `Apply.cfg` with `Refuses = TRUE` |

`Concurrent` also leaves out `delete_mapping`: a volume deleted while its last
mapping is being removed has the mapping in its loaded collection, so that the
flush of `session.delete(volume)` updates a row that is gone and fails after the
lvol has been deleted.

Seen in the code and outside the models: `POST /v1/mappings` and the creation of
endpoints accept a second one, after which `scalar_one_or_none` in the vendors'
lookups raises for good; an endpoint is deleted under its mappings; `modify_ldev`
renames without a look at other names; the tool's `host create`, `add-initiator`
and `rm-initiator` send keys (`iqns`, `nqns`, `wwpns`) that the API ignores;
`delete_lun` looks only at a host's group number on a port, so that LUNs listed
under the number of its iSCSI target cannot be deleted by that id; the first
start with vhosts enabled and no array raises although
`docs/tls-vhost-multiplexing.md:85` describes it; the SVC shell gives up after 30
seconds on a command that the gateway goes on with; job ids start again after a
restart; of two administrators' refreshes the older rows may be swapped in last.

## 5. What is proved

Each theorem below is of the specification that the runs check, for any sets of
requests, clients, names and numbers, any number of failures and any bounds,
under the modules' named assumptions on their constants: bounds are natural
numbers, `Null` is none of the values it stands in for, a topology is a sequence
of declared items (`Declared`). What else a theorem needs is a hypothesis of its
own, named here with the reason:

| Hypothesis | Says | Why the theorem needs it (section 4) |
| --- | --- | --- |
| `OneRequest` | requests run one at a time | two requests break names, LUNs, mappings and sizes |
| `OneSaver` | one request at a time makes or deletes host groups and targets | the later of two saves of a host's JSON undoes the earlier |
| `NothingLost` | SPDK loses no reply and does not restart alone; a reboot meets no refused calls | a deletion whose reply is lost leaves a row whose lvol is gone |
| `MappingsStay` | mappings are not removed, or requests run one at a time | a volume's deletion fails in its flush when a mapping has gone meanwhile |
| `ExportsKept` | SPDK does what it is asked, hosts reboot; no iSCSI mapping is removed | a deletion takes down the endpoint's other exports (`SiblingUnexported`); a refused removal leaves a namespace behind |
| `OneAdmin` | administrators' refreshes do not overlap | the older rows may be swapped in last |
| `Names \subseteq Watched` | the history of races is of all names | without it `raced` says less than what happened |
| `~MovesVolumes` | no pool with volumes is attached elsewhere | its volumes keep the old array (`AttachedPool`) |
| `OneArrayEach` | the file has no pool name on two arrays | the tool finds the pool of the default array by its name and attaches it to the other |

The runs satisfy the hypotheses of the theorems about the properties they check.

### The allocators

`AllocatorsProofs` proves, for every finite set of used numbers and every base,
that the allocators return a number that is free, that no smaller one is, and
so that the search range of the set expressions, `0..Cardinality(used)`, is
never exhausted (by pigeonhole, `FS_Surjection`). `AllocatorLoopProofs` proves
that the while-loops return that number (`AlwaysReturnsSmallestFree`): from the
start to the candidate everything is in use (`LoopInv`). These are pure loops over
local variables: no run repeats what is proved of them, and that they end follows from
the finite set that they count through.

### The core

Of `GatewayCore` with any number of requests at a time:

| Theorem | Property | Hypotheses |
| --- | --- | --- |
| `TypeCorrect` | `TypeOK` | |
| `StatusAlwaysSettled` | `StatusSettled` | |
| `SpdkCallsAlwaysSerialised` | `SpdkCallsSerialised` | |
| `OfferedAlwaysHasBdev` | `OfferedHasBdev` | |
| `RecordedAlwaysProvisioned` | `RecordedIsProvisioned` | `NothingLost`, `MappingsStay` |
| `NeverOrphanLvol` | `NoOrphanLvol` | `NothingLost`, `MappingsStay` |

The first three rest on `Inv` (`Invariance`). None of them is inductive: that a
committed status is settled depends on the draft that `Commit` installs, so
`Inv` says that every row of the draft is settled too, except the writer's
volume while the writer is between its flush and the end of its SPDK call. That
only the writer is there is the serialisation property, in the form "a request
is at a locked step only if it is the writer". That an update finds a row to
update rests on what each request's local variables hold at each step
(`RequestOK`). And a crash is harmless because a free lock means `draft = db`.

That what is offered has a bdev needs `VolumeInv` besides, because requests
write back what they loaded before others committed: a UUID is drawn once, and
until its row is inserted no one else can name it (`UuidsOnce`); the draft is
`db` with exactly what the writer has flushed (`DraftKnown`), which is what a
rollback undoes and a failed write keeps; and no one changes the bdev name of a
volume that another request is about to map or extend (`BdevKept`). For the
lvols, `LvolInv` says that SPDK's sizes are those of the tables that count
(`Shown`: the draft once SPDK has answered, else `db`), and what requests know
that reaches SPDK, such as that a volume about to be deleted has no mapping.

`OneRequestProofs` is about requests one at a time (`OneRequest`), which may
still fail and crash anywhere:

| Theorem | Property | Hypotheses |
| --- | --- | --- |
| `NamesAlwaysUnique` | `NamesUnique` | |
| `LunsAlwaysUnique` | `LunsUnique` | |
| `NeverDanglingMapping` | `NoDanglingMapping` | |
| `InUseIsAlwaysMapped` | `InUseIsMapped` | |
| `SizesAlwaysGrow` | `SizesOnlyGrow` | |
| `PromiseKept` | `KeepsPromise`, the refinement of `Provisioning` | |
| `AlwaysExportedAsMapped` | `ExportedAsMapped` | `ExportsKept` |
| `AlwaysRightVolumeExported` | `RightVolumeExported` | `ExportsKept` |

`OneInv` says what the request under way knows of the committed tables (its name
is free, the row it loaded is the row, its mapping's numbers are free) and, when
it is about to commit, that its draft advances `db` by one operation of the
abstract specification or by none (`Advances`). The refinement follows: the
initial states map to initial states, a commit to that operation, and every
other step leaves `db` alone. `ExportInv` adds that SPDK's slots are those of
the tables that count, all of them while the gateway serves, none before.

### Hitachi

| Theorem | Property | Hypotheses |
| --- | --- | --- |
| `HitachiTyped` | `TypeOK` | |
| `NumberAlwaysLeadsToItsVolume` | `NumberLeadsToItsVolume` | |
| `RecordedNumbersAlwaysKept` | `RecordedNumbersKept` | |
| `LunsAlwaysWithinArray` | `LunsWithinArray` | |
| `GrantsAlwaysKept` | `GrantsKept` | `OneSaver` |

The first two about numbers hold for any number of requests although a refresh
waits between emptying the maps, reading the rows, filling the maps and
committing, and others register and unregister LDEVs there meanwhile. `LdevInv`
says why: the two maps agree wherever the second leads (`MapsAgree`), a row's
recorded number is the one the map has or the map has none (`RecordAgrees`), and
the number that a creation has chosen is its volume's alone until the row is there
(`Drawn`). `RefreshInv` is about the refresh under way: there is one at most
(`OneRefresh`); what the maps learn between their emptying and their filling is
recorded in the rows (`SinceEmptied`); what
the SELECT read is still so of the rows that remain (`ReadOK`), and the numbers in
hand are for rows without one (`NumbersOK`). Lemmas say what each kind of step
does to the requests' hands, so that most actions are done with by one of them. What
a refresh computes is a recursive function over the volumes' order; what it
yields is proved by first-order induction, from the least element of a set of
natural numbers (`EveryNatural`). `HostInv` has the types of ports, hosts and LUNs
and what they need: an array's endpoints are numbered all at once, so that a
LUN's port is one of the array's. `GrantInv`: a save in hand leaves every number
a client was told of, except those it was asked to drop, and there is one.

### The inventory

Of `Commands`, and of `ApplySpecification` where the run is `Apply`:

| Theorem | Property | Hypotheses |
| --- | --- | --- |
| `CommandsTyped` | `TypeOK` | |
| `PoolsAlwaysBacked`, `DeclaredPoolsBacked` | `PoolBacked`, of `Commands` and of `Apply` | |
| `ReferencesHold` | `References` | `Names \subseteq Watched` |
| `DeclaredReferences` | `References`, of `Apply` | |
| `PortsAreKept` | `PortsKept` | `Names \subseteq Watched` |
| `AlwaysFoundOnce` | `FoundOnce` | `Names \subseteq Watched` |
| `ListingsAlwaysAgree` | `ListingsAgree` | the same, `~MovesVolumes` |
| `DeclaredListingsAgree` | `ListingsAgree`, of `Apply` | `OneArrayEach` |
| `ReportedIsAlwaysPresent` | `ReportedIsPresent` of `Apply` | `OneArrayEach` |

Types come first, since a call names what its service needs only because
`Commands` makes it so (`GoodCall`), and with them `BackedInv`: in the open
transaction one pool at most has no bdev yet, the one being provisioned. For
runs of a topology `RunInv` adds that the pool a run is to attach is the one its
own request made.

A run believes what it looked up some requests ago. `AppliedInv` says why it may:
while only topologies are applied, tables only grow (`Grows`), because every call
in hand either creates or attaches a pool to the array that the file has it on
(`Serves`, `Builds`; this is where `OneArrayEach` is needed). A request's calls
serve its run's items one by one, it has put those in place that it is past
(`Serving`), and a run has the items it is past in the committed tables
(`DoneOK`). That the pool a run attaches has the declared name, although other
runs may attach it first, is `Creating`.

The four of `InventoryProofs` exempt names that two requests at one time were about.
`AboutIn` gives the names that calls concern, by the rows of a table, and
`InventoryInv` says: the writer's tables differ from the committed
ones only in what its request is about (`Agree`); what a request has looked up,
and is about to rely on, is still so, unless its names are in `raced`
(`Checked`); UUIDs asked for are of committed rows, and none is handed out twice
(`Asked`, `Placed`, `Fresh`); the tables are sound outside `raced` (`Sound`); a
host's ports are those that committed requests and the request's own earlier
calls asked for (`WantedUpTo`); and any two requests under way are about
disjoint names, or have been recorded. The step that needs all of it is another
client's commit: what it changes is about its names, what this client relies on
is about its own, so either nothing relied on has changed or the race is in the
history.

`DeclaredReferences` and `DeclaredListingsAgree` do without the exemption: their
invariants hold of every name.
`LinkedInv`: what a service looked up is there when it writes, because those who
apply a topology take nothing away. `HousedInv`: a volume is in a pool that is
already where the file has it, and stays there. This is where `OneArrayEach` is
needed, since a run attaches pools and an attached pool leaves its volumes behind.

### The front door

| Theorem | Property | Hypotheses |
| --- | --- | --- |
| `TokensAlwaysAgree`, `HistoryAlwaysRecent` | `TokensAgree`, `HistoryIsRecent` of `ClientSpec` | |
| `ImplementsClientState` | the gateway's `Spec => ClientSpec` | |
| `TokensAgreeHere`, `HistoryIsRecentHere` | the two for the whole gateway | |
| `PairsAlwaysLoad` | `PairsLoad` | |
| `VhostsAlwaysCurrent` | `VhostsCurrent` | `OneAdmin` |
| `StaleAlwaysAtMostTtl` | `StaleAtMostTtl` | |
| `FrontDoorTyped` | `TypeOK` | |

`TokensAgree`, `HistoryIsRecent` and the types of `ClientState` are inductive
together, and the gateway's steps are steps of `ClientState` or leave its
variables alone, so that both hold of the whole gateway. `FilesOK` says what each
write leaves: a key is written before its certificate and neither is ever
removed, so that a whole certificate that is not due has its own whole key, and
whatever a crash leaves short of that is reissued or raises. `VhostInv`
says that what a refresh has read is what is in the table (`OneAdmin`), and that
what it has not done it has still to do. `LookupInv` says of each cached answer,
and of each answer on its way to the cache, that it was right when it was looked
up or that the lookup failed: if it is not right now, it was lost, or said for want
of a better answer, later than that.

### Only model-checked

- Liveness under fairness (`RequestsEnd`, `ComesUp`, `Converges`)
  and what speaks of `ENABLED`: out of the prover's reach.
- That a proof's hypothesis cannot be dropped is what section 4's runs show.

## 6. Not modelled, and what is left

- A proof left to do: `FoundOnce` of `ApplySpecification`. That two runs never made
  one name twice is false when they race, so it needs the record of races that
  `InventoryInv` keeps for commands, carried over to runs.
- Deletion of an endpoint under its mappings (endpoints would need an identity in
  `Tables`), FC and NVMe endpoints in `Commands`, changes of capability profiles.
- Hitachi: pool numbers, renaming of LDEVs, iSCSI names of groups, the views
  other than that of LDEVs. SVC and 3PAR: views of nodes, ports and licences,
  which show constants.
- TLS: the wildcard certificate; a host's crash, after which files may be older
  than the order of their writes says. In wildcard mode `reload` with no
  names clears the contexts.
- Topology: pools of one name on two arrays; `apply_topology` keeps them in a
  dictionary by name, where the last one wins.
- Without state, or outside the program: formatting and parsing of the vendors'
  replies, the shells, fault injection for tests, `core/services.py` (an older
  copy of the core that the routes do not use), capabilities and personas (pure
  merging of dictionaries).
