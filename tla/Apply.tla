-------------------------------- MODULE Apply --------------------------------
(***************************************************************************)
(* Topology files applied.  An operator's tool (cli/topo/apply.py) looks   *)
(* each declared item up by its name and posts it when it is missing, one  *)
(* request after another; on an error the operator runs it again.  The     *)
(* gateway's own function (topology/apply.py) does it in one session.      *)
(***************************************************************************)
EXTENDS Commands

CONSTANTS
  Topology  \* the declared items, in the order they are applied in

\* What a file declares names its array, its pool and its host.
Declared ==
  [kind : {"array", "endpoint"}, array : Arrays]
    \cup [kind : {"pool"}, name : PoolNames, array : Arrays]
    \cup [kind : {"host"}, name : Hosts]
    \cup [kind : {"volume"}, name : VolumeNames, pool : PoolNames, array : Arrays]
    \cup [kind : {"mapping"}, host : Hosts, name : VolumeNames, array : Arrays]

ASSUME ApplyAssumption == Topology \in Seq(Declared)

VARIABLE op  \* how each client applies the file: "cli" or "session", and its run

opVars == <<vars, op>>

NewRun(way) == [way |-> way, step |-> "start", at |-> 1, arrays |-> {}]

ApplyInit ==
  /\ Init
  /\ \E way \in [Readers -> {"cli", "session"}] : op = [c \in Readers |-> NewRun(way[c])]

Item(c) == Topology[op[c].at]

-----------------------------------------------------------------------------
(***************************************************************************)
(* cli/client.py: lookups are a listing and a filter, each a request that  *)
(* changes nothing.                                                        *)
(***************************************************************************)
\* Mutant: a pool of that name on any array is the declared one.
PoolOnAnyArray(name, a) == {p \in Rows(db.pools) : db.pools[p].name = name}

ResolvePool(name, a) == PoolCalled(db, name, a)
ResolveVolume(name, a) == VolumeCalled(db, name, a)
ResolveHost(h) == {h} \cap db.hosts
ResolveMapping(h, name, a) ==
  {v \in ResolveVolume(name, a) : h \in db.hosts /\ db.maps[<<h, v>>] > 0}

\* Mutant: create_pool does not look on the default array first.
NoMisplacedPool(name) == {}

MisplacedPool(name) == ResolvePool(name, Default)

-----------------------------------------------------------------------------
Run(c, step) == op' = [op EXCEPT ![c].step = step]
Again(c) == op' = [op EXCEPT ![c] = NewRun(@.way)]
Onto(c) == op' = [op EXCEPT ![c].at = @ + 1, ![c].step = "look"]

Post(c, calls, keeps, step) == Ask(c, calls, keeps) /\ Run(c, step)

Listing(c, step) ==
  /\ op[c].step = step /\ up /\ op[c].at <= Len(Topology)

Begin(c) ==
  /\ op[c].step = "start" /\ up
  /\ op' = [op EXCEPT ![c] = [NewRun(@.way) EXCEPT !.step = "look", !.arrays = db.arrays]]
  /\ UNCHANGED vars

\* The arrays are listed once, when the run begins.
ApplyArray(c) ==
  /\ Listing(c, "look") /\ Item(c).kind = "array"
  /\ IF Item(c).array \in op[c].arrays THEN Onto(c) /\ UNCHANGED vars
     ELSE Post(c, PostArray(Item(c).array), FALSE, "await")

ApplyEndpoint(c) ==
  /\ Listing(c, "look") /\ Item(c).kind = "endpoint"
  /\ IF db.iscsi[Item(c).array] > 0 THEN Onto(c) /\ UNCHANGED vars
     ELSE Post(c, PostEndpoint(Item(c).array), FALSE, "await")

\* The API creates pools on the default array only: for another array the tool
\* creates one there, unless an earlier run left one, and attaches it.
ApplyPool(c) ==
  /\ Listing(c, "look") /\ Item(c).kind = "pool"
  /\ IF ResolvePool(Item(c).name, Item(c).array) # {} THEN Onto(c) /\ UNCHANGED vars
     ELSE IF Item(c).array = Default THEN Post(c, PostPool(Item(c).name), FALSE, "await")
     ELSE Run(c, "misplaced") /\ UNCHANGED vars

CreatePool(c) ==
  /\ Listing(c, "misplaced")
  /\ LET found == MisplacedPool(Item(c).name) IN
     IF found = {} THEN Post(c, PostPool(Item(c).name), FALSE, "created")
     ELSE \E p \in found : Post(c, AttachPool(p, Item(c).array), FALSE, "await")

AttachCreated(c) ==
  /\ op[c].step = "created" /\ request[c].result = "ok"
  /\ Post(c, AttachPool(request[c].made, Item(c).array), FALSE, "await")

\* Initiators are posted under keys the API does not know.
ApplyHost(c) ==
  /\ Listing(c, "look") /\ Item(c).kind = "host"
  /\ IF Item(c).name \in db.hosts THEN Onto(c) /\ UNCHANGED vars
     ELSE Post(c, PostHost(Item(c).name, {}), FALSE, "await")

ApplyVolume(c) ==
  /\ Listing(c, "look") /\ Item(c).kind = "volume"
  /\ LET pools == ResolvePool(Item(c).pool, Item(c).array) IN
     IF ResolveVolume(Item(c).name, Item(c).array) # {} THEN Onto(c) /\ UNCHANGED vars
     ELSE IF pools = {} THEN Again(c) /\ UNCHANGED vars
     ELSE \E p \in pools : Post(c, PostVolume(p, Item(c).name), TRUE, "await")

ApplyMapping(c) ==
  /\ Listing(c, "look") /\ Item(c).kind = "mapping"
  /\ LET h == Item(c).host
         volumes == ResolveVolume(Item(c).name, Item(c).array)
     IN IF ResolveMapping(h, Item(c).name, Item(c).array) # {} THEN Onto(c) /\ UNCHANGED vars
        ELSE IF volumes = {} \/ ResolveHost(h) = {} THEN Again(c) /\ UNCHANGED vars
        ELSE \E v \in volumes : Post(c, PostMapping(h, v), FALSE, "await")

Finish(c) ==
  /\ op[c].step = "look" /\ op[c].at > Len(Topology)
  /\ Run(c, "applied") /\ UNCHANGED vars

\* A reply is read: an error, or none, ends the run.
Read(c) ==
  /\ request[c].result # Null
  /\ \/ op[c].step = "await" /\ request[c].result = "ok" /\ Onto(c)
     \/ op[c].step = "load" /\ request[c].result = "ok" /\ Run(c, "applied")
     \/ request[c].result # "ok" /\ Again(c)
  /\ request' = [request EXCEPT ![c] = Idle]
  /\ UNCHANGED <<db, writer, txn, spdk, up, issued, raced, wanted, faults>>

\* Nobody answers a listing.
Unanswered(c) ==
  /\ ~up /\ op[c].step \in {"look", "misplaced"} /\ op[c].at <= Len(Topology)
  /\ Again(c) /\ UNCHANGED vars

Tool(c) ==
  /\ op[c].way = "cli"
  /\ \/ Begin(c) \/ ApplyArray(c) \/ ApplyEndpoint(c) \/ ApplyPool(c) \/ CreatePool(c)
     \/ AttachCreated(c) \/ ApplyHost(c) \/ ApplyVolume(c) \/ ApplyMapping(c) \/ Finish(c)
     \/ Read(c) \/ Unanswered(c)

-----------------------------------------------------------------------------
(***************************************************************************)
(* topology/apply.py: the same items, in one session                       *)
(***************************************************************************)
Ensured(item) ==
  [CASE item.kind = "array"    -> PostArray(item.array)[1]
     [] item.kind = "endpoint" -> PostEndpoint(item.array)[1]
     [] item.kind = "pool"     -> [PostPool(item.name)[1] EXCEPT !.array = item.array]
     [] item.kind = "host"     -> PostHost(item.name, {})[1]
     [] item.kind = "volume"   -> Mkvdisk(item.array, item.pool, item.name)[1]
     [] item.kind = "mapping"  -> OnPair("create_mapping", item.array, item.host, item.name)
   EXCEPT !.once = TRUE]

ApplySpec(c) ==
  /\ op[c].way = "session" /\ op[c].step = "start"
  /\ Post(c, [i \in DOMAIN Topology |-> Ensured(Topology[i])], FALSE, "load")

ApplyNext ==
  \/ \E c \in Readers : Tool(c) \/ ApplySpec(c) \/ Read(c) \/ (Serve(c) /\ UNCHANGED op)
  \/ (Crash \/ Restart) /\ UNCHANGED op

\* The tool is run again until it succeeds; requests are answered; the gateway
\* is started again.
Fairness ==
  /\ \A c \in Readers : WF_opVars(Tool(c)) /\ WF_opVars(Serve(c) /\ UNCHANGED op)
  /\ WF_opVars(Restart /\ UNCHANGED op)

ApplySpecification == ApplyInit /\ [][ApplyNext]_opVars /\ Fairness

-----------------------------------------------------------------------------
\* The smoke test passes over endpoints and hosts.
SmokeTest(item) ==
  CASE item.kind = "array"    -> item.array \in db.arrays
    [] item.kind = "pool"     -> ResolvePool(item.name, item.array) # {}
    [] item.kind = "volume"   -> ResolveVolume(item.name, item.array) # {}
    [] item.kind = "mapping"  -> ResolveMapping(item.host, item.name, item.array) # {}
    [] OTHER -> TRUE

Present(item) ==
  /\ SmokeTest(item)
  /\ item.kind = "endpoint" => db.iscsi[item.array] > 0
  /\ item.kind = "host" => item.name \in db.hosts
  /\ item.kind = "pool" => PoolCalled(db, item.name, item.array) # {}

\* A run that reports success leaves every declared item in place, and nobody who
\* applies the same file takes one away (cli/topo/apply.py, topology/apply.py).
ReportedIsPresent ==
  \A c \in Readers :
    op[c].step = "applied" => \A i \in DOMAIN Topology : Present(Topology[i])

\* Every operator's file is applied some day, whatever crash leaves a run half
\* done and whoever applies it too (cli/topo/apply.py, client.create_pool).
Converges == \A c \in Readers : (op[c].way = "cli") ~> (op[c].step = "applied")

=============================================================================
