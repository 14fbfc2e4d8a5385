------------------------------ MODULE FrontDoor ------------------------------
(***************************************************************************)
(* The way in, in vhost mode with per-subsystem certificates: server.py    *)
(* and main.lifespan start the process, api/arrays.py changes the arrays   *)
(* and refreshes what is derived from them (the registry of names, the     *)
(* leaf certificates, the TLS contexts), the two middlewares lead a        *)
(* request to an array's personality, and the personality looks at its     *)
(* sessions and records its jobs (ClientState).                            *)
(*                                                                         *)
(* Issuing certificates and building contexts has no await: the phases     *)
(* "boot" and "refresh" hold the event loop, and only a crash comes        *)
(* between their steps.  A file is opened, which empties it, and then      *)
(* filled: a crash in between leaves it torn.                              *)
(***************************************************************************)
EXTENDS ClientState, FiniteSets

CONSTANTS
  Names, Default,  \* names of arrays; the one that is always there
  Authority,       \* the gateway's own certificate authority
  Managed,         \* those that administrators create, update and delete
  Admins,          \* administrators' requests at one time
  CacheTtl,        \* _ARRAY_CACHE_TTL
  MaxCrashes       \* bound

ASSUME FrontDoorAssumption ==
  /\ Default \in Names /\ Managed \subseteq Names /\ Null \notin Names
  /\ Authority \notin Names /\ Authority # Null
  /\ CacheTtl \in Nat /\ MaxCrashes \in Nat

\* The personalities with a sub-application, and the rest.
Vendors == Stores \cup {"generic"}

\* What has a key and a certificate.
Pairs == Names \cup {Authority}

VARIABLES
  arrays,    \* table arrays: each name's vendor, or Null
  pair,      \* the files leaf/<fqdn>.key and .crt, ca.key and ca.crt
  phase,     \* what the event loop is doing
  todo,      \* the pairs that this start, or this refresh, looks at
  issuing,   \* the pair that is being issued, or Null
  turn,      \* how far it is written
  registry,  \* VhostRegistry._map
  contexts,  \* SNIRouter._contexts
  cache,     \* PersonalityDispatcher._array_cache
  admin,     \* each administrator's request
  client,    \* the client's request
  lost,      \* history: when an answer that is held stopped being right, or a
             \* lookup that failed said that there is none, if that was less
             \* than CacheTtl ago
  crashes

stored == <<arrays, pair>>
tls == <<phase, todo, issuing, turn, registry, contexts>>
vars == <<stored, tls, cache, admin, client, lost, crashes, clientVars>>

Contents == {"none", "torn", "whole"}
Pair == [key : Contents, crt : Contents, match : BOOLEAN, expiring : BOOLEAN]
NoPair == [key |-> "none", crt |-> "none", match |-> FALSE, expiring |-> FALSE]

Idle == [step |-> "idle", vendor |-> Null, at |-> Null, found |-> Null]

TypeOK ==
  /\ ClientTypeOK
  /\ arrays \in [Names -> Vendors \cup {Null}]
  /\ pair \in [Pairs -> Pair]
  /\ phase \in {"down", "boot", "lifespan", "up", "refresh"}
  /\ todo \subseteq Pairs
  /\ issuing \in Pairs \cup {Null} /\ turn \in 0..3
  /\ registry \in [Names -> Vendors \cup {Null}]
  /\ contexts \subseteq Names
  /\ \A v \in Stores : \/ cache[v] = Null
                       \/ cache[v] \in [found : Names \cup {Null}, at : Nat]
  /\ \A a \in Admins : admin[a].step \in {"idle", "rebuild", "swap"}
  /\ client.step \in {"idle", "read", "fill", "persona", "work"}
  /\ crashes \in 0..MaxCrashes

NoRows == [n \in Names |-> Null]
Forgotten == [v \in Stores |-> Null]
NoneLost == [v \in Stores |-> [x \in Names \cup {Null} |-> Null]]
NoAdmins == [a \in Admins |-> [step |-> "idle", rows |-> NoRows]]

\* The first start was made without vhosts and left the default array: with no
\* array at all server.main raises before anything is served.
Init ==
  /\ ClientInit
  /\ arrays = [NoRows EXCEPT ![Default] = "generic"]
  /\ pair = [n \in Pairs |-> NoPair]
  /\ phase = "down" /\ todo = {} /\ issuing = Null /\ turn = 0
  /\ registry = NoRows /\ contexts = {} /\ cache = Forgotten
  /\ admin = NoAdmins /\ client = Idle
  /\ lost = NoneLost
  /\ crashes = 0

NamesIn(rows) == {n \in Names : rows[n] # Null}

-----------------------------------------------------------------------------
(***************************************************************************)
(* Certificates                                                            *)
(***************************************************************************)
Missing(n) == "none" \in {pair[n].key, pair[n].crt}

\* Both files are there and one that is parsed is torn: needs_reissue reads the
\* certificate, ensure_ca the key as well.
Raises(n) ==
  /\ ~Missing(n)
  /\ pair[n].crt = "torn" \/ (n = Authority /\ pair[n].key = "torn")

NeedsReissue(n) == Missing(n) \/ (~Raises(n) /\ pair[n].expiring)

\* The look takes the files as they are.
Passes(n) == ~Raises(n) /\ ~NeedsReissue(n)

\* Mutant: the certificate is written before its key.
WrittenCrtFirst(file, k) ==
  CASE k = 1 -> [file EXCEPT !.crt = "torn", !.expiring = FALSE, !.match = FALSE]
    [] k = 2 -> [file EXCEPT !.crt = "whole"]
    [] k = 3 -> [file EXCEPT !.key = "torn"]
    [] k = 4 -> [file EXCEPT !.key = "whole", !.match = TRUE]

\* The two write_bytes, of a new key and of its certificate: each opens its file
\* and fills it.
Written(file, k) ==
  CASE k = 1 -> [file EXCEPT !.key = "torn", !.match = FALSE]
    [] k = 2 -> [file EXCEPT !.key = "whole"]
    [] k = 3 -> [file EXCEPT !.crt = "torn", !.expiring = FALSE]
    [] k = 4 -> [file EXCEPT !.crt = "whole", !.match = TRUE]

Busy == phase \in {"boot", "refresh"}

\* The authority comes first.
Reached(n) == n \in todo /\ (n = Authority \/ Passes(Authority))

IssuePair(n) ==
  /\ Busy /\ issuing = Null /\ Reached(n) /\ NeedsReissue(n)
  /\ pair' = [pair EXCEPT ![n] = Written(@, 1)]
  /\ issuing' = n /\ turn' = 1
  /\ UNCHANGED <<arrays, phase, todo, registry, contexts, cache, admin, client, lost,
                 crashes, clientVars>>

WriteOn ==
  /\ Busy /\ issuing # Null
  /\ pair' = [pair EXCEPT ![issuing] = Written(@, turn + 1)]
  /\ issuing' = IF turn = 3 THEN Null ELSE issuing
  /\ turn' = IF turn = 3 THEN 0 ELSE turn + 1
  /\ UNCHANGED <<arrays, phase, todo, registry, contexts, cache, admin, client, lost,
                 crashes, clientVars>>

\* The exception ends the process that starts, or the administrator's request,
\* whose commit and whose names stay.
SyncFails ==
  /\ Busy /\ issuing = Null
  /\ \E n \in todo : Reached(n) /\ Raises(n)
  /\ phase' = IF phase = "boot" THEN "down" ELSE "up"
  /\ todo' = {}
  /\ UNCHANGED <<stored, issuing, turn, registry, contexts, cache, admin, client, lost,
                 crashes, clientVars>>

\* SNIRouter.build and reload, which a pair that does not match would end.
BuildContexts ==
  /\ Busy /\ issuing = Null /\ todo # {}
  /\ \A n \in todo : Passes(n) /\ pair[n].match
  /\ contexts' = todo \ {Authority} /\ todo' = {}
  /\ phase' = IF phase = "boot" THEN "lifespan" ELSE "up"
  /\ UNCHANGED <<stored, issuing, turn, registry, cache, admin, client, lost, crashes,
                 clientVars>>

\* rotate_before_days before its end.  Only the next look at it sees it: here it
\* happens right before that one, and not during a start, short next to a year.
GetOld(n) ==
  /\ phase = "down" \/ (phase = "up" /\ \E a \in Admins : admin[a].step = "swap")
  /\ pair[n].crt = "whole" /\ ~pair[n].expiring
  /\ pair' = [pair EXCEPT ![n].expiring = TRUE]
  /\ UNCHANGED <<arrays, tls, cache, admin, client, lost, crashes, clientVars>>

-----------------------------------------------------------------------------
(***************************************************************************)
(* Starting and stopping                                                   *)
(***************************************************************************)
Boot ==
  /\ phase = "down"
  /\ phase' = "boot" /\ todo' = NamesIn(arrays) \cup {Authority}
  /\ UNCHANGED <<stored, issuing, turn, registry, contexts, cache, admin, client, lost, crashes,
                 clientVars>>

\* Mutant: what is there stays, and the rows are added to it.
RebuiltInto(rows) == [n \in Names |-> IF rows[n] # Null THEN rows[n] ELSE registry[n]]

Rebuilt(rows) == rows

Lifespan ==
  /\ phase = "lifespan"
  /\ phase' = "up" /\ registry' = Rebuilt(arrays)
  /\ UNCHANGED <<stored, todo, issuing, turn, contexts, cache, admin, client, lost, crashes,
                 clientVars>>

\* What is in memory is gone, the clients' sessions and jobs with it.
Crash ==
  /\ phase # "down" /\ crashes < MaxCrashes
  /\ crashes' = crashes + 1
  /\ phase' = "down" /\ todo' = {} /\ issuing' = Null /\ turn' = 0
  /\ registry' = NoRows /\ contexts' = {} /\ cache' = Forgotten
  /\ admin' = NoAdmins /\ client' = Idle /\ lost' = NoneLost
  /\ Restart
  /\ UNCHANGED stored

-----------------------------------------------------------------------------
(***************************************************************************)
(* Administrators: a commit, then the refresh                              *)
(***************************************************************************)
\* Mutant: the answer is called by its vendor.
AnswersByVendor(rows, v) ==
  IF \E n \in Names : rows[n] = v THEN {v} ELSE {Null}

Answers(rows, v) ==
  IF \E n \in Names : rows[n] = v THEN {n \in Names : rows[n] = v} ELSE {Null}

\* The answers that are kept.
Held(v) == (IF cache[v] = Null THEN {} ELSE {cache[v].found})
             \cup (IF client.step = "fill" /\ client.vendor = v THEN {client.found} ELSE {})

Commit(a, rows) ==
  /\ phase = "up" /\ admin[a].step = "idle"
  /\ arrays' = rows
  /\ lost' = [v \in Stores |-> [x \in Names \cup {Null} |->
       IF x \in (Held(v) \cap Answers(arrays, v)) \ Answers(rows, v) THEN now ELSE lost[v][x]]]
  /\ admin' = [admin EXCEPT ![a].step = "rebuild"]
  /\ UNCHANGED <<pair, tls, cache, client, crashes, clientVars>>

CreateArray(a) ==
  \E n \in Managed, v \in Stores :
    arrays[n] = Null /\ Commit(a, [arrays EXCEPT ![n] = v])

UpdateArray(a) ==
  \E n \in Managed \cap NamesIn(arrays), v \in Stores : Commit(a, [arrays EXCEPT ![n] = v])

DeleteArray(a) ==
  \E n \in (Managed \cap NamesIn(arrays)) \ {Default} : Commit(a, [arrays EXCEPT ![n] = Null])

\* POST /v1/tls/sync
SyncTls(a) == Commit(a, arrays)

\* rebuild reads the rows, leaves its session, and swaps the map in; from there
\* to the end of the refresh nothing is awaited.
ReadArrays(a) ==
  /\ phase = "up" /\ admin[a].step = "rebuild"
  /\ admin' = [admin EXCEPT ![a] = [step |-> "swap", rows |-> arrays]]
  /\ UNCHANGED <<stored, tls, cache, client, lost, crashes, clientVars>>

SwapRegistry(a) ==
  /\ phase = "up" /\ admin[a].step = "swap"
  /\ registry' = Rebuilt(admin[a].rows)
  /\ phase' = "refresh" /\ todo' = NamesIn(registry') \cup {Authority}
  /\ admin' = [admin EXCEPT ![a] = [step |-> "idle", rows |-> NoRows]]
  /\ UNCHANGED <<stored, issuing, turn, contexts, cache, client, lost, crashes, clientVars>>

-----------------------------------------------------------------------------
(***************************************************************************)
(* Clients                                                                 *)
(***************************************************************************)
Serving == UNCHANGED <<stored, tls, admin, lost, crashes>>

To(vendor) == [Idle EXCEPT !.step = "persona", !.vendor = vendor]

\* VhostMiddleware: the Host header names an array.  What the dispatcher has no
\* sub-application for goes to the gateway's own API.
AskByHost(n) ==
  /\ phase = "up" /\ client = Idle /\ registry[n] \in Stores
  /\ client' = To(registry[n])
  /\ Serving /\ UNCHANGED <<cache, clientVars>>

\* No array's name: the path's prefix names the vendor, and the cache is asked.
\* (An entry that is too old is as good as none, and dropped here.)
Young(t, since) == t - since < CacheTtl

AskByPath(v) ==
  /\ phase = "up" /\ client = Idle
  /\ \/ cache[v] # Null /\ cache[v].found # Null /\ client' = To(v)
     \/ cache[v] = Null /\ client' = [Idle EXCEPT !.step = "read", !.vendor = v, !.at = now]
  /\ Serving /\ UNCHANGED <<cache, clientVars>>

\* Any array of the vendor.
ReadVendor ==
  /\ phase = "up" /\ client.step = "read"
  /\ \E x \in Answers(arrays, client.vendor) :
       client' = [client EXCEPT !.step = "fill", !.found = x]
  /\ Serving /\ UNCHANGED <<cache, clientVars>>

\* Whatever the lookup raises, the answer is that there is none.
LookupFails ==
  /\ phase = "up" /\ client.step = "read"
  /\ client' = [client EXCEPT !.step = "fill", !.found = Null]
  /\ lost' = [lost EXCEPT ![client.vendor][Null] = now]
  /\ UNCHANGED <<stored, tls, cache, admin, crashes, clientVars>>

\* Mutant: the entry's age counts from when it is stored.
FilledAtEnd == [found |-> client.found, at |-> now]

\* The age counts from before the table was read.
Filled == [found |-> client.found, at |-> client.at]

FillCache ==
  /\ phase = "up" /\ client.step = "fill"
  /\ cache' = [cache EXCEPT ![client.vendor] = IF Young(now, Filled.at) THEN Filled ELSE Null]
  /\ client' = IF client.found = Null THEN Idle ELSE To(client.vendor)
  /\ Serving /\ UNCHANGED clientVars

At(step, vendor) == phase = "up" /\ client.step = step /\ client.vendor = vendor

Done == client' = Idle /\ Serving /\ UNCHANGED cache

\* POST and DELETE sessions need no session, nor do the 3PAR's credentials.
HitachiSession ==
  /\ At("persona", "hitachi")
  /\ CreateSession \/ \E i \in Sessions : DeleteSession(i)
  /\ Done

WsapiCredential ==
  /\ At("persona", "hpe_3par")
  /\ CreateCredential \/ \E i \in Sessions : DeleteCredential(i)
  /\ Done

\* require_session and require_wsapi_session, before any other route.
RequireSession(v) ==
  /\ At("persona", v)
  /\ \E i \in Sessions :
       \/ Reject(v, i) /\ Done
       \/ /\ Live(v, i)
          /\ client' = [client EXCEPT !.step = "work"]
          /\ Serving /\ UNCHANGED <<cache, clientVars>>

\* The Hitachi handlers that change something record a job that is complete.
AcceptJob == At("work", "hitachi") /\ SubmitCompleted /\ Done

\* Other routes, and what fails, leave nothing here.
Answer(v) == At("work", v) /\ Done /\ UNCHANGED clientVars

TimePasses ==
  /\ Tick
  /\ cache' = [v \in Stores |->
       IF cache[v] # Null /\ ~Young(now', cache[v].at) THEN Null ELSE cache[v]]
  /\ lost' = [v \in Stores |-> [x \in Names \cup {Null} |->
       IF lost[v][x] # Null /\ ~Young(now', lost[v][x]) THEN Null ELSE lost[v][x]]]
  /\ UNCHANGED <<stored, tls, admin, client, crashes>>

-----------------------------------------------------------------------------
Start ==
  \/ Boot \/ Lifespan \/ WriteOn \/ SyncFails \/ BuildContexts
  \/ \E n \in Pairs : IssuePair(n)

Next ==
  \/ Start \/ Crash \/ TimePasses
  \/ \E n \in Names : GetOld(n)
  \/ \E a \in Admins : \/ CreateArray(a) \/ UpdateArray(a) \/ DeleteArray(a) \/ SyncTls(a)
                       \/ ReadArrays(a) \/ SwapRegistry(a)
  \/ \E n \in Names : AskByHost(n)
  \/ ReadVendor \/ LookupFails \/ FillCache \/ HitachiSession \/ WsapiCredential \/ AcceptJob
  \/ \E v \in Stores : AskByPath(v) \/ RequireSession(v) \/ Answer(v)

\* The process is started again whenever it is down, and runs on.
Spec == Init /\ [][Next]_vars /\ WF_vars(Start)

-----------------------------------------------------------------------------
\* Between an administrator's requests the names the gateway answers to are
\* those of the arrays, whatever crashed in between (api/arrays.py:48-66).
VhostsCurrent ==
  phase = "up" /\ (\A a \in Admins : admin[a].step = "idle")
    => registry = arrays /\ contexts = NamesIn(arrays)

\* The array that a path leads to was an array of the vendor less than
\* _ARRAY_CACHE_TTL ago; an answer that there is none was right less than that
\* ago, or comes of a lookup that failed less than that ago.  However long the
\* lookup took (personality_dispatch.py:66-97).
StaleAtMostTtl ==
  \A v \in Stores : cache[v] # Null =>
    cache[v].found \in Answers(arrays, v) \/ lost[v][cache[v].found] # Null

\* Whatever crashes leave, files that the look takes as they are load: a key and
\* the certificate that was issued for it (tls/manager.py:142-168, sni.py:28).
PairsLoad ==
  \A n \in Pairs : Passes(n) =>
    pair[n].key = "whole" /\ pair[n].crt = "whole" /\ pair[n].match

\* Wherever a crash leaves the files, the gateway comes up again, unless it was
\* inside the write of a certificate: a torn one stops this start and, as nobody
\* reissues it, every later one (tls/manager.py:44-50, 150-162).
ComesUp ==
  phase = "down" ~>
    phase = "up" \/ (phase = "down" /\ \E n \in NamesIn(arrays) \cup {Authority} : Raises(n))
=============================================================================
