-------------------------- MODULE HitachiProperties --------------------------
(***************************************************************************)
(* What is asked of Hitachi.                                               *)
(***************************************************************************)
EXTENDS Hitachi

\* Clients keep the LDEV number of a volume (Cinder stores it): once recorded
\* it never changes and the volume is listed under no other, whatever volumes
\* come and go and however rows are numbered again (translate.py:128-133).
RecordedNumbersKept ==
  [][\A v \in Volumes : recorded[v] # Null /\ v \in ToSet(rows') =>
        /\ recorded'[v] = recorded[v]
        /\ \A x \in ListLdevs' : x[1] = v => x[2] = recorded[v]]_vars

\* A number never leads to a volume that records another one, so that no LDEV
\* is shown, extended or deleted in another one's place (routes.py:428-439,
\* translate.py:134-135), whatever refreshes fail and crashes happen.
NumberLeadsToItsVolume ==
  \A n \in Ldevs : LookUp(n) # Null => recorded[LookUp(n)] \in {n, Null}

\* What a client was told of its host groups and targets stays true until it
\* deletes them, whatever else is written to the same JSON (routes.py:654-676).
GrantsKept == \A g \in granted : meta[g.host][g.kind][g.port] = g.number

\* A volume is exported by an endpoint of its own array, however stale the
\* mapper is (routes.py:1215-1241).
LunsWithinArray == \A m \in luns : ArrayOf[m.volume] = ArrayOf[m.endpoint]

\* No two volumes are listed under one LDEV number (translate.py:211).
LdevsUnique == \A x, y \in ListLdevs : x[2] = y[2] => x = y

\* The number of a host group leads to the host it was made for (routes.py:660).
\* The code breaks this with two hosts on a port: no run asks for it.
GroupLeadsToItsHost ==
  \A g \in granted : HostWith({g.kind}, g.port, g.number) = g.host
=============================================================================
