---------------------------- MODULE Provisioning ----------------------------
(***************************************************************************)
(* What the provisioning core promises its clients, with no database,      *)
(* storage process or failure in sight: volumes with distinct names that   *)
(* only grow and are not deleted while attached, and attachments that each *)
(* get a free LUN on their host's port and a free number on their target.  *)
(* Every operation is one indivisible step.                                *)
(***************************************************************************)
EXTENDS Naturals

CONSTANTS Volumes, Names, Hosts, Endpoints, Null

VARIABLES
  volumes,     \* the name and size of each volume, Null where there is none
  attachments  \* the set of attachments
promised == <<volumes, attachments>>

Init ==
  /\ volumes = [v \in Volumes |-> Null]
  /\ attachments = {}

Attachment == [volume : Volumes, host : Hosts, persona : Endpoints,
               underlay : Endpoints, lun : Nat, uid : Nat]

Create(v, name, size) ==
  /\ volumes[v] = Null
  /\ \A w \in Volumes : volumes[w] # Null => volumes[w].name # name
  /\ volumes' = [volumes EXCEPT ![v] = [name |-> name, size |-> size]]
  /\ UNCHANGED attachments

Extend(v, size) ==
  /\ volumes[v] # Null
  /\ size > volumes[v].size
  /\ volumes' = [volumes EXCEPT ![v].size = size]
  /\ UNCHANGED attachments

Delete(v) ==
  /\ \A a \in attachments : a.volume # v
  /\ volumes' = [volumes EXCEPT ![v] = Null]
  /\ UNCHANGED attachments

OnSamePort(a, b) == a.host = b.host /\ a.persona = b.persona

\* The LUN is the smallest one free on the port.
Attach(a) ==
  /\ a \in Attachment
  /\ volumes[a.volume] # Null
  /\ \A b \in attachments : OnSamePort(a, b) => a.lun # b.lun
  /\ \A n \in 0..a.lun : n # a.lun => \E b \in attachments : OnSamePort(a, b) /\ b.lun = n
  /\ \A b \in attachments : a.underlay = b.underlay => a.uid # b.uid
  /\ attachments' = attachments \cup {a}
  /\ UNCHANGED volumes

Detach(a) ==
  /\ attachments' = attachments \ {a}
  /\ UNCHANGED volumes

\* The steps are enumerated from where they lead, so that TLC need not
\* search the infinite set of attachments and sizes.
Next ==
  \/ \E v \in Volumes :
       \/ volumes'[v] # Null /\ Create(v, volumes'[v].name, volumes'[v].size)
       \/ volumes'[v] # Null /\ Extend(v, volumes'[v].size)
       \/ Delete(v)
  \/ \E a \in attachments' \ attachments : Attach(a)
  \/ \E a \in attachments \ attachments' : Detach(a)

Spec == Init /\ [][Next]_promised
=============================================================================
