--------------------------- MODULE MCClientStores ---------------------------
(* Stores whose expired sessions the next request, or the next creation, drops. *)
EXTENDS ClientState

MCTtl == [s \in Stores |-> IF s = "hitachi" THEN 1 ELSE 0]
=============================================================================
