----------------------------- MODULE MCFrontDoor -----------------------------
(* A Hitachi and a 3PAR store whose sessions live as long as a cached array. *)
EXTENDS FrontDoor

MCTtl == [s \in Stores |-> 0]
=============================================================================
