------------------------------- MODULE MCApply -------------------------------
(* A small topology: a pool on the default array, one on another, a mapping. *)
EXTENDS Apply

TheTopology ==
  << [kind |-> "endpoint", array |-> "default"],
     [kind |-> "array", array |-> "a1"],
     [kind |-> "pool", name |-> "silver", array |-> "default"],
     [kind |-> "pool", name |-> "gold", array |-> "a1"],
     [kind |-> "host", name |-> "h1"],
     [kind |-> "volume", name |-> "vol1", pool |-> "silver", array |-> "default"],
     [kind |-> "mapping", host |-> "h1", name |-> "vol1", array |-> "default"] >>

=============================================================================
