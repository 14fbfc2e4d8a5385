----------------------------- MODULE MCCommands -----------------------------
(* Small instances of Commands. *)
EXTENDS Commands, TLC

Symmetric == Permutations(Clients) \cup Permutations(Ports)

=============================================================================
