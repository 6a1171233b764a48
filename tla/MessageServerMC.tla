-------------------------- MODULE MessageServerMC --------------------------
(* MessageServer on small instances. *)
EXTENDS MessageServer, TLC

Symmetry == Permutations(Conns) \cup Permutations(Sockets)
=============================================================================
