-------------------------- MODULE CallbackServerMC --------------------------
(* CallbackServer on small instances. *)
EXTENDS CallbackServer, TLC

Symmetry == Permutations(Conns) \cup Permutations(Infos)
=============================================================================
