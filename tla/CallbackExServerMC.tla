------------------------- MODULE CallbackExServerMC -------------------------
(* CallbackExServer on small instances. *)
EXTENDS CallbackExServer, TLC

Symmetry == Permutations(Conns) \cup Permutations(Infos)
=============================================================================
