------------------------ MODULE EventSelectServerMC ------------------------
(* EventSelectServer on small instances. *)
EXTENDS EventSelectServer, TLC

Symmetry == Permutations(Conns)
=============================================================================
