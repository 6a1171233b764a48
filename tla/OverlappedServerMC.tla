------------------------- MODULE OverlappedServerMC -------------------------
(* OverlappedServer on small instances. *)
EXTENDS OverlappedServer, TLC

Symmetry == Permutations(Conns)
=============================================================================
