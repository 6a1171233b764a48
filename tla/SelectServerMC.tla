--------------------------- MODULE SelectServerMC ---------------------------
(* Small instances of SelectServer for TLC. *)
EXTENDS SelectServer, TLC

Symmetry == Permutations(Conns)
=============================================================================
