-------------------------- MODULE AcceptExServerMC --------------------------
(* AcceptExServer on small instances. *)
EXTENDS AcceptExServer, TLC

Symmetry == Permutations(Conns)
=============================================================================
