--------------------------- MODULE AsyncRequestMC ---------------------------
(* Small instances of AsyncRequest for TLC. *)
EXTENDS AsyncRequest, TLC

Symmetry == Permutations(Workers)
=============================================================================
