--------------------------- MODULE MCChecksPage ---------------------------
(* ChecksPage on small instances, for TLC. *)
EXTENDS ChecksPage, TLC

Symmetry == {p @@ q : p \in Permutations(Ids), q \in Permutations(Loads)}
=============================================================================
