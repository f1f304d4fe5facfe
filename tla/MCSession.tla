---------------------------- MODULE MCSession ----------------------------
(* Session on small instances, for TLC. *)
EXTENDS Session, TLC

Symmetry ==
  {p @@ q @@ e : p \in Permutations(PageSlots), q \in Permutations(ClientSlots),
                 e \in Permutations(Emails)}
=============================================================================
