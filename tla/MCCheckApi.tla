---------------------------- MODULE MCCheckApi ----------------------------
(* CheckApi on small instances, for TLC. *)
EXTENDS CheckApi

CONSTANTS c1, c2, s1, s2, s3

\* Two sessions of c1's owner; s3 is another user, who owns c2 where it is.
MCOwned ==
  [s \in Sessions |-> IF s = s3 THEN Checks \cap {c2} ELSE Checks \cap {c1}]
=============================================================================
