---------------------------- MODULE MCScheduler ----------------------------
(* Scheduler on small instances, for TLC. *)
EXTENDS Scheduler, TLC

CONSTANTS c1, c2, c3

\* A fast check and a slow one.
MCInterval == [c \in Checks |-> IF c = c1 THEN 1 ELSE 2]
=============================================================================
