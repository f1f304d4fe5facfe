----------------------------- MODULE MCOutbox -----------------------------
(* Outbox on a small instance, for TLC. *)
EXTENDS Outbox
=============================================================================
