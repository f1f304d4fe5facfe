---------------------------- MODULE MCConsumer ----------------------------
(* Consumer on a small instance, for TLC. *)
EXTENDS Consumer
=============================================================================
