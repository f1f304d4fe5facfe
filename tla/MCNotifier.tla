---------------------------- MODULE MCNotifier ----------------------------
(* Notifier on small instances, for TLC. *)
EXTENDS Notifier
=============================================================================
