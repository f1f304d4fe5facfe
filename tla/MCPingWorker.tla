--------------------------- MODULE MCPingWorker ---------------------------
(* PingWorker on small instances, for TLC. *)
EXTENDS PingWorker
=============================================================================
