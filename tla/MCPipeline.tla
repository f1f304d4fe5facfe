---------------------------- MODULE MCPipeline ----------------------------
(* Pipeline on small instances, for TLC. *)
EXTENDS Pipeline
=============================================================================
