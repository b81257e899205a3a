----------------------------- MODULE MCPipeline -----------------------------
(* Instance of Pipeline for TLC; the values are in the configurations.     *)
EXTENDS Pipeline
==============================================================================
