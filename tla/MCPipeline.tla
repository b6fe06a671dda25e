------------------------------ MODULE MCPipeline ------------------------------
(* Launching command lines of up to MaxStages commands one after another.   *)
EXTENDS Pipeline
==============================================================================
