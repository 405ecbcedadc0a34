----------------------------- MODULE MCPipeline -----------------------------
(* The pipeline for TLC: the bounds are in the configurations.             *)
EXTENDS PipelineInv
=============================================================================
