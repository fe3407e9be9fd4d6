------------------------- MODULE MCPipelineRunLedger -------------------------
(* Instances of PipelineRunLedger for TLC. *)
EXTENDS PipelineRunLedger

CONSTANTS d1, d2

=============================================================================
