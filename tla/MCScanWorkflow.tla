--------------------------- MODULE MCScanWorkflow ---------------------------
(* Instances of ScanWorkflow for TLC. *)
EXTENDS ScanWorkflowProps, TLC

CONSTANTS p, c1, c2, s1, s2, r1, r2
=============================================================================
