--------------------------- MODULE MCProcessLock ---------------------------
(* Instances of ProcessLock for TLC. *)
EXTENDS ProcessLock, TLC

CONSTANTS p1, p2, p3, p4

\* One pid space.
SameSpace == [p \in Procs |-> Procs]
=============================================================================
