-------------------------- MODULE MCOperationLock --------------------------
(* OperationLock for TLC.  The contenders, Nobody and NoFile are model      *)
(* values; no symmetry is declared, because the run checks liveness.        *)
EXTENDS OperationLock
=============================================================================
