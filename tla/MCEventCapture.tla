-------------------------- MODULE MCEventCapture ---------------------------
(* EventCapture for TLC. *)
EXTENDS EventCapture

ThreeAttempts == 1..3
=============================================================================
