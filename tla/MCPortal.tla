------------------------------ MODULE MCPortal ------------------------------
(* Instances of Portal for TLC. *)
EXTENDS Portal

CONSTANTS q1, q2

AllFaults == FaultKinds
============================================================================
