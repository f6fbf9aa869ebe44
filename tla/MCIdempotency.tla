--------------------------- MODULE MCIdempotency ---------------------------
(* The instance of Idempotency for TLC. *)
EXTENDS Idempotency

CONSTANTS c1, c2, c3, k1, create, move

AllFaults == {"db", "crash"}
============================================================================
