--------------------------- MODULE MCBreakerRedis ---------------------------
(***************************************************************************)
(* BreakerRedis for TLC: two workers, with one task or two each.           *)
(***************************************************************************)
EXTENDS BreakerRedis

CONSTANTS wA, wB, a1, a2, b1

MCWorkers == {wA, wB}
MCHome == [t \in Tasks |-> IF t = b1 THEN wB ELSE wA]
=============================================================================
