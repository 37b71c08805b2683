-------------------------- MODULE MCOutboundLimits --------------------------
(***************************************************************************)
(* OutboundLimits for TLC: two workers, three tasks in the first.          *)
(***************************************************************************)
EXTENDS OutboundLimits

CONSTANTS wA, wB, a1, a2, a3, b1

MCWorkers == {wA, wB}
MCHome == [t \in Tasks |-> IF t = b1 THEN wB ELSE wA]
=============================================================================
