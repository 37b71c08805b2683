--------------------------- MODULE BreakerContract ---------------------------
(***************************************************************************)
(* What a circuit breaker promises the source it protects (RES-04,         *)
(* breaker.py:1-16): once FailureThreshold outcomes in a row have been     *)
(* failures, no call is let through before a whole Cooldown has passed     *)
(* since the last of them.  Only outcomes and the time since the last      *)
(* failure appear here: no OPEN, no HALF_OPEN, no worker, no Redis.        *)
(***************************************************************************)
EXTENDS Naturals

CONSTANTS FailureThreshold, Cooldown, Tasks

VARIABLES calling, \* tasks with an upstream call in flight
          consec,  \* failures since the last success, at most FailureThreshold
          quiet    \* ticks since the last failure, at most Cooldown

vars == <<calling, consec, quiet>>

Init == calling = {} /\ consec = 0 /\ quiet = Cooldown

Call(t) ==
  /\ t \notin calling
  /\ consec = FailureThreshold => quiet = Cooldown
  /\ calling' = calling \cup {t}
  /\ UNCHANGED <<consec, quiet>>

Return(t) == t \in calling /\ calling' = calling \ {t}

Succeed(t) == Return(t) /\ consec' = 0 /\ UNCHANGED quiet

Fail(t) ==
  /\ Return(t)
  /\ consec' = IF consec < FailureThreshold THEN consec + 1 ELSE consec
  /\ quiet' = 0

Abandon(t) == Return(t) /\ UNCHANGED <<consec, quiet>>

Tick == /\ quiet' = IF quiet < Cooldown THEN quiet + 1 ELSE quiet
        /\ UNCHANGED <<calling, consec>>

Next == Tick \/ \E t \in Tasks : Call(t) \/ Succeed(t) \/ Fail(t) \/ Abandon(t)

Spec == Init /\ [][Next]_vars
=============================================================================
