------------------------------- MODULE Breaker -------------------------------
(***************************************************************************)
(* The pure state logic of resilience/breaker.py: one CircuitBreaker, as   *)
(* a record and the operators that its methods apply to it.  Nothing here  *)
(* waits or does I/O; the modules that interleave calls, processes and     *)
(* Redis (BreakerLocal, BreakerRedis, ResilientClient) instantiate these   *)
(* operators.                                                              *)
(*                                                                         *)
(* The clock.  The code compares now - opened_at with cooldown and with    *)
(* nothing else, so a breaker carries `age', the ticks since opened_at,    *)
(* saturated at Cooldown.  opened_at = None counts as elapsed              *)
(* (breaker.py:82) and is therefore the saturated age too.                 *)
(* The counter.  failure_count is only compared with failure_threshold, so *)
(* `failures' saturates there.                                             *)
(***************************************************************************)
EXTENDS Naturals

CONSTANTS FailureThreshold, \* failures in a row that open the breaker
          Cooldown          \* ticks an open breaker refuses calls

ASSUME BreakerAssumption == /\ FailureThreshold \in Nat \ {0}
                            /\ Cooldown \in Nat \ {0}

BreakerState == {"CLOSED", "OPEN", "HALF_OPEN"}

CircuitBreaker ==
  [state : BreakerState, failures : 0 .. FailureThreshold, age : 0 .. Cooldown]

NewBreaker == [state |-> "CLOSED", failures |-> 0, age |-> Cooldown]

(* Mutant: the comparison with the cooldown is off by one.                 *)
CooldownElapsed_OffByOne(b) == b.age + 1 >= Cooldown

CooldownElapsed(b) == b.age = Cooldown

(* Mutant: an open breaker never probes.                                   *)
Allows_NeverProbes(b) == b.state # "OPEN"

(***************************************************************************)
(* allow_request: its answer, and the breaker it leaves when it is yes.    *)
(***************************************************************************)
Allows(b) == b.state \in {"CLOSED", "HALF_OPEN"} \/ CooldownElapsed(b)

Allowed(b) == IF b.state = "OPEN" THEN [b EXCEPT !.state = "HALF_OPEN"] ELSE b

(***************************************************************************)
(* record_success and record_failure.  A failure that is counted while the *)
(* breaker is OPEN already (a call let through before it opened) stamps    *)
(* opened_at again.                                                        *)
(***************************************************************************)
Opened(b) == [state |-> "OPEN", failures |-> b.failures, age |-> 0]

(* Mutant: a success resets the counter and nothing else.                  *)
Succeeded_CounterOnly(b) == [b EXCEPT !.failures = 0]

Succeeded(b) == [state |-> "CLOSED", failures |-> 0, age |-> Cooldown]

Counted(b) == [b EXCEPT !.failures = IF @ < FailureThreshold THEN @ + 1 ELSE @]

(* Mutant: the counter is compared before it is incremented.               *)
Failed_ComparesFirst(b) ==
  IF b.state = "HALF_OPEN" \/ b.failures >= FailureThreshold
  THEN Opened(b) ELSE Counted(b)

(* Mutant: a failed probe re-opens without a new opening time.             *)
Failed_KeepsStamp(b) ==
  IF b.state = "HALF_OPEN" THEN [b EXCEPT !.state = "OPEN"]
  ELSE IF Counted(b).failures >= FailureThreshold THEN Opened(Counted(b))
  ELSE Counted(b)

(* Mutant: a late failure of an open breaker is ignored.                   *)
Failed_IgnoresLate(b) ==
  IF b.state = "HALF_OPEN" THEN Opened(b)
  ELSE IF b.state = "OPEN" THEN b
  ELSE IF Counted(b).failures >= FailureThreshold THEN Opened(Counted(b))
  ELSE Counted(b)

Failed(b) ==
  IF b.state = "HALF_OPEN" THEN Opened(b)
  ELSE IF Counted(b).failures >= FailureThreshold THEN Opened(Counted(b))
  ELSE Counted(b)

(***************************************************************************)
(* One tick of the clock.                                                  *)
(***************************************************************************)
Older(n) == IF n < Cooldown THEN n + 1 ELSE n

Aged(b) == [b EXCEPT !.age = Older(@)]

(***************************************************************************)
(* What a reader of a breaker, a persisted copy or a reply may rely on:    *)
(* the counter has reached the threshold exactly when the breaker is not   *)
(* CLOSED, a CLOSED breaker has no opening time, and only a breaker whose  *)
(* cooldown has run out is HALF_OPEN.                                      *)
(***************************************************************************)
Coherent(b) ==
  /\ b.state # "CLOSED" <=> b.failures = FailureThreshold
  /\ b.state # "OPEN" => CooldownElapsed(b)
=============================================================================
