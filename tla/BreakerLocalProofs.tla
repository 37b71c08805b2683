--------------------------- MODULE BreakerLocalProofs ---------------------------
(***************************************************************************)
(* BreakerLocal, for every set of tasks, threshold and cooldown.           *)
(***************************************************************************)
EXTENDS BreakerLocal, TLAPS

(***************************************************************************)
(* A new breaker has counted nothing and was never opened.                 *)
(***************************************************************************)
LEMMA InitIInv == Init => IInv
<1> SUFFICES ASSUME Init PROVE IInv
  OBVIOUS
<1>1. breaker \in CircuitBreaker /\ Coherent(breaker)
  BY BreakerAssumption
     DEF Init, NewBreaker, CircuitBreaker, BreakerState, Coherent, CooldownElapsed
<1>2. TypeOK
  BY <1>1, BreakerAssumption DEF Init, TypeOK
<1>3. QED
  BY <1>1, <1>2, BreakerAssumption DEF Init, IInv, NewBreaker

(***************************************************************************)
(* record_failure counts up to the threshold and opens there, or at once   *)
(* when the breaker was HALF_OPEN; whatever is not CLOSED then was opened  *)
(* just now.                                                               *)
(***************************************************************************)
LEMMA FailedCoherent ==
  ASSUME NEW b \in CircuitBreaker, Coherent(b)
  PROVE  /\ Failed(b) \in CircuitBreaker
         /\ Coherent(Failed(b))
         /\ Failed(b).state # "HALF_OPEN"
         /\ Failed(b).failures =
              IF b.failures < FailureThreshold THEN b.failures + 1 ELSE b.failures
         /\ Failed(b).state # "CLOSED" => Failed(b).age = 0
<1>1. CASE b.state = "HALF_OPEN"
  BY <1>1, BreakerAssumption
     DEF Failed, Opened, CircuitBreaker, BreakerState, Coherent, CooldownElapsed
<1>2. CASE b.state # "HALF_OPEN"
  <2>1. /\ Counted(b) \in CircuitBreaker
        /\ Counted(b).state = b.state
        /\ Counted(b).age = b.age
        /\ Counted(b).failures =
             IF b.failures < FailureThreshold THEN b.failures + 1 ELSE b.failures
    BY BreakerAssumption DEF Counted, CircuitBreaker
  <2>2. Failed(b) = IF Counted(b).failures >= FailureThreshold
                    THEN Opened(Counted(b)) ELSE Counted(b)
    BY <1>2 DEF Failed
  <2>3. CASE Counted(b).failures >= FailureThreshold
    BY <2>1, <2>2, <2>3, BreakerAssumption
       DEF Opened, CircuitBreaker, BreakerState, Coherent, CooldownElapsed
  <2>4. CASE ~(Counted(b).failures >= FailureThreshold)
    BY <1>2, <2>1, <2>2, <2>4, BreakerAssumption
       DEF CircuitBreaker, BreakerState, Coherent, CooldownElapsed
  <2>5. QED
    BY <2>3, <2>4
<1>3. QED
  BY <1>1, <1>2

(***************************************************************************)
(* Every step of a task, of the clock and of the source keeps the counter  *)
(* of the breaker in step with the outcomes, and its opening time with the *)
(* last failure.                                                           *)
(***************************************************************************)
LEMMA NextIInv == IInv /\ [Next]_vars => IInv'
<1> SUFFICES ASSUME IInv, [Next]_vars PROVE IInv'
  OBVIOUS
<1> USE BreakerAssumption
<1>0. /\ TypeOK
      /\ breaker \in CircuitBreaker
      /\ Coherent(breaker)
      /\ breaker.failures = consec
      /\ breaker.state # "CLOSED" => breaker.age = quiet
  BY DEF IInv, TypeOK
<1>1. ASSUME NEW t \in Tasks, Admit(t) PROVE IInv'
  <2>1. /\ breaker' \in CircuitBreaker
        /\ Coherent(breaker')
        /\ breaker'.failures = breaker.failures
        /\ breaker'.age = breaker.age
        /\ breaker'.state = "CLOSED" <=> breaker.state = "CLOSED"
    BY <1>0, <1>1 DEF Admit, Allowed, Allows, CircuitBreaker, BreakerState, Coherent, CooldownElapsed
  <2>2. TypeOK'
    BY <1>0, <1>1, <2>1 DEF TypeOK, Admit
  <2>3. QED
    BY <1>0, <1>1, <2>1, <2>2 DEF IInv, Admit
<1>2. ASSUME NEW t \in Tasks, Succeed(t) PROVE IInv'
  <2>1. /\ breaker' \in CircuitBreaker
        /\ Coherent(breaker')
        /\ breaker'.state = "CLOSED"
        /\ breaker'.failures = 0
    BY <1>0, <1>2 DEF Succeed, Succeeded, CircuitBreaker, BreakerState, Coherent, CooldownElapsed
  <2>2. TypeOK'
    BY <1>0, <1>2, <2>1 DEF TypeOK, Succeed, Return
  <2>3. QED
    BY <1>2, <2>1, <2>2 DEF IInv, Succeed
<1>3. ASSUME NEW t \in Tasks, Fail(t) PROVE IInv'
  <2>1. /\ breaker' \in CircuitBreaker
        /\ Coherent(breaker')
        /\ breaker'.failures =
             IF breaker.failures < FailureThreshold
             THEN breaker.failures + 1 ELSE breaker.failures
        /\ breaker'.state # "CLOSED" => breaker'.age = 0
    BY <1>0, <1>3, FailedCoherent DEF Fail
  <2>2. consec' = breaker'.failures /\ quiet' = 0
    BY <1>0, <1>3, <2>1 DEF Fail
  <2>3. TypeOK'
    BY <1>0, <1>3, <2>1, <2>2 DEF TypeOK, Fail, Return
  <2>4. QED
    BY <2>1, <2>2, <2>3 DEF IInv
<1>4. ASSUME NEW t \in Tasks, Cancel(t) PROVE IInv'
  <2>1. TypeOK'
    BY <1>0, <1>4 DEF TypeOK, Cancel, Return
  <2>2. QED
    BY <1>0, <1>4, <2>1 DEF IInv, Cancel
<1>5. ASSUME Tick PROVE IInv'
  <2>1. /\ breaker' \in CircuitBreaker
        /\ Coherent(breaker')
        /\ breaker'.state = breaker.state
        /\ breaker'.failures = breaker.failures
        /\ breaker'.age = Older(breaker.age)
    BY <1>0, <1>5 DEF Tick, Aged, Older, CircuitBreaker, BreakerState, Coherent, CooldownElapsed
  <2>2. quiet' = Older(quiet) /\ quiet' \in 0 .. Cooldown
    BY <1>0, <1>5 DEF Tick, TypeOK, Older
  <2>3. TypeOK'
    BY <1>0, <1>5, <2>1, <2>2 DEF TypeOK, Tick
  <2>4. QED
    BY <1>0, <1>5, <2>1, <2>2, <2>3 DEF IInv, Tick
<1>6. ASSUME SourceFlips PROVE IInv'
  BY <1>0, <1>6 DEF IInv, TypeOK, SourceFlips
<1>7. ASSUME UNCHANGED vars PROVE IInv'
  BY <1>0, <1>7 DEF IInv, TypeOK, vars
<1>8. QED
  BY <1>1, <1>2, <1>3, <1>4, <1>5, <1>6, <1>7 DEF Next, Finish

(***************************************************************************)
(* The inductive invariant holds in every state.                           *)
(***************************************************************************)
THEOREM Inductive == Spec => []IInv
BY InitIInv, NextIInv, PTL DEF Spec

(***************************************************************************)
(* The breaker, its history and the calls in flight are well typed.        *)
(***************************************************************************)
THEOREM Typing == Spec => []TypeOK
<1>1. IInv => TypeOK
  BY DEF IInv
<1>2. QED
  BY <1>1, Inductive, PTL

(***************************************************************************)
(* breaker.py:49 for every threshold and any number of tasks: not CLOSED   *)
(* exactly after FailureThreshold failures in a row.                       *)
(***************************************************************************)
THEOREM Trips == Spec => []TripsExactly
<1>1. IInv => TripsExactly
  BY DEF IInv, TripsExactly, Coherent
<1>2. QED
  BY <1>1, Inductive, PTL

(***************************************************************************)
(* breaker.py:12 for every cooldown: a call is let through after           *)
(* FailureThreshold failures in a row only when the last of them lies a    *)
(* whole cooldown back.                                                    *)
(***************************************************************************)
THEOREM FailFast == Spec => []FailsFast
<1>1. IInv => FailsFast
  BY BreakerAssumption
     DEF IInv, TypeOK, FailsFast, Coherent, Allows, CooldownElapsed,
         CircuitBreaker, BreakerState
<1>2. QED
  BY <1>1, Inductive, PTL

-----------------------------------------------------------------------------
(* BreakerLocal implements BreakerContract *)

LEMMA InitImplements == Init => Contract!Init
BY DEF Init, Contract!Init

(***************************************************************************)
(* A call that the code lets through is one the contract allows; the       *)
(* other steps move the contract or leave it alone.                        *)
(***************************************************************************)
LEMMA StepImplements == IInv /\ [Next]_vars => [Contract!Next]_Contract!vars
<1> SUFFICES ASSUME IInv, [Next]_vars PROVE [Contract!Next]_Contract!vars
  OBVIOUS
<1>1. ASSUME NEW t \in Tasks, Admit(t) PROVE Contract!Call(t)
  <2>1. consec = FailureThreshold => quiet = Cooldown
    BY <1>1, BreakerAssumption
       DEF Admit, IInv, TypeOK, Coherent, Allows, CooldownElapsed,
           CircuitBreaker, BreakerState
  <2>2. QED
    BY <1>1, <2>1 DEF Admit, Contract!Call
<1>2. ASSUME NEW t \in Tasks, Succeed(t) PROVE Contract!Succeed(t)
  BY <1>2 DEF Succeed, Return, Contract!Succeed, Contract!Return
<1>3. ASSUME NEW t \in Tasks, Fail(t) PROVE Contract!Fail(t)
  BY <1>3 DEF Fail, Return, Contract!Fail, Contract!Return
<1>4. ASSUME NEW t \in Tasks, Cancel(t) PROVE Contract!Abandon(t)
  BY <1>4 DEF Cancel, Return, Contract!Abandon, Contract!Return
<1>5. ASSUME Tick PROVE Contract!Tick
  BY <1>5 DEF Tick, Older, Contract!Tick
<1>6. ASSUME SourceFlips PROVE UNCHANGED Contract!vars
  BY <1>6 DEF SourceFlips, Contract!vars
<1>7. ASSUME UNCHANGED vars PROVE UNCHANGED Contract!vars
  BY <1>7 DEF vars, Contract!vars
<1>8. QED
  BY <1>1, <1>2, <1>3, <1>4, <1>5, <1>6, <1>7 DEF Next, Finish, Contract!Next

(***************************************************************************)
(* The breaker shared by the tasks of a worker implements the contract of  *)
(* RES-04 (breaker.py:1-16).                                               *)
(***************************************************************************)
THEOREM Implements == Spec => KeepsContract
BY Inductive, InitImplements, StepImplements, PTL
   DEF Spec, KeepsContract, Contract!Spec
=============================================================================
