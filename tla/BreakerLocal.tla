----------------------------- MODULE BreakerLocal -----------------------------
(***************************************************************************)
(* The circuit breaker of one source inside one worker process             *)
(* (BreakerRegistry without Redis: breaker.py used by                      *)
(* resilience/client.py:197-211).  Many asyncio tasks share the breaker.   *)
(* allow_request and record_* never await, so each is one step; between    *)
(* them lies the upstream call, during which every other task may run.     *)
(***************************************************************************)
EXTENDS Breaker

CONSTANT Tasks \* the asyncio tasks that call the source

VARIABLES
  breaker,      \* the shared CircuitBreaker of the source
  calling,      \* the tasks whose upstream call is in flight
  up,           \* environment: the source answers
  consec,       \* history: failures recorded since the last success,
                \*   saturated at FailureThreshold
  quiet         \* history: ticks since the last recorded failure,
                \*   saturated at Cooldown

vars == <<breaker, calling, up, consec, quiet>>

Init ==
  /\ breaker = NewBreaker
  /\ calling = {}
  /\ up \in BOOLEAN
  /\ consec = 0
  /\ quiet = Cooldown

(***************************************************************************)
(* refresh() up to the await: allow_request says yes.  When it says no,    *)
(* BreakerOpen is raised and nothing changes here.                         *)
(***************************************************************************)
Admit(t) ==
  /\ t \notin calling
  /\ Allows(breaker)
  /\ breaker' = Allowed(breaker)
  /\ calling' = calling \cup {t}
  /\ UNCHANGED <<up, consec, quiet>>

Return(t) ==
  /\ t \in calling
  /\ calling' = calling \ {t}
  /\ UNCHANGED up

(***************************************************************************)
(* The call returns: record_success.                                       *)
(***************************************************************************)
Succeed(t) ==
  /\ up
  /\ Return(t)
  /\ breaker' = Succeeded(breaker)
  /\ consec' = 0
  /\ UNCHANGED quiet

(***************************************************************************)
(* The call raises an Exception (the HTTP timeout included):               *)
(* record_failure.                                                         *)
(***************************************************************************)
Fail(t) ==
  /\ ~up
  /\ Return(t)
  /\ breaker' = Failed(breaker)
  /\ consec' = IF consec < FailureThreshold THEN consec + 1 ELSE consec
  /\ quiet' = 0

(***************************************************************************)
(* The task is cancelled (the wait_for of city_overview runs out of        *)
(* budget): CancelledError is no Exception, so refresh() records nothing.  *)
(***************************************************************************)
Cancel(t) ==
  /\ Return(t)
  /\ UNCHANGED <<breaker, consec, quiet>>

Finish(t) == Succeed(t) \/ Fail(t) \/ Cancel(t)

Tick ==
  /\ breaker' = Aged(breaker)
  /\ quiet' = Older(quiet)
  /\ UNCHANGED <<calling, up, consec>>

SourceFlips ==
  /\ up' = ~up
  /\ UNCHANGED <<breaker, calling, consec, quiet>>

Next ==
  \/ \E t \in Tasks : Admit(t) \/ Finish(t)
  \/ Tick
  \/ SourceFlips

Spec == Init /\ [][Next]_vars

(***************************************************************************)
(* Time passes, the source keeps being asked for, and a call that could    *)
(* return an answer again and again is not cancelled every single time.    *)
(***************************************************************************)
FairSpec ==
  /\ Spec
  /\ WF_vars(Tick)
  /\ \A t \in Tasks : /\ WF_vars(Admit(t))
                      /\ WF_vars(Finish(t))
                      /\ SF_vars(Succeed(t))

-----------------------------------------------------------------------------
TypeOK ==
  /\ breaker \in CircuitBreaker
  /\ calling \subseteq Tasks
  /\ up \in BOOLEAN
  /\ consec \in 0 .. FailureThreshold
  /\ quiet \in 0 .. Cooldown

(***************************************************************************)
(* "Number of consecutive failures until OPEN" (breaker.py:49): whatever   *)
(* the order in which calls in flight return, the breaker is not CLOSED    *)
(* exactly when the last FailureThreshold outcomes were all failures.      *)
(***************************************************************************)
TripsExactly == breaker.state # "CLOSED" <=> consec = FailureThreshold

(***************************************************************************)
(* A source that has failed FailureThreshold times in a row is left alone  *)
(* for a whole cooldown after its last failure, the failures of calls that *)
(* were in flight when the breaker opened included (fail fast, T-03-11).   *)
(***************************************************************************)
FailsFast ==
  consec = FailureThreshold /\ Allows(breaker) => quiet = Cooldown

(***************************************************************************)
(* Why these hold, and inductively so: the counter is the number of        *)
(* failures in a row, and a breaker that is not CLOSED was opened by the   *)
(* last failure.                                                           *)
(***************************************************************************)
IInv ==
  /\ TypeOK
  /\ Coherent(breaker)
  /\ breaker.failures = consec
  /\ breaker.state # "CLOSED" => breaker.age = quiet

(***************************************************************************)
(* The breaker keeps the contract of BreakerContract: threshold and        *)
(* cooldown protect the source, whatever tasks do in between.              *)
(***************************************************************************)
Contract == INSTANCE BreakerContract

KeepsContract == Contract!Spec

(***************************************************************************)
(* "It still closes ITSELF once the upstream is back" (breaker.py:147):    *)
(* when the source stays up and is asked for, the breaker closes for good, *)
(* whatever calls are cancelled on the way.                                *)
(***************************************************************************)
HealsItself == <>[]up => <>[](breaker.state = "CLOSED")
===============================================================================
