--------------------------- MODULE BreakerRedisProofs ---------------------------
(***************************************************************************)
(* BreakerRedis, for any number of workers and tasks, every threshold and  *)
(* cooldown, and any number of faults.                                     *)
(***************************************************************************)
EXTENDS BreakerRedis, FiniteSetTheorems, TLAPS

-----------------------------------------------------------------------------
(* What the methods of CircuitBreaker (Breaker) return and preserve.       *)

(***************************************************************************)
(* __init__ makes a breaker whose fields are coherent.                     *)
(***************************************************************************)
LEMMA NewBreakerCoherent ==
  NewBreaker \in CircuitBreaker /\ Coherent(NewBreaker) /\ NewBreaker.age = Cooldown
BY BreakerAssumption
   DEF NewBreaker, CircuitBreaker, BreakerState, Coherent, CooldownElapsed

(***************************************************************************)
(* allow_request: letting a call through keeps the breaker coherent and    *)
(* changes neither counter nor opening time.                               *)
(***************************************************************************)
LEMMA AllowedCoherent ==
  ASSUME NEW b \in CircuitBreaker, Coherent(b), Allows(b)
  PROVE  /\ Allowed(b) \in CircuitBreaker
         /\ Coherent(Allowed(b))
         /\ Allowed(b).failures = b.failures
         /\ Allowed(b).age = b.age
         /\ Allowed(b).state = "CLOSED" <=> b.state = "CLOSED"
BY BreakerAssumption
   DEF Allowed, Allows, CircuitBreaker, BreakerState, Coherent, CooldownElapsed

(***************************************************************************)
(* record_success leaves a CLOSED breaker with an empty counter.           *)
(***************************************************************************)
LEMMA SucceededCoherent ==
  ASSUME NEW b \in CircuitBreaker
  PROVE  /\ Succeeded(b) \in CircuitBreaker
         /\ Coherent(Succeeded(b))
         /\ Succeeded(b).state = "CLOSED"
         /\ Succeeded(b).failures = 0
         /\ Succeeded(b).age = Cooldown
BY BreakerAssumption
   DEF Succeeded, CircuitBreaker, BreakerState, Coherent, CooldownElapsed

(***************************************************************************)
(* record_failure counts up to the threshold and opens there, or at once   *)
(* when the breaker was HALF_OPEN; whatever is not CLOSED then was opened  *)
(* just now.                                                               *)
(***************************************************************************)
LEMMA FailedCoherent ==
  ASSUME NEW b \in CircuitBreaker, Coherent(b)
  PROVE  /\ Failed(b) \in CircuitBreaker
         /\ Coherent(Failed(b))
         /\ Failed(b).state # "HALF_OPEN"
         /\ Failed(b).failures =
              IF b.failures < FailureThreshold THEN b.failures + 1 ELSE b.failures
         /\ Failed(b).state # "CLOSED" => Failed(b).age = 0
<1>1. CASE b.state = "HALF_OPEN"
  BY <1>1, BreakerAssumption
     DEF Failed, Opened, CircuitBreaker, BreakerState, Coherent, CooldownElapsed
<1>2. CASE b.state # "HALF_OPEN"
  <2>1. /\ Counted(b) \in CircuitBreaker
        /\ Counted(b).state = b.state
        /\ Counted(b).age = b.age
        /\ Counted(b).failures =
             IF b.failures < FailureThreshold THEN b.failures + 1 ELSE b.failures
    BY BreakerAssumption DEF Counted, CircuitBreaker
  <2>2. Failed(b) = IF Counted(b).failures >= FailureThreshold
                    THEN Opened(Counted(b)) ELSE Counted(b)
    BY <1>2 DEF Failed
  <2>3. CASE Counted(b).failures >= FailureThreshold
    BY <2>1, <2>2, <2>3, BreakerAssumption
       DEF Opened, CircuitBreaker, BreakerState, Coherent, CooldownElapsed
  <2>4. CASE ~(Counted(b).failures >= FailureThreshold)
    BY <1>2, <2>1, <2>2, <2>4, BreakerAssumption
       DEF CircuitBreaker, BreakerState, Coherent, CooldownElapsed
  <2>5. QED
    BY <2>3, <2>4
<1>3. QED
  BY <1>1, <1>2

(***************************************************************************)
(* A tick makes the breaker older, up to Cooldown, and nothing else.       *)
(***************************************************************************)
LEMMA AgedCoherent ==
  ASSUME NEW b \in CircuitBreaker
  PROVE  /\ Aged(b) \in CircuitBreaker
         /\ Coherent(b) => Coherent(Aged(b))
         /\ Aged(b).state = b.state
         /\ Aged(b).failures = b.failures
         /\ Aged(b).age = Older(b.age)
BY BreakerAssumption
   DEF Aged, Older, CircuitBreaker, BreakerState, Coherent, CooldownElapsed

-----------------------------------------------------------------------------
(* The copies of the workers, of Redis and of the tasks. *)

(***************************************************************************)
(* What is required of one copy of the breaker, wherever it is.            *)
(***************************************************************************)
Sound(b) == b \in CircuitBreaker /\ Coherent(b) /\ b.age >= quiet

Kept(b) == Sound(b) /\ b.state # "HALF_OPEN"

Copies ==
  /\ mem \in [Workers -> CircuitBreaker] /\ \A w \in Workers : Sound(mem[w])
  /\ stored # NoEntry => Kept(stored)
  /\ note \in [Tasks -> CircuitBreaker] /\ \A t \in Tasks : Kept(note[t])

Rest ==
  /\ pc \in [Tasks -> Places]
  /\ up \in BOOLEAN
  /\ faults \in 0 .. MaxFaults
  /\ consec \in 0 .. FailureThreshold
  /\ quiet \in 0 .. Cooldown

(***************************************************************************)
(* The inductive invariant, copy by copy.                                  *)
(***************************************************************************)
LEMMA IInvByCopy == IInv <=> Copies /\ Rest
BY RedisAssumption
   DEF IInv, TypeOK, CopiesCoherent, OpenedNoLaterThanFailure, Persistable,
       Copies, Rest, Sound, Kept

LEMMA NewIsKept == quiet \in 0 .. Cooldown => Kept(NewBreaker)
BY NewBreakerCoherent, BreakerAssumption
   DEF Kept, Sound, NewBreaker, CircuitBreaker

(***************************************************************************)
(* Overwriting one worker's breaker, or one task's copy, with a sound one. *)
(***************************************************************************)
LEMMA MemUpdate ==
  ASSUME Copies, NEW w \in Workers, NEW b, Sound(b), quiet' = quiet,
         mem' = [mem EXCEPT ![w] = b]
  PROVE  mem' \in [Workers -> CircuitBreaker] /\ \A v \in Workers : Sound(mem[v])'
BY DEF Copies, Sound

LEMMA NoteUpdate ==
  ASSUME Copies, NEW t \in Tasks, NEW b, Kept(b), quiet' = quiet,
         note' = [note EXCEPT ![t] = b]
  PROVE  note' \in [Tasks -> CircuitBreaker] /\ \A s \in Tasks : Kept(note[s])'
BY DEF Copies, Kept, Sound

LEMMA Unchanged ==
  ASSUME Copies, quiet' = quiet
  PROVE  /\ mem' = mem => /\ mem' \in [Workers -> CircuitBreaker]
                          /\ \A v \in Workers : Sound(mem[v])'
         /\ stored' = stored => (stored # NoEntry => Kept(stored))'
         /\ note' = note => /\ note' \in [Tasks -> CircuitBreaker]
                            /\ \A s \in Tasks : Kept(note[s])'
BY DEF Copies, Kept, Sound

LEMMA InitIInv == Init => IInv
<1> SUFFICES ASSUME Init PROVE Copies /\ Rest
  BY IInvByCopy
<1>1. Rest
  BY BreakerAssumption, RedisAssumption DEF Init, Rest, Places
<1>2. Copies
  BY <1>1, NewIsKept, NewBreakerCoherent DEF Init, Copies, Rest, Kept
<1>3. QED
  BY <1>1, <1>2

(***************************************************************************)
(* The control state, the budget and the histories stay in their ranges.   *)
(***************************************************************************)
LEMMA NextRest == Rest /\ [Next]_vars => Rest'
<1> SUFFICES ASSUME Rest, [Next]_vars PROVE Rest'
  OBVIOUS
<1> USE BreakerAssumption, RedisAssumption DEF Rest, Places, Goto, Idle, Fault
<1>1. ASSUME NEW t \in Tasks, Start(t) \/ Answer(t) PROVE Rest'
  BY <1>1 DEF Start, Answer, HydrateRead, HydrateMiss, HydrateFails, Hydrate
<1>2. ASSUME NEW t \in Tasks, Decide(t) PROVE Rest'
  BY <1>2 DEF Decide, ServedFromCache, Refuse, Admit
<1>3. ASSUME NEW t \in Tasks, Outcome(t) PROVE Rest'
  BY <1>3 DEF Outcome, Succeed, Fail, Record
<1>4. ASSUME NEW t \in Tasks, Persist(t) \/ Cancel(t) PROVE Rest'
  BY <1>4 DEF Persist, PersistLands, PersistFails, Cancel
<1>5. ASSUME NEW w \in Workers, Deploy(w) PROVE Rest'
  BY <1>5 DEF Deploy, Restarted
<1>6. ASSUME NEW w \in Workers, Crash(w) PROVE Rest'
  BY <1>6 DEF Crash, Restarted
<1>7. CASE Vanish
  BY <1>7 DEF Vanish
<1>8. CASE Tick
  BY <1>8 DEF Tick, Older
<1>9. CASE SourceFlips
  BY <1>9 DEF SourceFlips
<1>10. CASE UNCHANGED vars
  BY <1>10 DEF vars
<1>11. QED
  BY <1>1, <1>2, <1>3, <1>4, <1>5, <1>6, <1>7, <1>8, <1>9, <1>10 DEF Next

(***************************************************************************)
(* Every step moves sound copies around, or makes new ones from them.      *)
(***************************************************************************)
LEMMA NextCopies == Copies /\ Rest /\ [Next]_vars => Copies'
<1> SUFFICES ASSUME Copies, Rest, [Next]_vars PROVE Copies'
  OBVIOUS
<1> USE RedisAssumption
<1>0. /\ Kept(NewBreaker)
      /\ \A w \in Workers : Sound(mem[w])
      /\ \A t \in Tasks : Kept(note[t]) /\ Home[t] \in Workers
      /\ quiet \in 0 .. Cooldown
  BY NewIsKept DEF Copies, Rest
<1>1. ASSUME NEW t \in Tasks, Start(t) PROVE Copies'
  BY <1>1, Unchanged DEF Start, Copies
<1>2. ASSUME NEW t \in Tasks, HydrateRead(t) PROVE Copies'
  <2>1. Kept(stored) /\ quiet' = quiet /\ mem' = mem /\ stored' = stored
    BY <1>2 DEF HydrateRead, Copies
  <2>2. note' = [note EXCEPT ![t] = stored]
    BY <1>2 DEF HydrateRead
  <2>3. QED
    BY <2>1, <2>2, NoteUpdate, Unchanged DEF Copies
<1>3. ASSUME NEW t \in Tasks, HydrateMiss(t) \/ HydrateFails(t) PROVE Copies'
  BY <1>3, Unchanged DEF HydrateMiss, HydrateFails, Copies
<1>4. ASSUME NEW t \in Tasks, Hydrate(t) PROVE Copies'
  <2>1. quiet' = quiet /\ stored' = stored /\ Sound(note[t])
    BY <1>0, <1>4 DEF Hydrate, Kept
  <2>2. mem' = [mem EXCEPT ![Home[t]] = note[t]]
    BY <1>4 DEF Hydrate
  <2>3. note' = [note EXCEPT ![t] = NewBreaker]
    BY <1>4 DEF Hydrate
  <2>4. QED
    BY <1>0, <2>1, <2>2, <2>3, MemUpdate, NoteUpdate, Unchanged DEF Copies
<1>5. ASSUME NEW t \in Tasks, ServedFromCache(t) \/ Refuse(t) \/ PersistFails(t) \/ Cancel(t)
      PROVE  Copies'
  <2>1. /\ quiet' = quiet /\ stored' = stored /\ mem' = mem
        /\ note' = [note EXCEPT ![t] = NewBreaker]
    BY <1>5 DEF ServedFromCache, Refuse, PersistFails, Cancel, Idle
  <2>2. QED
    BY <1>0, <2>1, NoteUpdate, Unchanged DEF Copies
<1>6. ASSUME NEW t \in Tasks, Admit(t) PROVE Copies'
  <2>1. Sound(Allowed(mem[Home[t]]))
    BY <1>0, <1>6, AllowedCoherent DEF Admit, Sound
  <2>2. /\ quiet' = quiet /\ stored' = stored /\ note' = note
        /\ mem' = [mem EXCEPT ![Home[t]] = Allowed(mem[Home[t]])]
    BY <1>6 DEF Admit
  <2>3. QED
    BY <1>0, <2>1, <2>2, MemUpdate, Unchanged DEF Copies
<1>7. ASSUME NEW t \in Tasks, Succeed(t) PROVE Copies'
  <2>1. Kept(Succeeded(mem[Home[t]]))
    BY <1>0, SucceededCoherent, BreakerAssumption DEF Sound, Kept
  <2>2. /\ quiet' = quiet /\ stored' = stored
        /\ mem' = [mem EXCEPT ![Home[t]] = Succeeded(mem[Home[t]])]
        /\ note' = [note EXCEPT ![t] = Succeeded(mem[Home[t]])]
    BY <1>7 DEF Succeed, Record
  <2>3. QED
    BY <1>0, <2>1, <2>2, MemUpdate, NoteUpdate, Unchanged DEF Copies, Kept
<1>8. ASSUME NEW t \in Tasks, Fail(t) PROVE Copies'
  <2> DEFINE b == Failed(mem[Home[t]])
  <2>1. b \in CircuitBreaker /\ Coherent(b) /\ b.state # "HALF_OPEN"
    BY <1>0, FailedCoherent DEF Sound
  <2>2. /\ quiet' = 0 /\ stored' = stored
        /\ mem' = [mem EXCEPT ![Home[t]] = b]
        /\ note' = [note EXCEPT ![t] = b]
    BY <1>8 DEF Fail, Record
  <2> HIDE DEF b
  <2>3. \A c \in CircuitBreaker : c.age >= 0
    BY DEF CircuitBreaker
  <2>4. QED
    BY <2>1, <2>2, <2>3 DEF Copies, Sound, Kept
<1>9. ASSUME NEW t \in Tasks, PersistLands(t) PROVE Copies'
  <2>1. /\ quiet' = quiet /\ mem' = mem /\ stored' = note[t]
        /\ note' = [note EXCEPT ![t] = NewBreaker]
    BY <1>9 DEF PersistLands, Idle
  <2>2. Kept(stored)'
    BY <1>0, <2>1 DEF Kept, Sound
  <2>3. QED
    BY <1>0, <2>1, <2>2, NoteUpdate, Unchanged DEF Copies
<1>10. ASSUME NEW w \in Workers, Deploy(w) PROVE Copies'
  BY <1>0, <1>10, MemUpdate, Unchanged DEF Deploy, Restarted, Copies, Kept
<1>11. ASSUME NEW w \in Workers, Crash(w) PROVE Copies'
  <2>1. /\ quiet' = quiet /\ stored' = stored
        /\ mem' = [mem EXCEPT ![w] = NewBreaker]
        /\ note' = [t \in Tasks |-> IF Home[t] = w THEN NewBreaker ELSE note[t]]
    BY <1>11 DEF Crash, Restarted
  <2>2. note' \in [Tasks -> CircuitBreaker] /\ \A t \in Tasks : Kept(note[t])'
    BY <1>0, <2>1 DEF Kept, Sound
  <2>3. QED
    BY <1>0, <2>1, <2>2, MemUpdate, Unchanged DEF Copies, Kept
<1>12. CASE Vanish
  BY <1>12, Unchanged DEF Vanish, Copies
<1>13. CASE Tick
  <2>1. quiet' = Older(quiet)
    BY <1>13 DEF Tick
  <2>2. ASSUME NEW b, Sound(b)
        PROVE  /\ Aged(b) \in CircuitBreaker /\ Coherent(Aged(b))
               /\ Aged(b).state = b.state /\ Aged(b).age >= Older(quiet)
    <3>1. /\ Aged(b) \in CircuitBreaker /\ Coherent(Aged(b))
          /\ Aged(b).state = b.state /\ Aged(b).age = Older(b.age)
      BY <2>2, AgedCoherent DEF Sound
    <3>2. b.age \in 0 .. Cooldown /\ b.age >= quiet
      BY <2>2 DEF Sound, CircuitBreaker
    <3>3. QED
      BY <1>0, <3>1, <3>2, BreakerAssumption DEF Older
  <2>3. mem' \in [Workers -> CircuitBreaker] /\ \A w \in Workers : Sound(mem[w])'
    BY <1>0, <1>13, <2>1, <2>2 DEF Tick, Sound
  <2>4. note' \in [Tasks -> CircuitBreaker] /\ \A t \in Tasks : Kept(note[t])'
    BY <1>0, <1>13, <2>1, <2>2 DEF Tick, Sound, Kept
  <2>5. stored' # NoEntry => Kept(stored)'
    BY <1>13, <2>1, <2>2 DEF Tick, Sound, Kept, Copies
  <2>6. QED
    BY <2>3, <2>4, <2>5 DEF Copies
<1>14. CASE SourceFlips
  BY <1>14, Unchanged DEF SourceFlips, Copies
<1>15. CASE UNCHANGED vars
  BY <1>15, Unchanged DEF vars, Copies
<1>16. QED
  BY <1>1, <1>2, <1>3, <1>4, <1>5, <1>6, <1>7, <1>8, <1>9, <1>10, <1>11,
     <1>12, <1>13, <1>14, <1>15
     DEF Next, Answer, Decide, Outcome, Persist

(***************************************************************************)
(* The inductive invariant holds in every state.                           *)
(***************************************************************************)
THEOREM Inductive == Spec => []IInv
BY InitIInv, IInvByCopy, NextRest, NextCopies, PTL DEF Spec

(***************************************************************************)
(* The workers, Redis, the tasks and what they carry are well typed.       *)
(***************************************************************************)
THEOREM Typing == Spec => []TypeOK
<1>1. IInv => TypeOK
  BY DEF IInv
<1>2. QED
  BY <1>1, Inductive, PTL

(***************************************************************************)
(* No torn or probing breaker in Redis or in a message, and no torn one in *)
(* a worker, under every interleaving of hydrate, persist, crashes and     *)
(* lost writes (breaker_redis.py:84-129).                                  *)
(***************************************************************************)
THEOREM NoTornCopies == Spec => []CopiesCoherent
<1>1. IInv => CopiesCoherent
  BY DEF IInv
<1>2. QED
  BY <1>1, Inductive, PTL

(***************************************************************************)
(* No stale copy refuses calls for longer than one cooldown after the last *)
(* failure anywhere, however many workers, tasks and faults there are      *)
(* (breaker.py:50, breaker_redis.py:11-15).                                *)
(***************************************************************************)
THEOREM NoLockOut == Spec => []RefusalsEnd
<1>1. ASSUME IInv, quiet = Cooldown, NEW w \in Workers PROVE Allows(mem[w])
  <2>1. mem[w] \in CircuitBreaker /\ mem[w].age >= Cooldown
    BY <1>1 DEF IInv, TypeOK, OpenedNoLaterThanFailure
  <2>2. mem[w].age = Cooldown
    BY <2>1, BreakerAssumption DEF CircuitBreaker
  <2>3. QED
    BY <2>2 DEF Allows, CooldownElapsed
<1>2. IInv => RefusalsEnd
  BY <1>1 DEF RefusalsEnd
<1>3. QED
  BY <1>2, Inductive, PTL

-----------------------------------------------------------------------------
(* Without overlap and faults, all workers are one breaker *)

LEMMA SerialNoFault == Serial /\ Rest => ~Fault
BY RedisAssumption DEF Serial, Rest, Fault

LEMMA SerialStart ==
  ASSUME Serial, OneAtATime, NEW t \in Tasks, Start(t)
  PROVE  \A s \in Tasks : pc[s] = "idle"
<1> SUFFICES ASSUME NEW s \in Tasks, pc[s] # "idle" PROVE FALSE
  OBVIOUS
<1>1. Busy = {s}
  BY DEF OneAtATime, Busy
<1>2. Cardinality(Busy) = 1
  BY <1>1, FS_Singleton
<1>3. QED
  BY <1>2 DEF Serial, Start

(***************************************************************************)
(* The methods of the breaker count and stamp as the histories do.         *)
(***************************************************************************)
LEMMA TracksAllowed ==
  ASSUME NEW b \in CircuitBreaker, Coherent(b), Allows(b), Tracks(b),
         consec' = consec, quiet' = quiet
  PROVE  /\ consec = FailureThreshold => quiet = Cooldown
         /\ Allowed(b).failures = consec'
         /\ Allowed(b).state # "CLOSED" => Allowed(b).age = quiet'
<1>1. /\ Allowed(b).failures = b.failures /\ Allowed(b).age = b.age
      /\ Allowed(b).state = "CLOSED" <=> b.state = "CLOSED"
  BY AllowedCoherent
<1>2. consec = FailureThreshold => quiet = Cooldown
  BY DEF Tracks, Coherent, Allows, CooldownElapsed, CircuitBreaker, BreakerState
<1>3. QED
  BY <1>1, <1>2 DEF Tracks

LEMMA TracksFailed ==
  ASSUME NEW b \in CircuitBreaker, Coherent(b), Tracks(b),
         consec' = IF consec < FailureThreshold THEN consec + 1 ELSE consec,
         quiet' = 0
  PROVE  /\ Failed(b).failures = consec'
         /\ Failed(b).state # "CLOSED" => Failed(b).age = quiet'
BY FailedCoherent DEF Tracks

LEMMA TracksAged ==
  ASSUME NEW b \in CircuitBreaker, Tracks(b), consec' = consec, quiet' = Older(quiet)
  PROVE  /\ Aged(b).failures = consec'
         /\ Aged(b).state # "CLOSED" => Aged(b).age = quiet'
BY AgedCoherent DEF Tracks

LEMMA InitOneBreaker == Init => OneBreaker
BY DEF Init, OneBreaker, OneAtATime, CarriedCounts, StoredCounts, Busy

(***************************************************************************)
(* The copy that counts moves on with the task.                            *)
(***************************************************************************)
LEMMA NextOneBreaker ==
  ASSUME Serial, IInv, OneBreaker, [Next]_vars
  PROVE  OneBreaker'
<1> USE RedisAssumption
<1>0. /\ ~Fault
      /\ \A w \in Workers : mem[w] \in CircuitBreaker /\ Coherent(mem[w])
      /\ \A t \in Tasks : note[t] \in CircuitBreaker /\ Home[t] \in Workers
      /\ stored # NoEntry => stored \in CircuitBreaker
  BY SerialNoFault, IInvByCopy DEF IInv, TypeOK, CopiesCoherent
<1>1. ASSUME NEW t \in Tasks, pc[t] # "idle"
      PROVE  \A s \in Tasks : s # t => pc[s] = "idle"
  BY <1>1 DEF OneBreaker, OneAtATime, Busy
<1>2. ASSUME NEW t \in Tasks, NEW place \in Places, Goto(t, place),
             \A s \in Tasks : s # t => pc[s] = "idle"
      PROVE  /\ OneAtATime'
             /\ pc'[t] = place /\ \A s \in Tasks : s # t => pc'[s] = "idle"
  <2>1. pc'[t] = place /\ \A s \in Tasks : s # t => pc'[s] = "idle"
    BY <1>2 DEF Goto, IInv, TypeOK
  <2>2. QED
    BY <2>1 DEF OneAtATime, Busy
<1>3. {"idle", "hydrating", "replied", "ready", "calling", "persisting"} = Places
  BY DEF Places
<1>4. ASSUME NEW t \in Tasks, Start(t) PROVE OneBreaker'
  <2>1. \A s \in Tasks : pc[s] = "idle"
    BY <1>4, SerialStart DEF OneBreaker
  <2>2. /\ OneAtATime'
        /\ pc'[t] = "hydrating" /\ \A s \in Tasks : s # t => pc'[s] = "idle"
    BY <1>2, <1>3, <1>4, <2>1 DEF Start
  <2>3. CarriedCounts'
    BY <2>2 DEF CarriedCounts
  <2>4. StoredCounts'
    BY <1>4, <2>1 DEF Start, OneBreaker, StoredCounts, Tracks
  <2>5. QED
    BY <2>2, <2>3, <2>4 DEF OneBreaker
<1>5. ASSUME NEW t \in Tasks, HydrateRead(t) PROVE OneBreaker'
  <2>1. /\ OneAtATime'
        /\ pc'[t] = "replied" /\ \A s \in Tasks : s # t => pc'[s] = "idle"
    BY <1>1, <1>2, <1>3, <1>5 DEF HydrateRead
  <2>2. Tracks(stored)
    BY <1>1, <1>5 DEF HydrateRead, OneBreaker, StoredCounts
  <2>3. CarriedCounts'
    BY <1>5, <2>1, <2>2 DEF HydrateRead, CarriedCounts, Tracks, IInv, TypeOK
  <2>4. StoredCounts'
    BY <1>5, <2>2 DEF HydrateRead, StoredCounts, Tracks
  <2>5. QED
    BY <2>1, <2>3, <2>4 DEF OneBreaker
<1>6. ASSUME NEW t \in Tasks, HydrateMiss(t) PROVE OneBreaker'
  <2>1. /\ OneAtATime'
        /\ pc'[t] = "ready" /\ \A s \in Tasks : s # t => pc'[s] = "idle"
    BY <1>1, <1>2, <1>3, <1>6 DEF HydrateMiss
  <2>2. consec = 0 /\ \A w \in Workers : mem[w] = NewBreaker
    BY <1>1, <1>6 DEF HydrateMiss, OneBreaker, StoredCounts
  <2>3. CarriedCounts'
    BY <1>0, <1>6, <2>1, <2>2 DEF HydrateMiss, CarriedCounts, Tracks, NewBreaker
  <2>4. StoredCounts'
    BY <1>6, <2>2 DEF HydrateMiss, StoredCounts
  <2>5. QED
    BY <2>1, <2>3, <2>4 DEF OneBreaker
<1>7. ASSUME NEW t \in Tasks, Hydrate(t) PROVE OneBreaker'
  <2>1. /\ OneAtATime'
        /\ pc'[t] = "ready" /\ \A s \in Tasks : s # t => pc'[s] = "idle"
    BY <1>1, <1>2, <1>3, <1>7 DEF Hydrate
  <2>2. Tracks(note[t]) /\ mem'[Home[t]] = note[t]
    BY <1>0, <1>7 DEF Hydrate, OneBreaker, CarriedCounts, IInv, TypeOK
  <2>3. CarriedCounts'
    BY <1>7, <2>1, <2>2 DEF Hydrate, CarriedCounts, Tracks
  <2>4. StoredCounts'
    <3>1. stored # NoEntry /\ Tracks(stored)
      BY <1>1, <1>7 DEF Hydrate, OneBreaker, CarriedCounts, StoredCounts
    <3>2. QED
      BY <1>7, <3>1 DEF Hydrate, StoredCounts, Tracks
  <2>5. QED
    BY <2>1, <2>3, <2>4 DEF OneBreaker
<1>8. ASSUME NEW t \in Tasks, ServedFromCache(t) \/ Refuse(t) PROVE OneBreaker'
  <2>1. /\ OneAtATime'
        /\ pc'[t] = "idle" /\ \A s \in Tasks : s # t => pc'[s] = "idle"
    BY <1>1, <1>2, <1>3, <1>8 DEF ServedFromCache, Refuse, Idle
  <2>2. CarriedCounts'
    BY <2>1 DEF CarriedCounts
  <2>3. \A s \in Tasks : pc[s] # "persisting"
    BY <1>1, <1>8 DEF ServedFromCache, Refuse
  <2>4. StoredCounts'
    BY <1>8, <2>3 DEF ServedFromCache, Refuse, OneBreaker, StoredCounts, Tracks
  <2>5. QED
    BY <2>1, <2>2, <2>4 DEF OneBreaker
<1>9. ASSUME NEW t \in Tasks, Admit(t) PROVE OneBreaker'
  <2> DEFINE b == mem[Home[t]]
  <2>1. /\ OneAtATime'
        /\ pc'[t] = "calling" /\ \A s \in Tasks : s # t => pc'[s] = "idle"
    BY <1>1, <1>2, <1>3, <1>9 DEF Admit
  <2>2. /\ Tracks(b) /\ Allows(b) /\ b \in CircuitBreaker /\ Coherent(b)
        /\ mem' = [mem EXCEPT ![Home[t]] = Allowed(b)]
        /\ UNCHANGED <<stored, consec, quiet>>
    BY <1>0, <1>9 DEF Admit, OneBreaker, CarriedCounts
  <2>3. mem'[Home[t]] = Allowed(b)
    BY <1>0, <2>2 DEF IInv, TypeOK
  <2>4. CarriedCounts'
    <3>1. Tracks(mem[Home[t]])'
      <4> HIDE DEF b
      <4>1. /\ Allowed(b).failures = consec'
            /\ Allowed(b).state # "CLOSED" => Allowed(b).age = quiet'
        BY <2>2, TracksAllowed
      <4>2. QED
        BY <2>3, <4>1 DEF Tracks
    <3>2. QED
      BY <2>1, <3>1 DEF CarriedCounts
  <2>5. StoredCounts'
    <3>1. \A s \in Tasks : pc[s] # "persisting"
      BY <1>1, <1>9 DEF Admit
    <3>2. CASE stored = NoEntry
      <4>1. consec = 0 /\ \A w \in Workers : mem[w] = NewBreaker
        BY <3>1, <3>2 DEF OneBreaker, StoredCounts
      <4>2. Allowed(NewBreaker) = NewBreaker
        BY DEF Allowed, NewBreaker
      <4>3. \A w \in Workers : mem'[w] = NewBreaker
        BY <1>0, <2>2, <4>1, <4>2 DEF IInv, TypeOK
      <4>4. QED
        BY <2>2, <3>2, <4>1, <4>3 DEF StoredCounts
    <3>3. CASE stored # NoEntry
      BY <2>2, <3>1, <3>3 DEF OneBreaker, StoredCounts, Tracks
    <3>4. QED
      BY <3>2, <3>3
  <2>6. QED
    BY <2>1, <2>4, <2>5 DEF OneBreaker
<1>10. ASSUME NEW t \in Tasks, NEW b, Record(t, b),
              b.failures = consec', b.state # "CLOSED" => b.age = quiet'
       PROVE  OneBreaker'
  <2>1. /\ OneAtATime'
        /\ pc'[t] = "persisting" /\ \A s \in Tasks : s # t => pc'[s] = "idle"
    BY <1>1, <1>2, <1>3, <1>10 DEF Record
  <2>2. Tracks(note[t])'
    <3>1. note'[t] = b
      BY <1>10 DEF Record, IInv, TypeOK
    <3>2. QED
      BY <1>10, <3>1 DEF Tracks
  <2>3. CarriedCounts'
    BY <2>1, <2>2 DEF CarriedCounts
  <2>4. StoredCounts'
    BY <2>1 DEF StoredCounts
  <2>5. QED
    BY <2>1, <2>3, <2>4 DEF OneBreaker
<1>11. ASSUME NEW t \in Tasks, Succeed(t) PROVE OneBreaker'
  <2>1. Succeeded(mem[Home[t]]).failures = 0 /\ Succeeded(mem[Home[t]]).state = "CLOSED"
    BY <1>0, SucceededCoherent
  <2>2. QED
    BY <1>10, <1>11, <2>1 DEF Succeed
<1>12. ASSUME NEW t \in Tasks, Fail(t) PROVE OneBreaker'
  <2> DEFINE b == mem[Home[t]]
  <2>1. Tracks(b) /\ b \in CircuitBreaker /\ Coherent(b)
    BY <1>0, <1>12 DEF Fail, Record, OneBreaker, CarriedCounts
  <2>2. /\ Record(t, Failed(b)) /\ quiet' = 0
        /\ consec' = IF consec < FailureThreshold THEN consec + 1 ELSE consec
    BY <1>12 DEF Fail
  <2> HIDE DEF b
  <2>3. /\ Failed(b).failures = consec'
        /\ Failed(b).state # "CLOSED" => Failed(b).age = quiet'
    BY <2>1, <2>2, TracksFailed
  <2>4. QED
    BY <1>10, <2>2, <2>3
<1>13. ASSUME NEW t \in Tasks, PersistLands(t) PROVE OneBreaker'
  <2>1. /\ OneAtATime'
        /\ pc'[t] = "idle" /\ \A s \in Tasks : s # t => pc'[s] = "idle"
    BY <1>1, <1>2, <1>3, <1>13 DEF PersistLands, Idle
  <2>2. CarriedCounts'
    BY <2>1 DEF CarriedCounts
  <2>3. Tracks(note[t]) /\ note[t] # NoEntry
    BY <1>0, <1>13 DEF PersistLands, OneBreaker, CarriedCounts
  <2>4. StoredCounts'
    BY <1>13, <2>3 DEF PersistLands, StoredCounts, Tracks
  <2>5. QED
    BY <2>1, <2>2, <2>4 DEF OneBreaker
<1>14. ASSUME NEW w \in Workers, Deploy(w) PROVE OneBreaker'
  <2>1. /\ UNCHANGED <<stored, pc, note, consec, quiet>>
        /\ mem' = [mem EXCEPT ![w] = NewBreaker]
        /\ \A t \in Tasks : pc[t] # "idle" => Home[t] # w
    BY <1>14 DEF Deploy, Restarted, Busy
  <2>2. \A t \in Tasks : pc[t] # "idle" => mem'[Home[t]] = mem[Home[t]]
    BY <2>1 DEF IInv, TypeOK
  <2>3. \A v \in Workers : mem[v] = NewBreaker => mem'[v] = NewBreaker
    BY <2>1 DEF IInv, TypeOK
  <2>4. OneAtATime'
    BY <2>1 DEF OneBreaker, OneAtATime, Busy
  <2>5. CarriedCounts'
    BY <2>1, <2>2 DEF OneBreaker, CarriedCounts, Tracks
  <2>6. StoredCounts'
    BY <2>1, <2>3 DEF OneBreaker, StoredCounts, Tracks
  <2>7. QED
    BY <2>4, <2>5, <2>6 DEF OneBreaker
<1>15. CASE Tick
  <2>1. /\ UNCHANGED <<pc, consec>> /\ quiet' = Older(quiet)
        /\ \A w \in Workers : mem'[w] = Aged(mem[w])
        /\ \A t \in Tasks : note'[t] = Aged(note[t])
        /\ stored' = IF stored = NoEntry THEN NoEntry ELSE Aged(stored)
    BY <1>15 DEF Tick
  <2>2. ASSUME NEW b \in CircuitBreaker, Tracks(b)
        PROVE  /\ Aged(b).failures = consec'
               /\ Aged(b).state # "CLOSED" => Aged(b).age = quiet'
               /\ Aged(b) # NoEntry
    BY <2>1, <2>2, TracksAged, AgedCoherent
  <2>3. OneAtATime'
    BY <2>1 DEF OneBreaker, OneAtATime, Busy
  <2>4. ASSUME NEW t \in Tasks
        PROVE  /\ pc'[t] \in {"ready", "calling"} => Tracks(mem[Home[t]])'
               /\ pc'[t] \in {"replied", "persisting"} => Tracks(note[t])'
               /\ pc'[t] = "replied" => stored' # NoEntry
    <3>1. CASE pc[t] \in {"ready", "calling"}
      BY <1>0, <2>1, <2>2, <3>1 DEF OneBreaker, CarriedCounts, Tracks
    <3>2. CASE pc[t] \in {"replied", "persisting"}
      <4>1. Tracks(note[t])'
        BY <1>0, <2>1, <2>2, <3>2 DEF OneBreaker, CarriedCounts, Tracks
      <4>2. pc[t] = "replied" => stored' # NoEntry
        BY <1>0, <2>1, AgedCoherent DEF OneBreaker, CarriedCounts
      <4>3. QED
        BY <2>1, <3>2, <4>1, <4>2
    <3>3. QED
      BY <2>1, <3>1, <3>2
  <2>5. StoredCounts'
    <3> SUFFICES ASSUME \A t \in Tasks : pc'[t] # "persisting"
                 PROVE  IF stored' = NoEntry
                        THEN consec' = 0 /\ \A w \in Workers : mem'[w] = NewBreaker
                        ELSE Tracks(stored)'
      BY DEF StoredCounts
    <3>1. CASE stored = NoEntry
      <4>1. Aged(NewBreaker) = NewBreaker
        BY BreakerAssumption DEF Aged, Older, NewBreaker
      <4>2. consec = 0 /\ \A w \in Workers : mem[w] = NewBreaker
        BY <2>1, <3>1 DEF OneBreaker, StoredCounts
      <4>3. QED
        BY <2>1, <3>1, <4>1, <4>2
    <3>2. CASE stored # NoEntry
      <4>1. Tracks(stored)
        BY <2>1, <3>2 DEF OneBreaker, StoredCounts
      <4>2. QED
        BY <1>0, <2>1, <2>2, <3>2, <4>1 DEF Tracks
    <3>3. QED
      BY <3>1, <3>2
  <2>6. QED
    BY <2>3, <2>4, <2>5 DEF OneBreaker, CarriedCounts
<1>16. CASE SourceFlips \/ UNCHANGED vars
  <2>1. UNCHANGED <<mem, stored, pc, note, consec, quiet>>
    BY <1>16 DEF SourceFlips, vars
  <2>2. QED
    BY <2>1 DEF OneBreaker, OneAtATime, CarriedCounts, StoredCounts, Tracks, Busy
<1>17. /\ \A t \in Tasks : ~HydrateFails(t) /\ ~PersistFails(t) /\ ~Cancel(t)
       /\ \A w \in Workers : ~Crash(w)
       /\ ~Vanish
  BY <1>0 DEF HydrateFails, PersistFails, Cancel, Crash, Vanish
<1>18. QED
  BY <1>4, <1>5, <1>6, <1>7, <1>8, <1>9, <1>11, <1>12, <1>13, <1>14, <1>15, <1>16, <1>17
     DEF Next, Answer, Decide, Outcome, Persist

LEMMA SharedInit == Init => Contract!Init
BY DEF Init, Contract!Init

(***************************************************************************)
(* The call that a worker lets through is one that a single breaker would  *)
(* have let through.                                                       *)
(***************************************************************************)
LEMMA SharedStep ==
  ASSUME Serial, IInv, OneBreaker, [Next]_vars
  PROVE  [Contract!Next]_Contract!vars
<1>0. ~Fault
  BY SerialNoFault, IInvByCopy
<1>1. ASSUME NEW t \in Tasks, Admit(t) PROVE Contract!Call(t)
  <2> DEFINE b == mem[Home[t]]
  <2>1. b \in CircuitBreaker /\ Coherent(b) /\ Allows(b) /\ Tracks(b)
    BY <1>1, RedisAssumption
       DEF Admit, IInv, TypeOK, CopiesCoherent, OneBreaker, CarriedCounts
  <2>2. UNCHANGED <<consec, quiet>>
    BY <1>1 DEF Admit
  <2> HIDE DEF b
  <2>3. consec = FailureThreshold => quiet = Cooldown
    BY <2>1, <2>2, TracksAllowed
  <2>4. QED
    BY <1>1, <2>2, <2>3 DEF Admit, Goto, IInv, TypeOK, Contract!Call
<1>3. ASSUME NEW t \in Tasks, Succeed(t) PROVE Contract!Succeed(t)
  BY <1>3 DEF Succeed, Record, Goto, IInv, TypeOK, Contract!Succeed, Contract!Return
<1>4. ASSUME NEW t \in Tasks, Fail(t) PROVE Contract!Fail(t)
  BY <1>4 DEF Fail, Record, Goto, IInv, TypeOK, Contract!Fail, Contract!Return
<1>5. CASE Tick
  BY <1>5 DEF Tick, Older, Contract!Tick, Contract!Next
<1>6. ASSUME NEW t \in Tasks,
             \/ Start(t) \/ HydrateRead(t) \/ HydrateMiss(t) \/ Hydrate(t)
             \/ ServedFromCache(t) \/ Refuse(t) \/ PersistLands(t)
      PROVE  UNCHANGED Contract!vars
  BY <1>6 DEF Start, HydrateRead, HydrateMiss, Hydrate, ServedFromCache, Refuse,
              PersistLands, Idle, Goto, IInv, TypeOK, Contract!vars
<1>7. ASSUME NEW w \in Workers, Deploy(w) PROVE UNCHANGED Contract!vars
  BY <1>7 DEF Deploy, Restarted, Contract!vars
<1>8. CASE SourceFlips \/ UNCHANGED vars
  BY <1>8 DEF SourceFlips, vars, Contract!vars
<1>9. /\ \A t \in Tasks : ~HydrateFails(t) /\ ~PersistFails(t) /\ ~Cancel(t)
      /\ \A w \in Workers : ~Crash(w)
      /\ ~Vanish
  BY <1>0 DEF HydrateFails, PersistFails, Cancel, Crash, Vanish
<1>10. QED
  BY <1>1, <1>3, <1>4, <1>5, <1>6, <1>7, <1>8, <1>9
     DEF Next, Answer, Decide, Outcome, Persist, Contract!Next

(***************************************************************************)
(* Fetches that do not overlap find one breaker, whichever worker they run *)
(* in and however often workers are deployed (breaker_redis.py:3-9), as    *)
(* long as nothing fails.                                                  *)
(***************************************************************************)
THEOREM Implements == Serial => (Spec => SharedContract)
<1> SUFFICES ASSUME Serial PROVE Spec => SharedContract
  OBVIOUS
<1>1. IInv /\ OneBreaker /\ [Next]_vars => OneBreaker'
  BY NextOneBreaker
<1>2. Spec => []OneBreaker
  BY <1>1, InitOneBreaker, Inductive, PTL DEF Spec
<1>3. IInv /\ OneBreaker /\ [Next]_vars => [Contract!Next]_Contract!vars
  BY SharedStep
<1>4. QED
  BY <1>2, <1>3, SharedInit, Inductive, PTL DEF Spec, SharedContract, Contract!Spec
=============================================================================
