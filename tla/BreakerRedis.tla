----------------------------- MODULE BreakerRedis -----------------------------
(***************************************************************************)
(* The breaker of one source mirrored in Redis (resilience/                *)
(* breaker_redis.py) and used by ResilientSourceClient.fetch in several    *)
(* uvicorn workers.  Each worker has its own CircuitBreaker; a fetch loads *)
(* the persisted state into it before it starts (hydrate) and writes it    *)
(* back after each outcome (persist).  Every await is a place where other  *)
(* tasks and workers run:                                                  *)
(*                                                                         *)
(*   idle -> hydrating -> replied -> ready -> calling -> persisting -> idle*)
(*                                                                         *)
(* hydrating  the GET is on its way to Redis                               *)
(* replied    Redis has answered; the task has not run again yet           *)
(* ready      hydrated; the cache is being read (cache_get_or_set)         *)
(* calling    allow_request said yes; the upstream call is in flight       *)
(* persisting the outcome is recorded, its payload is dumped, the SET is   *)
(*            on its way                                                   *)
(***************************************************************************)
EXTENDS Breaker, FiniteSets

CONSTANTS
  Workers,     \* the uvicorn processes (Dockerfile:64 starts four)
  Tasks,       \* asyncio tasks
  Home,        \* the worker each task runs in
  NoEntry,     \* Redis holds no state for the source
  MaxInFlight, \* bound: fetches in progress at the same time
  MaxFaults    \* bound: cancelled tasks, crashes, Redis errors, evictions

ASSUME RedisAssumption == /\ Home \in [Tasks -> Workers]
                          /\ NoEntry \notin CircuitBreaker
                          /\ MaxFaults \in Nat

VARIABLES
  mem,    \* the CircuitBreaker in each worker
  stored, \* the value under breaker:state:<source>, or NoEntry
  pc,     \* where each task is
  note,   \* the copy a task carries: the reply to its GET, or its payload
  up,     \* environment: the source answers
  faults, \* faults used up so far
  consec, \* history: failures recorded anywhere since the last success
  quiet   \* history: ticks since the last failure recorded anywhere

vars == <<mem, stored, pc, note, up, faults, consec, quiet>>

Places == {"idle", "hydrating", "replied", "ready", "calling", "persisting"}

Busy == {t \in Tasks : pc[t] # "idle"}

Goto(t, place) == pc' = [pc EXCEPT ![t] = place]

Idle(t) == Goto(t, "idle") /\ note' = [note EXCEPT ![t] = NewBreaker]

Fault == faults < MaxFaults /\ faults' = faults + 1

Init ==
  /\ mem = [w \in Workers |-> NewBreaker]
  /\ stored = NoEntry
  /\ pc = [t \in Tasks |-> "idle"]
  /\ note = [t \in Tasks |-> NewBreaker]
  /\ up \in BOOLEAN
  /\ faults = 0
  /\ consec = 0
  /\ quiet = Cooldown

-----------------------------------------------------------------------------
(* hydrate *)

(* Mutant: a fetch does not hydrate.                                       *)
Start_NoHydrate(t) ==
  /\ pc[t] = "idle"
  /\ Cardinality(Busy) < MaxInFlight
  /\ Goto(t, "ready")
  /\ UNCHANGED <<mem, stored, note, up, faults, consec, quiet>>

Start(t) ==
  /\ pc[t] = "idle"
  /\ Cardinality(Busy) < MaxInFlight
  /\ Goto(t, "hydrating")
  /\ UNCHANGED <<mem, stored, note, up, faults, consec, quiet>>

HydrateRead(t) ==
  /\ pc[t] = "hydrating"
  /\ stored # NoEntry
  /\ note' = [note EXCEPT ![t] = stored]
  /\ Goto(t, "replied")
  /\ UNCHANGED <<mem, stored, up, faults, consec, quiet>>

(* A missing entry leaves the breaker in memory as it is. *)
HydrateMiss(t) ==
  /\ pc[t] = "hydrating"
  /\ stored = NoEntry
  /\ Goto(t, "ready")
  /\ UNCHANGED <<mem, stored, note, up, faults, consec, quiet>>

(* So does a Redis error. *)
HydrateFails(t) ==
  /\ pc[t] = "hydrating"
  /\ Fault
  /\ Goto(t, "ready")
  /\ UNCHANGED <<mem, stored, note, up, consec, quiet>>

(* Mutant: opened_at is not loaded.                                        *)
Hydrate_KeepsOpenedAt(t) ==
  /\ pc[t] = "replied"
  /\ mem' = [mem EXCEPT ![Home[t]] = [note[t] EXCEPT !.age = mem[Home[t]].age]]
  /\ note' = [note EXCEPT ![t] = NewBreaker]
  /\ Goto(t, "ready")
  /\ UNCHANGED <<stored, up, faults, consec, quiet>>

(* Mutant: failure_count is not loaded.                                    *)
Hydrate_KeepsCount(t) ==
  /\ pc[t] = "replied"
  /\ mem' = [mem EXCEPT ![Home[t]] = [note[t] EXCEPT !.failures = mem[Home[t]].failures]]
  /\ note' = [note EXCEPT ![t] = NewBreaker]
  /\ Goto(t, "ready")
  /\ UNCHANGED <<stored, up, faults, consec, quiet>>

(* Mutant: opened_at comes from another monotonic clock.                   *)
Hydrate_OwnClock(t) ==
  /\ pc[t] = "replied"
  /\ mem' = [mem EXCEPT ![Home[t]] = [note[t] EXCEPT !.age = IF note[t].state = "OPEN" THEN 0 ELSE @]]
  /\ note' = [note EXCEPT ![t] = NewBreaker]
  /\ Goto(t, "ready")
  /\ UNCHANGED <<stored, up, faults, consec, quiet>>

(* The task runs again and overwrites all three fields of the breaker. *)
Hydrate(t) ==
  /\ pc[t] = "replied"
  /\ mem' = [mem EXCEPT ![Home[t]] = note[t]]
  /\ note' = [note EXCEPT ![t] = NewBreaker]
  /\ Goto(t, "ready")
  /\ UNCHANGED <<stored, up, faults, consec, quiet>>

-----------------------------------------------------------------------------
(* refresh() and persist *)

(* The cache answers (HIT, STALE, or an entry stored while waiting). *)
ServedFromCache(t) ==
  /\ pc[t] = "ready"
  /\ Idle(t)
  /\ UNCHANGED <<mem, stored, up, faults, consec, quiet>>

(* allow_request says no: BreakerOpen. *)
Refuse(t) ==
  /\ pc[t] = "ready"
  /\ ~Allows(mem[Home[t]])
  /\ Idle(t)
  /\ UNCHANGED <<mem, stored, up, faults, consec, quiet>>

Admit(t) ==
  /\ pc[t] = "ready"
  /\ Allows(mem[Home[t]])
  /\ mem' = [mem EXCEPT ![Home[t]] = Allowed(@)]
  /\ Goto(t, "calling")
  /\ UNCHANGED <<stored, note, up, faults, consec, quiet>>

(* record_* and the dump of the payload happen without an await between. *)
Record(t, b) ==
  /\ pc[t] = "calling"
  /\ mem' = [mem EXCEPT ![Home[t]] = b]
  /\ note' = [note EXCEPT ![t] = b]
  /\ Goto(t, "persisting")
  /\ UNCHANGED <<stored, up, faults>>

Succeed(t) ==
  /\ up
  /\ Record(t, Succeeded(mem[Home[t]]))
  /\ consec' = 0
  /\ UNCHANGED quiet

Fail(t) ==
  /\ ~up
  /\ Record(t, Failed(mem[Home[t]]))
  /\ consec' = IF consec < FailureThreshold THEN consec + 1 ELSE consec
  /\ quiet' = 0

PersistLands(t) ==
  /\ pc[t] = "persisting"
  /\ stored' = note[t]
  /\ Idle(t)
  /\ UNCHANGED <<mem, up, faults, consec, quiet>>

PersistFails(t) ==
  /\ pc[t] = "persisting"
  /\ Fault
  /\ Idle(t)
  /\ UNCHANGED <<mem, stored, up, consec, quiet>>

-----------------------------------------------------------------------------
(* Cancellation, deploys, crashes, Redis and time *)

(* city_overview gives up on a source after its budget (cities.py:802). *)
Cancel(t) ==
  /\ pc[t] # "idle"
  /\ Fault
  /\ Idle(t)
  /\ UNCHANGED <<mem, stored, up, consec, quiet>>

Restarted(w) ==
  /\ mem' = [mem EXCEPT ![w] = NewBreaker]
  /\ UNCHANGED <<stored, up, consec, quiet>>

(* A deploy: uvicorn lets the requests of the worker finish first. *)
Deploy(w) ==
  /\ \A t \in Busy : Home[t] # w
  /\ Restarted(w)
  /\ UNCHANGED <<pc, note, faults>>

Crash(w) ==
  /\ Fault
  /\ pc' = [t \in Tasks |-> IF Home[t] = w THEN "idle" ELSE pc[t]]
  /\ note' = [t \in Tasks |-> IF Home[t] = w THEN NewBreaker ELSE note[t]]
  /\ Restarted(w)

(***************************************************************************)
(* The entry goes: its _STATE_TTL of a day runs out, Redis evicts it       *)
(* (allkeys-lru, docker-compose.yml:51), or Redis itself restarts.         *)
(***************************************************************************)
Vanish ==
  /\ stored # NoEntry
  /\ Fault
  /\ stored' = NoEntry
  /\ UNCHANGED <<mem, pc, note, up, consec, quiet>>

(* Wall-clock time, so every copy ages, wherever it is (breaker_redis.py:11). *)
Tick ==
  /\ mem' = [w \in Workers |-> Aged(mem[w])]
  /\ stored' = IF stored = NoEntry THEN NoEntry ELSE Aged(stored)
  /\ note' = [t \in Tasks |-> Aged(note[t])]
  /\ quiet' = Older(quiet)
  /\ UNCHANGED <<pc, up, faults, consec>>

SourceFlips == up' = ~up /\ UNCHANGED <<mem, stored, pc, note, faults, consec, quiet>>

Answer(t) == HydrateRead(t) \/ HydrateMiss(t) \/ HydrateFails(t) \/ Hydrate(t)
Decide(t) == ServedFromCache(t) \/ Refuse(t) \/ Admit(t)
Outcome(t) == Succeed(t) \/ Fail(t)
Persist(t) == PersistLands(t) \/ PersistFails(t)

Next ==
  \/ \E t \in Tasks : \/ Start(t) \/ Answer(t) \/ Decide(t)
                      \/ Outcome(t) \/ Persist(t) \/ Cancel(t)
  \/ \E w \in Workers : Deploy(w) \/ Crash(w)
  \/ Vanish \/ Tick \/ SourceFlips

Spec == Init /\ [][Next]_vars

(***************************************************************************)
(* Time passes; requests for the source keep coming in to every task, and  *)
(* the cache does not answer all of them for ever (its entries expire); a  *)
(* task that can go on does, and Redis and the source answer or time out.  *)
(***************************************************************************)
FairSpec ==
  /\ Spec
  /\ WF_vars(Tick)
  /\ \A t \in Tasks : /\ SF_vars(Start(t))
                      /\ SF_vars(Admit(t))
                      /\ WF_vars(Answer(t))
                      /\ WF_vars(Decide(t))
                      /\ WF_vars(Outcome(t))
                      /\ WF_vars(Persist(t))

-----------------------------------------------------------------------------
TypeOK ==
  /\ mem \in [Workers -> CircuitBreaker]
  /\ stored \in CircuitBreaker \cup {NoEntry}
  /\ pc \in [Tasks -> Places]
  /\ note \in [Tasks -> CircuitBreaker]
  /\ up \in BOOLEAN
  /\ faults \in 0 .. MaxFaults
  /\ consec \in 0 .. FailureThreshold
  /\ quiet \in 0 .. Cooldown

Persistable(b) == Coherent(b) /\ b.state # "HALF_OPEN"

(***************************************************************************)
(* However replies, writes, crashes and lost copies interleave, no worker  *)
(* ever runs with a torn breaker (a CLOSED one with a full counter, an     *)
(* OPEN one without its count, a probing one whose cooldown still runs),   *)
(* and neither Redis nor a message holds one.                              *)
(***************************************************************************)
CopiesCoherent ==
  /\ \A w \in Workers : Coherent(mem[w])
  /\ stored # NoEntry => Persistable(stored)
  /\ \A t \in Tasks : Persistable(note[t])

(***************************************************************************)
(* No copy claims to have been opened after the last failure.              *)
(***************************************************************************)
OpenedNoLaterThanFailure ==
  /\ \A w \in Workers : mem[w].age >= quiet
  /\ stored # NoEntry => stored.age >= quiet
  /\ \A t \in Tasks : note[t].age >= quiet

IInv == TypeOK /\ CopiesCoherent /\ OpenedNoLaterThanFailure

(***************************************************************************)
(* No stale or lost copy keeps a recovering source locked out: once a      *)
(* cooldown has passed since the last failure anywhere, every worker lets  *)
(* calls through (cooldown, breaker.py:50; opened_at as wall-clock time,   *)
(* breaker_redis.py:11-15).                                                *)
(***************************************************************************)
RefusalsEnd ==
  quiet = Cooldown => \A w \in Workers : Allows(mem[w])

(***************************************************************************)
(* Once the source stays up and is asked for, every worker's breaker       *)
(* closes for good, whatever Redis lost or kept (breaker.py:147-149).      *)
(***************************************************************************)
HealsEverywhere ==
  <>[]up => <>[](\A w \in Workers : mem[w].state = "CLOSED")

(***************************************************************************)
(* When fetches do not overlap and nothing is lost, all workers together,  *)
(* through any number of deploys, are one breaker (breaker_redis.py:3-9):  *)
(* they keep the contract of a single one.                                 *)
(***************************************************************************)
Contract == INSTANCE BreakerContract
              WITH calling <- {t \in Tasks : pc[t] = "calling"}

SharedContract == Contract!Spec

(***************************************************************************)
(* Why, inductively.  Nothing overlaps and nothing fails, so there is one  *)
(* copy that counts: the one in Redis, in the reply or the payload of the  *)
(* task under way, or in the worker that task runs in.  It has counted the *)
(* failures in a row and was opened by the last one.                       *)
(***************************************************************************)
Serial == MaxInFlight = 1 /\ MaxFaults = 0

Tracks(b) == b.failures = consec /\ (b.state # "CLOSED" => b.age = quiet)

OneAtATime == \A s, t \in Busy : s = t

CarriedCounts == \A t \in Tasks :
  /\ pc[t] \in {"ready", "calling"} => Tracks(mem[Home[t]])
  /\ pc[t] \in {"replied", "persisting"} => Tracks(note[t])
  /\ pc[t] = "replied" => stored # NoEntry

StoredCounts == (\A t \in Tasks : pc[t] # "persisting") =>
  IF stored = NoEntry THEN consec = 0 /\ \A w \in Workers : mem[w] = NewBreaker
                      ELSE Tracks(stored)

OneBreaker == OneAtATime /\ CarriedCounts /\ StoredCounts
=============================================================================
