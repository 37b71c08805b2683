---------------------------- MODULE OutboundLimits ----------------------------
(***************************************************************************)
(* The limits on calls to one upstream source (resilience/client.py:82-133)*)
(* in several uvicorn workers.  Each worker has a semaphore of             *)
(* _SOURCE_MAX_CONCURRENCY and, behind it, the pace of                     *)
(* _SOURCE_MIN_INTERVAL_S, kept by a lock and the time of the last call.   *)
(*                                                                         *)
(* asyncio's semaphore and lock are first come, first served: a semaphore  *)
(* is the line of the tasks that asked for it, its first Limit members     *)
(* hold it; the lock of the pace is held by the first of its line.         *)
(***************************************************************************)
EXTENDS Naturals, Sequences, FiniteSets

CONSTANTS
  Workers,  \* uvicorn processes
  Tasks,    \* asyncio tasks
  Home,     \* the worker each task runs in
  Limit,    \* calls in flight at the same time
  Interval  \* ticks between the starts of two calls

ASSUME LimitsAssumption == /\ Home \in [Tasks -> Workers]
                           /\ Limit \in Nat \ {0}
                           /\ Interval \in Nat

VARIABLES
  pc,        \* idle, queued (semaphore), pacing (lock), sleeping, calling
  line,      \* per worker: tasks that asked for the semaphore
  paceLine,  \* per worker: tasks that asked for the lock of the pace
  rest,      \* per task: ticks left of its sleep
  since      \* per worker: ticks since its last call began, at most Interval

vars == <<pc, line, paceLine, rest, since>>

Places == {"idle", "queued", "pacing", "sleeping", "calling"}

Goto(t, place) == pc' = [pc EXCEPT ![t] = place]

Joins(t, lines) == [lines EXCEPT ![Home[t]] = Append(@, t)]

In(t, s) == \E i \in 1 .. Len(s) : s[i] = t
PlaceOf(t, s) == CHOOSE i \in 1 .. Len(s) : s[i] = t

Without(t, s) ==
  IF In(t, s)
  THEN [i \in 1 .. Len(s) - 1 |-> IF i < PlaceOf(t, s) THEN s[i] ELSE s[i + 1]]
  ELSE s

Leaves(t, lines) == [lines EXCEPT ![Home[t]] = Without(t, @)]

(* Mutant: one call too many.                                              *)
Holds_OneMore(t) ==
  \E i \in 1 .. Len(line[Home[t]]) : i <= Limit + 1 /\ line[Home[t]][i] = t

Holds(t) ==
  \E i \in 1 .. Len(line[Home[t]]) : i <= Limit /\ line[Home[t]][i] = t

Init ==
  /\ pc = [t \in Tasks |-> "idle"]
  /\ line = [w \in Workers |-> <<>>]
  /\ paceLine = [w \in Workers |-> <<>>]
  /\ rest = [t \in Tasks |-> 0]
  /\ since = [w \in Workers |-> Interval]

Enter(t) ==
  /\ pc[t] = "idle"
  /\ Goto(t, "queued")
  /\ line' = Joins(t, line)
  /\ UNCHANGED <<paceLine, rest, since>>

AcquireSemaphore(t) ==
  /\ pc[t] = "queued" /\ Holds(t)
  /\ Goto(t, "pacing")
  /\ paceLine' = Joins(t, paceLine)
  /\ UNCHANGED <<line, rest, since>>

(* Mutant: the pace has no lock.                                           *)
HasLock_None(t) == pc[t] = "pacing"

HasLock(t) == pc[t] = "pacing" /\ Head(paceLine[Home[t]]) = t

(* The stamp of the last call, the release of the lock and the start of    *)
(* fetch_fn follow each other without an await.                            *)
BeginCall(t) ==
  /\ Goto(t, "calling")
  /\ since' = [since EXCEPT ![Home[t]] = 0]
  /\ paceLine' = Leaves(t, paceLine)
  /\ UNCHANGED <<line, rest>>

PaceSleep(t) ==
  /\ HasLock(t) /\ since[Home[t]] < Interval
  /\ rest' = [rest EXCEPT ![t] = Interval - since[Home[t]]]
  /\ Goto(t, "sleeping")
  /\ UNCHANGED <<line, paceLine, since>>

PaceGo(t) == HasLock(t) /\ since[Home[t]] >= Interval /\ BeginCall(t)

PaceWake(t) == pc[t] = "sleeping" /\ rest[t] = 0 /\ BeginCall(t)

LeavesAll(t) ==
  /\ Goto(t, "idle")
  /\ line' = Leaves(t, line)
  /\ paceLine' = Leaves(t, paceLine)
  /\ rest' = [rest EXCEPT ![t] = 0]
  /\ UNCHANGED <<since>>

(* The upstream call returns or raises. *)
Return(t) == pc[t] = "calling" /\ LeavesAll(t)

(* Mutant: a cancelled task keeps its place in the semaphore.              *)
Cancel_KeepsPlace(t) ==
  /\ pc[t] \in {"queued", "pacing", "sleeping"}
  /\ Goto(t, "idle")
  /\ paceLine' = Leaves(t, paceLine)
  /\ rest' = [rest EXCEPT ![t] = 0]
  /\ UNCHANGED <<line, since>>

(* The task is cancelled in a queue or in its sleep: `async with' releases. *)
Cancel(t) == pc[t] \in {"queued", "pacing", "sleeping"} /\ LeavesAll(t)

Older(n) == IF n < Interval THEN n + 1 ELSE n

Tick ==
  /\ rest' = [t \in Tasks |-> IF rest[t] > 0 THEN rest[t] - 1 ELSE 0]
  /\ since' = [w \in Workers |-> Older(since[w])]
  /\ UNCHANGED <<pc, line, paceLine>>

Proceed(t) ==
  AcquireSemaphore(t) \/ PaceSleep(t) \/ PaceGo(t) \/ PaceWake(t) \/ Return(t)

Next == Tick \/ \E t \in Tasks : Enter(t) \/ Proceed(t) \/ Cancel(t)

Spec == Init /\ [][Next]_vars

(* Time passes, tasks that can run do, and upstream calls end. *)
FairSpec == Spec /\ WF_vars(Tick) /\ \A t \in Tasks : WF_vars(Proceed(t))

-----------------------------------------------------------------------------
Calling(w) == {t \in Tasks : Home[t] = w /\ pc[t] = "calling"}

(***************************************************************************)
(* At most Limit calls of a worker are in flight, tasks cancelled while    *)
(* they queue or sleep included.                                           *)
(***************************************************************************)
WithinLimit == \A w \in Workers : Cardinality(Calling(w)) <= Limit

(***************************************************************************)
(* Two calls of a worker begin at least Interval apart, although the time  *)
(* to wait is computed before the sleep and other tasks run during it.     *)
(***************************************************************************)
Begins(t) == pc[t] # "calling" /\ pc'[t] = "calling"

Paced == [][\A t \in Tasks : Begins(t) => since[Home[t]] = Interval]_vars

(***************************************************************************)
(* Nobody waits for ever: who asks for a call makes it or is cancelled.    *)
(***************************************************************************)
EveryoneServed ==
  \A t \in Tasks : pc[t] = "queued" ~> pc[t] \in {"calling", "idle"}

-----------------------------------------------------------------------------
TypeOK ==
  /\ pc \in [Tasks -> Places]
  /\ line \in [Workers -> Seq(Tasks)]
  /\ paceLine \in [Workers -> Seq(Tasks)]
  /\ rest \in [Tasks -> 0 .. Interval]
  /\ since \in [Workers -> 0 .. Interval]

(***************************************************************************)
(* Why the limits hold, inductively: the lines have exactly the tasks that *)
(* are somewhere in them, each once, ...                                   *)
(***************************************************************************)
Distinct(s) == \A i, j \in 1 .. Len(s) : s[i] = s[j] => i = j

Lined(lines, tasks) ==
  /\ \A w \in Workers : Distinct(lines[w])
  /\ \A w \in Workers, t \in Tasks :
       In(t, lines[w]) <=> Home[t] = w /\ t \in tasks

Busy == {t \in Tasks : pc[t] # "idle"}
Pacing == {t \in Tasks : pc[t] \in {"pacing", "sleeping"}}

(***************************************************************************)
(* ... who is past the semaphore still holds it, and whoever sleeps has    *)
(* the lock and sleeps long enough.                                        *)
(***************************************************************************)
Holding == \A t \in Tasks : pc[t] \in {"pacing", "sleeping", "calling"} => Holds(t)

LongEnough == \A t \in Tasks : pc[t] = "sleeping" =>
  /\ Head(paceLine[Home[t]]) = t
  /\ since[Home[t]] + rest[t] >= Interval

IInv == /\ TypeOK
        /\ Lined(line, Busy) /\ Lined(paceLine, Pacing)
        /\ Holding /\ LongEnough
===============================================================================
