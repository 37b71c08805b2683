---------------------------- MODULE ChargingPoller ----------------------------
(***************************************************************************)
(* charging/poller.py and charging/store.py: every uvicorn worker runs     *)
(* eround_status_poller; a lock per interval, which nobody deletes, lets   *)
(* one of them pull the queue of eRound.  The queue forgets what it has    *)
(* handed out, so the full state is only in Redis:                         *)
(*                                                                         *)
(*   sleeping -> pulling -> storing -> snapshot -> sleeping                *)
(*           `-> sleeping (lock taken)  `-> sleeping (an exception)        *)
(*                                                                         *)
(* pulling   the lock is won, fetch_afir is on its way                     *)
(* storing   the drained points are in the worker's memory only            *)
(* snapshot  they are stored, or there are none; the snapshot for the live *)
(*           route is not                                                  *)
(*                                                                         *)
(* A status is represented by the number of changes the point has seen.    *)
(* A tick is half a minute or so; a sleep ends on time, and an iteration   *)
(* takes at most PollMax ticks (timeouts of HTTP client and Redis).        *)
(***************************************************************************)
EXTENDS Naturals

CONSTANTS
  Workers,      \* uvicorn processes
  Points,       \* charging points
  Interval,     \* ticks a poller sleeps (_INTERVAL_S)
  LockTTL,      \* ticks the lock lives, less than Interval
  SnapshotTTL,  \* ticks the snapshot lives (LATEST_TTL_S)
  PollMax,      \* bound: ticks an iteration lasts
  MaxChanges,   \* bound: changes of a point
  MaxFaults,    \* bound: failed and refused pulls, failed writes, crashes
  MaxLockFaults,\* bound: errors and evictions that concern the lock
  Nothing       \* no status

ASSUME PollerAssumption ==
  /\ Interval \in Nat \ {0} /\ LockTTL \in Nat /\ SnapshotTTL \in Nat
  /\ PollMax \in Nat /\ PollMax < LockTTL
  /\ MaxChanges \in Nat /\ MaxFaults \in Nat /\ MaxLockFaults \in Nat
  /\ Nothing \notin Nat

(* 295 s against 300 s (poller.py:31, 46), and 900 s (store.py:31) against *)
(* two intervals and two iterations.                                       *)
ASSUME GraceAssumption ==
  /\ LockTTL <= Interval
  /\ 2 * (Interval + PollMax) < SnapshotTTL

VARIABLES
  source,    \* environment: the status of each point
  queue,     \* external: points with a change that nobody has pulled
  store,     \* the status of each point in Redis, or Nothing
  snapshot,  \* ticks the snapshot in Redis still lives; 0: there is none
  lock,      \* ticks the lock still lives; 0: nobody holds it
  pc,        \* where each worker's poller is
  nap,       \* ticks until a sleeping poller wakes
  clock,     \* ticks the iteration of a poller has lasted
  hand,      \* points a poller has drained and not yet stored
  faults,    \* faults used up so far
  lockFaults,
  seen       \* history: there has been a snapshot

vars == <<source, queue, store, snapshot, lock, pc, nap, clock, hand,
          faults, lockFaults, seen>>

Status == 0 .. MaxChanges

Empty == [p \in Points |-> Nothing]

Polling(w) == pc[w] # "sleeping"

Fault == faults < MaxFaults /\ faults' = faults + 1
LockFault == lockFaults < MaxLockFaults /\ lockFaults' = lockFaults + 1

Goto(w, place) == pc' = [pc EXCEPT ![w] = place]

Drops(w) == hand' = [hand EXCEPT ![w] = Empty]

(* The iteration is over, by its end or by an exception. *)
Sleeps(w) ==
  /\ Goto(w, "sleeping")
  /\ nap' = [nap EXCEPT ![w] = Interval]
  /\ clock' = [clock EXCEPT ![w] = 0]
  /\ Drops(w)

Init ==
  /\ source = [p \in Points |-> 0]
  /\ queue \in SUBSET Points
  /\ store = Empty
  /\ snapshot = 0
  /\ lock = 0
  /\ pc = [w \in Workers |-> "sleeping"]
  /\ nap = [w \in Workers |-> 0]
  /\ clock = [w \in Workers |-> 0]
  /\ hand = [w \in Workers |-> Empty]
  /\ faults = 0 /\ lockFaults = 0
  /\ seen = FALSE

-----------------------------------------------------------------------------
(* The lock of the tick *)

Wakes(w) == pc[w] = "sleeping" /\ nap[w] = 0

(* Mutant: the lock is set without NX.                                     *)
TakeLock_NoNX(w) ==
  /\ Wakes(w)
  /\ lock' = LockTTL
  /\ Goto(w, "pulling")
  /\ UNCHANGED <<source, queue, store, snapshot, nap, clock, hand,
                 faults, lockFaults, seen>>

TakeLock(w) ==
  /\ Wakes(w) /\ lock = 0
  /\ lock' = LockTTL
  /\ Goto(w, "pulling")
  /\ UNCHANGED <<source, queue, store, snapshot, nap, clock, hand,
                 faults, lockFaults, seen>>

LockTaken(w) ==
  /\ Wakes(w) /\ lock > 0
  /\ Sleeps(w)
  /\ UNCHANGED <<source, queue, store, snapshot, lock, faults, lockFaults, seen>>

(* A Redis error at the lock: poll anyway. *)
LockFails(w) ==
  /\ Wakes(w)
  /\ LockFault
  /\ Goto(w, "pulling")
  /\ UNCHANGED <<source, queue, store, snapshot, lock, nap, clock, hand,
                 faults, seen>>

-----------------------------------------------------------------------------
(* fetch_afir *)

(* Mutant: an empty pull ends the iteration.                               *)
Pull_SkipsEmpty(w) ==
  /\ pc[w] = "pulling"
  /\ IF queue = {} THEN Sleeps(w)
     ELSE /\ Goto(w, "storing")
          /\ hand' = [hand EXCEPT ![w] =
                        [p \in Points |-> IF p \in queue THEN source[p] ELSE Nothing]]
          /\ UNCHANGED <<nap, clock>>
  /\ queue' = {}
  /\ UNCHANGED <<source, store, snapshot, lock, faults, lockFaults, seen>>

Pull(w) ==
  /\ pc[w] = "pulling"
  /\ Goto(w, IF queue = {} THEN "snapshot" ELSE "storing")
  /\ hand' = [hand EXCEPT ![w] =
                [p \in Points |-> IF p \in queue THEN source[p] ELSE Nothing]]
  /\ queue' = {}
  /\ UNCHANGED <<source, store, snapshot, lock, nap, clock, faults, lockFaults, seen>>

(* A body over the size cap or not JSON reads as no points: the iteration  *)
(* goes on without them, though the source has handed them out.            *)
PullRefused(w) ==
  /\ pc[w] = "pulling"
  /\ Fault
  /\ queue' \in {queue, {}}
  /\ Goto(w, "snapshot")
  /\ UNCHANGED <<source, store, snapshot, lock, nap, clock, hand, lockFaults, seen>>

(* It raises, before or after the source has emptied its queue. *)
PullFails(w) ==
  /\ pc[w] = "pulling"
  /\ Fault
  /\ queue' \in {queue, {}}
  /\ Sleeps(w)
  /\ UNCHANGED <<source, store, snapshot, lock, lockFaults, seen>>

-----------------------------------------------------------------------------
(* store_point_statuses: one transaction; store_latest_delta *)

Merged(w) == [p \in Points |-> IF hand[w][p] = Nothing THEN store[p] ELSE hand[w][p]]

(* Mutant: the points are set with NX.                                     *)
StorePoints_NX(w) ==
  /\ pc[w] = "storing"
  /\ store' = [p \in Points |-> IF store[p] = Nothing THEN hand[w][p] ELSE store[p]]
  /\ Drops(w)
  /\ Goto(w, "snapshot")
  /\ UNCHANGED <<source, queue, snapshot, lock, nap, clock, faults, lockFaults, seen>>

StorePoints(w) ==
  /\ pc[w] = "storing"
  /\ store' = Merged(w)
  /\ Drops(w)
  /\ Goto(w, "snapshot")
  /\ UNCHANGED <<source, queue, snapshot, lock, nap, clock, faults, lockFaults, seen>>

(* It raises, before or after Redis has executed the transaction. *)
StorePointsFails(w) ==
  /\ pc[w] = "storing"
  /\ Fault
  /\ store' \in {store, Merged(w)}
  /\ Sleeps(w)
  /\ UNCHANGED <<source, queue, snapshot, lock, lockFaults, seen>>

StoreLatest(w) ==
  /\ pc[w] = "snapshot"
  /\ snapshot' = SnapshotTTL
  /\ seen' = TRUE
  /\ Sleeps(w)
  /\ UNCHANGED <<source, queue, store, lock, faults, lockFaults>>

StoreLatestFails(w) ==
  /\ pc[w] = "snapshot"
  /\ Fault
  /\ Sleeps(w)
  /\ UNCHANGED <<source, queue, store, snapshot, lock, lockFaults, seen>>

-----------------------------------------------------------------------------
(* Environment and time *)

(* A worker dies or is shut down, at any await, and starts again. *)
Crash(w) ==
  /\ Fault
  /\ Goto(w, "sleeping")
  /\ nap' = [nap EXCEPT ![w] = 0]
  /\ clock' = [clock EXCEPT ![w] = 0]
  /\ Drops(w)
  /\ UNCHANGED <<source, queue, store, snapshot, lock, lockFaults, seen>>

(* Redis evicts the lock or restarts. *)
LockVanishes ==
  /\ lock > 0
  /\ LockFault
  /\ lock' = 0
  /\ UNCHANGED <<source, queue, store, snapshot, pc, nap, clock, hand, faults, seen>>

(* The status of a point expires (STATUS_TTL_S) or is evicted. *)
Vanish(p) ==
  /\ store[p] # Nothing
  /\ store' = [store EXCEPT ![p] = Nothing]
  /\ UNCHANGED <<source, queue, snapshot, lock, pc, nap, clock, hand,
                 faults, lockFaults, seen>>

Change(p) ==
  /\ source[p] < MaxChanges
  /\ source' = [source EXCEPT ![p] = @ + 1]
  /\ queue' = queue \cup {p}
  /\ UNCHANGED <<store, snapshot, lock, pc, nap, clock, hand,
                 faults, lockFaults, seen>>

Less(n) == IF n > 0 THEN n - 1 ELSE 0

(* Mutant: the lock is set without EX.                                     *)
Tick_LockStays ==
  /\ \A w \in Workers : IF Polling(w) THEN clock[w] < PollMax ELSE nap[w] > 0
  /\ lock' = lock
  /\ snapshot' = Less(snapshot)
  /\ nap' = [w \in Workers |-> Less(nap[w])]
  /\ clock' = [w \in Workers |-> IF Polling(w) THEN clock[w] + 1 ELSE 0]
  /\ UNCHANGED <<source, queue, store, pc, hand, faults, lockFaults, seen>>

Tick ==
  /\ \A w \in Workers : IF Polling(w) THEN clock[w] < PollMax ELSE nap[w] > 0
  /\ lock' = Less(lock)
  /\ snapshot' = Less(snapshot)
  /\ nap' = [w \in Workers |-> Less(nap[w])]
  /\ clock' = [w \in Workers |-> IF Polling(w) THEN clock[w] + 1 ELSE 0]
  /\ UNCHANGED <<source, queue, store, pc, hand, faults, lockFaults, seen>>

Lock(w) == TakeLock(w) \/ LockTaken(w) \/ LockFails(w)
Fetch(w) == Pull(w) \/ PullRefused(w) \/ PullFails(w)
Write(w) == \/ StorePoints(w) \/ StorePointsFails(w)
            \/ StoreLatest(w) \/ StoreLatestFails(w)

Next ==
  \/ \E w \in Workers : Lock(w) \/ Fetch(w) \/ Write(w) \/ Crash(w)
  \/ \E p \in Points : Vanish(p) \/ Change(p)
  \/ LockVanishes \/ Tick

Spec == Init /\ [][Next]_vars

(* Time passes, and a poller that can go on does. *)
FairSpec ==
  /\ Spec
  /\ WF_vars(Tick)
  /\ \A w \in Workers : WF_vars(Lock(w) \/ Fetch(w) \/ Write(w))

-----------------------------------------------------------------------------
TypeOK ==
  /\ source \in [Points -> Status]
  /\ queue \subseteq Points
  /\ store \in [Points -> Status \cup {Nothing}]
  /\ snapshot \in 0 .. SnapshotTTL
  /\ lock \in 0 .. LockTTL
  /\ pc \in [Workers -> {"sleeping", "pulling", "storing", "snapshot"}]
  /\ nap \in [Workers -> 0 .. Interval]
  /\ clock \in [Workers -> 0 .. PollMax]
  /\ hand \in [Workers -> [Points -> Status \cup {Nothing}]]
  /\ faults \in 0 .. MaxFaults
  /\ lockFaults \in 0 .. MaxLockFaults
  /\ seen \in BOOLEAN

(***************************************************************************)
(* Nothing drained is forgotten (poller.py:29-30, store.py:3-6).  A status *)
(* in Redis that is not the current one is about to be corrected, by a     *)
(* change still in the queue or in a worker, or it is forgotten.  That     *)
(* takes a failure in this very step: a refused body loses the changes in  *)
(* it, a failed write or a dead worker what was drained, until the points  *)
(* change again.  No other step does, also not after a failure, whoever    *)
(* overlaps, starts or expires, as long as the lock works.                 *)
(***************************************************************************)
Pending(p) == p \in queue \/ \E w \in Workers : hand[w][p] = source[p]

Forgotten(p) == store[p] \notin {Nothing, source[p]} /\ ~Pending(p)

OnlyFaultsForget ==
  [][lockFaults' = 0 /\ faults' = faults =>
       \A p \in Points : Forgotten(p)' => Forgotten(p)]_vars

(***************************************************************************)
(* A status is never replaced by an older one, whatever pulls and writes   *)
(* fail and whoever dies, because an iteration ends before its lock does;  *)
(* without the lock an older status can land last and stay until the point *)
(* changes again, unlike what poller.py:13-15 says of duplicate pulls.     *)
(***************************************************************************)
NeverOlder ==
  \A p \in Points :
    store[p] # Nothing /\ store'[p] # Nothing => store'[p] >= store[p]

NewestWins == [][lockFaults = 0 => NeverOlder]_vars

(***************************************************************************)
(* "3 poll ticks grace period" (store.py:29-31): one failed iteration, one *)
(* failed write or one dead worker does not let the snapshot expire.       *)
(***************************************************************************)
SnapshotStays == seen /\ faults <= 1 => snapshot > 0

(***************************************************************************)
(* No permanent leader, no permanent lock: whoever fails or dies, a change *)
(* of a point is pulled.                                                   *)
(***************************************************************************)
KeepsPulling == \A p \in Points : p \in queue ~> p \notin queue

-----------------------------------------------------------------------------
(***************************************************************************)
(* Why the safety properties hold, inductively: as long as the lock does   *)
(* not fail, whoever polls still has it, so nobody else polls ...          *)
(***************************************************************************)
Idles == \A w \in Workers :
  /\ pc[w] # "storing" => hand[w] = Empty
  /\ pc[w] = "sleeping" => clock[w] = 0

Solo == lockFaults = 0 =>
  /\ \A w \in Workers : Polling(w) => lock + clock[w] >= LockTTL
  /\ \A v, w \in Workers : Polling(v) /\ Polling(w) => v = w

(***************************************************************************)
(* ... and what it carries is newer than what is stored, and current       *)
(* unless the point waits in the queue again.                              *)
(***************************************************************************)
KnownToSource == \A p \in Points :
  /\ store[p] # Nothing => store[p] <= source[p]
  /\ \A w \in Workers : hand[w][p] # Nothing => hand[w][p] <= source[p]

HandNewer == lockFaults = 0 =>
  \A w \in Workers, p \in Points : hand[w][p] # Nothing =>
    /\ store[p] # Nothing => store[p] <= hand[w][p]
    /\ hand[w][p] = source[p] \/ p \in queue

(***************************************************************************)
(* Somebody writes the next snapshot less than k + PollMax ticks after the *)
(* last one: it polls already, or it wakes when the lock is free.          *)
(***************************************************************************)
Writes(w, k) ==
  \/ Polling(w) /\ snapshot + k + clock[w] >= SnapshotTTL
  \/ /\ pc[w] = "sleeping" /\ lock <= nap[w]
     /\ snapshot + k >= SnapshotTTL + nap[w]

(* It has just died, and may find a lock that still lives.                 *)
Restarts(w) ==
  /\ pc[w] = "sleeping" /\ nap[w] = 0
  /\ snapshot + Interval + PollMax >= SnapshotTTL

SnapshotComes == seen /\ faults <= 1 => \E w \in Workers :
  \/ Writes(w, Interval)
  \/ faults = 1 /\ (Writes(w, 2 * Interval + PollMax) \/ Restarts(w))

IInv == /\ TypeOK /\ Idles /\ Solo
        /\ KnownToSource /\ HandNewer /\ SnapshotComes
=============================================================================
