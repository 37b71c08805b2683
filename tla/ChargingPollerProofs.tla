------------------------- MODULE ChargingPollerProofs -------------------------
(***************************************************************************)
(* ChargingPoller, for any number of workers and points, all times with    *)
(* PollMax < LockTTL (and GraceAssumption, where the snapshot is meant),   *)
(* and any number of faults.                                               *)
(***************************************************************************)
EXTENDS ChargingPoller, TLAPS

(***************************************************************************)
(* Type correctness is inductive by itself.                                *)
(***************************************************************************)
LEMMA InitTypeOK == Init => TypeOK
<1> SUFFICES ASSUME Init PROVE TypeOK
  OBVIOUS
<1>1. 0 \in Status /\ 0 \in 0 .. Interval /\ 0 \in 0 .. PollMax
  BY PollerAssumption DEF Status
<1>2. Empty \in [Points -> Status \cup {Nothing}]
  BY DEF Empty
<1>3. source \in [Points -> Status] /\ queue \subseteq Points
  BY <1>1 DEF Init
<1>4. /\ store \in [Points -> Status \cup {Nothing}]
      /\ hand \in [Workers -> [Points -> Status \cup {Nothing}]]
  BY <1>2 DEF Init
<1>5. /\ snapshot \in 0 .. SnapshotTTL /\ lock \in 0 .. LockTTL
      /\ faults \in 0 .. MaxFaults /\ lockFaults \in 0 .. MaxLockFaults
  BY PollerAssumption DEF Init
<1>6. nap \in [Workers -> 0 .. Interval] /\ clock \in [Workers -> 0 .. PollMax]
  BY <1>1 DEF Init
<1>7. pc \in [Workers -> {"sleeping", "pulling", "storing", "snapshot"}]
  BY DEF Init
<1>8. seen \in BOOLEAN
  BY DEF Init
<1>9. QED
  BY <1>3, <1>4, <1>5, <1>6, <1>7, <1>8 DEF TypeOK

LEMMA MergedType ==
  ASSUME TypeOK, NEW w \in Workers
  PROVE  Merged(w) \in [Points -> Status \cup {Nothing}]
BY DEF TypeOK, Merged

LEMMA DrainedType ==
  ASSUME TypeOK
  PROVE  [p \in Points |-> IF p \in queue THEN source[p] ELSE Nothing]
           \in [Points -> Status \cup {Nothing}]
BY DEF TypeOK

LEMMA NextTypeOK == TypeOK /\ [Next]_vars => TypeOK'
<1> SUFFICES ASSUME TypeOK, [Next]_vars PROVE TypeOK'
  OBVIOUS
<1> USE PollerAssumption DEF TypeOK, Goto, Drops, Sleeps, Fault, LockFault, Empty
<1>1. ASSUME NEW w \in Workers, Lock(w) PROVE TypeOK'
  <2>1. CASE TakeLock(w)
    BY <2>1 DEF TakeLock
  <2>2. CASE LockTaken(w)
    BY <2>2 DEF LockTaken
  <2>3. CASE LockFails(w)
    BY <2>3 DEF LockFails
  <2>4. QED
    BY <1>1, <2>1, <2>2, <2>3 DEF Lock
<1>2. ASSUME NEW w \in Workers, Pull(w) PROVE TypeOK'
  BY <1>2, DrainedType DEF Pull
<1>3. ASSUME NEW w \in Workers, PullRefused(w) \/ PullFails(w) PROVE TypeOK'
  <2>1. CASE PullRefused(w)
    BY <2>1 DEF PullRefused
  <2>2. CASE PullFails(w)
    BY <2>2 DEF PullFails
  <2>3. QED
    BY <1>3, <2>1, <2>2
<1>4. ASSUME NEW w \in Workers, StorePoints(w) PROVE TypeOK'
  BY <1>4, MergedType DEF StorePoints
<1>5. ASSUME NEW w \in Workers, StorePointsFails(w) PROVE TypeOK'
  BY <1>5, MergedType DEF StorePointsFails
<1>6. ASSUME NEW w \in Workers, StoreLatest(w) PROVE TypeOK'
  BY <1>6 DEF StoreLatest
<1>7. ASSUME NEW w \in Workers, StoreLatestFails(w) PROVE TypeOK'
  BY <1>7 DEF StoreLatestFails
<1>8. ASSUME NEW w \in Workers, Crash(w) PROVE TypeOK'
  BY <1>8 DEF Crash
<1>9. ASSUME NEW p \in Points, Vanish(p) PROVE TypeOK'
  BY <1>9 DEF Vanish
<1>10. ASSUME NEW p \in Points, Change(p) PROVE TypeOK'
  BY <1>10 DEF Change, Status
<1>11. CASE LockVanishes
  BY <1>11 DEF LockVanishes
<1>12. CASE Tick
  <2>1. /\ lock' \in 0 .. LockTTL /\ snapshot' \in 0 .. SnapshotTTL
        /\ nap' \in [Workers -> 0 .. Interval]
    BY <1>12 DEF Tick, Less
  <2>2. clock' \in [Workers -> 0 .. PollMax]
    BY <1>12 DEF Tick, Polling
  <2>3. QED
    BY <1>12, <2>1, <2>2 DEF Tick
<1>13. CASE UNCHANGED vars
  BY <1>13 DEF vars
<1>14. QED
  BY <1>1, <1>2, <1>3, <1>4, <1>5, <1>6, <1>7, <1>8, <1>9, <1>10, <1>11,
     <1>12, <1>13 DEF Next, Fetch, Write

(***************************************************************************)
(* The lock: while it does not fail, at most one worker polls.             *)
(***************************************************************************)
Locked == TypeOK /\ Idles /\ Solo

(***************************************************************************)
(* Whoever still has time to poll holds a lock that has not run out.       *)
(***************************************************************************)
LEMMA LockHeld ==
  ASSUME Locked, lockFaults = 0, NEW w \in Workers, Polling(w)
  PROVE  lock > 0
BY PollerAssumption DEF Locked, TypeOK, Solo

LEMMA NextLocked == Locked /\ [Next]_vars => Locked'
<1> SUFFICES ASSUME Locked, [Next]_vars PROVE Idles' /\ Solo'
  BY NextTypeOK DEF Locked
<1>0. \A w \in Workers : Polling(w) /\ lockFaults = 0 => lock > 0
  BY LockHeld
<1> USE PollerAssumption DEF Locked, TypeOK, Idles, Solo, Polling, Goto, Drops, Sleeps
<1>1. ASSUME NEW w \in Workers, TakeLock(w) PROVE Idles' /\ Solo'
  BY <1>0, <1>1 DEF TakeLock, Wakes
<1>2. ASSUME NEW w \in Workers, LockTaken(w) PROVE Idles' /\ Solo'
  BY <1>2 DEF LockTaken, Wakes
<1>3. ASSUME NEW w \in Workers, LockFails(w) PROVE Idles' /\ Solo'
  BY <1>3 DEF LockFails, Wakes, LockFault
<1>4. ASSUME NEW w \in Workers, Pull(w) PROVE Idles' /\ Solo'
  <2>1. CASE queue = {}
    <3>1. hand'[w] = Empty
      BY <1>4, <2>1 DEF Pull, Empty
    <3>2. QED
      BY <1>4, <2>1, <3>1 DEF Pull
  <2>2. CASE queue # {}
    BY <1>4, <2>2 DEF Pull
  <2>3. QED
    BY <2>1, <2>2
<1>5. ASSUME NEW w \in Workers, PullRefused(w) \/ PullFails(w) PROVE Idles' /\ Solo'
  BY <1>5 DEF PullRefused, PullFails
<1>6. ASSUME NEW w \in Workers, StorePoints(w) PROVE Idles' /\ Solo'
  BY <1>6 DEF StorePoints
<1>7. ASSUME NEW w \in Workers, StorePointsFails(w) PROVE Idles' /\ Solo'
  BY <1>7 DEF StorePointsFails
<1>8. ASSUME NEW w \in Workers, StoreLatest(w) PROVE Idles' /\ Solo'
  BY <1>8 DEF StoreLatest
<1>9. ASSUME NEW w \in Workers, StoreLatestFails(w) PROVE Idles' /\ Solo'
  BY <1>9 DEF StoreLatestFails
<1>10. ASSUME NEW w \in Workers, Crash(w) PROVE Idles' /\ Solo'
  BY <1>10 DEF Crash
<1>11. ASSUME NEW p \in Points, Vanish(p) \/ Change(p) PROVE Idles' /\ Solo'
  BY <1>11 DEF Vanish, Change
<1>12. CASE LockVanishes
  BY <1>12 DEF LockVanishes, LockFault
<1>13. CASE Tick
  <2>1. \A w \in Workers : Polling(w) /\ lockFaults = 0 =>
          lock' + clock'[w] = lock + clock[w]
    BY <1>0, <1>13 DEF Tick, Less
  <2>2. Solo'
    BY <1>13, <2>1 DEF Tick
  <2>3. Idles'
    BY <1>13 DEF Tick
  <2>4. QED
    BY <2>2, <2>3
<1>14. CASE UNCHANGED vars
  BY <1>14 DEF vars
<1>15. QED
  BY <1>1, <1>2, <1>3, <1>4, <1>5, <1>6, <1>7, <1>8, <1>9, <1>10, <1>11,
     <1>12, <1>13, <1>14 DEF Next, Lock, Fetch, Write

(***************************************************************************)
(* The statuses: what is stored, what is carried, and what is current.     *)
(***************************************************************************)
Data == KnownToSource /\ HandNewer

LEMMA InitIInv == Init => IInv
<1> SUFFICES ASSUME Init PROVE IInv
  OBVIOUS
<1>1. TypeOK
  BY InitTypeOK
<1>2. Idles /\ Solo
  BY DEF Init, Idles, Solo, Polling
<1>3. Data
  BY PollerAssumption
     DEF Init, Data, KnownToSource, HandNewer, Empty
<1>4. SnapshotComes
  BY DEF Init, SnapshotComes
<1>5. QED
  BY <1>1, <1>2, <1>3, <1>4 DEF IInv, Data

(***************************************************************************)
(* A step that leaves the statuses and what is carried alone.              *)
(***************************************************************************)
LEMMA DataUntouched ==
  ASSUME TypeOK, TypeOK', Data, UNCHANGED <<source, queue, store, hand>>,
         lockFaults' >= lockFaults
  PROVE  Data'
BY DEF Data, KnownToSource, HandNewer, TypeOK

(***************************************************************************)
(* A failure: a worker drops what it carries, stored or not, and the queue *)
(* may have been emptied.                                                  *)
(***************************************************************************)
LEMMA DataDropped ==
  ASSUME TypeOK, Locked, Data, NEW w \in Workers, Fault, Drops(w),
         UNCHANGED <<source, lockFaults>>,
         \/ UNCHANGED store /\ queue' = queue
         \/ UNCHANGED store /\ pc[w] = "pulling" /\ queue' = {}
         \/ store' = Merged(w) /\ pc[w] = "storing" /\ queue' = queue
  PROVE  Data'
<1> USE PollerAssumption DEF TypeOK, Fault
<1>1. KnownToSource'
  BY DEF Data, KnownToSource, Drops, Empty, Merged
<1>2. ASSUME lockFaults = 0, NEW v \in Workers, NEW p \in Points,
             hand'[v][p] # Nothing
      PROVE  /\ v # w /\ hand[v][p] = hand'[v][p]
             /\ pc[w] = "sleeping"
  BY <1>2 DEF Drops, Empty, Locked, Idles, Solo, Polling
<1>3. HandNewer'
  BY <1>2 DEF HandNewer, Data
<1>4. QED
  BY <1>1, <1>3 DEF Data

(***************************************************************************)
(* A worker that carries nothing drops nothing.                            *)
(***************************************************************************)
LEMMA DropsNothing ==
  ASSUME TypeOK, NEW w \in Workers, hand[w] = Empty, Drops(w)
  PROVE  hand' = hand
BY DEF TypeOK, Drops

LEMMA DataPulled ==
  ASSUME TypeOK, Locked, Data, NEW w \in Workers, Pull(w)
  PROVE  Data'
<1> USE PollerAssumption DEF TypeOK, Pull
<1>1. /\ hand[w] = Empty
      /\ \A p \in Points : hand'[w][p] = IF p \in queue THEN source[p] ELSE Nothing
      /\ \A v \in Workers : v # w => hand'[v] = hand[v]
  BY DEF Locked, Idles
<1>2. KnownToSource'
  BY <1>1 DEF Data, KnownToSource, Status
<1>3. lockFaults = 0 => \A v \in Workers : v # w => hand[v] = Empty
  BY DEF Locked, Idles, Solo, Polling
<1>4. ASSUME lockFaults = 0, NEW v \in Workers, NEW p \in Points,
             hand'[v][p] # Nothing
      PROVE  v = w /\ p \in queue /\ hand'[v][p] = source[p]
  BY <1>1, <1>3, <1>4 DEF Empty
<1>5. HandNewer'
  BY <1>4 DEF HandNewer, Data, KnownToSource
<1>6. QED
  BY <1>2, <1>5 DEF Data

LEMMA DataStored ==
  ASSUME TypeOK, Locked, Data, NEW w \in Workers, StorePoints(w)
  PROVE  Data'
<1> USE PollerAssumption DEF TypeOK, StorePoints
<1>1. /\ \A p \in Points :
           store'[p] = IF hand[w][p] = Nothing THEN store[p] ELSE hand[w][p]
      /\ hand'[w] = Empty
      /\ \A v \in Workers : v # w => hand'[v] = hand[v]
  BY DEF Drops, Merged
<1>2. KnownToSource'
  <2>1. \A p \in Points : store'[p] # Nothing => store'[p] <= source[p]
    BY <1>1 DEF Data, KnownToSource
  <2>2. \A v \in Workers, p \in Points : hand'[v][p] \in {Nothing, hand[v][p]}
    BY <1>1 DEF Empty
  <2>3. \A v \in Workers, p \in Points :
          hand'[v][p] # Nothing => hand'[v][p] <= source[p]
    BY <2>2 DEF Data, KnownToSource
  <2>4. QED
    BY <2>1, <2>3 DEF KnownToSource
<1>3. lockFaults = 0 => \A v \in Workers : hand'[v] = Empty
  BY <1>1 DEF Locked, Idles, Solo, Polling
<1>4. HandNewer'
  BY <1>3 DEF HandNewer, Empty
<1>5. QED
  BY <1>2, <1>4 DEF Data

LEMMA NextData == IInv /\ [Next]_vars => Data'
<1> SUFFICES ASSUME TypeOK, TypeOK', Locked, Data, [Next]_vars PROVE Data'
  BY NextTypeOK DEF IInv, Locked, Data
<1>1. ASSUME NEW w \in Workers, Lock(w) PROVE Data'
  <2>1. UNCHANGED <<source, queue, store, hand>>
    BY <1>1, DropsNothing
       DEF Lock, TakeLock, LockTaken, LockFails, Wakes, Sleeps, Locked, Idles
  <2>2. lockFaults' >= lockFaults
    BY <1>1 DEF Lock, TakeLock, LockTaken, LockFails, LockFault, TypeOK
  <2>3. QED
    BY <2>1, <2>2, DataUntouched
<1>2. ASSUME NEW w \in Workers, PullRefused(w) \/ PullFails(w) PROVE Data'
  <2>1. CASE PullRefused(w)
    <3>1. hand[w] = Empty
      BY <2>1 DEF PullRefused, Locked, Idles
    <3>2. Drops(w)
      BY <2>1, <3>1 DEF PullRefused, Drops, TypeOK
    <3>3. QED
      BY <2>1, <3>2, DataDropped DEF PullRefused
  <2>2. CASE PullFails(w)
    BY <2>2, DataDropped DEF PullFails, Sleeps
  <2>3. QED
    BY <1>2, <2>1, <2>2
<1>3. ASSUME NEW w \in Workers, StorePointsFails(w) PROVE Data'
  BY <1>3, DataDropped DEF StorePointsFails, Sleeps
<1>4. ASSUME NEW w \in Workers, StoreLatest(w) PROVE Data'
  <2>1. UNCHANGED <<source, queue, store, hand>>
    BY <1>4, DropsNothing DEF StoreLatest, Sleeps, Locked, Idles
  <2>2. lockFaults' >= lockFaults
    BY <1>4 DEF StoreLatest, TypeOK
  <2>3. QED
    BY <2>1, <2>2, DataUntouched
<1>5. ASSUME NEW w \in Workers, StoreLatestFails(w) PROVE Data'
  BY <1>5, DataDropped DEF StoreLatestFails, Sleeps
<1>6. ASSUME NEW w \in Workers, Crash(w) PROVE Data'
  BY <1>6, DataDropped DEF Crash
<1>7. ASSUME NEW p \in Points, Vanish(p) PROVE Data'
  BY <1>7 DEF Vanish, TypeOK, Data, KnownToSource, HandNewer
<1>8. ASSUME NEW p \in Points, Change(p) PROVE Data'
  <2> USE <1>8 DEF Change, TypeOK, Status
  <2>1. KnownToSource'
    BY PollerAssumption DEF Data, KnownToSource
  <2>2. HandNewer'
    BY DEF Data, HandNewer
  <2>3. QED
    BY <2>1, <2>2 DEF Data
<1>9. CASE LockVanishes \/ Tick \/ UNCHANGED vars
  <2>1. UNCHANGED <<source, queue, store, hand>> /\ lockFaults' >= lockFaults
    BY <1>9 DEF LockVanishes, Tick, vars, LockFault, TypeOK
  <2>2. QED
    BY <2>1, DataUntouched
<1>10. QED
  BY <1>1, <1>2, <1>3, <1>4, <1>5, <1>6, <1>7, <1>8, <1>9,
     DataPulled, DataStored DEF Next, Fetch, Write

(***************************************************************************)
(* The snapshot: somebody comes in time to write the next one.             *)
(***************************************************************************)
Grace == 2 * Interval + PollMax

Comes(w) ==
  \/ Writes(w, Interval)
  \/ faults = 1 /\ (Writes(w, Grace) \/ Restarts(w))

LEMMA ComesDef == SnapshotComes <=> (seen /\ faults <= 1 => \E w \in Workers : Comes(w))
BY DEF SnapshotComes, Comes, Grace

(***************************************************************************)
(* Who comes still comes after a step that leaves it, the snapshot and the *)
(* faults alone and does not set the lock.                                 *)
(***************************************************************************)
LEMMA StillComes ==
  ASSUME TypeOK, lock' \in Nat, lock' <= lock, NEW w \in Workers, Comes(w),
         pc'[w] = pc[w], nap'[w] = nap[w], clock'[w] = clock[w],
         snapshot' = snapshot, faults' \in Nat, faults <= faults', faults' <= 1
  PROVE  Comes(w)'
<1> USE PollerAssumption DEF TypeOK
<1>1. ASSUME NEW k, Writes(w, k) PROVE Writes(w, k)'
  BY <1>1 DEF Writes, Polling
<1>2. Restarts(w) => Restarts(w)'
  BY DEF Restarts
<1>3. faults = 1 => faults' = 1
  OBVIOUS
<1>4. QED
  BY <1>1, <1>2, <1>3 DEF Comes

LEMMA NextSnapshot == IInv /\ [Next]_vars => SnapshotComes'
<1> SUFFICES ASSUME TypeOK, TypeOK', Idles, [Next]_vars, SnapshotComes,
                    seen', faults' <= 1
             PROVE  \E w \in Workers : Comes(w)'
  BY NextTypeOK, ComesDef DEF IInv, SnapshotComes, Comes, Grace
<1>0. /\ faults \in Nat /\ faults' \in Nat /\ faults <= faults'
      /\ lock \in Nat /\ lock' \in Nat
  <2>1. faults' \in {faults, faults + 1}
    BY DEF Next, Lock, TakeLock, LockTaken, LockFails, Fetch, Pull, PullRefused, PullFails,
           Write, StorePoints, StorePointsFails, StoreLatest, StoreLatestFails,
           Crash, Vanish, Change, LockVanishes, Tick, Fault, vars
  <2>2. QED
    BY <2>1, PollerAssumption DEF TypeOK
<1>1. ASSUME NEW w \in Workers, StoreLatest(w) PROVE Comes(w)'
  BY <1>1, PollerAssumption, GraceAssumption
     DEF StoreLatest, Sleeps, Goto, Comes, Writes, TypeOK
<1>2. ASSUME ~\E w \in Workers : StoreLatest(w)
      PROVE  \E w \in Workers : Comes(w)'
  <2>1. seen' = seen
    BY <1>2 DEF Next, Lock, TakeLock, LockTaken, LockFails, Fetch, Pull,
       PullRefused, PullFails, Write, StorePoints, StorePointsFails, StoreLatestFails,
       Crash, Vanish, Change, LockVanishes, Tick, vars
  <2>2. PICK c \in Workers : Comes(c)
    BY <1>0, <2>1, ComesDef
  <2> USE PollerAssumption, GraceAssumption
  <2>3. ASSUME pc'[c] = pc[c], nap'[c] = nap[c], clock'[c] = clock[c],
               lock' <= lock, snapshot' = snapshot
        PROVE  Comes(c)'
    BY <1>0, <2>2, <2>3, StillComes
  <2>4. CASE TakeLock(c)
    BY <1>0, <2>2, <2>4 DEF TakeLock, Wakes, Goto, Comes, Writes, Restarts,
       Polling, Grace, TypeOK, Idles
  <2>5. CASE LockTaken(c)
    BY <1>0, <2>2, <2>5 DEF LockTaken, Wakes, Sleeps, Goto, Comes, Writes, Restarts,
       Polling, Grace, TypeOK
  <2>6. CASE LockFails(c)
    BY <1>0, <2>2, <2>6 DEF LockFails, Wakes, Goto, Comes, Writes, Restarts,
       Polling, Grace, TypeOK, Idles
  <2>7. CASE Pull(c) \/ StorePoints(c)
    BY <1>0, <2>2, <2>7 DEF Pull, StorePoints, Goto, Comes, Writes, Restarts,
       Polling, TypeOK
  <2>7a. ASSUME PullRefused(c)
         PROVE  Comes(c)'
    <3>1. /\ Polling(c) /\ Polling(c)'
          /\ snapshot' = snapshot /\ clock' = clock /\ faults' = faults + 1
      BY <2>7a DEF PullRefused, Polling, Goto, Fault, TypeOK
    <3>2. Writes(c, Interval)
      BY <1>0, <2>2, <3>1 DEF Comes
    <3>3. Writes(c, Interval)'
      BY <3>1, <3>2 DEF Writes, Polling
    <3>4. QED
      BY <1>0, <3>1, <3>3 DEF Comes
  <2>8. ASSUME Polling(c), Fault, Sleeps(c), UNCHANGED <<snapshot, lock>>
        PROVE  Comes(c)'
    BY <1>0, <2>2, <2>8 DEF Fault, Sleeps, Goto, Comes, Writes, Restarts,
       Polling, Grace, TypeOK
  <2>9. CASE Crash(c)
    BY <1>0, <2>2, <2>9 DEF Crash, Fault, Goto, Comes, Writes, Restarts,
       Polling, TypeOK
  <2>10. ASSUME NEW w \in Workers, w # c, TakeLock(w)
         PROVE  \E v \in Workers : Comes(v)'
    <3> USE <1>0, <2>10 DEF TakeLock, Wakes, Goto, TypeOK, Idles
    <3>1. /\ pc'[c] = pc[c] /\ nap'[c] = nap[c] /\ clock'[c] = clock[c]
          /\ snapshot' = snapshot /\ faults' = faults
          /\ pc'[w] = "pulling" /\ clock'[w] = 0
      OBVIOUS
    <3>2. Restarts(c) => Restarts(c)'
      BY <3>1 DEF Restarts
    <3>3. ASSUME NEW k \in Nat, Writes(c, k)
          PROVE  Writes(c, k)' \/ Writes(w, k)'
      <4>1. CASE Polling(c)
        BY <3>1, <3>3, <4>1 DEF Writes, Polling
      <4>2. CASE ~Polling(c)
        <5>1. snapshot + k >= SnapshotTTL
          BY <3>3, <4>2 DEF Writes, Polling
        <5>2. QED
          BY <3>1, <5>1 DEF Writes, Polling
      <4>3. QED
        BY <4>1, <4>2
    <3>4. Interval \in Nat /\ Grace \in Nat
      BY DEF Grace
    <3>5. QED
      BY <2>2, <3>1, <3>2, <3>3, <3>4 DEF Comes
  <2>11. ASSUME NEW w \in Workers, w # c,
                \/ LockTaken(w) \/ LockFails(w) \/ Fetch(w) \/ Crash(w)
                \/ StorePoints(w) \/ StorePointsFails(w) \/ StoreLatestFails(w)
         PROVE  Comes(c)'
    <3> USE <2>11 DEF Goto, TypeOK
    <3>1. pc'[c] = pc[c] /\ nap'[c] = nap[c] /\ clock'[c] = clock[c]
      BY DEF LockTaken, LockFails, Fetch, Pull, PullRefused, PullFails, Crash, StorePoints,
             StorePointsFails, StoreLatestFails, Sleeps
    <3>2. UNCHANGED <<lock, snapshot>>
      BY DEF LockTaken, LockFails, Fetch, Pull, PullRefused, PullFails, Crash, StorePoints,
             StorePointsFails, StoreLatestFails
    <3>3. QED
      BY <1>0, <2>3, <3>1, <3>2
  <2>12. CASE Tick
    <3> USE <1>0, <2>12 DEF Tick
    <3>1. pc'[c] = pc[c] /\ faults' = faults /\ ~Restarts(c)
      BY DEF Restarts, Polling
    <3>2. ASSUME NEW k \in Nat, k <= Grace, Writes(c, k)
          PROVE  Writes(c, k)'
      <4>1. CASE Polling(c)
        BY <3>2, <4>1 DEF Writes, Polling, Grace, Less, TypeOK
      <4>2. CASE ~Polling(c)
        BY <3>2, <4>2 DEF Writes, Polling, Grace, Less, TypeOK
      <4>3. QED
        BY <4>1, <4>2
    <3>3. Interval \in Nat /\ Grace \in Nat /\ Interval <= Grace
      BY DEF Grace
    <3>4. QED
      BY <2>2, <3>1, <3>2, <3>3 DEF Comes
  <2>13. CASE LockVanishes \/ UNCHANGED vars \/ \E p \in Points : Vanish(p) \/ Change(p)
    <3>1. UNCHANGED <<pc, nap, clock, snapshot>> /\ lock' \in {lock, 0}
      BY <2>13 DEF LockVanishes, vars, Vanish, Change
    <3>2. lock' <= lock
      BY <1>0, <3>1
    <3>3. QED
      BY <2>2, <2>3, <3>1, <3>2
  <2>14. ASSUME NEW w \in Workers, Lock(w) \/ Fetch(w) \/ Write(w) \/ Crash(w)
         PROVE  \E v \in Workers : Comes(v)'
    <3>1. CASE w = c
      BY <1>2, <2>4, <2>5, <2>6, <2>7, <2>7a, <2>8, <2>9, <2>14, <3>1
         DEF Lock, Fetch, Write, PullFails, StorePointsFails, StoreLatestFails, Polling
    <3>2. CASE w # c
      BY <1>2, <2>10, <2>11, <2>14, <3>2 DEF Lock, Write
    <3>3. QED
      BY <3>1, <3>2
  <2>15. QED
    BY <2>12, <2>13, <2>14 DEF Next
<1>3. QED
  BY <1>1, <1>2

(***************************************************************************)
(* The inductive invariant holds in every state.                           *)
(***************************************************************************)
THEOREM Inductive == Spec => []IInv
<1>1. IInv /\ [Next]_vars => IInv'
  BY NextLocked, NextData, NextSnapshot DEF IInv, Locked, Data
<1>2. QED
  BY InitIInv, <1>1, PTL DEF Spec

(***************************************************************************)
(* Pollers, lock and what Redis holds are well typed.                      *)
(***************************************************************************)
THEOREM Typing == Spec => []TypeOK
<1>1. IInv => TypeOK
  BY DEF IInv
<1>2. QED
  BY <1>1, Inductive, PTL

(***************************************************************************)
(* While the lock works, only a step that fails forgets what was drained   *)
(* from the queue (charging/poller.py:51-62): what the worker stores is    *)
(* current, or the point waits in the queue again.                         *)
(***************************************************************************)
THEOREM NothingForgotten == Spec => OnlyFaultsForget
<1>1. ASSUME IInv, [Next]_vars
      PROVE  [lockFaults' = 0 /\ faults' = faults =>
                \A p \in Points : Forgotten(p)' => Forgotten(p)]_vars
  <2> SUFFICES ASSUME Next, lockFaults' = 0, faults' = faults, NEW p \in Points,
                      Forgotten(p)'
               PROVE  Forgotten(p)
    BY <1>1
  <2>0. TypeOK /\ Idles /\ Solo /\ HandNewer
    BY <1>1 DEF IInv
  <2>1. ASSUME UNCHANGED <<source, queue, hand>>,
               store'[p] # Nothing => store'[p] = store[p]
        PROVE  Forgotten(p)
    BY <2>1 DEF Forgotten, Pending
  <2>2. ASSUME NEW w \in Workers, TakeLock(w) \/ LockTaken(w) \/ StoreLatest(w)
        PROVE  Forgotten(p)
    <3>1. UNCHANGED <<source, queue, store, hand>>
      BY <2>0, <2>2, DropsNothing
         DEF TakeLock, LockTaken, StoreLatest, Wakes, Sleeps, Idles
    <3>2. QED
      BY <2>1, <3>1
  <2>3. ASSUME NEW w \in Workers, Pull(w) PROVE Forgotten(p)
    <3>1. /\ hand[w][p] = Nothing
          /\ p \in queue => hand'[w][p] = source[p]
          /\ \A v \in Workers : v # w => hand'[v] = hand[v]
      BY <2>0, <2>3 DEF Pull, Idles, Empty, TypeOK
    <3>2. Nothing # source[p] /\ UNCHANGED <<source, store>>
      BY <2>0, <2>3, PollerAssumption DEF Pull, TypeOK, Status
    <3>3. QED
      BY <3>1, <3>2 DEF Forgotten, Pending
  <2>4. ASSUME NEW w \in Workers, StorePoints(w) PROVE Forgotten(p)
    <3>1. /\ store'[p] = IF hand[w][p] = Nothing THEN store[p] ELSE hand[w][p]
          /\ UNCHANGED <<source, queue, lockFaults>>
          /\ \A v \in Workers : v # w => hand'[v] = hand[v]
      BY <2>0, <2>4 DEF StorePoints, Merged, Drops, TypeOK
    <3>2. hand[w][p] = Nothing
      BY <2>0, <3>1 DEF Forgotten, Pending, HandNewer
    <3>3. Nothing # source[p]
      BY <2>0, PollerAssumption DEF TypeOK, Status
    <3>4. QED
      BY <3>1, <3>2, <3>3 DEF Forgotten, Pending
  <2>5. ASSUME NEW q \in Points, Vanish(q) PROVE Forgotten(p)
    BY <2>0, <2>1, <2>5 DEF Vanish, TypeOK
  <2>6. ASSUME NEW q \in Points, Change(q) PROVE Forgotten(p)
    BY <2>0, <2>6 DEF Change, TypeOK, Forgotten, Pending
  <2>7. CASE Tick
    BY <2>1, <2>7 DEF Tick
  <2>8. QED
    BY <2>0, <2>2, <2>3, <2>4, <2>5, <2>6, <2>7
       DEF Next, Lock, LockFails, Fetch, PullRefused, PullFails, Write,
           StorePointsFails, StoreLatestFails, Crash, LockVanishes,
           Fault, LockFault, TypeOK
<1>2. QED
  BY <1>1, Inductive, PTL DEF Spec, OnlyFaultsForget

(***************************************************************************)
(* One failed iteration, one failed write or one dead worker does not let  *)
(* the snapshot expire (charging/store.py:29-31), whatever the lock does.  *)
(***************************************************************************)
THEOREM SnapshotLasts == Spec => []SnapshotStays
<1>1. ASSUME IInv PROVE SnapshotStays
  <2> SUFFICES ASSUME seen, faults <= 1 PROVE snapshot > 0
    BY DEF SnapshotStays
  <2> USE PollerAssumption, GraceAssumption DEF IInv, TypeOK
  <2>1. PICK w \in Workers : Comes(w)
    BY <1>1, ComesDef
  <2>2. QED
    BY <1>1, <2>1 DEF Comes, Writes, Restarts, Grace
<1>2. QED
  BY <1>1, Inductive, PTL

(***************************************************************************)
(* While the lock works, no worker replaces a status by an older one       *)
(* (charging/store.py:47-71).                                              *)
(***************************************************************************)
THEOREM Newest == Spec => NewestWins
<1>1. ASSUME IInv, [Next]_vars PROVE [lockFaults = 0 => NeverOlder]_vars
  <2> SUFFICES ASSUME Next, lockFaults = 0, NEW p \in Points,
                      store[p] # Nothing, store'[p] # Nothing
               PROVE  store'[p] >= store[p]
    BY <1>1 DEF NeverOlder
  <2> USE DEF IInv, TypeOK, Status
  <2>1. CASE store' = store
    BY <1>1, <2>1
  <2>2. CASE \E w \in Workers : store' = Merged(w)
    BY <1>1, <2>2 DEF Merged, HandNewer
  <2>3. CASE \E q \in Points : Vanish(q)
    BY <1>1, <2>3 DEF Vanish
  <2>4. QED
    BY <2>1, <2>2, <2>3
       DEF Next, Lock, TakeLock, LockTaken, LockFails, Fetch, Pull, PullRefused, PullFails,
           Write, StorePoints, StorePointsFails, StoreLatest, StoreLatestFails,
           Crash, Change, LockVanishes, Tick
<1>2. QED
  BY <1>1, Inductive, PTL DEF Spec, NewestWins
=============================================================================
