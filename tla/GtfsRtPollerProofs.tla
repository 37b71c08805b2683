-------------------------- MODULE GtfsRtPollerProofs --------------------------
(***************************************************************************)
(* GtfsRtPoller, for any number of workers, trips, keys, changes and       *)
(* faults, and for iterations of any length: also for those that outlast   *)
(* lock and TTL.                                                           *)
(***************************************************************************)
EXTENDS GtfsRtPoller, TLAPS

USE RtAssumption

LEMMA Times ==
  /\ Timely \in Nat /\ Round \in Nat /\ Round < TTL /\ Timely <= Round
  /\ Horizon \in Nat /\ Recovery \in Nat /\ Settled \in Nat
  /\ Never \in Nat /\ Never > TTL
<1>1. Timely \in Nat /\ Interval + 2 * Timely < TTL
  <2>1. \A x \in Nat : x \div 2 \in Nat /\ 2 * (x \div 2) <= x
    OBVIOUS
  <2>2. TTL - Interval - 1 \in Nat
    BY FitAssumption
  <2>3. QED
    BY <2>1, <2>2 DEF Timely
<1>2. QED
  BY <1>1 DEF Horizon, Recovery, Round, Settled, Never

(***************************************************************************)
(* Type correctness is inductive by itself.                                *)
(***************************************************************************)
LEMMA InitTypeOK == Init => TypeOK
<1> SUFFICES ASSUME Init PROVE TypeOK
  OBVIOUS
<1> USE Times DEF Init
<1>1. /\ up \in BOOLEAN /\ listed \in [Trips -> SUBSET Keys]
      /\ changes \in 0 .. MaxChanges /\ since \in [Trips -> 0 .. Settled]
      /\ faults \in 0 .. MaxFaults /\ calm \in 0 .. Recovery
  OBVIOUS
<1>2. /\ trip \in [Trips -> [keys : SUBSET Keys, left : 0 .. TTL]]
      /\ index \in [Keys -> [trips : SUBSET Trips, left : 0 .. Never]]
      /\ source \in [delfi : BOOLEAN, left : 0 .. TTL]
      /\ lock \in 0 .. LockTTL
  OBVIOUS
<1>3. /\ pc \in [Workers -> {"sleeping", "fetching", "storing"}]
      /\ nap \in [Workers -> 0 .. Interval] /\ clock \in [Workers -> 0 .. PollMax]
      /\ snap \in [Workers -> [Trips -> SUBSET Keys]]
      /\ used \in [Workers -> BOOLEAN]
      /\ at \in [Workers -> Trips \cup {None}]
      /\ adding \in [Workers -> Keys \cup {None}]
  BY DEF NoUpdates
<1>4. QED
  BY <1>1, <1>2, <1>3 DEF TypeOK

FeedsOK == /\ up \in BOOLEAN /\ listed \in [Trips -> SUBSET Keys]
           /\ changes \in 0 .. MaxChanges /\ since \in [Trips -> 0 .. Settled]
RedisOK == /\ trip \in [Trips -> [keys : SUBSET Keys, left : 0 .. TTL]]
           /\ index \in [Keys -> [trips : SUBSET Trips, left : 0 .. Never]]
           /\ source \in [delfi : BOOLEAN, left : 0 .. TTL]
PollerOK == /\ pc \in [Workers -> {"sleeping", "fetching", "storing"}]
            /\ nap \in [Workers -> 0 .. Interval]
            /\ clock \in [Workers -> 0 .. PollMax]
            /\ snap \in [Workers -> [Trips -> SUBSET Keys]]
            /\ used \in [Workers -> BOOLEAN]
            /\ at \in [Workers -> Trips \cup {None}]
            /\ adding \in [Workers -> Keys \cup {None}]
TroubleOK == faults \in 0 .. MaxFaults /\ calm \in 0 .. Recovery

LEMMA PartsPrime ==
  TypeOK' <=> FeedsOK' /\ RedisOK' /\ lock' \in 0 .. LockTTL /\ PollerOK' /\ TroubleOK'
BY DEF TypeOK, FeedsOK, RedisOK, PollerOK, TroubleOK

LEMMA Kept ==
  ASSUME TypeOK
  PROVE  /\ UNCHANGED <<feeds, since>> => FeedsOK'
         /\ UNCHANGED redis => RedisOK'
         /\ UNCHANGED poller => PollerOK'
         /\ UNCHANGED trouble => TroubleOK'
         /\ Fault => TroubleOK'
BY Times DEF TypeOK, FeedsOK, RedisOK, PollerOK, TroubleOK, feeds, redis, poller,
             trouble, Fault

LEMMA EndsTyped ==
  ASSUME TypeOK, NEW w \in Workers, NEW n \in 0 .. Interval, EndsWith(w, n)
  PROVE  PollerOK'
BY DEF TypeOK, PollerOK, EndsWith, NoUpdates

LEMMA PollsTyped ==
  ASSUME TypeOK, NEW w \in Workers, Polls(w)
  PROVE  PollerOK'
BY DEF TypeOK, PollerOK, Polls

LEMMA IndexedTyped ==
  ASSUME TypeOK, NEW w \in Workers, adding[w] # None, Idles, Indexed(w)
  PROVE  /\ snap' \in [Workers -> [Trips -> SUBSET Keys]]
         /\ at' \in [Workers -> Trips \cup {None}]
         /\ adding' \in [Workers -> Keys \cup {None}]
<1>1. at[w] \in Trips
  BY DEF TypeOK, Idles
<1>2. [snap[w] EXCEPT ![at[w]] = @ \ {adding[w]}] \in [Trips -> SUBSET Keys]
  BY <1>1 DEF TypeOK
<1>3. snap' = [snap EXCEPT ![w] = [snap[w] EXCEPT ![at[w]] = @ \ {adding[w]}]]
  BY DEF Indexed, TypeOK
<1>4. snap' \in [Workers -> [Trips -> SUBSET Keys]]
  BY <1>2, <1>3 DEF TypeOK
<1>5. QED
  BY <1>4 DEF TypeOK, Indexed

(***************************************************************************)
(* Time only takes from what is in Redis.                                  *)
(***************************************************************************)
LEMMA TickedRedis ==
  ASSUME TypeOK, Tick
  PROVE  /\ RedisOK'
         /\ \A t \in Trips : trip'[t].left > 0 =>
              trip'[t].keys = trip[t].keys /\ trip'[t].left = trip[t].left - 1
         /\ \A k \in Keys : index'[k].left = Never => index[k].left = Never
<1> USE Times DEF TypeOK
<1>1. ASSUME NEW t \in Trips
      PROVE  /\ trip'[t] \in [keys : SUBSET Keys, left : 0 .. TTL]
             /\ trip'[t].left > 0 =>
                  trip'[t].keys = trip[t].keys /\ trip'[t].left = trip[t].left - 1
  <2>1. CASE trip[t].left > 1
    <3>1. trip'[t] = [keys |-> trip[t].keys, left |-> trip[t].left - 1]
      BY <2>1 DEF Tick
    <3>2. QED
      BY <2>1, <3>1
  <2>2. CASE ~(trip[t].left > 1)
    <3>1. trip'[t] = [keys |-> {}, left |-> 0]
      BY <2>2 DEF Tick
    <3>2. QED
      BY <3>1
  <2>3. QED
    BY <2>1, <2>2
<1>2. ASSUME NEW k \in Keys
      PROVE  /\ index'[k] \in [trips : SUBSET Trips, left : 0 .. Never]
             /\ index'[k].left = Never => index[k].left = Never
  <2>1. CASE index[k].left = Never
    BY <2>1 DEF Tick
  <2>2. CASE index[k].left # Never /\ index[k].left > 1
    <3>1. index'[k] = [trips |-> index[k].trips, left |-> index[k].left - 1]
      BY <2>2 DEF Tick
    <3>2. QED
      BY <2>2, <3>1
  <2>3. CASE index[k].left # Never /\ ~(index[k].left > 1)
    <3>1. index'[k] = [trips |-> {}, left |-> 0]
      BY <2>3 DEF Tick
    <3>2. QED
      BY <3>1
  <2>4. QED
    BY <2>1, <2>2, <2>3
<1>3. source' \in [delfi : BOOLEAN, left : 0 .. TTL]
  <2>1. CASE source.left > 1
    <3>1. source' = [delfi |-> source.delfi, left |-> source.left - 1]
      BY <2>1 DEF Tick
    <3>2. QED
      BY <2>1, <3>1
  <2>2. CASE ~(source.left > 1)
    BY <2>2 DEF Tick
  <2>3. QED
    BY <2>1, <2>2
<1>4. trip' \in [Trips -> [keys : SUBSET Keys, left : 0 .. TTL]]
  <2>1. DOMAIN trip' = Trips /\ trip' = [t \in Trips |-> trip'[t]]
    BY DEF Tick
  <2>2. QED
    BY <1>1, <2>1
<1>5. index' \in [Keys -> [trips : SUBSET Trips, left : 0 .. Never]]
  <2>1. DOMAIN index' = Keys /\ index' = [k \in Keys |-> index'[k]]
    BY DEF Tick
  <2>2. QED
    BY <1>2, <2>1
<1>6. QED
  BY <1>1, <1>2, <1>3, <1>4, <1>5 DEF RedisOK

LEMMA NextTypeOK == TypeOK /\ Idles /\ [Next]_vars => TypeOK'
<1> SUFFICES ASSUME TypeOK, Idles, [Next]_vars PROVE TypeOK'
  OBVIOUS
<1> USE Times, Kept, PartsPrime DEF Sleeps
<1>0. TypeOK /\ Interval \in 0 .. Interval /\ 0 \in 0 .. Interval
  OBVIOUS
<1>1. ASSUME NEW w \in Workers, TakeLock(w) \/ LockFails(w) PROVE TypeOK'
  BY <1>1, PollsTyped DEF TakeLock, LockFails, TypeOK
<1>2. ASSUME NEW w \in Workers, LockTaken(w) \/ IterationFails(w) \/ Crash(w)
      PROVE  TypeOK'
  <2>1. PollerOK'
    BY <1>0, <1>2, EndsTyped DEF LockTaken, IterationFails, Crash
  <2>2. QED
    BY <1>2, <2>1 DEF LockTaken, IterationFails, Crash, TypeOK
<1>3. ASSUME NEW w \in Workers, Fetch(w) PROVE TypeOK'
  <2>1. [t \in Trips |-> Update(t)] \in [Trips -> SUBSET Keys]
    BY DEF Update, TypeOK
  <2>2. PollerOK'
    BY <1>3, <2>1 DEF Fetch, PollerOK, TypeOK
  <2>3. QED
    BY <1>3, <2>2 DEF Fetch, TypeOK
<1>4. ASSUME NEW w \in Workers, NEW t \in Trips, StoreTrip(w, t) PROVE TypeOK'
  <2>1. [keys |-> snap[w][t], left |-> TTL] \in [keys : SUBSET Keys, left : 0 .. TTL]
    BY DEF TypeOK
  <2>2. RedisOK'
    BY <1>4, <2>1 DEF StoreTrip, RedisOK, TypeOK
  <2>3. PollerOK'
    BY <1>4 DEF StoreTrip, PollerOK, TypeOK
  <2>4. QED
    BY <1>4, <2>2, <2>3 DEF StoreTrip, TypeOK
<1>5. ASSUME NEW w \in Workers, NEW k \in Keys, AddKey(w, k) PROVE TypeOK'
  <2>1. at[w] \in Trips
    BY <1>5 DEF AddKey, TypeOK
  <2>2. [trips |-> index[k].trips \cup {at[w]},
         left |-> IF index[k].left = 0 THEN Never ELSE index[k].left]
          \in [trips : SUBSET Trips, left : 0 .. Never]
    BY <2>1 DEF TypeOK
  <2>3. RedisOK'
    BY <1>5, <2>2 DEF AddKey, RedisOK, TypeOK
  <2>4. PollerOK'
    BY <1>5 DEF AddKey, PollerOK, TypeOK
  <2>5. QED
    BY <1>5, <2>3, <2>4 DEF AddKey, TypeOK
<1>6. ASSUME NEW w \in Workers, ExpireKey(w) PROVE TypeOK'
  <2>1. adding[w] \in Keys
    BY <1>6 DEF ExpireKey, TypeOK
  <2>2. [trips |-> index[adding[w]].trips,
         left |-> IF index[adding[w]].left = 0 THEN 0 ELSE TTL]
          \in [trips : SUBSET Trips, left : 0 .. Never]
    BY <2>1 DEF TypeOK
  <2>3. index' \in [Keys -> [trips : SUBSET Trips, left : 0 .. Never]]
    BY <1>6, <2>1, <2>2 DEF ExpireKey, TypeOK
  <2>4. RedisOK'
    BY <1>6, <2>3 DEF ExpireKey, RedisOK, TypeOK
  <2>5. PollerOK'
    BY <1>6, IndexedTyped DEF ExpireKey, PollerOK, TypeOK
  <2>6. QED
    BY <1>6, <2>4, <2>5 DEF ExpireKey, TypeOK
<1>7. ASSUME NEW w \in Workers, StoreSource(w) PROVE TypeOK'
  <2>1. PollerOK'
    BY <1>0, <1>7, EndsTyped DEF StoreSource
  <2>2. [delfi |-> used[w], left |-> TTL] \in [delfi : BOOLEAN, left : 0 .. TTL]
    BY DEF TypeOK
  <2>3. RedisOK'
    BY <1>7, <2>2 DEF StoreSource, RedisOK, TypeOK
  <2>4. QED
    BY <1>7, <2>1, <2>3 DEF StoreSource, TypeOK
<1>8. CASE LockVanishes
  BY <1>8 DEF LockVanishes, TypeOK
<1>9. CASE Evict
  <2>1. /\ [keys |-> {}, left |-> 0] \in [keys : SUBSET Keys, left : 0 .. TTL]
        /\ [trips |-> {}, left |-> 0] \in [trips : SUBSET Trips, left : 0 .. Never]
        /\ [delfi |-> FALSE, left |-> 0] \in [delfi : BOOLEAN, left : 0 .. TTL]
    OBVIOUS
  <2>2. trip' \in [Trips -> [keys : SUBSET Keys, left : 0 .. TTL]]
    BY <1>9, <2>1 DEF Evict, TypeOK
  <2>3. index' \in [Keys -> [trips : SUBSET Trips, left : 0 .. Never]]
    BY <1>9, <2>1 DEF Evict, TypeOK
  <2>4. source' \in [delfi : BOOLEAN, left : 0 .. TTL]
    BY <1>9, <2>1 DEF Evict, TypeOK
  <2>5. QED
    BY <1>9, <2>2, <2>3, <2>4 DEF Evict, RedisOK, TypeOK
<1>10. CASE Change
  <2>1. since' \in [Trips -> 0 .. Settled]
    <3> DEFINE Reset(t) == IF Update(t)' = Update(t) THEN since[t] ELSE 0
    <3>1. since' = [t \in Trips |-> Reset(t)]
      BY <1>10 DEF Change
    <3>2. \A t \in Trips : Reset(t) \in 0 .. Settled
      BY DEF TypeOK
    <3> HIDE DEF Reset
    <3>3. QED
      BY <3>1, <3>2
  <2>2. listed' \in [Trips -> SUBSET Keys] /\ up' \in BOOLEAN
    <3>1. CASE up' = ~up /\ listed' = listed
      BY <3>1 DEF TypeOK
    <3>2. CASE /\ up' = up
               /\ \E t \in Trips : \E ks \in (SUBSET Keys) \ {listed[t]} :
                    listed' = [listed EXCEPT ![t] = ks]
      BY <3>2 DEF TypeOK
    <3>3. QED
      BY <1>10, <3>1, <3>2 DEF Change
  <2>3. changes' \in 0 .. MaxChanges
    BY <1>10 DEF Change, TypeOK
  <2>4. FeedsOK'
    BY <2>1, <2>2, <2>3 DEF FeedsOK
  <2>5. QED
    BY <1>10, <2>4 DEF Change, TypeOK
<1>11. CASE Tick
  <2>1. FeedsOK' /\ TroubleOK' /\ lock' \in 0 .. LockTTL
    <3>1. calm' \in 0 .. Recovery
      BY <1>11 DEF Tick, More, TypeOK
    <3>2. QED
      BY <1>11, <3>1 DEF Tick, More, Less, FeedsOK, TroubleOK, TypeOK, feeds
  <2>2. PollerOK'
    <3>1. clock' \in [Workers -> 0 .. PollMax]
      BY <1>11 DEF Tick, TypeOK
    <3>2. nap' \in [Workers -> 0 .. Interval]
      BY <1>11 DEF Tick, TypeOK, Less
    <3>3. QED
      BY <1>11, <3>1, <3>2 DEF Tick, PollerOK, TypeOK
  <2>3. QED
    BY <1>11, <2>1, <2>2, TickedRedis
<1>12. CASE UNCHANGED vars
  BY <1>12 DEF vars, TypeOK, feeds, redis, poller, trouble
<1>13. QED
  BY <1>1, <1>2, <1>3, <1>4, <1>5, <1>6, <1>7, <1>8, <1>9, <1>10, <1>11, <1>12
     DEF Next, Poll

(***************************************************************************)
(* What a poller carries: the updates it has not stored, nothing when the  *)
(* iteration is over.                                                      *)
(***************************************************************************)
LEMMA EndsEmpty ==
  ASSUME TypeOK, NEW w \in Workers, NEW n \in Nat, EndsWith(w, n)
  PROVE  /\ pc'[w] = "sleeping" /\ snap'[w] = NoUpdates
         /\ at'[w] = None /\ adding'[w] = None
         /\ \A v \in Workers : v # w =>
              /\ pc'[v] = pc[v] /\ snap'[v] = snap[v] /\ at'[v] = at[v]
              /\ adding'[v] = adding[v] /\ clock'[v] = clock[v]
BY DEF TypeOK, EndsWith

LEMMA IndexedEffect ==
  ASSUME TypeOK, Idles, NEW w \in Workers, adding[w] # None, Indexed(w)
  PROVE  /\ at[w] \in Trips /\ adding'[w] = None
         /\ \A t \in Trips : snap'[w][t] =
              IF t = at[w] THEN snap[w][t] \ {adding[w]} ELSE snap[w][t]
         /\ at'[w] = IF snap[w][at[w]] = {adding[w]} THEN None ELSE at[w]
         /\ adding[w] \in snap[w][at[w]]
         /\ \A v \in Workers : v # w =>
              snap'[v] = snap[v] /\ at'[v] = at[v] /\ adding'[v] = adding[v]
<1>1. at[w] \in Trips /\ adding[w] \in snap[w][at[w]]
  BY DEF TypeOK, Idles
<1>2. snap' = [snap EXCEPT ![w] = [snap[w] EXCEPT ![at[w]] = @ \ {adding[w]}]]
  BY DEF Indexed, TypeOK
<1>3. \A t \in Trips : snap'[w][t] =
        IF t = at[w] THEN snap[w][t] \ {adding[w]} ELSE snap[w][t]
  BY <1>1, <1>2 DEF TypeOK
<1>4. QED
  BY <1>1, <1>2, <1>3 DEF Indexed, TypeOK

LEMMA NextIdles == TypeOK /\ Idles /\ [Next]_vars => Idles'
<1> SUFFICES ASSUME TypeOK, Idles, [Next]_vars PROVE Idles'
  OBVIOUS
<1> USE DEF Idles
<1>0. 0 \in Nat
  OBVIOUS
<1>1. ASSUME NEW w \in Workers, TakeLock(w) \/ LockFails(w) PROVE Idles'
  BY <1>1 DEF TakeLock, LockFails, Polls, TypeOK, Wakes
<1>2. ASSUME NEW w \in Workers, NEW n \in Nat, EndsWith(w, n) PROVE Idles'
  BY <1>2, EndsEmpty
<1>3. ASSUME NEW w \in Workers,
             \/ LockTaken(w) \/ StoreSource(w) \/ IterationFails(w) \/ Crash(w)
      PROVE  Idles'
  BY <1>0, <1>2, <1>3 DEF LockTaken, StoreSource, IterationFails, Crash, Sleeps
<1>4. ASSUME NEW w \in Workers, Fetch(w) PROVE Idles'
  <2>1. at[w] = None /\ adding[w] = None
    <3>1. snap[w] = NoUpdates
      BY <1>4 DEF Fetch
    <3>2. at[w] = None
      BY <3>1 DEF NoUpdates, TypeOK
    <3>3. QED
      BY <3>2
  <2>2. QED
    BY <1>4, <2>1 DEF Fetch, TypeOK
<1>5. ASSUME NEW w \in Workers, NEW t \in Trips, StoreTrip(w, t) PROVE Idles'
  BY <1>5 DEF StoreTrip, TypeOK
<1>6. ASSUME NEW w \in Workers, NEW k \in Keys, AddKey(w, k) PROVE Idles'
  BY <1>6 DEF AddKey, TypeOK
<1>7. ASSUME NEW w \in Workers, ExpireKey(w) PROVE Idles'
  <2>1. pc[w] = "storing" /\ pc' = pc
    <3>1. at[w] \in Trips /\ adding[w] \in snap[w][at[w]]
      BY <1>7, IndexedEffect DEF ExpireKey
    <3>2. QED
      BY <1>7, <3>1 DEF ExpireKey, NoUpdates, TypeOK
  <2>2. at'[w] = None \/ snap'[w][at'[w]] # {}
    <3>1. /\ adding[w] \in snap[w][at[w]] /\ at[w] \in Trips
          /\ at'[w] = IF snap[w][at[w]] = {adding[w]} THEN None ELSE at[w]
          /\ snap'[w][at[w]] = snap[w][at[w]] \ {adding[w]}
      BY <1>7, IndexedEffect DEF ExpireKey
    <3>2. QED
      BY <3>1
  <2>3. QED
    BY <1>7, <2>1, <2>2, IndexedEffect DEF ExpireKey
<1>8. CASE LockVanishes \/ Evict \/ Change \/ UNCHANGED vars
  BY <1>8 DEF LockVanishes, Evict, Change, vars, poller
<1>9. CASE Tick
  BY <1>9 DEF Tick
<1>10. QED
  BY <1>1, <1>3, <1>4, <1>5, <1>6, <1>7, <1>8, <1>9 DEF Next, Poll

(***************************************************************************)
(* What is carried and what is stored is the current update, or a change   *)
(* has come since that is no older than the copy.                          *)
(***************************************************************************)
LEMMA SameUpdates ==
  ASSUME UNCHANGED feeds PROVE \A t \in Trips : Update(t)' = Update(t)
BY DEF feeds, Update

LEMMA ChangedUpdates ==
  ASSUME TypeOK, Change, NEW t \in Trips
  PROVE  \/ Update(t)' = Update(t) /\ since'[t] = since[t]
         \/ since'[t] = 0
<1> DEFINE Same == Update(t)' = Update(t)
<1>1. since'[t] = IF Same THEN since[t] ELSE 0
  BY DEF Change
<1> HIDE DEF Same
<1>2. Same \/ since'[t] = 0
  BY <1>1
<1>3. Same => since'[t] = since[t]
  BY <1>1
<1>4. QED
  BY <1>2, <1>3 DEF Same

LEMMA TickedSince ==
  ASSUME TypeOK, Tick, NEW t \in Trips
  PROVE  Update(t)' = Update(t) /\ since'[t] <= since[t] + 1
BY SameUpdates, Times DEF Tick, More, TypeOK

LEMMA NextCarries == TypeOK /\ Idles /\ Carries /\ [Next]_vars => Carries'
<1> SUFFICES ASSUME TypeOK, Idles, Carries, [Next]_vars,
                    NEW v \in Workers, NEW t \in Trips,
                    t # at'[v], snap'[v][t] # {}
             PROVE  snap'[v][t] = Update(t)' \/ since'[t] <= clock'[v]
  BY DEF Carries
<1> USE DEF Carries
<1>1. ASSUME UNCHANGED <<feeds, since>>, snap'[v][t] = snap[v][t],
             t # at[v], clock'[v] = clock[v]
      PROVE  snap'[v][t] = Update(t)' \/ since'[t] <= clock'[v]
  BY <1>1, SameUpdates
<1>2. ASSUME NEW w \in Workers, NEW n \in Nat, EndsWith(w, n),
             UNCHANGED <<feeds, since>>
      PROVE  snap'[v][t] = Update(t)' \/ since'[t] <= clock'[v]
  <2>1. v # w
    BY <1>2, EndsEmpty DEF NoUpdates
  <2>2. QED
    BY <1>1, <1>2, <2>1, EndsEmpty
<1>3. ASSUME NEW w \in Workers, TakeLock(w) \/ LockFails(w)
      PROVE  snap'[v][t] = Update(t)' \/ since'[t] <= clock'[v]
  BY <1>1, <1>3 DEF TakeLock, LockFails, Polls
<1>4. ASSUME NEW w \in Workers,
             \/ LockTaken(w) \/ StoreSource(w) \/ IterationFails(w) \/ Crash(w)
      PROVE  snap'[v][t] = Update(t)' \/ since'[t] <= clock'[v]
  BY <1>2, <1>4 DEF LockTaken, StoreSource, IterationFails, Crash, Sleeps
<1>5. ASSUME NEW w \in Workers, Fetch(w)
      PROVE  snap'[v][t] = Update(t)' \/ since'[t] <= clock'[v]
  <2>1. CASE v = w
    BY <1>5, <2>1, SameUpdates DEF Fetch, TypeOK
  <2>2. CASE v # w
    BY <1>1, <1>5, <2>2 DEF Fetch, TypeOK
  <2>3. QED
    BY <2>1, <2>2
<1>6. ASSUME NEW w \in Workers, NEW s \in Trips, StoreTrip(w, s)
      PROVE  snap'[v][t] = Update(t)' \/ since'[t] <= clock'[v]
  <2>1. t # at[v]
    BY <1>6 DEF StoreTrip, TypeOK
  <2>2. QED
    BY <1>1, <1>6, <2>1 DEF StoreTrip
<1>7. ASSUME NEW w \in Workers, NEW k \in Keys, AddKey(w, k)
      PROVE  snap'[v][t] = Update(t)' \/ since'[t] <= clock'[v]
  BY <1>1, <1>7 DEF AddKey
<1>8. ASSUME NEW w \in Workers, ExpireKey(w)
      PROVE  snap'[v][t] = Update(t)' \/ since'[t] <= clock'[v]
  <2>1. /\ adding[w] # None /\ Indexed(w)
        /\ UNCHANGED <<feeds, since, clock>>
    BY <1>8 DEF ExpireKey
  <2>2. t # at[v] /\ snap'[v][t] = snap[v][t]
    <3>1. CASE v = w
      <4>1. /\ snap'[w][t] = IF t = at[w] THEN snap[w][t] \ {adding[w]} ELSE snap[w][t]
            /\ at'[w] = IF snap[w][at[w]] = {adding[w]} THEN None ELSE at[w]
        BY <2>1, IndexedEffect
      <4>2. t # at[w]
        BY <3>1, <4>1
      <4>3. QED
        BY <3>1, <4>1, <4>2
    <3>2. CASE v # w
      BY <2>1, <3>2, IndexedEffect
    <3>3. QED
      BY <3>1, <3>2
  <2>3. QED
    BY <1>1, <2>1, <2>2
<1>9. CASE LockVanishes \/ Evict \/ UNCHANGED vars
  BY <1>1, <1>9 DEF LockVanishes, Evict, vars, poller
<1>10. CASE Change
  <2>1. snap' = snap /\ at' = at /\ clock' = clock
    BY <1>10 DEF Change, poller
  <2>2. clock[v] \in Nat
    BY DEF TypeOK
  <2>3. CASE Update(t)' = Update(t) /\ since'[t] = since[t]
    BY <2>1, <2>3
  <2>4. CASE since'[t] = 0
    BY <2>1, <2>2, <2>4
  <2>5. QED
    BY <1>10, <2>3, <2>4, ChangedUpdates
<1>11. CASE Tick
  <2>1. snap' = snap /\ at' = at /\ clock'[v] = clock[v] + 1
    BY <1>11 DEF Tick, Idles, NoUpdates, TypeOK
  <2>2. clock[v] \in Nat /\ since[t] \in Nat /\ since'[t] <= since[t] + 1
    BY <1>11, TickedSince DEF TypeOK
  <2>3. since'[t] \in Nat
    BY <1>11, Times DEF Tick, More, TypeOK
  <2>4. QED
    BY <1>11, <2>1, <2>2, <2>3, TickedSince
<1>12. QED
  BY <1>3, <1>4, <1>5, <1>6, <1>7, <1>8, <1>9, <1>10, <1>11 DEF Next, Poll

LEMMA NextStored == TypeOK /\ Carries /\ Stored /\ [Next]_vars => Stored'
<1> SUFFICES ASSUME TypeOK, Carries, Stored, [Next]_vars,
                    NEW t \in Trips, trip'[t].left > 0
             PROVE  trip'[t].keys = Update(t)' \/ since'[t] + trip'[t].left <= Horizon
  BY DEF Stored
<1> USE Times DEF Stored
<1>1. ASSUME UNCHANGED <<feeds, since>>, trip'[t] = trip[t]
      PROVE  trip'[t].keys = Update(t)' \/ since'[t] + trip'[t].left <= Horizon
  BY <1>1, SameUpdates
<1>2. ASSUME NEW w \in Workers, NEW s \in Trips, StoreTrip(w, s)
      PROVE  trip'[t].keys = Update(t)' \/ since'[t] + trip'[t].left <= Horizon
  <2>1. CASE s = t
    <3>1. trip'[t].keys = snap[w][t] /\ trip'[t].left = TTL
      BY <1>2, <2>1 DEF StoreTrip, TypeOK
    <3>2. snap[w][t] = Update(t) \/ since[t] <= clock[w]
      BY <1>2, <2>1 DEF StoreTrip, Carries
    <3>3. /\ Update(t)' = Update(t) /\ since' = since
          /\ since[t] \in Nat /\ clock[w] \in 0 .. PollMax
      BY <1>2, SameUpdates DEF StoreTrip, TypeOK
    <3>4. QED
      BY <3>1, <3>2, <3>3 DEF Horizon
  <2>2. CASE s # t
    BY <1>1, <1>2, <2>2 DEF StoreTrip, TypeOK
  <2>3. QED
    BY <2>1, <2>2
<1>3. CASE Evict
  <2>1. CASE trip'[t] = trip[t]
    BY <1>1, <1>3, <2>1 DEF Evict
  <2>2. CASE trip'[t] # trip[t]
    <3>1. trip'[t].left = 0
      BY <1>3, <2>2 DEF Evict, TypeOK
    <3>2. QED
      BY <3>1
  <2>3. QED
    BY <2>1, <2>2
<1>4. CASE Change
  <2>1. trip' = trip
    BY <1>4 DEF Change, redis
  <2>2. trip[t].left \in 0 .. TTL
    BY DEF TypeOK
  <2>3. QED
    BY <1>4, <2>1, <2>2, ChangedUpdates DEF Horizon
<1>5. CASE Tick
  <2>1. trip'[t].keys = trip[t].keys /\ trip'[t].left = trip[t].left - 1
    BY <1>5, TickedRedis
  <2>2. /\ trip[t].left \in Nat /\ since[t] \in Nat /\ since'[t] \in Nat
        /\ since'[t] <= since[t] + 1 /\ Update(t)' = Update(t)
    BY <1>5, TickedSince DEF Tick, More, TypeOK
  <2>3. trip[t].left > 0
    BY <2>1, <2>2
  <2>4. QED
    BY <2>1, <2>2, <2>3
<1>6. CASE LockVanishes \/ UNCHANGED vars
  BY <1>1, <1>6 DEF LockVanishes, vars, redis
<1>7. ASSUME NEW w \in Workers,
             \/ TakeLock(w) \/ LockTaken(w) \/ LockFails(w) \/ Fetch(w)
             \/ \E k \in Keys : AddKey(w, k)
             \/ ExpireKey(w) \/ StoreSource(w) \/ IterationFails(w) \/ Crash(w)
      PROVE  trip'[t].keys = Update(t)' \/ since'[t] + trip'[t].left <= Horizon
  BY <1>1, <1>7 DEF TakeLock, LockTaken, LockFails, Fetch, AddKey, ExpireKey,
                    StoreSource, IterationFails, Crash, redis
<1>8. QED
  BY <1>2, <1>3, <1>4, <1>5, <1>6, <1>7 DEF Next, Poll

(***************************************************************************)
(* Only a fault ends an iteration between SADD and EXPIRE.                 *)
(***************************************************************************)
LEMMA CleanStays ==
  ASSUME TypeOK, Idles, [Next]_vars, ~Fault, NEW k \in Keys, Clean(k)
  PROVE  Clean(k)'
<1> SUFFICES ASSUME index'[k].left = Never
             PROVE  \E w \in Workers : adding'[w] = k
  BY DEF Clean
<1> USE Times DEF Clean
<1>2. ASSUME index[k].left = Never, adding' = adding
      PROVE  \E w \in Workers : adding'[w] = k
  BY <1>2
<1>3. ASSUME NEW w \in Workers, TakeLock(w) \/ Fetch(w) \/ \E t \in Trips : StoreTrip(w, t)
      PROVE  \E v \in Workers : adding'[v] = k
  BY <1>2, <1>3 DEF TakeLock, Polls, Fetch, StoreTrip, redis
<1>4. ASSUME NEW w \in Workers, LockTaken(w) \/ StoreSource(w)
      PROVE  \E v \in Workers : adding'[v] = k
  <2>1. index' = index /\ EndsWith(w, Interval)
    BY <1>4 DEF LockTaken, StoreSource, Sleeps, redis
  <2>2. adding[w] = None
    <3>1. snap[w] = NoUpdates
      BY <1>4 DEF LockTaken, StoreSource, Wakes, Idles
    <3>2. at[w] = None
      BY <3>1 DEF Idles, NoUpdates, TypeOK
    <3>3. QED
      BY <3>2 DEF Idles
  <2>3. PICK v \in Workers : adding[v] = k
    BY <2>1
  <2>4. v # w
    BY <2>2, <2>3
  <2>5. QED
    BY <2>1, <2>3, <2>4, EndsEmpty
<1>5. ASSUME NEW w \in Workers, NEW j \in Keys, AddKey(w, j)
      PROVE  \E v \in Workers : adding'[v] = k
  <2>1. CASE j = k
    BY <1>5, <2>1 DEF AddKey, TypeOK
  <2>2. CASE j # k
    <3>1. index[k].left = Never
      BY <1>5, <2>2 DEF AddKey, TypeOK
    <3>2. PICK v \in Workers : adding[v] = k
      BY <3>1
    <3>3. v # w
      BY <1>5, <3>2 DEF AddKey
    <3>4. QED
      BY <1>5, <3>2, <3>3 DEF AddKey, TypeOK
  <2>3. QED
    BY <2>1, <2>2
<1>6. ASSUME NEW w \in Workers, ExpireKey(w)
      PROVE  \E v \in Workers : adding'[v] = k
  <2>1. adding[w] \in Keys
    BY <1>6 DEF ExpireKey, TypeOK
  <2>2. adding[w] # k
    BY <1>6, <2>1 DEF ExpireKey, TypeOK
  <2>3. index[k].left = Never
    BY <1>6, <2>1, <2>2 DEF ExpireKey, TypeOK
  <2>4. PICK v \in Workers : adding[v] = k
    BY <2>3
  <2>5. v # w
    BY <2>2, <2>4
  <2>6. QED
    BY <1>6, <2>4, <2>5 DEF ExpireKey, Indexed, TypeOK
<1>7. CASE Tick
  BY <1>2, <1>7, TickedRedis DEF Tick
<1>8. CASE Change \/ UNCHANGED vars
  BY <1>2, <1>8 DEF Change, vars, redis, poller
<1>9. QED
  BY <1>3, <1>4, <1>5, <1>6, <1>7, <1>8
     DEF Next, Poll, LockFails, IterationFails, Crash, LockVanishes, Evict

LEMMA NextLeft == TypeOK /\ Idles /\ LeftByFaults /\ [Next]_vars => LeftByFaults'
<1> SUFFICES ASSUME TypeOK, Idles, LeftByFaults, [Next]_vars,
                    faults' = 0, NEW k \in Keys
             PROVE  Clean(k)'
  BY DEF LeftByFaults
<1>1. ~Fault
  BY DEF Fault, TypeOK
<1>2. ASSUME NEW w \in Workers, Poll(w) PROVE faults' = faults
  BY <1>1, <1>2 DEF Poll, TakeLock, LockTaken, LockFails, Fetch, StoreTrip, AddKey,
                    ExpireKey, StoreSource, IterationFails, trouble
<1>3. Change \/ Tick \/ UNCHANGED vars => faults' = faults
  <2>1. Change => faults' = faults
    BY DEF Change, trouble
  <2>2. Tick => faults' = faults
    BY DEF Tick
  <2>3. UNCHANGED vars => faults' = faults
    BY DEF vars, trouble
  <2>4. QED
    BY <2>1, <2>2, <2>3
<1>4. ~LockVanishes /\ ~Evict /\ \A w \in Workers : ~Crash(w)
  BY <1>1 DEF Crash, LockVanishes, Evict
<1>5. faults' = faults
  BY <1>2, <1>3, <1>4, ZenonT(30) DEF Next
<1>6. Clean(k)
  BY <1>5 DEF LeftByFaults
<1>7. QED
  BY <1>1, <1>6, CleanStays

LEMMA InitTraced == Init => Traced
<1> SUFFICES ASSUME Init PROVE Traced
  OBVIOUS
<1>1. Idles /\ Carries /\ Stored
  BY DEF Init, Idles, Carries, Stored, NoUpdates
<1>2. LeftByFaults
  BY Times DEF Init, LeftByFaults, Clean
<1>3. QED
  BY <1>1, <1>2, InitTypeOK DEF Traced

LEMMA NextTraced == Traced /\ [Next]_vars => Traced'
BY NextTypeOK, NextIdles, NextCarries, NextStored, NextLeft DEF Traced

(***************************************************************************)
(* What is stored goes back to an iteration that fetched it, in every      *)
(* state, however long iterations take.                                    *)
(***************************************************************************)
THEOREM Tracing == Spec => []Traced
BY InitTraced, NextTraced, PTL DEF Spec

(***************************************************************************)
(* Pollers, lock and what Redis holds are well typed.                      *)
(***************************************************************************)
THEOREM Typing == Spec => []TypeOK
<1>1. Traced => TypeOK
  BY DEF Traced
<1>2. QED
  BY <1>1, Tracing, PTL

(***************************************************************************)
(* Readers are never shown an update that the feed replaced or withdrew    *)
(* more than Horizon ticks ago (transit/store.py:17-20), whoever dies,     *)
(* fails or overlaps, and however long iterations take.                    *)
(***************************************************************************)
THEOREM NotFarBehind == Spec => []NeverFarBehind
<1>1. Traced => NeverFarBehind
  <2> SUFFICES ASSUME Traced, NEW t \in Trips, since[t] >= Horizon, trip[t].left > 0
               PROVE  trip[t].keys = Update(t)
    BY DEF NeverFarBehind, Shown
  <2>1. since[t] \in Nat /\ trip[t].left \in Nat /\ Horizon \in Nat
    BY Times DEF Traced, TypeOK
  <2>2. QED
    BY <2>1 DEF Traced, Stored
<1>2. QED
  BY <1>1, Tracing, PTL

-----------------------------------------------------------------------------
(***************************************************************************)
(* Now between the disturbances: nothing is missing for longer than it     *)
(* takes.  An overrun is over when the iteration is.                       *)
(***************************************************************************)
LEMMA Bounds ==
  ASSUME TypeOK
  PROVE  /\ lock \in Nat /\ lock <= LockTTL /\ calm \in Nat
         /\ \A w \in Workers : /\ clock[w] \in Nat /\ clock[w] <= PollMax
                               /\ nap[w] \in Nat /\ nap[w] <= Interval
         /\ \A t \in Trips : since[t] \in Nat /\ trip[t].left \in Nat
         /\ \A k \in Keys : index[k].left \in Nat
         /\ source.left \in Nat
BY Times DEF TypeOK

LEMMA AllowedBounds ==
  ASSUME TypeOK, NEW w \in Workers
  PROVE  /\ Unwritten(w) \in Nat /\ HasWritten(w) \in Nat
         /\ HasWritten(w) <= Unwritten(w)
         /\ OnTime /\ calm # 0 => Unwritten(w) <= Round
<1>1. /\ clock[w] \in Nat
      /\ OnTime /\ calm # 0 => clock[w] <= Timely
      /\ nap[w] \in Nat /\ nap[w] <= Interval
  BY Bounds DEF OnTime
<1>2. /\ Interval + Timely - nap[w] \in Nat
      /\ Interval + Timely - nap[w] <= Round
      /\ Interval + Timely + clock[w] \in Nat
      /\ OnTime /\ calm # 0 => Interval + Timely + clock[w] <= Round
      /\ clock[w] <= Interval + Timely + clock[w]
  BY <1>1, Times DEF Round
<1>3. CASE pc[w] = "sleeping"
  BY <1>2, <1>3, Times DEF Unwritten, HasWritten
<1>4. CASE pc[w] # "sleeping"
  BY <1>1, <1>2, <1>4 DEF Unwritten, HasWritten
<1>5. QED
  BY <1>3, <1>4

LEMMA Longer ==
  ASSUME TypeOK, NEW t \in Trips, NEW m \in Nat, NEW n \in Nat, m <= n
  PROVE  /\ TripWithin(t, m) => TripWithin(t, n)
         /\ SourceWithin(t, m) => SourceWithin(t, n)
         /\ \A k \in Keys : /\ SetWithin(t, k, m) => SetWithin(t, k, n)
                            /\ EntryWithin(t, k, m) => EntryWithin(t, k, n)
<1>1. Disturbed(t, m) => Disturbed(t, n)
  BY Bounds DEF Disturbed
<1>2. Disturbed(t, Round + m) => Disturbed(t, Round + n)
  BY Bounds, Times DEF Disturbed
<1>3. \A x \in Nat : x + m >= TTL => x + n >= TTL
  OBVIOUS
<1>4. /\ trip[t].left \in Nat /\ source.left \in Nat
      /\ \A k \in Keys : index[k].left \in Nat
  BY Bounds
<1>5. QED
  BY <1>1, <1>2, <1>3, <1>4 DEF TripWithin, SourceWithin, SetWithin, EntryWithin

(***************************************************************************)
(* What a step that is no fault does to Redis while time stands still.     *)
(***************************************************************************)
LEMMA Effects ==
  ASSUME TypeOK, Idles, [Next]_vars, ~Tick, calm' # 0
  PROVE  /\ calm' = calm
         /\ \A t \in Trips : /\ \/ Update(t)' = Update(t) /\ since'[t] = since[t]
                                \/ since'[t] = 0
                             /\ trip'[t].left \in {trip[t].left, TTL}
         /\ source'.left \in {source.left, TTL}
         /\ \A k \in Keys :
              /\ index[k].trips \subseteq index'[k].trips
              /\ \/ index'[k].left = index[k].left
                 \/ index[k].left = 0 /\ index'[k].left = Never
                 \/ index[k].left # 0 /\ index'[k].left = TTL
<1> DEFINE Feed == \A t \in Trips : \/ Update(t)' = Update(t) /\ since'[t] = since[t]
                                    \/ since'[t] = 0
           Stays == trip' = trip /\ source' = source /\ index' = index
<1>0. ~Fault
  BY DEF Fault
<1>1. ASSUME UNCHANGED <<feeds, since>> PROVE Feed
  BY <1>1, SameUpdates
<1>2. CASE Change
  <2>1. calm' = calm /\ Stays
    BY <1>2 DEF Change, redis, trouble
  <2>2. Feed
    BY <1>2, ChangedUpdates
  <2>3. QED
    BY <2>1, <2>2
<1>3. CASE UNCHANGED vars
  <2>1. calm' = calm /\ Stays
    BY <1>3 DEF vars, redis, trouble
  <2>2. UNCHANGED <<feeds, since>>
    BY <1>3 DEF vars
  <2>3. QED
    BY <1>1, <2>1, <2>2
<1>4. ASSUME NEW w \in Workers, TakeLock(w) \/ LockTaken(w) \/ Fetch(w)
      PROVE  calm' = calm /\ Stays /\ Feed
  <2>1. calm' = calm /\ Stays
    BY <1>4 DEF TakeLock, LockTaken, Fetch, redis, trouble
  <2>2. UNCHANGED <<feeds, since>>
    BY <1>4 DEF TakeLock, LockTaken, Fetch
  <2>3. QED
    BY <1>1, <2>1, <2>2
<1>5. ASSUME NEW w \in Workers, NEW t \in Trips, StoreTrip(w, t)
      PROVE  /\ calm' = calm /\ Feed /\ source' = source /\ index' = index
             /\ \A s \in Trips : trip'[s].left \in {trip[s].left, TTL}
  <2>1. Feed
    BY <1>1, <1>5 DEF StoreTrip
  <2>2. QED
    BY <1>5, <2>1 DEF StoreTrip, TypeOK, trouble
<1>6. ASSUME NEW w \in Workers, NEW k \in Keys, AddKey(w, k)
      PROVE  /\ calm' = calm /\ Feed /\ source' = source /\ trip' = trip
             /\ \A j \in Keys :
                  /\ index[j].trips \subseteq index'[j].trips
                  /\ \/ index'[j].left = index[j].left
                     \/ index[j].left = 0 /\ index'[j].left = Never
  <2>1. Feed
    BY <1>1, <1>6 DEF AddKey
  <2>2. calm' = calm /\ source' = source /\ trip' = trip
    BY <1>6 DEF AddKey, trouble
  <2>3. ASSUME NEW j \in Keys
        PROVE  /\ index[j].trips \subseteq index'[j].trips
               /\ \/ index'[j].left = index[j].left
                  \/ index[j].left = 0 /\ index'[j].left = Never
    <3>1. CASE j = k
      <4>1. index'[j] = [trips |-> index[j].trips \cup {at[w]},
                         left |-> IF index[j].left = 0 THEN Never ELSE index[j].left]
        BY <1>6, <3>1 DEF AddKey, TypeOK
      <4>2. QED
        BY <4>1
    <3>2. CASE j # k
      BY <1>6, <3>2 DEF AddKey, TypeOK
    <3>3. QED
      BY <3>1, <3>2
  <2>4. QED
    BY <2>1, <2>2, <2>3
<1>7. ASSUME NEW w \in Workers, ExpireKey(w)
      PROVE  /\ calm' = calm /\ Feed /\ source' = source /\ trip' = trip
             /\ \A j \in Keys :
                  /\ index'[j].trips = index[j].trips
                  /\ \/ index'[j].left = index[j].left
                     \/ index[j].left # 0 /\ index'[j].left = TTL
  <2>1. Feed
    BY <1>1, <1>7 DEF ExpireKey
  <2>2. calm' = calm /\ source' = source /\ trip' = trip
    BY <1>7 DEF ExpireKey, trouble
  <2>3. ASSUME NEW j \in Keys
        PROVE  /\ index'[j].trips = index[j].trips
               /\ \/ index'[j].left = index[j].left
                  \/ index[j].left # 0 /\ index'[j].left = TTL
    <3>1. CASE j = adding[w]
      <4>1. index'[j] = [trips |-> index[j].trips,
                         left |-> IF index[j].left = 0 THEN 0 ELSE TTL]
        BY <1>7, <3>1 DEF ExpireKey, TypeOK
      <4>2. QED
        BY <4>1
    <3>2. CASE j # adding[w]
      BY <1>7, <3>2 DEF ExpireKey, TypeOK
    <3>3. QED
      BY <3>1, <3>2
  <2>4. QED
    BY <2>1, <2>2, <2>3
<1>8. ASSUME NEW w \in Workers, StoreSource(w)
      PROVE  calm' = calm /\ Feed /\ source'.left = TTL /\ trip' = trip /\ index' = index
  <2>1. Feed
    BY <1>1, <1>8 DEF StoreSource
  <2>2. QED
    BY <1>8, <2>1 DEF StoreSource, trouble
<1>9. ASSUME NEW w \in Workers, Poll(w) \/ Crash(w)
      PROVE  \/ TakeLock(w) \/ LockTaken(w) \/ Fetch(w)
             \/ \E t \in Trips : StoreTrip(w, t)
             \/ \E k \in Keys : AddKey(w, k)
             \/ ExpireKey(w) \/ StoreSource(w)
  BY <1>0, <1>9 DEF Poll, LockFails, IterationFails, Crash
<1> HIDE DEF Feed
<1>10. ASSUME NEW w \in Workers, Poll(w) \/ Crash(w)
       PROVE  /\ calm' = calm /\ Feed
              /\ \A t \in Trips : trip'[t].left \in {trip[t].left, TTL}
              /\ source'.left \in {source.left, TTL}
              /\ \A k \in Keys :
                   /\ index[k].trips \subseteq index'[k].trips
                   /\ \/ index'[k].left = index[k].left
                      \/ index[k].left = 0 /\ index'[k].left = Never
                      \/ index[k].left # 0 /\ index'[k].left = TTL
  <2>1. CASE TakeLock(w) \/ LockTaken(w) \/ Fetch(w)
    BY <2>1, <1>4
  <2>2. CASE \E t \in Trips : StoreTrip(w, t)
    BY <2>2, <1>5
  <2>3. CASE \E k \in Keys : AddKey(w, k)
    BY <2>3, <1>6
  <2>4. CASE ExpireKey(w)
    BY <2>4, <1>7
  <2>5. CASE StoreSource(w)
    BY <2>5, <1>8
  <2>6. QED
    BY <1>9, <1>10, <2>1, <2>2, <2>3, <2>4, <2>5
<1>11. ~LockVanishes /\ ~Evict
  BY <1>0 DEF LockVanishes, Evict
<1> HIDE DEF Stays
<1>12. CASE Change \/ UNCHANGED vars
  BY <1>2, <1>3, <1>12 DEF Feed, Stays
<1>13. CASE \E w \in Workers : Poll(w) \/ Crash(w)
  BY <1>10, <1>13 DEF Feed
<1>14. QED
  BY <1>11, <1>12, <1>13 DEF Next

(***************************************************************************)
(* What was written in time still was after a step that takes no time; a   *)
(* fault is an excuse.                                                     *)
(***************************************************************************)
LEMMA Untimed ==
  ASSUME TypeOK, TypeOK', Idles, [Next]_vars, ~Tick,
         NEW t \in Trips, NEW k \in Keys, NEW n \in Nat
  PROVE  /\ calm' = 0 => Disturbed(t, n)' /\ Disturbed(t, Round + n)'
         /\ Disturbed(t, Round + n) => Disturbed(t, Round + n)'
         /\ TripWithin(t, n) => TripWithin(t, n)'
         /\ SourceWithin(t, n) => SourceWithin(t, n)'
         /\ SetWithin(t, k, n) => SetWithin(t, k, n)'
         /\ EntryWithin(t, k, n) => EntryWithin(t, k, n)'
<1>0. /\ trip[t].left \in Nat /\ source.left \in Nat /\ index[k].left \in Nat
      /\ Round \in Nat /\ TTL \in Nat /\ Never \in Nat /\ Never > TTL
      /\ Round < TTL
  BY Bounds, Times
<1>1. CASE calm' = 0
  BY <1>0, <1>1 DEF Disturbed, TripWithin, SourceWithin, SetWithin, EntryWithin
<1>2. CASE calm' # 0 /\ since'[t] = 0
  BY <1>0, <1>2 DEF Disturbed, TripWithin, SourceWithin, SetWithin, EntryWithin
<1>3. CASE calm' # 0 /\ since'[t] # 0
  <2>1. calm' = calm /\ Update(t)' = Update(t) /\ since'[t] = since[t]
    BY <1>3, Effects
  <2>2. /\ trip'[t].left \in {trip[t].left, TTL} /\ source'.left \in {source.left, TTL}
        /\ index[k].trips \subseteq index'[k].trips
        /\ \/ index'[k].left = index[k].left
           \/ index[k].left = 0 /\ index'[k].left = Never
           \/ index[k].left # 0 /\ index'[k].left = TTL
    BY <1>3, Effects
  <2>3. /\ Disturbed(t, n) => Disturbed(t, n)'
        /\ Disturbed(t, Round + n) => Disturbed(t, Round + n)'
    BY <2>1 DEF Disturbed
  <2>4. /\ trip[t].left + n >= TTL => trip'[t].left + n >= TTL
        /\ source.left + n >= TTL => source'.left + n >= TTL
        /\ index[k].left + n >= TTL => index'[k].left + n >= TTL
        /\ index[k].left = 0 => index'[k].left = 0 \/ index'[k].left + n >= TTL
    BY <1>0, <2>2
  <2>5. Clean(k) => Clean(k)'
    BY <1>3, CleanStays DEF Fault
  <2>6. index[k].left = 0 => Clean(k)
    BY <1>0 DEF Clean
  <2>7. TripWithin(t, n) => TripWithin(t, n)'
    BY <2>1, <2>3, <2>4 DEF TripWithin
  <2>8. SourceWithin(t, n) => SourceWithin(t, n)'
    BY <2>1, <2>3, <2>4 DEF SourceWithin
  <2>9. SetWithin(t, k, n) => SetWithin(t, k, n)'
    BY <2>1, <2>3, <2>4, <2>5, <2>6 DEF SetWithin
  <2>10. EntryWithin(t, k, n) => EntryWithin(t, k, n)'
    BY <2>1, <2>2, <2>3, <2>4 DEF EntryWithin
  <2>11. QED
    BY <1>3, <2>3, <2>7, <2>8, <2>9, <2>10
<1>4. QED
  BY <1>1, <1>2, <1>3

(***************************************************************************)
(* A tick makes it one tick longer ago.  It takes no entry from a set that *)
(* was renewed in time.                                                    *)
(***************************************************************************)
LEMMA Timed ==
  ASSUME TypeOK, TypeOK', Tick,
         NEW t \in Trips, NEW k \in Keys, NEW n \in Nat, n < Round
  PROVE  /\ Disturbed(t, n) => Disturbed(t, n + 1)'
         /\ Disturbed(t, Round + n) => Disturbed(t, Round + (n + 1))'
         /\ TripWithin(t, n) => TripWithin(t, n + 1)'
         /\ SourceWithin(t, n) => SourceWithin(t, n + 1)'
         /\ SetWithin(t, k, n) => SetWithin(t, k, n + 1)'
         /\ EntryWithin(t, k, n) => EntryWithin(t, k, n + 1)'
<1>0. /\ trip[t].left \in Nat /\ source.left \in Nat /\ index[k].left \in Nat
      /\ calm \in Nat /\ since[t] \in Nat
      /\ Round \in Nat /\ TTL \in Nat /\ Never \in Nat /\ Never > TTL
      /\ Round < TTL /\ index[k].left <= Never
  BY Bounds, Times DEF TypeOK
<1>1. Update(t)' = Update(t) /\ since'[t] <= since[t] + 1 /\ since'[t] \in Nat
  BY TickedSince, Times DEF TypeOK
<1>2. calm' <= calm + 1 /\ calm' \in Nat
  BY <1>0, Times DEF Tick, More, TypeOK
<1>3. trip'[t].left + 1 >= trip[t].left /\ trip'[t].left \in Nat
  <2>1. CASE trip[t].left > 1
    <3>1. trip'[t] = [keys |-> trip[t].keys, left |-> trip[t].left - 1]
      BY <2>1 DEF Tick
    <3>2. QED
      BY <1>0, <2>1, <3>1
  <2>2. CASE ~(trip[t].left > 1)
    <3>1. trip'[t] = [keys |-> {}, left |-> 0]
      BY <2>2 DEF Tick
    <3>2. QED
      BY <1>0, <2>2, <3>1
  <2>3. QED
    BY <2>1, <2>2
<1>4. source'.left + 1 >= source.left /\ source'.left \in Nat
  <2>1. CASE source.left > 1
    BY <1>0, <2>1 DEF Tick
  <2>2. CASE ~(source.left > 1)
    BY <1>0, <2>2 DEF Tick
  <2>3. QED
    BY <2>1, <2>2
<1>5. /\ index[k].left + n >= TTL =>
           index'[k].trips = index[k].trips /\ index'[k].left + (n + 1) >= TTL
      /\ index[k].left = 0 => index'[k].left = 0
      /\ Clean(k) => Clean(k)'
  <2>0. adding' = adding
    BY DEF Tick
  <2> USE <2>0 DEF Clean
  <2>1. CASE index[k].left = Never
    <3>1. index'[k] = index[k]
      BY <2>1 DEF Tick
    <3>2. QED
      BY <1>0, <2>1, <3>1
  <2>2. CASE index[k].left # Never /\ index[k].left > 1
    <3>1. index'[k] = [trips |-> index[k].trips, left |-> index[k].left - 1]
      BY <2>2 DEF Tick
    <3>2. QED
      BY <1>0, <2>2, <3>1
  <2>3. CASE index[k].left # Never /\ ~(index[k].left > 1)
    <3>1. index'[k] = [trips |-> {}, left |-> 0]
      BY <2>3 DEF Tick
    <3>2. QED
      BY <1>0, <2>3, <3>1
  <2>4. QED
    BY <2>1, <2>2, <2>3
<1>6. /\ Disturbed(t, n) => Disturbed(t, n + 1)'
      /\ Disturbed(t, Round + n) => Disturbed(t, Round + (n + 1))'
  <2>1. ASSUME NEW m \in Nat, Disturbed(t, m)
        PROVE  since'[t] <= m + 1 \/ calm' <= m + 1
    BY <1>0, <1>1, <1>2, <2>1 DEF Disturbed
  <2>2. Round + n \in Nat /\ Round + (n + 1) = (Round + n) + 1
    BY <1>0
  <2>3. Disturbed(t, n) => Disturbed(t, n + 1)'
    BY <2>1 DEF Disturbed
  <2>4. Disturbed(t, Round + n) => Disturbed(t, Round + (n + 1))'
    BY <2>1, <2>2 DEF Disturbed
  <2>5. QED
    BY <2>3, <2>4
<1>7. /\ trip[t].left + n >= TTL => trip'[t].left + (n + 1) >= TTL
      /\ source.left + n >= TTL => source'.left + (n + 1) >= TTL
  BY <1>0, <1>3, <1>4
<1>8. QED
  BY <1>1, <1>5, <1>6, <1>7 DEF TripWithin, SourceWithin, SetWithin, EntryWithin

(***************************************************************************)
(* Who waits or works still does, or is done, or somebody else has begun.  *)
(***************************************************************************)
LEMMA Handover ==
  ASSUME TypeOK, TypeOK', Idles, [Next]_vars, ~Tick, NEW c \in Workers, Returns(c)
  PROVE  \/ /\ Returns(c)'
            /\ Unwritten(c)' >= Unwritten(c)
            /\ HasWritten(c)' >= HasWritten(c)
         \/ /\ pc[c] = "sleeping"
            /\ \E w \in Workers : pc'[w] = "fetching"
         \/ calm' = 0 /\ \E w \in Workers : Returns(w)'
         \/ StoreSource(c)
<1> DEFINE Still == /\ Returns(c)'
                    /\ Unwritten(c)' >= Unwritten(c)
                    /\ HasWritten(c)' >= HasWritten(c)
<1>0. /\ lock \in Nat /\ lock' \in Nat /\ lock <= LockTTL
      /\ nap[c] \in Nat /\ nap[c] <= Interval /\ clock[c] \in Nat
      /\ LockTTL <= Interval /\ Timely \in Nat
  BY Bounds, Times, FitAssumption DEF TypeOK
<1>1. ASSUME pc'[c] = pc[c], nap'[c] = nap[c], clock'[c] = clock[c], lock' <= lock
      PROVE  Still
  <2>1. CASE pc[c] # "sleeping"
    BY <1>0, <1>1, <2>1 DEF Returns, Unwritten, HasWritten
  <2>2. CASE pc[c] = "sleeping" /\ lock <= nap[c]
    <3>1. lock' <= nap'[c]
      BY <1>0, <1>1, <2>2
    <3>2. QED
      BY <1>0, <1>1, <2>2, <3>1 DEF Returns, Unwritten, HasWritten
  <2>3. CASE pc[c] = "sleeping" /\ ~(lock <= nap[c])
    <3>1. nap[c] = 0
      BY <2>3 DEF Returns
    <3>2. QED
      BY <1>0, <1>1, <2>3, <3>1 DEF Returns, Unwritten, HasWritten
  <2>4. QED
    BY <2>1, <2>2, <2>3
<1>2. ASSUME pc[c] # "sleeping", pc'[c] # "sleeping", clock'[c] = clock[c]
      PROVE  Still
  BY <1>0, <1>2 DEF Returns, Unwritten, HasWritten
<1>3. ASSUME NEW w \in Workers, TakeLock(w)
      PROVE  Still \/ (pc[c] = "sleeping" /\ pc'[w] = "fetching")
  <2>1. CASE pc[c] = "sleeping"
    BY <1>3, <2>1 DEF TakeLock, Polls, TypeOK
  <2>2. CASE pc[c] # "sleeping"
    <3>1. w # c
      BY <1>3, <2>2 DEF TakeLock, Wakes
    <3>2. pc'[c] = pc[c] /\ clock'[c] = clock[c]
      BY <1>3, <3>1 DEF TakeLock, Polls, TypeOK
    <3>3. QED
      BY <1>2, <2>2, <3>2
  <2>3. QED
    BY <2>1, <2>2
<1>4. ASSUME NEW w \in Workers, LockTaken(w) PROVE Still
  <2>1. CASE w = c
    <3>1. /\ pc[c] = "sleeping" /\ nap[c] = 0 /\ lock > 0 /\ lock' = lock
          /\ pc'[c] = "sleeping" /\ nap'[c] = Interval
      BY <1>4, <2>1 DEF LockTaken, Wakes, Sleeps, EndsWith, TypeOK
    <3>2. ~(lock <= nap[c]) /\ lock' <= nap'[c]
      BY <1>0, <3>1
    <3>3. Interval + Timely - Interval = Timely /\ Timely >= Timely
      BY <1>0
    <3>4. QED
      BY <3>1, <3>2, <3>3 DEF Returns, Unwritten, HasWritten
  <2>2. CASE w # c
    <3>1. lock' = lock /\ pc'[c] = pc[c] /\ nap'[c] = nap[c] /\ clock'[c] = clock[c]
      BY <1>4, <2>2 DEF LockTaken, Sleeps, EndsWith, TypeOK
    <3>2. lock' <= lock
      BY <1>0, <3>1
    <3>3. QED
      BY <1>1, <3>1, <3>2
  <2>3. QED
    BY <2>1, <2>2
<1>5. ASSUME NEW w \in Workers, LockFails(w) \/ IterationFails(w) \/ Crash(w)
      PROVE  calm' = 0 /\ Returns(w)'
  <2>1. CASE LockFails(w)
    BY <2>1 DEF LockFails, Fault, Polls, Returns, TypeOK
  <2>2. CASE IterationFails(w)
    BY <1>0, <2>2 DEF IterationFails, Fault, Sleeps, EndsWith, Returns, TypeOK
  <2>3. CASE Crash(w)
    BY <2>3 DEF Crash, Fault, EndsWith, Returns, TypeOK
  <2>4. QED
    BY <1>5, <2>1, <2>2, <2>3
<1>6. ASSUME NEW w \in Workers,
             \/ Fetch(w) \/ \E t \in Trips : StoreTrip(w, t)
             \/ \E k \in Keys : AddKey(w, k)
             \/ ExpireKey(w)
      PROVE  Still
  <2>1. /\ lock' = lock /\ nap' = nap /\ clock' = clock
        /\ pc'[w] # "sleeping"
        /\ \A v \in Workers : v # w => pc'[v] = pc[v]
    <3>1. CASE Fetch(w)
      BY <3>1 DEF Fetch, TypeOK
    <3>2. CASE \E t \in Trips : StoreTrip(w, t)
      BY <3>2 DEF StoreTrip
    <3>3. CASE \E k \in Keys : AddKey(w, k)
      <4>1. pc[w] = "storing"
        <5>1. at[w] \in Trips /\ snap[w] # NoUpdates
          BY <3>3 DEF AddKey, TypeOK, NoUpdates
        <5>2. QED
          BY <5>1 DEF Idles
      <4>2. QED
        BY <3>3, <4>1 DEF AddKey
    <3>4. CASE ExpireKey(w)
      <4>1. pc[w] = "storing"
        <5>1. adding[w] # None
          BY <3>4 DEF ExpireKey
        <5>2. at[w] \in Trips /\ adding[w] \in snap[w][at[w]]
          BY <5>1 DEF Idles, TypeOK
        <5>3. QED
          BY <5>2 DEF Idles, NoUpdates
      <4>2. QED
        BY <3>4, <4>1 DEF ExpireKey
    <3>5. QED
      BY <1>6, <3>1, <3>2, <3>3, <3>4
  <2>2. CASE w = c
    <3>1. pc[c] # "sleeping"
      <4>1. CASE Fetch(w)
        BY <2>2, <4>1 DEF Fetch
      <4>2. CASE ~Fetch(w)
        BY <1>6, <2>1, <2>2, <4>2 DEF StoreTrip, AddKey, ExpireKey
      <4>3. QED
        BY <4>1, <4>2
    <3>2. QED
      BY <1>2, <2>1, <2>2, <3>1
  <2>3. CASE w # c
    <3>1. pc'[c] = pc[c] /\ lock' <= lock
      BY <1>0, <2>1, <2>3
    <3>2. QED
      BY <1>1, <2>1, <3>1
  <2>4. QED
    BY <2>2, <2>3
<1>7. ASSUME NEW w \in Workers, w # c, StoreSource(w) PROVE Still
  <2>1. lock' = lock /\ pc'[c] = pc[c] /\ nap'[c] = nap[c] /\ clock'[c] = clock[c]
    BY <1>7 DEF StoreSource, Sleeps, EndsWith, TypeOK
  <2>2. lock' <= lock
    BY <1>0, <2>1
  <2>3. QED
    BY <1>1, <2>1, <2>2
<1>8. CASE LockVanishes \/ Evict \/ Change \/ UNCHANGED vars
  <2>1. UNCHANGED <<pc, nap, clock>> /\ lock' \in {lock, 0}
    BY <1>8 DEF LockVanishes, Evict, Change, vars, poller
  <2>2. lock' <= lock
    BY <1>0, <2>1
  <2>3. QED
    BY <1>1, <2>1, <2>2
<1> HIDE DEF Still
<1>9. ASSUME NEW w \in Workers, Poll(w) \/ Crash(w)
      PROVE  \/ Still \/ StoreSource(c)
             \/ pc[c] = "sleeping" /\ pc'[w] = "fetching"
             \/ calm' = 0 /\ Returns(w)'
  BY <1>3, <1>4, <1>5, <1>6, <1>7, <1>9 DEF Poll
<1>10. QED
  BY <1>8, <1>9 DEF Next, Still

LEMMA AllowedAlways ==
  TypeOK => \A w \in Workers :
    /\ Unwritten(w) \in Nat /\ HasWritten(w) \in Nat
    /\ HasWritten(w) <= Unwritten(w)
BY AllowedBounds

LEMMA AllowedNext ==
  TypeOK' => \A w \in Workers :
    /\ Unwritten(w)' \in Nat /\ HasWritten(w)' \in Nat
    /\ HasWritten(w)' <= Unwritten(w)'
<1> DEFINE P == \A w \in Workers :
      /\ Unwritten(w) \in Nat /\ HasWritten(w) \in Nat
      /\ HasWritten(w) <= Unwritten(w)
<1>1. TypeOK => P
  BY AllowedAlways
<1> HIDE DEF P
<1>2. TypeOK' => P'
  BY <1>1, PTL
<1>3. QED
  BY <1>2 DEF P

(***************************************************************************)
(* Handover, with what the one who takes over is allowed.                  *)
(***************************************************************************)
LEMMA Passes ==
  ASSUME TypeOK, TypeOK', Idles, [Next]_vars, ~Tick, NEW c \in Workers, Returns(c)
  PROVE  \/ /\ Returns(c)'
            /\ Unwritten(c)' >= Unwritten(c)
            /\ HasWritten(c)' >= HasWritten(c)
         \/ \E w \in Workers : /\ Returns(w)' /\ pc'[w] = "fetching"
                               /\ Unwritten(w)' >= Unwritten(c)
         \/ calm' = 0 /\ \E w \in Workers : Returns(w)'
         \/ /\ StoreSource(c) /\ Returns(c)'
            /\ Unwritten(c)' = Timely /\ HasWritten(c)' = Timely
<1>0. /\ lock \in Nat /\ lock <= LockTTL /\ LockTTL <= Interval
      /\ nap[c] \in Nat /\ \A w \in Workers : clock'[w] \in Nat
      /\ Timely \in Nat
  BY Bounds, Times, FitAssumption DEF TypeOK
<1>1. ASSUME pc[c] = "sleeping", NEW w \in Workers, pc'[w] = "fetching"
      PROVE  Returns(w)' /\ Unwritten(w)' >= Unwritten(c)
  <2>1. clock'[w] \in Nat
    BY <1>0
  <2>2. Returns(w)'
    BY <1>1 DEF Returns
  <2>3. Unwritten(w)' = Interval + Timely + clock'[w]
    BY <1>1 DEF Unwritten, HasWritten
  <2>4. Unwritten(c) <= Interval + Timely
    BY <1>0, <1>1 DEF Unwritten, HasWritten
  <2>5. Unwritten(c) \in Nat
    BY AllowedAlways
  <2>6. Interval + Timely + clock'[w] >= Unwritten(c)
    <3>1. \A a, x, y \in Nat : a <= x => x + y >= a
      OBVIOUS
    <3>2. Interval + Timely \in Nat
      BY <1>0
    <3>3. QED
      BY <2>1, <2>4, <2>5, <3>1, <3>2
  <2>7. QED
    BY <2>2, <2>3, <2>6
<1>2. ASSUME StoreSource(c)
      PROVE  /\ Returns(c)'
             /\ Unwritten(c)' = Timely /\ HasWritten(c)' = Timely
  <2>1. pc'[c] = "sleeping" /\ nap'[c] = Interval /\ lock' = lock
    BY <1>2 DEF StoreSource, Sleeps, EndsWith, TypeOK
  <2>2. lock' <= nap'[c] /\ Interval + Timely - Interval = Timely
    BY <1>0, <2>1
  <2>3. QED
    BY <2>1, <2>2 DEF Returns, Unwritten, HasWritten
<1>3. QED
  BY <1>1, <1>2, Handover

LEMMA TickedAllowed ==
  ASSUME TypeOK, Tick, NEW c \in Workers, Returns(c)
  PROVE  /\ Returns(c)'
         /\ calm' # 0 =>
              /\ Unwritten(c)' = Unwritten(c) + 1 /\ Unwritten(c) < Round
              /\ HasWritten(c)' = HasWritten(c) + 1 /\ HasWritten(c) < Round
<1>0. /\ lock \in Nat /\ nap[c] \in Nat /\ nap[c] <= Interval
      /\ clock[c] \in Nat /\ pc' = pc /\ lock' = Less(lock)
      /\ Timely \in Nat
  BY Bounds, Times DEF Tick
<1>1. CASE pc[c] = "sleeping"
  <2>1. nap[c] > 0 /\ nap'[c] = nap[c] - 1 /\ lock <= nap[c]
    BY <1>0, <1>1 DEF Tick, Less, Returns
  <2>2. lock' <= nap'[c]
    BY <1>0, <2>1 DEF Less
  <2>3. /\ Interval + Timely - nap'[c] = Interval + Timely - nap[c] + 1
        /\ Interval + Timely - nap[c] < Round
    BY <1>0, <2>1 DEF Round
  <2>4. QED
    BY <1>0, <1>1, <2>1, <2>2, <2>3 DEF Returns, Unwritten, HasWritten
<1>2. CASE pc[c] # "sleeping"
  <2>1. clock'[c] = clock[c] + 1
    BY <1>2 DEF Tick
  <2>2. calm' # 0 => ~(clock'[c] > Timely)
    BY DEF Tick
  <2>3. Returns(c)'
    BY <1>0, <1>2 DEF Returns
  <2>4. ASSUME calm' # 0
        PROVE  /\ Unwritten(c)' = Unwritten(c) + 1 /\ Unwritten(c) < Round
               /\ HasWritten(c)' = HasWritten(c) + 1 /\ HasWritten(c) < Round
    <3>1. clock[c] < Timely
      BY <1>0, <2>1, <2>2, <2>4
    <3>2. QED
      BY <1>0, <1>2, <2>1, <3>1 DEF Unwritten, HasWritten, Round
  <2>5. QED
    BY <2>3, <2>4
<1>3. QED
  BY <1>1, <1>2

(***************************************************************************)
(* Who no longer carries something has written it.                         *)
(***************************************************************************)
LEMMA Written ==
  ASSUME TypeOK, TypeOK', Idles, Entries, Added, [Next]_vars, ~Tick, calm' # 0,
         NEW c \in Workers, NEW t \in Trips, NEW k \in Keys
  PROVE  /\ CarriesTrip(c, t) /\ ~CarriesTrip(c, t)' =>
              Update(t)' = {} \/ trip'[t].left = TTL
         /\ CarriesKey(c, t, k) /\ ~CarriesKey(c, t, k)' =>
              \/ k \notin Update(t)'
              \/ /\ index'[k].left \in {0, TTL}
                 /\ \/ t \in index'[k].trips /\ index'[k].left = TTL
                    \/ \A m \in Nat : m = clock[c] => Disturbed(t, Round + m)'
<1> USE DEF CarriesTrip, CarriesKey
<1>0. ~Fault
  BY DEF Fault
<1>1. ASSUME pc'[c] = pc[c], snap'[c] = snap[c], at'[c] = at[c]
      PROVE  /\ CarriesTrip(c, t) => CarriesTrip(c, t)'
             /\ CarriesKey(c, t, k) => CarriesKey(c, t, k)'
  BY <1>1
<1>2. CASE TakeLock(c)
  BY <1>2 DEF TakeLock, Polls, TypeOK
<1>3. CASE LockTaken(c) \/ StoreSource(c)
  BY <1>3 DEF LockTaken, StoreSource, Wakes, Idles, NoUpdates
<1>4. CASE Fetch(c)
  <2>1. pc'[c] = "storing" /\ snap'[c][t] = Update(t) /\ at' = at
    BY <1>4 DEF Fetch, TypeOK
  <2>2. at[c] # t
    BY <1>4 DEF Fetch, Idles, NoUpdates
  <2>3. Update(t)' = Update(t)
    BY <1>4, SameUpdates DEF Fetch
  <2>4. QED
    BY <2>1, <2>2, <2>3
<1>5. ASSUME NEW s \in Trips, StoreTrip(c, s)
      PROVE  /\ CarriesTrip(c, t) /\ ~CarriesTrip(c, t)' => trip'[t].left = TTL
             /\ CarriesKey(c, t, k) => CarriesKey(c, t, k)'
  <2>1. CASE s = t
    BY <1>5, <2>1 DEF StoreTrip, TypeOK
  <2>2. CASE s # t
    BY <1>5, <2>2 DEF StoreTrip, TypeOK
  <2>3. QED
    BY <2>1, <2>2
<1>6. CASE \E j \in Keys : AddKey(c, j)
  BY <1>1, <1>6 DEF AddKey
<1>7. CASE ExpireKey(c)
  <2>1. /\ adding[c] # None /\ Indexed(c) /\ pc' = pc
        /\ UNCHANGED <<feeds, since, calm, clock>>
    BY <1>7 DEF ExpireKey, trouble
  <2>2. /\ at[c] \in Trips /\ adding[c] \in snap[c][at[c]]
        /\ snap'[c][t] = IF t = at[c] THEN snap[c][t] \ {adding[c]} ELSE snap[c][t]
        /\ at'[c] = IF snap[c][at[c]] = {adding[c]} THEN None ELSE at[c]
    BY <2>1, IndexedEffect
  <2>3. CarriesTrip(c, t) => CarriesTrip(c, t)'
    BY <2>1, <2>2
  <2>4. ASSUME CarriesKey(c, t, k), ~CarriesKey(c, t, k)', k \in Update(t)'
        PROVE  /\ index'[k].left \in {0, TTL}
               /\ \/ t \in index'[k].trips /\ index'[k].left = TTL
                  \/ \A m \in Nat : m = clock[c] => Disturbed(t, Round + m)'
    <3>1. t = at[c] /\ k = adding[c]
      BY <2>1, <2>2, <2>4
    <3>2. index'[k] = [trips |-> index[k].trips,
                       left |-> IF index[k].left = 0 THEN 0 ELSE TTL]
      BY <1>7, <3>1 DEF ExpireKey, TypeOK
    <3>3. k \in Update(t)
      BY <2>1, <2>4, SameUpdates
    <3>4. t \in index[k].trips \/ Disturbed(t, Round + clock[c])
      BY <2>1, <3>1, <3>3 DEF Added
    <3>5. t \in index[k].trips => index[k].left # 0
      BY DEF Entries
    <3>6. Disturbed(t, Round + clock[c]) =>
            \A m \in Nat : m = clock[c] => Disturbed(t, Round + m)'
      BY <2>1 DEF Disturbed
    <3>7. QED
      BY <3>2, <3>4, <3>5, <3>6
  <2>5. QED
    BY <2>3, <2>4
<1>8. ASSUME NEW w \in Workers, w # c, Poll(w) \/ Crash(w)
      PROVE  pc'[c] = pc[c] /\ snap'[c] = snap[c] /\ at'[c] = at[c]
  BY <1>8 DEF Poll, TakeLock, LockTaken, LockFails, Polls, Fetch, StoreTrip, AddKey,
              ExpireKey, Indexed, StoreSource, IterationFails, Crash, Sleeps,
              EndsWith, TypeOK
<1>9. CASE LockVanishes \/ Evict \/ Change \/ UNCHANGED vars
  BY <1>1, <1>9 DEF LockVanishes, Evict, Change, vars, poller
<1>10. CASE Poll(c) \/ Crash(c)
  BY <1>0, <1>2, <1>3, <1>4, <1>5, <1>6, <1>7, <1>10
     DEF Poll, LockFails, IterationFails, Crash
<1> HIDE DEF CarriesTrip, CarriesKey
<1>11. QED
  BY <1>1, <1>8, <1>9, <1>10 DEF Next

(***************************************************************************)
(* The same with a number instead of Allowed, which the steps can keep.    *)
(***************************************************************************)
Due(w, carries, n) == /\ Returns(w)
                      /\ carries => n <= Unwritten(w)
                      /\ ~carries => n <= HasWritten(w)

TripDue(t) == \E w \in Workers, n \in Nat :
  Due(w, CarriesTrip(w, t), n) /\ TripWithin(t, n)
SourceDue(t) == \E w \in Workers, n \in Nat :
  Due(w, TRUE, n) /\ SourceWithin(t, n)
SetDue(t, k) == \E w \in Workers, n \in Nat :
  Due(w, CarriesKey(w, t, k), n) /\ SetWithin(t, k, n)
EntryDue(t, k) == \E w \in Workers, n \in Nat :
  Due(w, CarriesKey(w, t, k), n) /\ EntryWithin(t, k, n)

AllDue == /\ \A t \in Trips : TripDue(t) /\ SourceDue(t)
          /\ \A t \in Trips, k \in Keys : SetDue(t, k) /\ EntryDue(t, k)

Comes == TripComes /\ SourceComes /\ SetComes /\ EntryComes

LEMMA ComesDue == TypeOK => (Comes <=> AllDue)
<1> SUFFICES ASSUME TypeOK PROVE Comes <=> AllDue
  OBVIOUS
<1>1. \A w \in Workers : Unwritten(w) \in Nat /\ HasWritten(w) \in Nat
  BY AllowedBounds
<1>0. \A n \in Nat : n <= n
  OBVIOUS
<1>2. ASSUME NEW w \in Workers, NEW t \in Trips
      PROVE  Returns(w) /\ TripWithin(t, Allowed(w, CarriesTrip(w, t))) <=>
               \E n \in Nat : Due(w, CarriesTrip(w, t), n) /\ TripWithin(t, n)
  <2>1. CASE CarriesTrip(w, t)
    <3>1. Allowed(w, CarriesTrip(w, t)) = Unwritten(w)
      BY <2>1 DEF Allowed
    <3>2. \A n \in Nat : n <= Unwritten(w) /\ TripWithin(t, n) => TripWithin(t, Unwritten(w))
      BY <1>1, Longer
    <3>3. QED
      BY <1>0, <1>1, <2>1, <3>1, <3>2 DEF Due
  <2>2. CASE ~CarriesTrip(w, t)
    <3>1. Allowed(w, CarriesTrip(w, t)) = HasWritten(w)
      BY <2>2 DEF Allowed
    <3>2. \A n \in Nat : n <= HasWritten(w) /\ TripWithin(t, n) => TripWithin(t, HasWritten(w))
      BY <1>1, Longer
    <3>3. QED
      BY <1>0, <1>1, <2>2, <3>1, <3>2 DEF Due
  <2>3. QED
    BY <2>1, <2>2
<1>3. ASSUME NEW w \in Workers, NEW t \in Trips
      PROVE  Returns(w) /\ SourceWithin(t, Unwritten(w)) <=>
               \E n \in Nat : Due(w, TRUE, n) /\ SourceWithin(t, n)
  BY <1>1, Longer DEF Due
<1>4. ASSUME NEW w \in Workers, NEW t \in Trips, NEW k \in Keys
      PROVE  /\ Returns(w) /\ SetWithin(t, k, Allowed(w, CarriesKey(w, t, k))) <=>
                  \E n \in Nat : Due(w, CarriesKey(w, t, k), n) /\ SetWithin(t, k, n)
             /\ Returns(w) /\ EntryWithin(t, k, Allowed(w, CarriesKey(w, t, k))) <=>
                  \E n \in Nat : Due(w, CarriesKey(w, t, k), n) /\ EntryWithin(t, k, n)
  <2>1. CASE CarriesKey(w, t, k)
    <3>1. Allowed(w, CarriesKey(w, t, k)) = Unwritten(w)
      BY <2>1 DEF Allowed
    <3>2. \A n \in Nat : n <= Unwritten(w) =>
            /\ SetWithin(t, k, n) => SetWithin(t, k, Unwritten(w))
            /\ EntryWithin(t, k, n) => EntryWithin(t, k, Unwritten(w))
      BY <1>1, Longer
    <3>3. QED
      BY <1>0, <1>1, <2>1, <3>1, <3>2 DEF Due
  <2>2. CASE ~CarriesKey(w, t, k)
    <3>1. Allowed(w, CarriesKey(w, t, k)) = HasWritten(w)
      BY <2>2 DEF Allowed
    <3>2. \A n \in Nat : n <= HasWritten(w) =>
            /\ SetWithin(t, k, n) => SetWithin(t, k, HasWritten(w))
            /\ EntryWithin(t, k, n) => EntryWithin(t, k, HasWritten(w))
      BY <1>1, Longer
    <3>3. QED
      BY <1>0, <1>1, <2>2, <3>1, <3>2 DEF Due
  <2>3. QED
    BY <2>1, <2>2
<1>5. TripComes <=> \A t \in Trips : TripDue(t)
  BY <1>2 DEF TripComes, TripDue
<1>6. SourceComes <=> \A t \in Trips : SourceDue(t)
  BY <1>3 DEF SourceComes, SourceDue
<1>7. SetComes <=> \A t \in Trips, k \in Keys : SetDue(t, k)
  BY <1>4 DEF SetComes, SetDue
<1>8. EntryComes <=> \A t \in Trips, k \in Keys : EntryDue(t, k)
  BY <1>4 DEF EntryComes, EntryDue
<1>9. QED
  BY <1>5, <1>6, <1>7, <1>8 DEF Comes, AllDue

LEMMA ComesDueNext == TypeOK' => (Comes' <=> AllDue')
BY ComesDue, PTL

LEMMA DueBound ==
  ASSUME TypeOK, OnTime, calm # 0,
         NEW c \in Workers, NEW n \in Nat, NEW b \in BOOLEAN, Due(c, b, n)
  PROVE  n <= Round
<1>1. /\ HasWritten(c) \in Nat /\ Unwritten(c) \in Nat
      /\ HasWritten(c) <= Unwritten(c) /\ Unwritten(c) <= Round /\ Round \in Nat
  BY AllowedBounds, Times
<1>2. n <= Unwritten(c) \/ n <= HasWritten(c)
  BY DEF Due
<1>3. QED
  BY <1>1, <1>2

(***************************************************************************)
(* Who is due after a step.                                                *)
(***************************************************************************)
LEMMA DueNext ==
  ASSUME TypeOK, TypeOK', Idles, [Next]_vars, ~Tick, calm' # 0,
         NEW c \in Workers, NEW n \in Nat, NEW b \in BOOLEAN, Due(c, b, n)
  PROVE  \/ /\ \A x \in BOOLEAN : (b => x) => Due(c, x, n)'
            /\ \A m \in Nat : m <= HasWritten(c) => Due(c, FALSE, m)'
         \/ \E w \in Workers : pc'[w] = "fetching" /\ Due(w, TRUE, n)'
         \/ /\ StoreSource(c)
            /\ \A x \in BOOLEAN : \A m \in 0 .. Timely : Due(c, x, m)'
<1>1. /\ HasWritten(c) \in Nat /\ Unwritten(c) \in Nat
      /\ HasWritten(c) <= Unwritten(c)
      /\ \A w \in Workers : /\ Unwritten(w)' \in Nat /\ HasWritten(w)' \in Nat
                            /\ HasWritten(w)' <= Unwritten(w)'
  BY AllowedAlways, AllowedNext
<1>2. Returns(c) /\ n <= Unwritten(c) /\ (~b => n <= HasWritten(c))
  BY <1>1 DEF Due
<1>3. CASE /\ Returns(c)'
           /\ Unwritten(c)' >= Unwritten(c)
           /\ HasWritten(c)' >= HasWritten(c)
  <2>1. n <= Unwritten(c)' /\ (~b => n <= HasWritten(c)')
    BY <1>1, <1>2, <1>3
  <2>2. \A m \in Nat : m <= HasWritten(c) => m <= HasWritten(c)'
    BY <1>1, <1>3
  <2>3. QED
    BY <1>3, <2>1, <2>2 DEF Due
<1>4. CASE \E w \in Workers : /\ Returns(w)' /\ pc'[w] = "fetching"
                             /\ Unwritten(w)' >= Unwritten(c)
  <2>1. PICK w \in Workers : /\ Returns(w)' /\ pc'[w] = "fetching"
                             /\ Unwritten(w)' >= Unwritten(c)
    BY <1>4
  <2>2. n <= Unwritten(w)'
    BY <1>1, <1>2, <2>1
  <2>3. QED
    BY <2>1, <2>2 DEF Due
<1>5. CASE /\ StoreSource(c) /\ Returns(c)'
           /\ Unwritten(c)' = Timely /\ HasWritten(c)' = Timely
  BY <1>5 DEF Due
<1>6. QED
  BY <1>2, <1>3, <1>4, <1>5, Passes

LEMMA DueTicked ==
  ASSUME TypeOK, Tick, calm' # 0,
         NEW c \in Workers, NEW n \in Nat, NEW b \in BOOLEAN, Due(c, b, n)
  PROVE  Due(c, b, n + 1)' /\ n < Round
<1>1. /\ HasWritten(c) \in Nat /\ Unwritten(c) \in Nat /\ Round \in Nat
  BY AllowedAlways, Times
<1>2. /\ Returns(c)'
      /\ Unwritten(c)' = Unwritten(c) + 1 /\ Unwritten(c) < Round
      /\ HasWritten(c)' = HasWritten(c) + 1 /\ HasWritten(c) < Round
  BY TickedAllowed DEF Due
<1>3. CASE b
  <2>1. n <= Unwritten(c)
    BY <1>3 DEF Due
  <2>2. n + 1 <= Unwritten(c)' /\ n < Round
    BY <1>1, <1>2, <2>1
  <2>3. QED
    BY <1>2, <1>3, <2>2 DEF Due
<1>4. CASE ~b
  <2>1. n <= HasWritten(c)
    BY <1>4 DEF Due
  <2>2. n + 1 <= HasWritten(c)' /\ n < Round
    BY <1>1, <1>2, <2>1
  <2>3. QED
    BY <1>2, <1>4, <2>2 DEF Due
<1>5. QED
  BY <1>3, <1>4

(***************************************************************************)
(* An update has a key.                                                    *)
(***************************************************************************)
LEMMA UpdateKeys == TypeOK => \A t \in Trips : Update(t) \subseteq Keys
BY DEF TypeOK, Update

LEMMA UpdateKeysNext == TypeOK' => \A t \in Trips : Update(t)' \subseteq Keys
<1> DEFINE P == \A t \in Trips : Update(t) \subseteq Keys
<1>1. TypeOK => P
  BY UpdateKeys
<1> HIDE DEF P
<1>2. TypeOK' => P'
  BY <1>1, PTL
<1>3. QED
  BY <1>2 DEF P

(***************************************************************************)
(* A fault or an overrun excuses everything, if somebody comes afterwards. *)
(***************************************************************************)
LEMMA DisturbedComes ==
  ASSUME TypeOK', calm' = 0,
         Trips = {} \/ \E w \in Workers : Returns(w)'
  PROVE  Comes'
<1>0. 0 \in Nat /\ Round \in Nat
  BY Times
<1>1. CASE Trips = {}
  BY <1>1 DEF Comes, TripComes, SourceComes, SetComes, EntryComes
<1>2. CASE \E w \in Workers : Returns(w)'
  <2>1. PICK w \in Workers : Returns(w)'
    BY <1>2
  <2>2. Unwritten(w)' \in Nat /\ HasWritten(w)' \in Nat
    BY AllowedNext
  <2>3. Due(w, TRUE, 0)' /\ Due(w, FALSE, 0)'
    BY <2>1, <2>2 DEF Due
  <2>4. ASSUME NEW t \in Trips
        PROVE  Disturbed(t, 0)' /\ Disturbed(t, Round + 0)'
    BY <1>0 DEF Disturbed
  <2>5. AllDue'
    BY <1>0, <2>3, <2>4 DEF AllDue, TripDue, SourceDue, SetDue, EntryDue,
       TripWithin, SourceWithin, SetWithin, EntryWithin, CarriesTrip, CarriesKey, Due
  <2>6. QED
    BY <2>5, ComesDueNext
<1>3. QED
  BY <1>1, <1>2

LEMMA SomebodyComes ==
  ASSUME TypeOK, Comes
  PROVE  Trips = {} \/ \E w \in Workers : Returns(w)
BY DEF Comes, TripComes

LEMMA TickedComes ==
  ASSUME TypeOK, TypeOK', Comes, Tick
  PROVE  Comes'
<1>0. CASE calm' = 0
  BY <1>0, SomebodyComes, DisturbedComes, TickedAllowed
<1> SUFFICES ASSUME calm' # 0 PROVE Comes'
  BY <1>0
<1>1. ASSUME NEW t \in Trips PROVE TripDue(t)' /\ SourceDue(t)'
  <2>1. PICK w \in Workers, n \in Nat : Due(w, CarriesTrip(w, t), n) /\ TripWithin(t, n)
    BY ComesDue DEF AllDue, TripDue
  <2>2. CarriesTrip(w, t)' = CarriesTrip(w, t) /\ CarriesTrip(w, t) \in BOOLEAN
    BY DEF Tick, CarriesTrip
  <2>3. Due(w, CarriesTrip(w, t), n + 1)' /\ n < Round
    BY <2>1, <2>2, DueTicked DEF Due
  <2>4. PICK v \in Workers, m \in Nat : Due(v, TRUE, m) /\ SourceWithin(t, m)
    BY ComesDue DEF AllDue, SourceDue
  <2>5. Due(v, TRUE, m + 1)' /\ m < Round
    BY <2>4, DueTicked
  <2>6. TripWithin(t, n + 1)' /\ SourceWithin(t, m + 1)'
    <3>1. CASE Update(t)' = {}
      BY <3>1 DEF TripWithin, SourceWithin
    <3>2. CASE Update(t)' # {}
      <4>1. PICK k \in Keys : TRUE
        BY <3>2, UpdateKeysNext
      <4>2. QED
        BY <2>1, <2>3, <2>4, <2>5, <4>1, Timed
    <3>3. QED
      BY <3>1, <3>2
  <2>7. n + 1 \in Nat /\ m + 1 \in Nat
    OBVIOUS
  <2>8. QED
    BY <2>3, <2>5, <2>6, <2>7 DEF TripDue, SourceDue
<1>2. ASSUME NEW t \in Trips, NEW k \in Keys PROVE SetDue(t, k)' /\ EntryDue(t, k)'
  <2>1. PICK w \in Workers, n \in Nat : Due(w, CarriesKey(w, t, k), n) /\ SetWithin(t, k, n)
    BY ComesDue DEF AllDue, SetDue
  <2>2. PICK v \in Workers, m \in Nat : Due(v, CarriesKey(v, t, k), m) /\ EntryWithin(t, k, m)
    BY ComesDue DEF AllDue, EntryDue
  <2>3. /\ CarriesKey(w, t, k)' = CarriesKey(w, t, k) /\ CarriesKey(w, t, k) \in BOOLEAN
        /\ CarriesKey(v, t, k)' = CarriesKey(v, t, k) /\ CarriesKey(v, t, k) \in BOOLEAN
    BY DEF Tick, CarriesKey
  <2>4. Due(w, CarriesKey(w, t, k), n + 1)' /\ n < Round
    BY <2>1, <2>3, DueTicked DEF Due
  <2>5. Due(v, CarriesKey(v, t, k), m + 1)' /\ m < Round
    BY <2>2, <2>3, DueTicked DEF Due
  <2>6. SetWithin(t, k, n + 1)' /\ EntryWithin(t, k, m + 1)'
    BY <2>1, <2>2, <2>4, <2>5, Timed
  <2>7. n + 1 \in Nat /\ m + 1 \in Nat
    OBVIOUS
  <2>8. QED
    BY <2>4, <2>5, <2>6, <2>7 DEF SetDue, EntryDue
<1>3. AllDue'
  BY <1>1, <1>2 DEF AllDue
<1>4. QED
  BY <1>3, ComesDueNext

LEMMA UntimedComes ==
  ASSUME TypeOK, TypeOK', Idles, Entries, Added, OnTime, Comes, [Next]_vars, ~Tick
  PROVE  Comes'
<1>0. 0 \in Nat /\ Timely \in Nat /\ 0 \in 0 .. Timely /\ Round \in Nat /\ 0 <= Round /\ Timely <= Round
  BY Times
<1>1. CASE calm' = 0
  <2>1. ASSUME NEW c \in Workers, Returns(c)
        PROVE  \E w \in Workers : Returns(w)'
    BY <2>1, Passes
  <2>2. QED
    BY <1>1, <2>1, SomebodyComes, DisturbedComes
<1>2. CASE calm' # 0
  <2>1. ASSUME NEW c \in Workers, NEW t \in Trips, NEW k \in Keys, StoreSource(c)
        PROVE  /\ ~CarriesTrip(c, t) /\ ~CarriesKey(c, t, k)
               /\ HasWritten(c) \in 0 .. Timely
               /\ source'.left = TTL
    <3>1. pc[c] = "storing" /\ snap[c] = NoUpdates /\ source'.left = TTL
      BY <2>1 DEF StoreSource
    <3>2. calm > 0
      BY <1>2, Effects, Bounds
    <3>3. clock[c] \in 0 .. Timely
      BY <3>2, Bounds, Times DEF OnTime
    <3>4. QED
      BY <3>1, <3>3 DEF CarriesTrip, CarriesKey, NoUpdates, HasWritten
  <2>2. ASSUME NEW c \in Workers, pc[c] # "sleeping"
        PROVE  HasWritten(c) = clock[c] /\ clock[c] \in Nat /\ 0 <= clock[c]
               /\ clock[c] <= clock[c]
    BY <2>2, Bounds DEF HasWritten
  <2>3. ASSUME NEW t \in Trips, NEW k \in Keys PROVE TripDue(t)'
    <3>1. PICK c \in Workers, n \in Nat : Due(c, CarriesTrip(c, t), n) /\ TripWithin(t, n)
      BY ComesDue DEF AllDue, TripDue
    <3>2. PICK b \in BOOLEAN : b = CarriesTrip(c, t)
      BY DEF CarriesTrip
    <3>4. TripWithin(t, n)'
      BY <2>3, <3>1, Untimed
    <3>5. PICK x \in BOOLEAN : x = CarriesTrip(c, t)'
      BY DEF CarriesTrip
    <3>6. CASE \A m \in 0 .. Timely : Due(c, x, m)' /\ StoreSource(c)
      <4>1. n \in 0 .. Timely
        BY <2>1, <2>3, <3>1, <3>6, <1>0 DEF Due
      <4>2. Due(c, x, n)'
        BY <3>6, <4>1
      <4>3. QED
        BY <3>4, <3>5, <4>2 DEF TripDue, Due
    <3>7. CASE \E w \in Workers : pc'[w] = "fetching" /\ Due(w, TRUE, n)'
      BY <3>4, <3>7 DEF TripDue, Due, CarriesTrip
    <3>8. CASE /\ \A y \in BOOLEAN : (b => y) => Due(c, y, n)'
               /\ \A m \in Nat : m <= HasWritten(c) => Due(c, FALSE, m)'
      <4>1. CASE b => x
        <5>1. Due(c, x, n)'
          BY <3>8, <4>1
        <5>2. QED
          BY <3>4, <3>5, <5>1 DEF TripDue, Due
      <4>2. CASE b /\ ~x
        <5>1. pc[c] # "sleeping"
          BY <3>2, <4>2 DEF CarriesTrip, Idles, NoUpdates
        <5>2. Due(c, FALSE, 0)'
          BY <1>0, <2>2, <3>8, <5>1
        <5>3. Update(t)' = {} \/ trip'[t].left = TTL
          BY <1>2, <2>3, <3>2, <3>5, <4>2, Written
        <5>4. TripWithin(t, 0)'
          BY <5>3 DEF TripWithin
        <5>5. QED
          BY <1>0, <3>5, <4>2, <5>2, <5>4 DEF TripDue, Due
      <4>3. QED
        BY <4>1, <4>2
    <3>9. QED
      BY <1>2, <3>1, <3>2, <3>6, <3>7, <3>8, DueNext
  <2>4. ASSUME NEW t \in Trips, NEW k \in Keys PROVE SetDue(t, k)'
    <3>1. PICK c \in Workers, n \in Nat : Due(c, CarriesKey(c, t, k), n) /\ SetWithin(t, k, n)
      BY ComesDue DEF AllDue, SetDue
    <3>2. PICK b \in BOOLEAN : b = CarriesKey(c, t, k)
      BY DEF CarriesKey
    <3>4. SetWithin(t, k, n)'
      BY <2>4, <3>1, Untimed
    <3>5. PICK x \in BOOLEAN : x = CarriesKey(c, t, k)'
      BY DEF CarriesKey
    <3>6. CASE \A m \in 0 .. Timely : Due(c, x, m)' /\ StoreSource(c)
      <4>1. n \in 0 .. Timely
        BY <2>1, <2>4, <3>1, <3>6, <1>0 DEF Due
      <4>2. Due(c, x, n)'
        BY <3>6, <4>1
      <4>3. QED
        BY <3>4, <3>5, <4>2 DEF SetDue, Due
    <3>7. CASE \E w \in Workers : pc'[w] = "fetching" /\ Due(w, TRUE, n)'
      BY <3>4, <3>7 DEF SetDue, Due, CarriesKey
    <3>8. CASE /\ \A y \in BOOLEAN : (b => y) => Due(c, y, n)'
               /\ \A m \in Nat : m <= HasWritten(c) => Due(c, FALSE, m)'
      <4>1. CASE b => x
        <5>1. Due(c, x, n)'
          BY <3>8, <4>1
        <5>2. QED
          BY <3>4, <3>5, <5>1 DEF SetDue, Due
      <4>2. CASE b /\ ~x
        <5>1. pc[c] # "sleeping"
          BY <3>2, <4>2 DEF CarriesKey, Idles, NoUpdates
        <5>2. Due(c, FALSE, 0)'
          BY <1>0, <2>2, <3>8, <5>1
        <5>3. k \notin Update(t)' \/ index'[k].left \in {0, TTL}
          BY <1>2, <2>4, <3>2, <3>5, <4>2, Written
        <5>4. SetWithin(t, k, 0)'
          BY <5>3, Times DEF SetWithin, Clean
        <5>5. QED
          BY <1>0, <3>5, <4>2, <5>2, <5>4 DEF SetDue, Due
      <4>3. QED
        BY <4>1, <4>2
    <3>9. QED
      BY <1>2, <3>1, <3>2, <3>6, <3>7, <3>8, DueNext
  <2>5. ASSUME NEW t \in Trips, NEW k \in Keys PROVE EntryDue(t, k)'
    <3>1. PICK c \in Workers, n \in Nat : Due(c, CarriesKey(c, t, k), n) /\ EntryWithin(t, k, n)
      BY ComesDue DEF AllDue, EntryDue
    <3>2. PICK b \in BOOLEAN : b = CarriesKey(c, t, k)
      BY DEF CarriesKey
    <3>4. EntryWithin(t, k, n)'
      BY <2>5, <3>1, Untimed
    <3>5. PICK x \in BOOLEAN : x = CarriesKey(c, t, k)'
      BY DEF CarriesKey
    <3>6. CASE \A m \in 0 .. Timely : Due(c, x, m)' /\ StoreSource(c)
      <4>1. n \in 0 .. Timely
        BY <2>1, <2>5, <3>1, <3>6, <1>0 DEF Due
      <4>2. Due(c, x, n)'
        BY <3>6, <4>1
      <4>3. QED
        BY <3>4, <3>5, <4>2 DEF EntryDue, Due
    <3>7. CASE \E w \in Workers : pc'[w] = "fetching" /\ Due(w, TRUE, n)'
      BY <3>4, <3>7 DEF EntryDue, Due, CarriesKey
    <3>8. CASE /\ \A y \in BOOLEAN : (b => y) => Due(c, y, n)'
               /\ \A m \in Nat : m <= HasWritten(c) => Due(c, FALSE, m)'
      <4>1. CASE b => x
        <5>1. Due(c, x, n)'
          BY <3>8, <4>1
        <5>2. QED
          BY <3>4, <3>5, <5>1 DEF EntryDue, Due
      <4>2. CASE b /\ ~x
        <5>1. pc[c] # "sleeping"
          BY <3>2, <4>2 DEF CarriesKey, Idles, NoUpdates
        <5>2. PICK m \in Nat : m = clock[c] /\ m <= HasWritten(c)
          BY <2>2, <5>1
        <5>3. \/ k \notin Update(t)'
              \/ t \in index'[k].trips /\ index'[k].left = TTL
              \/ Disturbed(t, Round + m)'
          BY <1>2, <2>5, <3>2, <3>5, <4>2, <5>2, Written DEF Disturbed
        <5>4. Due(c, FALSE, m)'
          BY <3>8, <5>2
        <5>5. index'[k].left = TTL => index'[k].left + m >= TTL
          OBVIOUS
        <5>6. EntryWithin(t, k, m)'
          BY <5>3, <5>5 DEF EntryWithin
        <5>7. QED
          BY <3>5, <4>2, <5>4, <5>6 DEF EntryDue, Due
      <4>3. QED
        BY <4>1, <4>2
    <3>9. QED
      BY <1>2, <3>1, <3>2, <3>6, <3>7, <3>8, DueNext
  <2>6. ASSUME NEW t \in Trips, NEW k \in Keys PROVE SourceDue(t)'
    <3>1. PICK c \in Workers, n \in Nat : Due(c, TRUE, n) /\ SourceWithin(t, n)
      BY ComesDue DEF AllDue, SourceDue
    <3>3. SourceWithin(t, n)'
      BY <2>6, <3>1, Untimed
    <3>4. CASE StoreSource(c) /\ \A x \in BOOLEAN : \A m \in 0 .. Timely : Due(c, x, m)'
      <4>1. SourceWithin(t, 0)'
        BY <2>1, <2>6, <3>4 DEF SourceWithin
      <4>2. Due(c, TRUE, 0)'
        BY <1>0, <3>4
      <4>3. QED
        BY <1>0, <4>1, <4>2 DEF SourceDue
    <3>5. CASE \E w \in Workers : pc'[w] = "fetching" /\ Due(w, TRUE, n)'
      BY <3>3, <3>5 DEF SourceDue
    <3>6. CASE \A x \in BOOLEAN : (TRUE => x) => Due(c, x, n)'
      BY <3>3, <3>6 DEF SourceDue
    <3>7. QED
      BY <1>2, <3>1, <3>4, <3>5, <3>6, DueNext
  <2>7. ASSUME NEW t \in Trips, Update(t)' = {} PROVE TripDue(t)' /\ SourceDue(t)'
    <3>1. PICK c \in Workers, n \in Nat : Due(c, TRUE, n)
      BY ComesDue DEF AllDue, SourceDue
    <3>2. Due(c, TRUE, 0)
      BY <3>1, AllowedAlways DEF Due
    <3>3. 0 <= HasWritten(c)
      BY AllowedAlways
    <3>4. TripWithin(t, 0)' /\ SourceWithin(t, 0)'
      BY <2>7 DEF TripWithin, SourceWithin
    <3>5. CASE \E w \in Workers : pc'[w] = "fetching" /\ Due(w, TRUE, 0)'
      BY <1>0, <3>4, <3>5 DEF TripDue, SourceDue, Due, CarriesTrip
    <3>6. CASE Due(c, TRUE, 0)' /\ Due(c, FALSE, 0)'
      BY <1>0, <3>4, <3>6 DEF TripDue, SourceDue, Due
    <3>7. QED
      BY <1>0, <1>2, <3>2, <3>3, <3>5, <3>6, DueNext
  <2>8. ASSUME NEW t \in Trips PROVE TripDue(t)' /\ SourceDue(t)'
    <3>1. CASE Update(t)' = {}
      BY <2>7, <3>1
    <3>2. CASE Update(t)' # {}
      <4>1. PICK k \in Keys : TRUE
        BY <3>2, UpdateKeysNext
      <4>2. QED
        BY <2>3, <2>6, <4>1
    <3>3. QED
      BY <3>1, <3>2
  <2>9. AllDue'
    BY <2>4, <2>5, <2>8 DEF AllDue
  <2>10. QED
    BY <2>9, ComesDueNext
<1>3. QED
  BY <1>1, <1>2

(***************************************************************************)
(* No set expires that an update has been in for a round.                  *)
(***************************************************************************)
LEMMA SetStays ==
  ASSUME TypeOK, TypeOK', Comes, Tick, calm' # 0, NEW t \in Trips, NEW k \in Update(t),
         index[k].left # 0, index'[k].left = 0, NEW m \in Nat
  PROVE  Disturbed(t, Round + m)'
<1>0. k \in Keys
  BY UpdateKeys
<1>1. PICK w \in Workers, n \in Nat : Due(w, CarriesKey(w, t, k), n) /\ SetWithin(t, k, n)
  BY <1>0, ComesDue DEF AllDue, SetDue
<1>2. n < Round
  <2>1. PICK b \in BOOLEAN : b = CarriesKey(w, t, k)
    BY DEF CarriesKey
  <2>2. QED
    BY <1>1, <2>1, DueTicked
<1>3. index[k].left \in Nat /\ index[k].left <= 1
  <2>1. index[k].left \in Nat
    BY <1>0, Bounds
  <2>2. CASE index[k].left = Never
    <3>1. index'[k] = index[k]
      BY <1>0, <2>2 DEF Tick
    <3>2. QED
      BY <3>1
  <2>3. CASE index[k].left # Never /\ index[k].left > 1
    <3>1. index'[k] = [trips |-> index[k].trips, left |-> index[k].left - 1]
      BY <1>0, <2>3 DEF Tick
    <3>2. QED
      BY <2>1, <2>3, <3>1
  <2>4. QED
    BY <2>1, <2>2, <2>3
<1>4. Disturbed(t, n)
  <2>1. Round \in Nat /\ Round < TTL
    BY Times
  <2>2. ~(index[k].left + n >= TTL)
    BY <1>2, <1>3, <2>1
  <2>3. QED
    BY <1>1, <2>2 DEF SetWithin
<1>5. Disturbed(t, n + 1)'
  BY <1>0, <1>2, <1>4, Timed
<1>6. /\ n + 1 <= Round + m /\ Round + m \in Nat /\ since'[t] \in Nat /\ calm' \in Nat
  BY <1>2, Times DEF TypeOK
<1>7. QED
  BY <1>5, <1>6 DEF Disturbed

LEMMA NextAdded ==
  ASSUME TypeOK, TypeOK', Idles, Idles', Entries, Comes, Added, [Next]_vars
  PROVE  Added'
<1> SUFFICES ASSUME NEW v \in Workers, NEW t \in Trips, NEW k \in Keys, NEW m \in Nat,
                    adding'[v] = k, at'[v] = t, clock'[v] = m, k \in Update(t)'
             PROVE  t \in index'[k].trips \/ Disturbed(t, Round + m)'
  <2>1. ASSUME NEW v \in Workers, adding'[v] # None
        PROVE  at'[v] \in Trips /\ adding'[v] \in Keys /\ clock'[v] \in Nat
    BY <2>1 DEF Idles, TypeOK
  <2>2. QED
    BY <2>1 DEF Added, Disturbed
<1>0. Round \in Nat /\ Timely \in Nat /\ Timely <= Round
  BY Times
<1>1. CASE calm' = 0
  BY <1>0, <1>1 DEF Disturbed
<1>2. CASE Tick /\ calm' # 0
  <2>1. adding[v] = k /\ at[v] = t /\ Update(t)' = Update(t)
    BY <1>2, TickedSince DEF Tick
  <2>2. clock[v] \in Nat /\ m = clock[v] + 1
    <3>1. pc[v] # "sleeping"
      BY <2>1 DEF Idles, NoUpdates
    <3>2. QED
      BY <1>2, <3>1, Bounds DEF Tick
  <2>3. clock[v] < Round
    <3>1. ~(clock'[v] > Timely)
      BY <1>2 DEF Tick
    <3>2. QED
      BY <1>0, <2>2, <3>1
  <2>4. CASE Disturbed(t, Round + clock[v])
    <3>1. PICK n \in Nat : n = clock[v]
      BY <2>2
    <3>2. Disturbed(t, Round + (n + 1))'
      BY <1>2, <2>3, <2>4, <3>1, Timed
    <3>3. n + 1 = m
      BY <2>2, <3>1
    <3>4. QED
      BY <3>2, <3>3
  <2>5. CASE t \in index[k].trips
    <3>1. index[k].left # 0
      BY <2>5 DEF Entries
    <3>2. CASE index'[k].left = 0
      BY <1>2, <2>1, <3>1, <3>2, SetStays
    <3>3. CASE index'[k].left # 0
      <4>1. index'[k].trips = index[k].trips
        BY <1>2, <3>3 DEF Tick
      <4>2. QED
        BY <2>5, <4>1
    <3>4. QED
      BY <3>2, <3>3
  <2>6. QED
    BY <2>1, <2>4, <2>5 DEF Added
<1>3. CASE ~Tick /\ calm' # 0
  <2>1. CASE \E j \in Keys : AddKey(v, j)
    <3>1. PICK j \in Keys : AddKey(v, j)
      BY <2>1
    <3>2. j = k /\ at[v] = t
      BY <3>1 DEF AddKey, TypeOK
    <3>3. index'[k].trips = index[k].trips \cup {t}
      BY <3>1, <3>2 DEF AddKey, TypeOK
    <3>4. QED
      BY <3>3
  <2>2. CASE ~\E j \in Keys : AddKey(v, j)
    <3>1. adding[v] = k /\ at[v] = t /\ clock[v] = m
      <4>0. ~Fault /\ k # None
        BY <1>3 DEF Fault
      <4>1. CASE \E w \in Workers : w # v /\ (Poll(w) \/ Crash(w))
        BY <4>1 DEF Poll, TakeLock, LockTaken, LockFails, Polls, Fetch, StoreTrip, AddKey,
              ExpireKey, Indexed, StoreSource, IterationFails, Crash, Sleeps,
              EndsWith, TypeOK
      <4>2. CASE TakeLock(v) \/ Fetch(v)
        BY <4>2 DEF TakeLock, Polls, Fetch
      <4>3. ~LockTaken(v) /\ ~StoreSource(v)
        BY <4>0 DEF LockTaken, StoreSource, Sleeps, EndsWith, TypeOK
      <4>4. ~ExpireKey(v)
        BY <4>0 DEF ExpireKey, Indexed, TypeOK
      <4>5. ~\E s \in Trips : StoreTrip(v, s)
        BY <4>0 DEF StoreTrip, Idles
      <4>6. CASE LockVanishes \/ Evict \/ Change \/ UNCHANGED vars
        BY <4>6 DEF LockVanishes, Evict, Change, vars, poller
      <4>7. CASE Poll(v) \/ Crash(v)
        BY <2>2, <4>0, <4>2, <4>3, <4>4, <4>5, <4>7
           DEF Poll, LockFails, IterationFails, Crash
      <4>8. QED
        BY <1>3, <4>1, <4>6, <4>7 DEF Next
    <3>3. /\ Disturbed(t, Round + m) => Disturbed(t, Round + m)'
          /\ index[k].trips \subseteq index'[k].trips
          /\ Update(t)' = Update(t) \/ since'[t] = 0
      BY <1>3, Untimed, Effects
    <3>4. CASE Update(t)' = Update(t)
      <4>1. t \in index[k].trips \/ Disturbed(t, Round + m)
        <5>1. adding[v] # None /\ adding[v] \in Update(at[v])
          BY <3>1, <3>4
        <5>2. QED
          BY <3>1, <5>1 DEF Added
      <4>2. QED
        BY <3>3, <4>1
    <3>5. CASE since'[t] = 0
      BY <1>0, <3>5 DEF Disturbed
    <3>6. QED
      BY <3>3, <3>4, <3>5
  <2>3. QED
    BY <2>1, <2>2
<1>4. QED
  BY <1>1, <1>2, <1>3

(***************************************************************************)
(* Nothing empty is stored.                                                *)
(***************************************************************************)
LEMMA NextEntries ==
  ASSUME TypeOK, Idles, Entries, [Next]_vars
  PROVE  Entries'
<1>1. ASSUME trip' = trip, index' = index PROVE Entries'
  BY <1>1 DEF Entries
<1>2. ASSUME NEW w \in Workers, NEW s \in Trips, StoreTrip(w, s) PROVE Entries'
  <2>1. ASSUME NEW t \in Trips, trip'[t].left > 0 PROVE trip'[t].keys # {}
    BY <1>2, <2>1 DEF StoreTrip, Entries, TypeOK
  <2>2. QED
    BY <1>2, <2>1 DEF StoreTrip, Entries
<1>3. ASSUME NEW w \in Workers, NEW j \in Keys, AddKey(w, j) PROVE Entries'
  <2>1. ASSUME NEW k \in Keys, index'[k].left = 0 PROVE index'[k].trips = {}
    <3>1. CASE k = j
      <4>1. index'[k].left = IF index[k].left = 0 THEN Never ELSE index[k].left
        BY <1>3, <3>1 DEF AddKey, TypeOK
      <4>2. QED
        BY <2>1, <4>1, Times
    <3>2. CASE k # j
      BY <1>3, <2>1, <3>2 DEF AddKey, Entries, TypeOK
    <3>3. QED
      BY <3>1, <3>2
  <2>2. QED
    BY <1>3, <2>1 DEF AddKey, Entries
<1>4. ASSUME NEW w \in Workers, ExpireKey(w) PROVE Entries'
  <2>1. ASSUME NEW k \in Keys, index'[k].left = 0 PROVE index'[k].trips = {}
    <3>1. CASE k = adding[w]
      <4>1. index'[k] = [trips |-> index[k].trips,
                         left |-> IF index[k].left = 0 THEN 0 ELSE TTL]
        BY <1>4, <3>1 DEF ExpireKey, TypeOK
      <4>2. QED
        BY <2>1, <4>1 DEF Entries
    <3>2. CASE k # adding[w]
      BY <1>4, <2>1, <3>2 DEF ExpireKey, Entries, TypeOK
    <3>3. QED
      BY <3>1, <3>2
  <2>2. QED
    BY <1>4, <2>1 DEF ExpireKey, Entries
<1>5. CASE Evict
  <2>1. ASSUME NEW s \in Trips, trip' = [trip EXCEPT ![s] = [keys |-> {}, left |-> 0]],
               index' = index
        PROVE  Entries'
    <3>1. ASSUME NEW t \in Trips, trip'[t].left > 0 PROVE trip'[t].keys # {}
      <4>1. CASE t = s
        <5>1. trip'[t] = [keys |-> {}, left |-> 0]
          BY <2>1, <4>1 DEF TypeOK
        <5>2. QED
          BY <3>1, <5>1
      <4>2. CASE t # s
        BY <2>1, <3>1, <4>2 DEF Entries, TypeOK
      <4>3. QED
        BY <4>1, <4>2
    <3>2. QED
      BY <2>1, <3>1 DEF Entries
  <2>2. ASSUME NEW j \in Keys, index' = [index EXCEPT ![j] = [trips |-> {}, left |-> 0]],
               trip' = trip
        PROVE  Entries'
    <3>1. ASSUME NEW k \in Keys, index'[k].left = 0 PROVE index'[k].trips = {}
      <4>1. CASE k = j
        <5>1. index'[k] = [trips |-> {}, left |-> 0]
          BY <2>2, <4>1 DEF TypeOK
        <5>2. QED
          BY <5>1
      <4>2. CASE k # j
        BY <2>2, <3>1, <4>2 DEF Entries, TypeOK
      <4>3. QED
        BY <4>1, <4>2
    <3>2. QED
      BY <2>2, <3>1 DEF Entries
  <2>3. QED
    BY <1>1, <1>5, <2>1, <2>2 DEF Evict
<1>6. CASE Tick
  <2>1. ASSUME NEW t \in Trips, trip'[t].left > 0 PROVE trip'[t].keys # {}
    <3>1. trip'[t].keys = trip[t].keys /\ trip'[t].left = trip[t].left - 1
      BY <1>6, <2>1, TickedRedis
    <3>2. trip[t].left > 0
      BY <2>1, <3>1, Bounds
    <3>3. QED
      BY <3>1, <3>2 DEF Entries
  <2>2. ASSUME NEW k \in Keys, index'[k].left = 0 PROVE index'[k].trips = {}
    <3>1. CASE index[k].left = Never
      BY <1>6, <2>2, <3>1, Times DEF Tick
    <3>2. CASE index[k].left # Never /\ index[k].left > 1
      <4>1. index'[k] = [trips |-> index[k].trips, left |-> index[k].left - 1]
        BY <1>6, <3>2 DEF Tick
      <4>2. QED
        BY <2>2, <3>2, <4>1, Bounds
    <3>3. CASE index[k].left # Never /\ ~(index[k].left > 1)
      BY <1>6, <3>3 DEF Tick
    <3>4. QED
      BY <3>1, <3>2, <3>3
  <2>3. QED
    BY <2>1, <2>2 DEF Entries
<1>7. ASSUME NEW w \in Workers,
             \/ TakeLock(w) \/ LockTaken(w) \/ LockFails(w) \/ Fetch(w)
             \/ StoreSource(w) \/ IterationFails(w) \/ Crash(w)
      PROVE  Entries'
  BY <1>1, <1>7 DEF TakeLock, LockTaken, LockFails, Fetch, StoreSource,
                    IterationFails, Crash, redis
<1>8. CASE LockVanishes \/ Change \/ UNCHANGED vars
  BY <1>1, <1>8 DEF LockVanishes, Change, vars, redis
<1>9. QED
  BY <1>2, <1>3, <1>4, <1>5, <1>6, <1>7, <1>8 DEF Next, Poll

(***************************************************************************)
(* What a poller says of its feed is as old as what it fetched.            *)
(***************************************************************************)
LEMMA NextSaysFeed == TypeOK /\ Idles /\ SaysFeed /\ [Next]_vars => SaysFeed'
<1> SUFFICES ASSUME TypeOK, Idles, SaysFeed, [Next]_vars, NEW t \in Trips, Update(t)' # {}
             PROVE  /\ source'.left > 0 =>
                         source'.delfi = (t \in Delfi) \/ since'[t] + source'.left <= Horizon
                    /\ \A v \in Workers : pc'[v] = "storing" =>
                         used'[v] = (t \in Delfi) \/ since'[t] <= clock'[v]
  BY DEF SaysFeed
<1> DEFINE Said == source'.left > 0 =>
                     source'.delfi = (t \in Delfi) \/ since'[t] + source'.left <= Horizon
           Uses(v) == pc'[v] = "storing" =>
                        used'[v] = (t \in Delfi) \/ since'[t] <= clock'[v]
<1>0. /\ since[t] \in Nat /\ source.left \in 0 .. TTL /\ Horizon = TTL + PollMax
      /\ \A v \in Workers : clock[v] \in Nat /\ clock[v] <= PollMax
  BY Bounds DEF TypeOK, Horizon
<1>1. ASSUME UNCHANGED <<feeds, since>>
      PROVE  /\ Update(t)' = Update(t)
             /\ source' = source => Said
             /\ \A v \in Workers :
                  pc'[v] = pc[v] /\ used'[v] = used[v] /\ clock'[v] = clock[v] => Uses(v)
  <2>1. Update(t)' = Update(t)
    BY <1>1, SameUpdates
  <2>2. QED
    BY <1>1, <2>1 DEF SaysFeed
<1>2. ASSUME NEW w \in Workers, NEW n \in Nat, EndsWith(w, n), UNCHANGED <<feeds, since>>
      PROVE  \A v \in Workers : Uses(v)
  <2>1. Uses(w)
    BY <1>2, EndsEmpty
  <2>2. ASSUME NEW v \in Workers, v # w PROVE Uses(v)
    BY <1>1, <1>2, <2>2 DEF EndsWith, TypeOK
  <2>3. QED
    BY <2>1, <2>2
<1>3. ASSUME NEW w \in Workers, TakeLock(w) \/ LockFails(w)
      PROVE  Said /\ \A v \in Workers : Uses(v)
  <2>1. source' = source /\ UNCHANGED <<feeds, since>> /\ Polls(w)
    BY <1>3 DEF TakeLock, LockFails, redis
  <2>2. Uses(w)
    BY <2>1 DEF Polls, TypeOK
  <2>3. \A v \in Workers : v # w => Uses(v)
    BY <1>1, <2>1 DEF Polls, TypeOK
  <2>4. QED
    BY <1>1, <2>1, <2>2, <2>3
<1>4. ASSUME NEW w \in Workers, LockTaken(w) \/ IterationFails(w) \/ Crash(w)
      PROVE  Said /\ \A v \in Workers : Uses(v)
  <2>1. source' = source /\ UNCHANGED <<feeds, since>>
    BY <1>4 DEF LockTaken, IterationFails, Crash, redis
  <2>2. \E n \in Nat : EndsWith(w, n)
    BY <1>4 DEF LockTaken, IterationFails, Crash, Sleeps
  <2>3. QED
    BY <1>1, <1>2, <2>1, <2>2
<1>5. ASSUME NEW w \in Workers, Fetch(w)
      PROVE  Said /\ \A v \in Workers : Uses(v)
  <2>1. source' = source /\ UNCHANGED <<feeds, since, clock>>
    BY <1>5 DEF Fetch, redis
  <2>2. up = (t \in Delfi)
    BY <1>1, <2>1 DEF Update
  <2>3. Uses(w)
    BY <1>5, <2>2 DEF Fetch, TypeOK
  <2>4. \A v \in Workers : v # w => Uses(v)
    BY <1>1, <1>5, <2>1 DEF Fetch, TypeOK
  <2>5. QED
    BY <1>1, <2>1, <2>3, <2>4
<1>6. ASSUME NEW w \in Workers,
             \/ \E s \in Trips : StoreTrip(w, s)
             \/ \E k \in Keys : AddKey(w, k)
             \/ ExpireKey(w)
      PROVE  Said /\ \A v \in Workers : Uses(v)
  <2>1. source' = source /\ pc' = pc /\ used' = used /\ clock' = clock
        /\ UNCHANGED <<feeds, since>>
    BY <1>6 DEF StoreTrip, AddKey, ExpireKey
  <2>2. QED
    BY <1>1, <2>1
<1>7. ASSUME NEW w \in Workers, StoreSource(w)
      PROVE  Said /\ \A v \in Workers : Uses(v)
  <2>1. UNCHANGED <<feeds, since>> /\ EndsWith(w, Interval)
    BY <1>7 DEF StoreSource, Sleeps
  <2>2. used[w] = (t \in Delfi) \/ since[t] <= clock[w]
    BY <1>1, <1>7, <2>1 DEF SaysFeed, StoreSource
  <2>3. source' = [delfi |-> used[w], left |-> TTL] /\ since' = since
    BY <1>7 DEF StoreSource
  <2>4. CASE used[w] = (t \in Delfi)
    BY <1>2, <2>1, <2>3, <2>4
  <2>5. CASE since[t] <= clock[w]
    <3>1. since'[t] + source'.left <= Horizon
      BY <1>0, <2>3, <2>5
    <3>2. QED
      BY <1>2, <2>1, <3>1
  <2>6. QED
    BY <2>2, <2>4, <2>5
<1>8. CASE LockVanishes \/ Evict \/ UNCHANGED vars
  <2>1. source' = source \/ source'.left = 0
    BY <1>8 DEF LockVanishes, Evict, vars, redis
  <2>2. UNCHANGED <<feeds, since, pc, used, clock>>
    BY <1>8 DEF LockVanishes, Evict, vars, poller
  <2>3. QED
    BY <1>1, <2>1, <2>2
<1>9. CASE Change
  <2>1. source' = source /\ pc' = pc /\ used' = used /\ clock' = clock
    BY <1>9 DEF Change, redis, poller
  <2>2. CASE Update(t)' = Update(t) /\ since'[t] = since[t]
    BY <2>1, <2>2 DEF SaysFeed
  <2>3. CASE since'[t] = 0
    <3>1. since'[t] + source.left <= Horizon /\ \A v \in Workers : since'[t] <= clock[v]
      BY <1>0, <2>3
    <3>2. QED
      BY <2>1, <3>1
  <2>4. QED
    BY <1>9, <2>2, <2>3, ChangedUpdates
<1>10. CASE Tick
  <2>1. Update(t) # {} /\ since'[t] \in Nat /\ since'[t] <= since[t] + 1
    BY <1>0, <1>10, TickedSince, Times DEF Tick, More, TypeOK
  <2>2. Said
    <3>1. CASE source.left > 1
      <4>1. source'.delfi = source.delfi /\ source'.left = source.left - 1
        BY <1>10, <3>1 DEF Tick
      <4>2. source.delfi = (t \in Delfi) \/ since[t] + source.left <= Horizon
        <5>1. source.left > 0
          BY <1>0, <3>1
        <5>2. QED
          BY <2>1, <5>1 DEF SaysFeed
      <4>3. since[t] + source.left <= Horizon => since'[t] + (source.left - 1) <= Horizon
        BY <1>0, <2>1
      <4>4. QED
        BY <4>1, <4>2, <4>3
    <3>2. CASE ~(source.left > 1)
      <4>1. source' = [delfi |-> FALSE, left |-> 0]
        BY <1>10, <3>2 DEF Tick
      <4>2. QED
        BY <4>1
    <3>3. QED
      BY <3>1, <3>2
  <2>3. ASSUME NEW v \in Workers, pc'[v] = "storing"
        PROVE  used'[v] = (t \in Delfi) \/ since'[t] <= clock'[v]
    <3>1. pc[v] = "storing" /\ used'[v] = used[v] /\ clock'[v] = clock[v] + 1
      BY <1>10, <2>3 DEF Tick
    <3>2. used[v] = (t \in Delfi) \/ since[t] <= clock[v]
      BY <2>1, <3>1 DEF SaysFeed
    <3>3. since[t] <= clock[v] => since'[t] <= clock[v] + 1
      BY <1>0, <2>1
    <3>4. QED
      BY <3>1, <3>2, <3>3
  <2>4. QED
    BY <2>2, <2>3
<1>11. QED
  BY <1>3, <1>4, <1>5, <1>6, <1>7, <1>8, <1>9, <1>10 DEF Next, Poll

(***************************************************************************)
(* At the start nobody holds the lock, and everybody wakes at once.        *)
(***************************************************************************)
LEMMA InitComes == Init => Entries /\ SaysFeed /\ Added /\ OnTime /\ Comes
<1> SUFFICES ASSUME Init PROVE Entries /\ SaysFeed /\ Added /\ OnTime /\ Comes
  OBVIOUS
<1>1. Entries /\ SaysFeed
  BY DEF Init, Entries, SaysFeed
<1>2. Added /\ OnTime
  BY Times DEF Init, Added, OnTime
<1>3. TypeOK
  BY InitTypeOK
<1>4. PICK w \in Workers : TRUE
  BY FitAssumption
<1>5. Returns(w)
  BY DEF Init, Returns
<1>6. \A t \in Trips, n \in Nat : Disturbed(t, n) /\ Disturbed(t, Round + n)
  BY Times DEF Init, Disturbed
<1>7. /\ \A b \in BOOLEAN : Allowed(w, b) \in Nat
      /\ Unwritten(w) \in Nat
  BY <1>3, AllowedAlways DEF Allowed
<1>8. /\ \A t \in Trips : CarriesTrip(w, t) \in BOOLEAN
      /\ \A t \in Trips, k \in Keys : CarriesKey(w, t, k) \in BOOLEAN
  BY DEF CarriesTrip, CarriesKey
<1>9. TripComes /\ SourceComes
  BY <1>5, <1>6, <1>7, <1>8 DEF TripComes, SourceComes, TripWithin, SourceWithin
<1>10. SetComes /\ EntryComes
  BY <1>5, <1>6, <1>7, <1>8 DEF SetComes, EntryComes, SetWithin, EntryWithin
<1>11. QED
  BY <1>1, <1>2, <1>9, <1>10 DEF Comes

(***************************************************************************)
(* An iteration that overruns disturbs as long as it lasts.                *)
(***************************************************************************)
LEMMA NextOnTime ==
  ASSUME TypeOK, TypeOK', Idles, OnTime, [Next]_vars
  PROVE  OnTime'
<1>0. calm \in Nat /\ calm' \in Nat /\ Timely \in Nat
  BY Times DEF TypeOK
<1>1. CASE Tick
  <2>1. ASSUME calm' > 0, NEW w \in Workers PROVE clock'[w] <= Timely
    <3>1. ~(clock'[w] > Timely)
      BY <1>1, <2>1 DEF Tick
    <3>2. QED
      BY <1>0, <3>1 DEF TypeOK
  <2>2. QED
    BY <2>1 DEF OnTime
<1>2. CASE ~Tick
  <2>1. \A v \in Workers : clock'[v] \in {clock[v], 0}
    <3>1. ASSUME NEW w \in Workers, Poll(w) \/ Crash(w)
          PROVE  \A v \in Workers : clock'[v] \in {clock[v], 0}
      BY <3>1 DEF Poll, TakeLock, LockTaken, LockFails, Polls, Fetch, StoreTrip, AddKey,
                  ExpireKey, StoreSource, IterationFails, Crash, Sleeps, EndsWith, TypeOK
    <3>2. CASE LockVanishes \/ Evict \/ Change \/ UNCHANGED vars
      BY <3>2 DEF LockVanishes, Evict, Change, vars, poller
    <3>3. QED
      BY <1>2, <3>1, <3>2 DEF Next
  <2>2. calm' # 0 => calm' = calm
    BY <1>2, Effects
  <2>3. QED
    BY <1>0, <2>1, <2>2 DEF OnTime
<1>3. QED
  BY <1>1, <1>2

(***************************************************************************)
(* While what a timely iteration stores lives until the next one has       *)
(* stored it again, and the lock is gone when a sleep is over, somebody    *)
(* always comes in time (transit/poller.py:126-138).                       *)
(***************************************************************************)
THEOREM Inductive == Spec => []IInv
<1>1. Init => IInv
  <2>1. Init => Traced
    BY InitTraced
  <2>2. QED
    BY <2>1, InitComes DEF IInv, Comes
<1>2. IInv /\ [Next]_vars => IInv'
  <2> SUFFICES ASSUME IInv, [Next]_vars PROVE IInv'
    OBVIOUS
  <2>1. Traced /\ Entries /\ SaysFeed /\ Added /\ OnTime /\ Comes
    BY DEF IInv, Comes
  <2>2. Traced'
    BY <2>1, NextTraced
  <2>3. TypeOK /\ TypeOK' /\ Idles /\ Idles'
    BY <2>1, <2>2 DEF Traced
  <2>4. Entries' /\ SaysFeed' /\ Added' /\ OnTime'
    BY <2>1, <2>3, NextEntries, NextSaysFeed, NextAdded, NextOnTime
  <2>5. Comes'
    BY <2>1, <2>3, TickedComes, UntimedComes
  <2>6. QED
    BY <2>2, <2>4, <2>5 DEF IInv, Comes
<1>3. QED
  BY <1>1, <1>2, PTL DEF Spec

(***************************************************************************)
(* An update of the feed, and its entry in every set of its stops and its  *)
(* line, is there without a gap, unless something failed or overran not    *)
(* long ago (transit/poller.py:126-130).                                   *)
(***************************************************************************)
THEOREM Gapless == Spec => []NoGap
<1>1. IInv => NoGap
  <2> SUFFICES ASSUME IInv, calm = Recovery, NEW t \in Trips
               PROVE  /\ since[t] >= Horizon => Shown(t) = Update(t)
                      /\ since[t] >= Settled =>
                           \A k \in Update(t) : t \in Departures(k)
    BY DEF NoGap
  <2>0. TypeOK /\ OnTime /\ Stored /\ AllDue
    BY ComesDue DEF IInv, Traced, Comes
  <2>1. /\ Round \in Nat /\ Round < TTL /\ Recovery = 2 * Round + 1 /\ calm # 0
        /\ Horizon \in Nat /\ TTL <= Horizon /\ TTL \in Nat
        /\ since[t] \in Nat /\ trip[t].left \in Nat
    BY <2>0, Bounds, Times DEF Recovery, Horizon
  <2>2. ASSUME since[t] >= Horizon
        PROVE  /\ Shown(t) = Update(t)
               /\ Update(t) # {} => trip[t].left > 0
    <3>1. PICK w \in Workers, n \in Nat : Due(w, CarriesTrip(w, t), n) /\ TripWithin(t, n)
      BY <2>0 DEF AllDue, TripDue
    <3>2. n <= Round
      BY <2>0, <2>1, <3>1, DueBound DEF CarriesTrip
    <3>3. Update(t) = {} \/ trip[t].left + n >= TTL
      BY <2>1, <2>2, <3>1, <3>2 DEF TripWithin, Disturbed
    <3>4. Update(t) = {} \/ trip[t].left > 0
      BY <2>1, <3>2, <3>3
    <3>5. trip[t].left > 0 => trip[t].keys = Update(t)
      BY <2>0, <2>1, <2>2 DEF Stored
    <3>6. QED
      BY <3>4, <3>5 DEF Shown
  <2>3. ASSUME since[t] >= Settled, NEW k \in Update(t)
        PROVE  t \in Departures(k)
    <3>0. k \in Keys
      BY <2>0, UpdateKeys
    <3>1. since[t] >= Horizon /\ since[t] >= Recovery
      BY <2>1, <2>3 DEF Settled
    <3>2. PICK w \in Workers, n \in Nat :
            Due(w, CarriesKey(w, t, k), n) /\ EntryWithin(t, k, n)
      BY <2>0, <3>0 DEF AllDue, EntryDue
    <3>3. n <= Round
      BY <2>0, <2>1, <3>2, DueBound DEF CarriesKey
    <3>4. t \in index[k].trips /\ index[k].left + n >= TTL
      BY <2>1, <3>1, <3>2, <3>3 DEF EntryWithin, Disturbed
    <3>5. index[k].left > 0
      BY <2>0, <2>1, <3>0, <3>3, <3>4, Bounds
    <3>6. trip[t].left > 0
      BY <2>2, <3>1
    <3>7. QED
      BY <3>4, <3>5, <3>6 DEF Departures
  <2>4. QED
    BY <2>2, <2>3
<1>2. QED
  BY <1>1, Inductive, PTL

(***************************************************************************)
(* What is said of the feed fits the updates that are shown, unless the    *)
(* feed changed not long ago, however long iterations take; and something  *)
(* is said, so that the provenance does not expire before the updates      *)
(* stored with it, unless something failed or overran not long ago         *)
(* (api/v1/live.py:1123).                                                  *)
(***************************************************************************)
THEOREM Namespaces == Spec => []NamespacesMatch
<1>1. IInv => NamespacesMatch
  <2> SUFFICES ASSUME IInv, NEW t \in Trips, since[t] >= Horizon, trip[t].left > 0
               PROVE  /\ source.left > 0 => FromDelfi = (t \in Delfi)
                      /\ calm = Recovery => source.left > 0
    BY DEF NamespacesMatch
  <2>0. TypeOK /\ OnTime /\ Stored /\ Entries /\ SaysFeed /\ AllDue
    BY ComesDue DEF IInv, Traced, Comes
  <2>1. /\ Round \in Nat /\ Round < TTL /\ Recovery = 2 * Round + 1
        /\ Horizon \in Nat /\ TTL <= Horizon /\ TTL \in Nat
        /\ since[t] \in Nat /\ trip[t].left \in Nat /\ source.left \in Nat
    BY <2>0, Bounds, Times DEF Recovery, Horizon
  <2>2. Update(t) # {}
    BY <2>0, <2>1 DEF Stored, Entries
  <2>3. ASSUME calm = Recovery PROVE source.left > 0
    <3>1. PICK w \in Workers, n \in Nat : Due(w, TRUE, n) /\ SourceWithin(t, n)
      BY <2>0 DEF AllDue, SourceDue
    <3>2. n <= Round
      <4>1. calm # 0
        BY <2>1, <2>3
      <4>2. QED
        BY <2>0, <2>1, <3>1, <4>1, DueBound
    <3>3. source.left + n >= TTL
      BY <2>1, <2>2, <2>3, <3>1, <3>2 DEF SourceWithin, Disturbed
    <3>4. QED
      BY <2>1, <3>2, <3>3
  <2>4. ASSUME source.left > 0 PROVE FromDelfi = (t \in Delfi)
    <3>1. ~(since[t] + source.left <= Horizon)
      BY <2>1, <2>4
    <3>2. source.delfi = (t \in Delfi)
      BY <2>0, <2>2, <2>4, <3>1 DEF SaysFeed
    <3>3. source.delfi \in BOOLEAN
      BY <2>0 DEF TypeOK
    <3>4. QED
      BY <2>4, <3>2, <3>3 DEF FromDelfi
  <2>5. QED
    BY <2>3, <2>4
<1>2. QED
  BY <1>1, Inductive, PTL

(***************************************************************************)
(* Only a failure leaves a set without a TTL, and a timely round gives it  *)
(* one if the feed has an update for it (transit/store.py:89-98).          *)
(***************************************************************************)
THEOREM AllKeysExpire == Spec => []KeysExpire
<1>1. IInv => KeysExpire
  <2> SUFFICES ASSUME IInv, NEW k \in Keys, ~Clean(k)
               PROVE  /\ faults > 0
                      /\ \A t \in Trips : k \in Update(t) => Disturbed(t, Round)
    BY DEF KeysExpire
  <2>0. TypeOK /\ OnTime /\ LeftByFaults /\ AllDue
    BY ComesDue DEF IInv, Traced, Comes
  <2>1. faults > 0
    BY <2>0 DEF LeftByFaults, TypeOK
  <2>2. ASSUME NEW t \in Trips, k \in Update(t) PROVE Disturbed(t, Round)
    <3>0. calm \in Nat /\ since[t] \in Nat /\ Round \in Nat /\ Never \in Nat /\ Never > TTL
      BY <2>0, Bounds, Times
    <3>1. PICK w \in Workers, n \in Nat : Due(w, CarriesKey(w, t, k), n) /\ SetWithin(t, k, n)
      BY <2>0 DEF AllDue, SetDue
    <3>2. Disturbed(t, n)
      BY <2>2, <3>0, <3>1 DEF SetWithin, Clean
    <3>3. CASE calm = 0
      BY <3>0, <3>3 DEF Disturbed
    <3>4. CASE calm # 0
      <4>1. n <= Round
        BY <2>0, <3>1, <3>4, DueBound DEF CarriesKey
      <4>2. QED
        BY <3>0, <3>2, <4>1 DEF Disturbed
    <3>5. QED
      BY <3>3, <3>4
  <2>3. QED
    BY <2>1, <2>2
<1>2. QED
  BY <1>1, Inductive, PTL
=============================================================================
