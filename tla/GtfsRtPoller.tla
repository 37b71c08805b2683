----------------------------- MODULE GtfsRtPoller -----------------------------
(***************************************************************************)
(* transit/poller.py and transit/store.py: a poller in every worker, a     *)
(* lock per tick, a feed (DELFI, or gtfs.de while DELFI has nothing) and   *)
(* the trips Redis holds for the live routes (api/v1/live.py):             *)
(*                                                                         *)
(*   sleeping -> fetching -> storing -> sleeping                           *)
(*           `-> sleeping (lock taken)  `-> sleeping (an exception)        *)
(*                                                                         *)
(* Every Redis command of storing is awaited by itself: SET of a trip,     *)
(* then SADD and EXPIRE for each of its keys, the trips one after the      *)
(* other, the provenance last.                                             *)
(*                                                                         *)
(* An update is represented by the keys it is indexed under: its stops and *)
(* its line, as far as the poller knows it.  Updates without any are left  *)
(* out.                                                                    *)
(*                                                                         *)
(* How long an iteration takes depends on the feed: that of gtfs.de has    *)
(* 72,483 trips and 1.1 million stop times (adapters/gtfs_rt.py:50-53),    *)
(* each with two awaited commands.  So an iteration may overrun what       *)
(* interval and TTL leave it; it lasts PollMax ticks at most.              *)
(***************************************************************************)
EXTENDS Naturals

CONSTANTS
  Workers,      \* uvicorn processes
  Trips,        \* trip ids of both feeds
  Delfi,        \* those of DELFI; the others are ids of gtfs.de
  Keys,         \* index keys: stops and lines
  Interval,     \* ticks a poller sleeps (interval_s)
  LockTTL,      \* ticks the lock lives, less than Interval
  TTL,          \* ticks a trip, an index and the provenance live (ttl)
  PollMax,      \* bound: ticks an iteration lasts, however slow
  MaxChanges,   \* bound: changes of the feeds
  MaxFaults,    \* bound: failed calls, crashes, evictions
  None          \* no trip, no key

ASSUME RtAssumption ==
  /\ Delfi \subseteq Trips
  /\ Interval \in Nat \ {0} /\ LockTTL \in Nat /\ TTL \in Nat \ {0}
  /\ PollMax \in Nat
  /\ MaxChanges \in Nat /\ MaxFaults \in Nat
  /\ None \notin Trips /\ None \notin Keys

(* The lock lives 5 s less than the interval (poller.py:138), 45 s, which  *)
(* is half a TTL (poller.py:160, 202).                                     *)
ASSUME FitAssumption ==
  /\ Workers # {}
  /\ LockTTL <= Interval
  /\ Interval < TTL

VARIABLES
  up,        \* environment: DELFI answers, and with data
  listed,    \* environment: the keys of each trip in its feed; {}: no update
  changes,   \* changes of the feeds so far
  since,     \* history: ticks since the update to show last changed
  trip,      \* Redis, per trip: the keys of its update, ticks to live
  index,     \* Redis, per key: the trips of its set, ticks to live
  source,    \* Redis: DELFI is the provenance, ticks to live
  lock,      \* Redis: ticks the lock still lives; 0: nobody holds it
  pc,        \* where each worker's poller is
  nap,       \* ticks until a sleeping poller wakes
  clock,     \* ticks the iteration of a poller has lasted
  snap,      \* the updates a poller has fetched and not finished with
  used,      \* a poller's feed came from DELFI (used_source)
  at,        \* the trip a poller is indexing
  adding,    \* the key between SADD and EXPIRE
  faults,    \* faults so far
  calm       \* history: ticks since the last fault or overrun, or Recovery

feeds == <<up, listed, changes>>
redis == <<trip, index, source>>
trouble == <<faults, calm>>
poller == <<pc, nap, clock, snap, used, at, adding>>
vars == <<feeds, since, redis, lock, poller, trouble>>

Never == TTL + 1            \* index[k].left: the set has no TTL
Horizon == TTL + PollMax      \* ticks after which a change must be visible

(* Ticks an iteration may last if what one stores is to live until the     *)
(* next one has stored it again.                                           *)
Timely == (TTL - Interval - 1) \div 2

(* A timely iteration, the sleep after it and the next iteration: the      *)
(* longest time between two stores of an update.                           *)
Round == Interval + 2 * Timely

(* After so many ticks a fault or an overrun must be overcome, and an      *)
(* update be in its sets: two rounds, because an iteration may add to a    *)
(* set that expires before its EXPIRE.                                     *)
Recovery == 2 * Round + 1
Settled == IF Horizon < Recovery THEN Recovery ELSE Horizon

Less(n) == IF n > 0 THEN n - 1 ELSE 0
More(n, limit) == IF n < limit THEN n + 1 ELSE limit

(* The update of t in the feed that is polled. *)
Update(t) == IF up = (t \in Delfi) THEN listed[t] ELSE {}

(* What the readers see (get_trip_update, trips_for_stop, read_rt_source). *)
Shown(t) == IF trip[t].left > 0 THEN trip[t].keys ELSE {}
Departures(k) == {t \in Trips : trip[t].left > 0 /\ index[k].left > 0
                                /\ t \in index[k].trips}
FromDelfi == source.left > 0 /\ source.delfi

NoUpdates == [t \in Trips |-> {}]

Fault == faults < MaxFaults /\ faults' = faults + 1 /\ calm' = 0

Init ==
  /\ up \in BOOLEAN
  /\ listed \in [Trips -> SUBSET Keys]
  /\ changes = 0
  /\ since = [t \in Trips |-> 0]
  /\ trip = [t \in Trips |-> [keys |-> {}, left |-> 0]]
  /\ index = [k \in Keys |-> [trips |-> {}, left |-> 0]]
  /\ source = [delfi |-> FALSE, left |-> 0]
  /\ lock = 0
  /\ pc = [w \in Workers |-> "sleeping"]
  /\ nap = [w \in Workers |-> 0]
  /\ clock = [w \in Workers |-> 0]
  /\ snap = [w \in Workers |-> NoUpdates]
  /\ used = [w \in Workers |-> FALSE]
  /\ at = [w \in Workers |-> None]
  /\ adding = [w \in Workers |-> None]
  /\ faults = 0 /\ calm = Recovery

(* The iteration is over: its locals are gone. *)
EndsWith(w, ticks) ==
  /\ pc' = [pc EXCEPT ![w] = "sleeping"]
  /\ nap' = [nap EXCEPT ![w] = ticks]
  /\ clock' = [clock EXCEPT ![w] = 0]
  /\ snap' = [snap EXCEPT ![w] = NoUpdates]
  /\ used' = [used EXCEPT ![w] = FALSE]
  /\ at' = [at EXCEPT ![w] = None]
  /\ adding' = [adding EXCEPT ![w] = None]

Sleeps(w) == EndsWith(w, Interval)

-----------------------------------------------------------------------------
(* The lock of the tick, and the feed *)

Wakes(w) == pc[w] = "sleeping" /\ nap[w] = 0

Polls(w) ==
  /\ pc' = [pc EXCEPT ![w] = "fetching"]
  /\ UNCHANGED <<nap, clock, snap, used, at, adding>>

TakeLock(w) ==
  /\ Wakes(w) /\ lock = 0
  /\ lock' = LockTTL
  /\ Polls(w)
  /\ UNCHANGED <<feeds, since, redis, trouble>>

LockTaken(w) ==
  /\ Wakes(w) /\ lock > 0
  /\ Sleeps(w)
  /\ UNCHANGED <<feeds, since, redis, lock, trouble>>

(* A Redis error at the lock: poll anyway. *)
LockFails(w) ==
  /\ Wakes(w)
  /\ Fault
  /\ Polls(w)
  /\ UNCHANGED <<feeds, since, redis, lock>>

(* Mutant: the feed is taken for the changes since the last one.            *)
Fetch_Differential(w) ==
  /\ pc[w] = "fetching"
  /\ pc' = [pc EXCEPT ![w] = "storing"]
  /\ snap' = [snap EXCEPT ![w] =
                [t \in Trips |-> IF Update(t) = {} THEN Shown(t) ELSE Update(t)]]
  /\ used' = [used EXCEPT ![w] = up]
  /\ UNCHANGED <<feeds, since, redis, lock, nap, clock, at, adding, trouble>>

(* _fetch_with_fallback and parse_trip_updates. *)
Fetch(w) ==
  /\ pc[w] = "fetching"
  /\ pc' = [pc EXCEPT ![w] = "storing"]
  /\ snap' = [snap EXCEPT ![w] = [t \in Trips |-> Update(t)]]
  /\ used' = [used EXCEPT ![w] = up]
  /\ UNCHANGED <<feeds, since, redis, lock, nap, clock, at, adding, trouble>>

-----------------------------------------------------------------------------
(* store_updates_indexed and store_rt_source *)

StoreTrip(w, t) ==
  /\ pc[w] = "storing" /\ at[w] = None /\ snap[w][t] # {}
  /\ trip' = [trip EXCEPT ![t] = [keys |-> snap[w][t], left |-> TTL]]
  /\ at' = [at EXCEPT ![w] = t]
  /\ UNCHANGED <<feeds, since, index, source, lock, pc, nap, clock, snap, used,
                 adding, trouble>>

(* The next key, or the next trip. *)
Indexed(w) ==
  /\ snap' = [snap EXCEPT ![w][at[w]] = @ \ {adding[w]}]
  /\ at' = [at EXCEPT ![w] = IF snap[w][@] = {adding[w]} THEN None ELSE @]
  /\ adding' = [adding EXCEPT ![w] = None]

(* SADD creates a missing set, without a TTL. *)
AddKey(w, k) ==
  /\ at[w] # None /\ adding[w] = None /\ k \in snap[w][at[w]]
  /\ index' = [index EXCEPT ![k] =
                 [trips |-> @.trips \cup {at[w]},
                  left  |-> IF @.left = 0 THEN Never ELSE @.left]]
  /\ adding' = [adding EXCEPT ![w] = k]
  /\ UNCHANGED <<feeds, since, trip, source, lock, pc, nap, clock, snap, used,
                 at, trouble>>

(* Mutant: EXPIRE with NX: a set keeps the TTL it has.                      *)
ExpireKey_NX(w) ==
  /\ adding[w] # None
  /\ index' = [index EXCEPT ![adding[w]] =
                 [trips |-> @.trips,
                  left  |-> IF @.left = Never THEN TTL ELSE @.left]]
  /\ Indexed(w)
  /\ UNCHANGED <<feeds, since, trip, source, lock, pc, nap, clock, used,
                 trouble>>

(* Mutant: EXPIRE with XX: only a set with a TTL gets one.                  *)
ExpireKey_XX(w) ==
  /\ adding[w] # None
  /\ index' = [index EXCEPT ![adding[w]] =
                 [trips |-> @.trips,
                  left  |-> IF @.left \in {0, Never} THEN @.left ELSE TTL]]
  /\ Indexed(w)
  /\ UNCHANGED <<feeds, since, trip, source, lock, pc, nap, clock, used,
                 trouble>>

(* EXPIRE, which has no effect on a missing set. *)
ExpireKey(w) ==
  /\ adding[w] # None
  /\ index' = [index EXCEPT ![adding[w]] =
                 [trips |-> @.trips, left |-> IF @.left = 0 THEN 0 ELSE TTL]]
  /\ Indexed(w)
  /\ UNCHANGED <<feeds, since, trip, source, lock, pc, nap, clock, used,
                 trouble>>

(* Mutant: the configured source is recorded.                               *)
StoreSource_Configured(w) ==
  /\ pc[w] = "storing" /\ snap[w] = NoUpdates
  /\ source' = [delfi |-> TRUE, left |-> TTL]
  /\ Sleeps(w)
  /\ UNCHANGED <<feeds, since, trip, index, lock, trouble>>

StoreSource(w) ==
  /\ pc[w] = "storing" /\ snap[w] = NoUpdates
  /\ source' = [delfi |-> used[w], left |-> TTL]
  /\ Sleeps(w)
  /\ UNCHANGED <<feeds, since, trip, index, lock, trouble>>

(* The fetch or a Redis command raises, and the iteration is over. *)
IterationFails(w) ==
  /\ pc[w] # "sleeping"
  /\ Fault
  /\ Sleeps(w)
  /\ UNCHANGED <<feeds, since, redis, lock>>

-----------------------------------------------------------------------------
(* Environment and time *)

(* A worker dies or is shut down, at any await, and starts again. *)
Crash(w) ==
  /\ Fault
  /\ EndsWith(w, 0)
  /\ UNCHANGED <<feeds, since, redis, lock>>

LockVanishes ==
  /\ lock > 0
  /\ Fault
  /\ lock' = 0
  /\ UNCHANGED <<feeds, since, redis, poller>>

(* Redis evicts a key. *)
Evict ==
  /\ Fault
  /\ \/ \E t \in Trips : trip' = [trip EXCEPT ![t] = [keys |-> {}, left |-> 0]]
                         /\ UNCHANGED <<index, source>>
     \/ \E k \in Keys : index' = [index EXCEPT ![k] = [trips |-> {}, left |-> 0]]
                        /\ UNCHANGED <<trip, source>>
     \/ source' = [delfi |-> FALSE, left |-> 0] /\ UNCHANGED <<trip, index>>
  /\ UNCHANGED <<feeds, since, lock, poller>>

(* DELFI comes or goes, or a trip gets another update or none. *)
Change ==
  /\ changes < MaxChanges
  /\ changes' = changes + 1
  /\ \/ up' = ~up /\ listed' = listed
     \/ up' = up /\ \E t \in Trips : \E ks \in (SUBSET Keys) \ {listed[t]} :
                      listed' = [listed EXCEPT ![t] = ks]
  /\ since' = [t \in Trips |-> IF Update(t)' = Update(t) THEN since[t] ELSE 0]
  /\ UNCHANGED <<redis, lock, poller, trouble>>

Tick ==
  /\ \A w \in Workers :
       IF pc[w] = "sleeping" THEN nap[w] > 0 ELSE clock[w] < PollMax
  /\ since' = [t \in Trips |-> More(since[t], Settled)]
  /\ clock' = [w \in Workers |-> IF pc[w] = "sleeping" THEN 0 ELSE clock[w] + 1]
  /\ calm' = IF \E w \in Workers : clock'[w] > Timely THEN 0
             ELSE More(calm, Recovery)
  /\ trip' = [t \in Trips |->
                IF trip[t].left > 1
                THEN [keys |-> trip[t].keys, left |-> trip[t].left - 1]
                ELSE [keys |-> {}, left |-> 0]]
  /\ index' = [k \in Keys |->
                 IF index[k].left = Never THEN index[k]
                 ELSE IF index[k].left > 1
                 THEN [trips |-> index[k].trips, left |-> index[k].left - 1]
                 ELSE [trips |-> {}, left |-> 0]]
  /\ source' = IF source.left > 1
               THEN [delfi |-> source.delfi, left |-> source.left - 1]
               ELSE [delfi |-> FALSE, left |-> 0]
  /\ lock' = Less(lock)
  /\ nap' = [w \in Workers |-> Less(nap[w])]
  /\ UNCHANGED <<feeds, pc, snap, used, at, adding, faults>>

Poll(w) ==
  \/ TakeLock(w) \/ LockTaken(w) \/ LockFails(w)
  \/ Fetch(w)
  \/ \E t \in Trips : StoreTrip(w, t)
  \/ \E k \in Keys : AddKey(w, k)
  \/ ExpireKey(w) \/ StoreSource(w) \/ IterationFails(w)

Next ==
  \/ \E w \in Workers : Poll(w) \/ Crash(w)
  \/ LockVanishes \/ Evict \/ Change \/ Tick

Spec == Init /\ [][Next]_vars

-----------------------------------------------------------------------------
TypeOK ==
  /\ up \in BOOLEAN
  /\ listed \in [Trips -> SUBSET Keys]
  /\ changes \in 0 .. MaxChanges
  /\ since \in [Trips -> 0 .. Settled]
  /\ trip \in [Trips -> [keys : SUBSET Keys, left : 0 .. TTL]]
  /\ index \in [Keys -> [trips : SUBSET Trips, left : 0 .. Never]]
  /\ source \in [delfi : BOOLEAN, left : 0 .. TTL]
  /\ lock \in 0 .. LockTTL
  /\ pc \in [Workers -> {"sleeping", "fetching", "storing"}]
  /\ nap \in [Workers -> 0 .. Interval]
  /\ clock \in [Workers -> 0 .. PollMax]
  /\ snap \in [Workers -> [Trips -> SUBSET Keys]]
  /\ used \in [Workers -> BOOLEAN]
  /\ at \in [Workers -> Trips \cup {None}]
  /\ adding \in [Workers -> Keys \cup {None}]
  /\ faults \in 0 .. MaxFaults
  /\ calm \in 0 .. Recovery

(***************************************************************************)
(* "if the poller fails, outdated updates expire automatically"            *)
(* (store.py:17-20): whoever dies, overlaps or fails, and however long     *)
(* iterations take, a change of the feed is visible after Horizon ticks:   *)
(* what is shown is the current update or nothing.                         *)
(***************************************************************************)
NeverFarBehind ==
  \A t \in Trips : since[t] >= Horizon => Shown(t) \in {{}, Update(t)}

(***************************************************************************)
(* Why, inductively: what is stored is the current update, or was it when  *)
(* it was fetched, and so the change since then is younger than its TTL    *)
(* has run plus the time an iteration lasts.                               *)
(***************************************************************************)
Idles == \A w \in Workers :
  /\ pc[w] # "storing" => snap[w] = NoUpdates
  /\ at[w] = None => adding[w] = None
  /\ at[w] # None => IF adding[w] = None THEN snap[w][at[w]] # {}
                     ELSE adding[w] \in snap[w][at[w]]

Carries == \A w \in Workers, t \in Trips :
  t # at[w] /\ snap[w][t] # {} =>
    snap[w][t] = Update(t) \/ since[t] <= clock[w]

Stored == \A t \in Trips : trip[t].left > 0 =>
  trip[t].keys = Update(t) \/ since[t] + trip[t].left <= Horizon

(***************************************************************************)
(* Interval, lock and TTL fit each other (poller.py:138, 160, 202): an     *)
(* update the feed has is there without a gap, and so are its index        *)
(* entries once it has been stored twice, until something fails or an      *)
(* iteration overruns, and from Recovery ticks after that on.              *)
(***************************************************************************)
NoGap ==
  calm = Recovery => \A t \in Trips :
    /\ since[t] >= Horizon => Shown(t) = Update(t)
    /\ since[t] >= Settled => \A k \in Update(t) : t \in Departures(k)

(***************************************************************************)
(* "ensures ID namespace and static data always match" (live.py:1123): not *)
(* always, but once the feed has been in use for that long, the provenance *)
(* Redis has is that of the trips it has, however long iterations take;    *)
(* and it has one, so that it never expires before the trips, once nothing *)
(* has failed or overrun for that long.                                    *)
(***************************************************************************)
NamespacesMatch == \A t \in Trips :
  since[t] >= Horizon /\ trip[t].left > 0 =>
    /\ source.left > 0 => FromDelfi = (t \in Delfi)
    /\ calm = Recovery => source.left > 0

(* At most n ticks ago the update changed, something failed or overran. *)
Disturbed(t, n) == since[t] <= n \/ calm <= n

(***************************************************************************)
(* "All keys carry a TTL" (store.py:17): not between SADD and EXPIRE, and  *)
(* not after an iteration that ends there.  But only a failure leaves a    *)
(* set without one, and only until the next timely round, if the feed has  *)
(* an update for it.                                                       *)
(***************************************************************************)
Clean(k) == index[k].left = Never => \E w \in Workers : adding[w] = k

KeysExpire == \A k \in Keys :
  \/ Clean(k)
  \/ faults > 0 /\ \A t \in Trips : k \in Update(t) => Disturbed(t, Round)

(***************************************************************************)
(* Why there is no gap, inductively.  Somebody is at work, or sleeps and   *)
(* finds the lock free when it wakes, or has just started.                 *)
(***************************************************************************)
Returns(w) == pc[w] = "sleeping" => nap[w] = 0 \/ lock <= nap[w]

(* If what w writes is written every Round ticks, it was last written so   *)
(* many ticks ago at most, when w still has to write it, *)
Unwritten(w) ==
  IF pc[w] # "sleeping" THEN Interval + Timely + clock[w]
  ELSE IF lock <= nap[w] THEN Interval + Timely - nap[w] ELSE Timely

(* or has written it in this iteration. *)
HasWritten(w) == IF pc[w] # "sleeping" THEN clock[w] ELSE Unwritten(w)

Allowed(w, carries) == IF carries THEN Unwritten(w) ELSE HasWritten(w)

CarriesTrip(w, t) == pc[w] = "fetching" \/ (snap[w][t] # {} /\ at[w] # t)
CarriesKey(w, t, k) == pc[w] = "fetching" \/ k \in snap[w][t]

(* It is disturbed, or the update, the provenance was stored, *)
TripWithin(t, n) == \/ Update(t) = {} \/ Disturbed(t, n)
                    \/ trip[t].left + n >= TTL
SourceWithin(t, n) == \/ Update(t) = {} \/ Disturbed(t, n)
                      \/ source.left + n >= TTL

(* the set of a key was renewed, or is missing, *)
SetWithin(t, k, n) == \/ k \notin Update(t) \/ Disturbed(t, n)
                      \/ index[k].left = 0
                      \/ index[k].left + n >= TTL /\ Clean(k)

(* or it was renewed with the trip in it, as it is from the second round on. *)
EntryWithin(t, k, n) ==
  \/ k \notin Update(t) \/ Disturbed(t, Round + n)
  \/ t \in index[k].trips /\ index[k].left + n >= TTL

TripComes == \A t \in Trips : \E w \in Workers :
  Returns(w) /\ TripWithin(t, Allowed(w, CarriesTrip(w, t)))
SourceComes == \A t \in Trips : \E w \in Workers :
  Returns(w) /\ SourceWithin(t, Unwritten(w))
SetComes == \A t \in Trips, k \in Keys : \E w \in Workers :
  Returns(w) /\ SetWithin(t, k, Allowed(w, CarriesKey(w, t, k)))
EntryComes == \A t \in Trips, k \in Keys : \E w \in Workers :
  Returns(w) /\ EntryWithin(t, k, Allowed(w, CarriesKey(w, t, k)))

(* Since sets no longer expire in the second round, what is added stays. *)
Added == \A w \in Workers : adding[w] # None /\ adding[w] \in Update(at[w]) =>
  \/ at[w] \in index[adding[w]].trips
  \/ Disturbed(at[w], Round + clock[w])

(* Nothing is empty, and the feed that is said is in use, or was when the  *)
(* update changed.                                                         *)
Entries == /\ \A t \in Trips : trip[t].left > 0 => trip[t].keys # {}
           /\ \A k \in Keys : index[k].left = 0 => index[k].trips = {}

SaysFeed == \A t \in Trips : Update(t) # {} =>
  /\ source.left > 0 =>
       source.delfi = (t \in Delfi) \/ since[t] + source.left <= Horizon
  /\ \A w \in Workers : pc[w] = "storing" =>
       used[w] = (t \in Delfi) \/ since[t] <= clock[w]

(* An iteration that takes longer is a disturbance as long as it lasts.    *)
OnTime == calm > 0 => \A w \in Workers : clock[w] <= Timely

(* A set nobody is about to give a TTL is left by a failure.               *)
LeftByFaults == faults = 0 => \A k \in Keys : Clean(k)

(* What holds however long iterations take, and what holds between them.   *)
Traced == TypeOK /\ Idles /\ Carries /\ Stored /\ LeftByFaults

IInv == /\ Traced /\ Entries /\ SaysFeed /\ Added /\ OnTime
        /\ TripComes /\ SourceComes /\ SetComes /\ EntryComes

=============================================================================
