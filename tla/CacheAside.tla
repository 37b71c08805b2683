------------------------------ MODULE CacheAside ------------------------------
(***************************************************************************)
(* infra/cache.py: cache_get_or_set for one key, called by many tasks of   *)
(* all workers at once (the helper keeps no state of its own: everything   *)
(* shared is in Redis).  A request goes                                    *)
(*                                                                         *)
(*   idle -> get -> got -> answered                   fresh: HIT           *)
(*                   |-> lock -> answered             stale: STALE         *)
(*                   `-> lock -> fetch -> store -> answered   cold: MISS   *)
(*                          `-> wait -> answered | fetch      lock taken   *)
(*                                                                         *)
(* and a stale reader that takes the lock starts a background refresh      *)
(* (fetch -> store) in a task of its own.                                  *)
(*                                                                         *)
(* Time.  A tick is some seconds.  A Redis round trip takes less: Tick     *)
(* waits for it (a slower one is a Redis error, which is modelled).  Only  *)
(* a task whose GET is answered may be late, when another task blocks the  *)
(* event loop: its reply ages meanwhile.  An upstream call lasts at most   *)
(* FetchMax ticks (the HTTP timeouts, times the requests of one fetch_fn), *)
(* which may be longer than the lock lives and than a loser waits.         *)
(* A task makes one request per tick.  Payloads are represented by a       *)
(* version the source's data had while the upstream call was on its way.   *)
(***************************************************************************)
EXTENDS Naturals, FiniteSets

CONSTANTS
  Requests,   \* tasks that serve requests
  Refreshers, \* tasks for background refreshes (app.state.bg_tasks)
  FreshFor,   \* ttl: ticks an entry is fresh
  StaleFor,   \* ttl_stale: ticks until Redis drops the entry
  LockTTL,    \* ticks until the single-flight lock expires
  WaitMax,    \* ticks a loser of the lock waits for the winner's entry
  FetchMax,   \* bound: ticks an upstream call lasts
  MaxVersion, \* bound: changes of the source's data
  MaxFaults,  \* bound: Redis errors, evictions, aborted tasks
  MayFail,    \* whether the upstream call may raise
  NoEntry     \* the key is not in Redis

Tasks == Requests \cup Refreshers

Entry == [age : 0 .. StaleFor, version : 0 .. MaxVersion]

ASSUME CacheAssumption ==
  /\ Requests \cap Refreshers = {}
  /\ FreshFor \in Nat /\ StaleFor \in Nat \ {0} /\ FreshFor <= StaleFor
  /\ LockTTL <= StaleFor            \* 10 s, and at least a minute
  /\ LockTTL \in Nat \ {0} /\ WaitMax \in Nat \ {0}
  /\ FetchMax \in Nat /\ MaxVersion \in Nat /\ MaxFaults \in Nat
  /\ MayFail \in BOOLEAN
  /\ NoEntry \notin Entry \cup Nat

VARIABLES
  entry,   \* the value under the cache key, or NoEntry
  lock,    \* ticks the lock still lives; 0: nobody holds it
  pc,      \* where each task is
  copy,    \* what a task carries: the reply to its GET, or the payload of its
           \*   upstream call, at first the oldest it may turn out to be
  clock,   \* ticks a task has waited for the winner, or for its upstream call
  answer,  \* the answer of a request that is done in this tick
  version, \* environment: version of the source's data
  up,      \* environment: the source answers
  faults   \* faults used up so far

vars == <<entry, lock, pc, copy, clock, answer, version, up, faults>>

Places == {"idle", "get", "got", "stale", "cold", "wait",
           "fetch", "store", "raised", "answered"}

NoAnswer == [status |-> "NONE", payload |-> NoEntry]

Goto(t, place) == pc' = [pc EXCEPT ![t] = place]

Fault == faults < MaxFaults /\ faults' = faults + 1

Fresh(e) == e # NoEntry /\ e.age < FreshFor
Gone(e) == e # NoEntry => e.age >= StaleFor

EntryAged(e) == IF Gone(e) THEN e ELSE [e EXCEPT !.age = @ + 1]

Carries(t, e) == copy' = [copy EXCEPT ![t] = e]

(* The request returns (payload, status) and its task is done for now. *)
Answers(t, status, v) ==
  /\ Goto(t, "answered")
  /\ answer' = [answer EXCEPT ![t] = [status |-> status, payload |-> v]]
  /\ Carries(t, NoEntry)
  /\ clock' = [clock EXCEPT ![t] = 0]

Payload(v) == [age |-> 0, version |-> v]

StartsFetch(t) ==
  /\ Goto(t, "fetch")
  /\ Carries(t, Payload(version))
  /\ clock' = [clock EXCEPT ![t] = 0]

Init ==
  /\ entry = NoEntry
  /\ lock = 0
  /\ pc = [t \in Tasks |-> "idle"]
  /\ copy = [t \in Tasks |-> NoEntry]
  /\ clock = [t \in Tasks |-> 0]
  /\ answer = [t \in Requests |-> NoAnswer]
  /\ version = 0
  /\ up \in (IF MayFail THEN BOOLEAN ELSE {TRUE})
  /\ faults = 0

-----------------------------------------------------------------------------
(* 1. Read the cache *)

Request(t) ==
  /\ pc[t] = "idle"
  /\ Goto(t, "get")
  /\ UNCHANGED <<entry, lock, copy, clock, answer, version, up, faults>>

Get(t) ==
  /\ pc[t] = "get"
  /\ Carries(t, entry)
  /\ Goto(t, "got")
  /\ UNCHANGED <<entry, lock, clock, answer, version, up, faults>>

(* redis_ok is False: no lock is tried, the request fetches for itself. *)
GetFails(t) ==
  /\ pc[t] = "get"
  /\ Fault
  /\ StartsFetch(t)
  /\ UNCHANGED <<entry, lock, answer, version, up>>

Hit(t) ==
  /\ pc[t] = "got"
  /\ Fresh(copy[t])
  /\ Answers(t, "HIT", copy[t].version)
  /\ UNCHANGED <<entry, lock, version, up, faults>>

NotFresh(t) ==
  /\ pc[t] = "got"
  /\ ~Fresh(copy[t])
  /\ Goto(t, IF Gone(copy[t]) THEN "cold" ELSE "stale")
  /\ UNCHANGED <<entry, lock, copy, clock, answer, version, up, faults>>

-----------------------------------------------------------------------------
(* 2. SET NX EX on the lock, which nobody ever deletes *)

(* Stale and the lock won: answer, and refresh in the background. *)
StaleWins(t, r) ==
  /\ pc[t] = "stale" /\ lock = 0
  /\ pc[r] = "idle"
  /\ lock' = LockTTL
  /\ pc' = [pc EXCEPT ![t] = "answered", ![r] = "fetch"]
  /\ answer' = [answer EXCEPT ![t] = [status |-> "STALE", payload |-> copy[t].version]]
  /\ copy' = [copy EXCEPT ![t] = NoEntry, ![r] = Payload(version)]
  /\ UNCHANGED <<entry, clock, version, up, faults>>

StaleLoses(t) ==
  /\ pc[t] = "stale"
  /\ \/ lock > 0 /\ UNCHANGED faults
     \/ Fault                         \* the SET raises: got_lock is False
  /\ Answers(t, "STALE", copy[t].version)
  /\ UNCHANGED <<entry, lock, version, up>>

(* Mutant: the lock is set without NX.                                     *)
ColdWins_NoNX(t) ==
  /\ pc[t] = "cold"
  /\ lock' = LockTTL
  /\ StartsFetch(t)
  /\ UNCHANGED <<entry, answer, version, up, faults>>

ColdWins(t) ==
  /\ pc[t] = "cold" /\ lock = 0
  /\ lock' = LockTTL
  /\ StartsFetch(t)
  /\ UNCHANGED <<entry, answer, version, up, faults>>

(* Mutant: a loser does not wait.                                          *)
ColdLoses_NoWait(t) ==
  /\ pc[t] = "cold"
  /\ \/ lock > 0 /\ UNCHANGED faults
     \/ Fault
  /\ StartsFetch(t)
  /\ UNCHANGED <<entry, lock, answer, version, up>>

ColdLoses(t) ==
  /\ pc[t] = "cold"
  /\ \/ lock > 0 /\ UNCHANGED faults
     \/ Fault
  /\ Goto(t, "wait")
  /\ Carries(t, NoEntry)
  /\ UNCHANGED <<entry, lock, clock, answer, version, up>>

(* Mutant: when its time is up, a loser waits again.                       *)
Wait_Again(t) ==
  /\ pc[t] = "wait"
  /\ IF entry # NoEntry
     THEN Answers(t, IF Fresh(entry) THEN "HIT" ELSE "STALE", entry.version)
     ELSE clock[t] >= WaitMax /\ clock' = [clock EXCEPT ![t] = 0]
          /\ UNCHANGED <<pc, copy, answer>>
  /\ UNCHANGED <<entry, lock, version, up, faults>>

(* The loop of GETs every 20 ms finds an entry, which it does not check    *)
(* against stale_until, or it has waited long enough: fetch without the    *)
(* lock.                                                                   *)
Wait(t) ==
  /\ pc[t] = "wait"
  /\ IF entry # NoEntry
     THEN Answers(t, IF Fresh(entry) THEN "HIT" ELSE "STALE", entry.version)
     ELSE clock[t] >= WaitMax /\ StartsFetch(t) /\ UNCHANGED answer
  /\ UNCHANGED <<entry, lock, version, up, faults>>

(* A GET of the loop raises: the same. *)
WaitFails(t) ==
  /\ pc[t] = "wait"
  /\ Fault
  /\ StartsFetch(t)
  /\ UNCHANGED <<entry, lock, answer, version, up>>

-----------------------------------------------------------------------------
(* 3. The upstream call, and _store *)

FetchReturns(t) ==
  /\ pc[t] = "fetch" /\ up
  /\ \E v \in copy[t].version .. version : Carries(t, Payload(v))
  /\ Goto(t, "store")
  /\ UNCHANGED <<entry, lock, clock, answer, version, up, faults>>

(* The exception reaches the caller, or ends the background task.  The     *)
(* lock stays until it expires.                                            *)
Raises(t) ==
  /\ pc[t] = "fetch"
  /\ Goto(t, IF t \in Requests THEN "raised" ELSE "idle")
  /\ Carries(t, NoEntry)
  /\ clock' = [clock EXCEPT ![t] = 0]
  /\ UNCHANGED <<entry, lock, answer, version, up, faults>>

FetchRaises(t) == ~up /\ Raises(t)

Done(t) ==
  IF t \in Requests
  THEN Answers(t, "MISS", copy[t].version)
  ELSE /\ Goto(t, "idle") /\ Carries(t, NoEntry)
       /\ clock' = [clock EXCEPT ![t] = 0] /\ UNCHANGED answer

Store(t) ==
  /\ pc[t] = "store"
  /\ entry' = copy[t]
  /\ Done(t)
  /\ UNCHANGED <<lock, version, up, faults>>

(* A Redis error while storing is logged and ignored. *)
StoreFails(t) ==
  /\ pc[t] = "store"
  /\ Fault
  /\ Done(t)
  /\ UNCHANGED <<entry, lock, version, up>>

(* Without the facade around it, the exception answers the request. *)
Raise(t) ==
  /\ pc[t] = "raised"
  /\ Answers(t, "ERROR", NoEntry)
  /\ UNCHANGED <<entry, lock, version, up, faults>>

-----------------------------------------------------------------------------
(* Environment and time *)

(* The task is cancelled or its process dies, at any await. *)
Abort(t) ==
  /\ pc[t] \notin {"idle", "answered", "raised"}
  /\ Fault
  /\ Goto(t, "idle")
  /\ Carries(t, NoEntry)
  /\ clock' = [clock EXCEPT ![t] = 0]
  /\ UNCHANGED <<entry, lock, answer, version, up>>

(* Redis evicts the entry or the lock (allkeys-lru). *)
Evict ==
  /\ Fault
  /\ \/ entry # NoEntry /\ entry' = NoEntry /\ UNCHANGED lock
     \/ lock > 0 /\ lock' = 0 /\ UNCHANGED entry
  /\ UNCHANGED <<pc, copy, clock, answer, version, up>>

Publish ==
  /\ version < MaxVersion
  /\ version' = version + 1
  /\ UNCHANGED <<entry, lock, pc, copy, clock, answer, up, faults>>

SourceFlips ==
  /\ MayFail
  /\ up' = ~up
  /\ UNCHANGED <<entry, lock, pc, copy, clock, answer, version, faults>>

(* What is faster than a tick happens before the next one. *)
Quick(t) ==
  \/ pc[t] \in {"get", "stale", "cold", "store", "raised"}
  \/ pc[t] = "wait" /\ (entry # NoEntry \/ clock[t] >= WaitMax)
  \/ pc[t] = "fetch" /\ clock[t] >= FetchMax

Tick ==
  /\ \A t \in Tasks : ~Quick(t)
  /\ entry' = IF Gone(EntryAged(entry)) THEN NoEntry ELSE EntryAged(entry)
  /\ lock' = IF lock > 0 THEN lock - 1 ELSE 0
  /\ clock' = [t \in Tasks |-> IF pc[t] \in {"wait", "fetch"}
                               THEN clock[t] + 1 ELSE clock[t]]
  /\ pc' = [t \in Tasks |-> IF pc[t] = "answered" THEN "idle" ELSE pc[t]]
  /\ copy' = [t \in Tasks |-> IF pc[t] = "got" THEN EntryAged(copy[t]) ELSE copy[t]]
  /\ answer' = [t \in Requests |-> IF pc[t] = "answered" THEN NoAnswer ELSE answer[t]]
  /\ UNCHANGED <<version, up, faults>>

ReadCache(t) == Get(t) \/ Hit(t) \/ NotFresh(t)
TryLock(t) ==
  \/ \E r \in Refreshers : StaleWins(t, r)
  \/ StaleLoses(t) \/ ColdWins(t) \/ ColdLoses(t)

(* As long as Redis and the source are well, and no task is aborted, a     *)
(* step takes no time or is a Tick (SingleFlight).  ResilientClient        *)
(* composes the rest: GetFails, WaitFails, FetchRaises, Raise, StoreFails, *)
(* Abort, Evict and SourceFlips.                                           *)
Quickly ==
  \/ \E t \in Requests : Request(t) \/ ReadCache(t) \/ TryLock(t) \/ Wait(t)
  \/ \E t \in Tasks : FetchReturns(t) \/ Store(t)
  \/ Publish

-----------------------------------------------------------------------------
(***************************************************************************)
(* A refresh that failed is tried again: once the source stays up the key  *)
(* is fresh again and again, and not only served stale until it expires.   *)
(***************************************************************************)
FreshAgain == <>[]up => []<>Fresh(entry)

-----------------------------------------------------------------------------
TypeOK ==
  /\ entry \in Entry \cup {NoEntry}
  /\ lock \in 0 .. LockTTL
  /\ pc \in [Tasks -> Places]
  /\ copy \in [Tasks -> Entry \cup {NoEntry}]
  /\ clock \in [Tasks -> Nat]
  /\ answer \in [Requests -> [status : {"NONE", "HIT", "STALE", "MISS", "ERROR",
                                        "STALE-ON-ERROR"},
                               payload : 0 .. MaxVersion \cup {NoEntry}]]
  /\ version \in 0 .. MaxVersion
  /\ up \in BOOLEAN
  /\ faults \in 0 .. MaxFaults

(* What is about to be answered, fetched or stored is there.               *)
Carried == \A t \in Tasks : pc[t] \in {"stale", "fetch", "store"} => copy[t] # NoEntry
=============================================================================
