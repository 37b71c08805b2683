---------------------------- MODULE ResilientClient ----------------------------
(***************************************************************************)
(* resilience/client.py: ResilientSourceClient.fetch for one source and    *)
(* one key, the composition of CacheAside (infra/cache.py) with the        *)
(* breaker of the source (Breaker) and the fallback to the last entry.     *)
(* The `fetch' that cache_get_or_set calls is refresh(): it asks the       *)
(* breaker before it calls upstream and records the outcome.               *)
(***************************************************************************)
EXTENDS CacheAside, Breaker

CONSTANT Kinds \* what fetch_fn may raise: "HTTPError", "other"

ASSUME ClientAssumption == Kinds \subseteq {"HTTPError", "other"}

VARIABLES
  store,    \* the adapter's argument: FALSE for a source on demand only
  breaker,  \* the CircuitBreaker of the source
  admitted, \* tasks whose upstream call has passed the breaker
  why,      \* per request: the exception on its way up, or "none"
  kept      \* history: requests during which the key was always in Redis
            \*   and could be read by the fallback

client == <<breaker, admitted, why>>
all == <<vars, store, client, kept>>

CInit ==
  /\ Init
  /\ store \in BOOLEAN
  /\ breaker = NewBreaker
  /\ admitted = {}
  /\ why = [t \in Requests |-> "none"]
  /\ kept = {}

Reason(t, r) ==
  why' = IF t \in Requests THEN [why EXCEPT ![t] = r] ELSE why

-----------------------------------------------------------------------------
(* refresh() *)

AllowRequest(t) ==
  /\ pc[t] = "fetch" /\ t \notin admitted
  /\ Allows(breaker)
  /\ breaker' = Allowed(breaker)
  /\ admitted' = admitted \cup {t}
  /\ UNCHANGED <<vars, why>>

Refuse(t) ==
  /\ t \notin admitted
  /\ ~Allows(breaker)
  /\ Raises(t)
  /\ Reason(t, "BreakerOpen")
  /\ UNCHANGED <<breaker, admitted>>

CallReturns(t) ==
  /\ t \in admitted
  /\ IF store THEN FetchReturns(t)
     ELSE /\ pc[t] = "fetch" /\ up
          /\ \E v \in copy[t].version .. version : Answers(t, "MISS", v)
          /\ UNCHANGED <<entry, lock, version, up, faults>>
  /\ breaker' = Succeeded(breaker)
  /\ admitted' = admitted \ {t}
  /\ UNCHANGED why

CallRaises(t) ==
  /\ t \in admitted
  /\ FetchRaises(t)
  /\ breaker' = Failed(breaker)
  /\ admitted' = admitted \ {t}
  /\ \E k \in Kinds : Reason(t, k)

-----------------------------------------------------------------------------
(* fetch() *)

(* store=False: nothing is read from Redis. *)
OnDemand(t) ==
  /\ ~store /\ pc[t] = "idle"
  /\ StartsFetch(t)
  /\ UNCHANGED <<entry, lock, answer, version, up, faults,
                 breaker, admitted, why>>

Cached(t) ==
  /\ store
  /\ Request(t) \/ ReadCache(t) \/ GetFails(t) \/ TryLock(t)
     \/ Wait(t) \/ WaitFails(t)
  /\ UNCHANGED client

(* except (BreakerOpen, httpx.HTTPError): _last_cache, whose Redis errors  *)
(* count as no entry; with store=False there is no fallback.               *)
Kept(e) == IF e = NoEntry THEN NoEntry ELSE e.version

Handled(t) == pc[t] = "raised" /\ why[t] \in {"BreakerOpen", "HTTPError"}

(* Mutant: the fallback takes fresh entries only.                          *)
LastCache_FreshOnly(t) ==
  /\ Handled(t)
  /\ Answers(t, "STALE-ON-ERROR", IF store /\ Fresh(entry) THEN Kept(entry) ELSE NoEntry)
  /\ Reason(t, "none")
  /\ UNCHANGED <<entry, lock, version, up, faults, breaker, admitted>>

LastCache(t) ==
  /\ Handled(t)
  /\ Answers(t, "STALE-ON-ERROR", IF store THEN Kept(entry) ELSE NoEntry)
  /\ Reason(t, "none")
  /\ UNCHANGED <<entry, lock, version, up, faults, breaker, admitted>>

LastCacheFails(t) ==
  /\ Handled(t) /\ store
  /\ Fault
  /\ Answers(t, "STALE-ON-ERROR", NoEntry)
  /\ Reason(t, "none")
  /\ UNCHANGED <<entry, lock, version, up, breaker, admitted>>

(* Any other exception is not caught: the caller of fetch gets it. *)
Propagate(t) ==
  /\ why[t] = "other"
  /\ Raise(t)
  /\ Reason(t, "none")
  /\ UNCHANGED <<breaker, admitted>>

-----------------------------------------------------------------------------
CAbort(t) ==
  /\ Abort(t)
  /\ admitted' = admitted \ {t}
  /\ UNCHANGED <<breaker, why>>

CTick ==
  /\ \A t \in Tasks : pc[t] = "fetch" => t \in admitted
  /\ Tick
  /\ breaker' = Aged(breaker)
  /\ UNCHANGED <<admitted, why>>

FetchStep(t) == AllowRequest(t) \/ Refuse(t) \/ CallReturns(t) \/ CallRaises(t)
Fallback(t) == LastCache(t) \/ LastCacheFails(t) \/ Propagate(t)
Storage(t) == (Store(t) \/ StoreFails(t)) /\ UNCHANGED client
Environment == (Evict \/ Publish \/ SourceFlips) /\ UNCHANGED client

Step ==
  \/ \E t \in Requests : OnDemand(t) \/ Cached(t) \/ Fallback(t)
  \/ \E t \in Tasks : FetchStep(t) \/ Storage(t) \/ CAbort(t)
  \/ Environment
  \/ CTick

FallbackFails(t) == pc[t] = "raised" /\ pc'[t] = "answered" /\ faults' # faults

StillKept(t) ==
  /\ pc[t] = "idle" \/ t \in kept
  /\ entry # NoEntry /\ entry' # NoEntry
  /\ ~FallbackFails(t)

CNext == /\ Step
         /\ kept' = {t \in Requests : StillKept(t)}
         /\ UNCHANGED store

CSpec == CInit /\ [][CNext]_all

(***************************************************************************)
(* Time passes, requests keep coming, every await ends.                    *)
(***************************************************************************)
Asks(t) == OnDemand(t) \/ (pc[t] = "idle" /\ Cached(t))

Continues(t) ==
  \/ t \in Requests /\ ((pc[t] # "idle" /\ Cached(t)) \/ Fallback(t))
  \/ FetchStep(t) \/ Storage(t)

CFairSpec ==
  /\ CSpec
  /\ WF_all(CTick /\ CNext)
  /\ \A t \in Requests : WF_all(Asks(t) /\ CNext)
  /\ \A t \in Tasks : WF_all(Continues(t) /\ CNext)

-----------------------------------------------------------------------------
(***************************************************************************)
(* Fallback policy (client.py:16-19, T-03-10): a request that finds the    *)
(* key in Redis at its start and loses it at no time gets data, whatever   *)
(* the source, the breaker, the lock, aborted tasks and failed reads and   *)
(* writes of the cache do, unless the read of the fallback itself fails or *)
(* fetch_fn raises what fetch does not catch (client.py:248).              *)
(***************************************************************************)
DataWhileKept ==
  \A t \in Requests :
    pc[t] = "answered" /\ answer[t].status # "ERROR" /\ t \in kept
      => answer[t].payload # NoEntry

(***************************************************************************)
(* Breaker, lock and background refresh together do not keep a source that *)
(* is back out of the cache: the key is fresh again and again.  The        *)
(* breaker of an on-demand source, which has no key, closes for good.      *)
(***************************************************************************)
BreakerCloses == <>[]up => <>[](breaker.state = "CLOSED")

CacheRecovers == (store => FreshAgain) /\ (~store => BreakerCloses)

(***************************************************************************)
(* "fetch never blocks" (client.py:21): every fetch returns.               *)
(***************************************************************************)
FetchReturnsAlways ==
  \A t \in Requests : pc[t] \in {"get", "fetch"} ~> pc[t] \in {"answered", "idle"}
=============================================================================
