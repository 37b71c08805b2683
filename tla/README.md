# cityscape: verification project

TLA+ models of the parts of cityscape in which order, failure and time matter,
the TLC runs that check them on small instances, and machine-checked proofs
(TLAPS) of the theorems that should hold for every size. File references are
to `src/cityscape/` unless they name another directory.

## 1. The system

cityscape is a read-only API gateway (FastAPI, asyncio, four uvicorn workers,
`Dockerfile:64`) over some fifty public data sources. It has no database; what
several workers share is in Redis, which evicts (`allkeys-lru`,
`deploy/docker-compose.yml:51`) and may fail at any call: all uses of it are
meant to be fail-open. A static GTFS file on disk is replaced by a batch job. A request passes the middlewares, a route asks an
adapter, the adapter calls the resilient client, and the client goes through
the breaker, the cache and the limits to the source. Two pollers fill Redis
with realtime transit and charging data that the live routes read.

```
 request -> middlewares -> route -> adapter -> ResilientSourceClient.fetch
                                                | hydrate   breaker_redis.py
                                                v
                                     cache_get_or_set (cache.py) <-> Redis
                                                | cold / refresh in background
                                                v
                              refresh(): breaker.py -> semaphore, pace -> source
                                                | BreakerOpen, httpx error
                                                v
                                         last entry, STALE-ON-ERROR
 pollers (transit, charging) -> stores in Redis -> live routes
```

### Components

For each: its state, its operations, how it interacts, what is hard about it,
and what makes it correct.

**Circuit breaker** (`resilience/breaker.py`). State: `state`,
`failure_count`, `opened_at`, per source and worker. Operations:
`allow_request`, `record_success`, `record_failure`. All tasks of a worker
share it, and between admission and outcome lies the upstream call. Hard:
outcomes arrive in any order, also after the breaker has opened; a cancelled
call has none. Correct: trips after exactly the threshold, quiet for a
cooldown after the last failure, closes again by itself.

**Breaker state in Redis** (`resilience/breaker_redis.py`). State: one JSON
value per source. Operations: `hydrate` (a GET before every fetch), `persist`
(a SET after every outcome, TTL one day). Hard: read and write are separate
awaits, so a copy may be stale when it is applied or written; workers restart
and crash; Redis loses entries. Correct: no torn copy, no lock-out by a stale
copy; without overlap the workers behave like one breaker.

**Cache-aside** (`infra/cache.py`). State in Redis: the entry
(payload, fresh_until, stale_until) and the single-flight lock (SET NX EX,
never deleted). Operations: `cache_get_or_set` (hit, stale answer with a
refresh in the background, cold fetch by the winner of the lock, losers poll),
`_refresh_and_store`. Hard: lock and entry expire independently; the holder
may fail, die or be slow; entries age while a task is late. Correct: one
upstream call at a time (while calls are not slower than the lock), every request is answered, an available source
becomes fresh again.

**Resilient client** (`resilience/client.py`). State: semaphores, locks and
last-call times per source and worker; `bg_tasks`. Operations: `fetch`
(`store=True` through the cache, `store=False` on demand), `_last_cache`,
`_run_limited`, `_pace`. Hard: breaker, cache lock, wait loop and fallback
depend on each other; the budget of the overview cancels it at any await.
Correct: a kept entry is always served, nobody hangs, a source that is back
comes back into the cache, limits hold per worker.

**GTFS-RT poller and store** (`transit/poller.py`, `transit/store.py`).
State: per-trip keys with a TTL of 90 s, index sets, provenance. Operations: `run_poller` tick (leader lock, fetch DELFI else
gtfs.de, write). Readers: `api/v1/live.py`. Hard: leader lock without a fence,
index sets that are extended and never pruned, provenance written last, every
Redis command of a snapshot an await of its own. Correct: what readers see is current or absent
after a bounded time, nothing the feed has is missing once a failure or an
iteration that overran is overcome, the provenance fits the trips, every key
expires that no failure left without a TTL.

**Static timetable** (`transit/refresh.py`, `resolver.py`, `interpolation.py`,
the index in `poller.py`). State: the GTFS file, temporary files, `index_cache`
of each poller. Operations: `refresh_static_gtfs` (download, write, replace),
`stop_times_for_trip` and `stops_with_geo_for_trip` (open the file and stream
it), `estimate_position`. Hard: jobs overlap and die, a request opens the file
twice, what was downloaded is not looked into, the index is read once. Correct:
no request notices a replacement, a position is the timetable's or none, a bad
download does no lasting harm.

**Charging poller and store** (`charging/`). State: merged points in Redis,
the queue of the source, which empties when read. Hard: a drained item is lost
when the write after it fails, the lock lets two pull when Redis errs, both
write what they have. Correct: the newest known state of a point wins, nothing
drained is lost but by a step that fails, the
snapshot outlives one failure.

**Application lifespan** (`main.py:50-128`). Starts pollers and pools, cancels
them. Hard: tasks are cancelled, not awaited, before the pools close.

**Middlewares** (`main.py:148-492`, `api/v1/abuse_guard.py`, `ratelimit.py`,
`gpt_guard.py`). Counters per client in Redis, in memory when Redis fails.
Hard: order of guards and what a refused request uses up. Correct: who is
refused does not reach the routes; degraded answers are not cached by clients.

**Source adapters** (`adapters/`). Stateless. Operations: one function per
kind of data, each with one or a few HTTP requests, a parser, a filter for the
city. Called by the routes through `fetch`, by the pollers directly. Hard: a
reply is not just there or not there. It may lack what is expected, be refused
by a guard on its size, have a status that means "no data", or fail while
another request of the same call was answered; what the adapter returns is
then kept and served as if it were complete. Correct: an outage is raised as
`httpx.HTTPError`, which alone the breaker counts and the fallback catches; a
failed request never passes for the absence of data, and one that is spare does
not take the others down.

**Routes** (`api/v1/cities.py`, `live.py`, `stations.py`). Stateless: coverage
(`registry/`), toggle, credentials, parameters, up to three fetches, the
`source_status`. Hard: some ninety handlers repeat the same guards in
different orders; routes that share a source share its entries in Redis; one
nationwide document serves all cities. Correct: a source that is off is not
asked, an entry is read by the route that understands it, an outage is not
told as "no data", nothing of another city is shown.

**Overview, compare** (`cities.py:606-823`, `compare.py`). Stateless fan-out
over sources with `asyncio.gather`, the overview with a budget of 3 s. They
repeat the guards of routes elsewhere. Correct: one failing or slow source
does not take the others down; a row or a highlight says what the route of its
source says.

**MCP server** (`mcp/`). Stateless client of the API plus loopback limits.
**Registry** (`registry/`). Tables: the cities, who is covered by what.
**Normalization, ingest, configuration, metrics, documentation site.** Pure
conversions, batch I/O, best-effort counters, no shared state of the request
path.

`PROJECT.json` lists every component with its status and every hazard with
the line where it bites.

## 2. Modules

| module | models | composition |
|---|---|---|
| `Breaker` | `breaker.py`: the breaker as a record, its methods as operators | extended by the three below |
| `BreakerContract` | abstract specification: what a breaker promises its source | implemented by `BreakerLocal` and, without overlap, by `BreakerRedis` |
| `BreakerLocal` | one worker, its tasks and the breaker they share | |
| `BreakerRedis` | workers, tasks, Redis, `hydrate` and `persist` | |
| `CacheAside` | `cache.py`: one key, many tasks, the entry and the lock in Redis | |
| `SingleFlight` | what the lock of `cache.py` achieves while Redis and the source are well | `CacheAside` and a history of slow calls |
| `ResilientClient` | `client.py`: `fetch` | `CacheAside` + `Breaker` |
| `OutboundLimits` | `client.py`: semaphore and pace in several workers | |
| `ChargingPoller` | `charging/poller.py`, `charging/store.py`: pollers of several workers, the draining queue, the accumulated statuses | |
| `GtfsRtPoller` | `transit/poller.py`, `transit/store.py`: pollers of several workers, the two feeds, trips, index sets and provenance in Redis, what the readers in `api/v1/live.py` see | |
| `StaticTimetable` | `transit/refresh.py`, `resolver.py`, `interpolation.py`, the index of `poller.py` and the trip route of `live.py` around one static file | |
| `Replies` | what a server may answer to one request, and what several answers make together | extended by all adapters |
| `AdaptersEnvironment`, `AdaptersPlaces`, `AdaptersTransport`, `AdaptersCity` | `adapters/`: one operator per adapter, by subject | |
| `Fetchers` | the adapters by name | the four above |
| `Adapters` | one call of any adapter, reply by reply | `Fetchers` |
| `Registry` | `registry/` and the tables at the head of the routes: who is covered by what | |
| `Answers` | the form all handlers share: guards, fetches, `source_status` | `Registry` |
| `RoutesCity`, `RoutesLive` | `api/v1/cities.py`; `live.py`, `stations.py`, `compare.py` and the highlights of the overview | `Answers` |
| `Routes` | the handlers by name | the two above |
| `Service` | requests to all routes, `/compare` and the overview, through the facade to the adapters, over a shared cache | `Routes` + `Fetchers` |
| `BreakerLocalProofs`, `BreakerRedisProofs`, `ChargingPollerProofs`, `GtfsRtPollerProofs`, `StaticTimetableProofs`, `OutboundLimitsProofs` | theorems about the module of that name | |
| `ResilientClientProofs` | theorems about `SingleFlight` and `ResilientClient` | |
| `ServiceProofs` | theorems about `Adapters` and `Service`, and the lemmas about every adapter and every handler that they rest on | |
| `MCBreakerRedis`, `MCSingleFlight`, `MCGtfsRtPoller`, `MCStaticTimetable`, `MCOutboundLimits`, `MCService` | constants and symmetry for TLC | |

### How state and actions correspond to the code

*Breaker.* The code compares `now - opened_at` with `cooldown` and nothing
else, so a breaker carries `age`, the ticks since `opened_at`, saturated at
`Cooldown`; `opened_at = None` counts as elapsed and is the saturated age. The
failure count is only compared with the threshold and saturates there. Nothing
else is abstracted: `Allows`/`Allowed` is `allow_request`, `Succeeded` and
`Failed` are `record_success` and `record_failure`.

*BreakerLocal.* `Admit` is `refresh()` up to its await (client.py:199-202),
`Succeed` and `Fail` are the call returning or raising, `Cancel` is
`CancelledError`, which `except Exception` does not catch, so no outcome is
recorded. `consec` and `quiet` are history variables.

*BreakerRedis.* A fetch is split at each await: the GET is sent, Redis answers
it (`HydrateRead`), the task runs again and overwrites its worker's breaker
(`Hydrate`), the cache answers or `allow_request` is asked, the call is in
flight, the outcome is recorded and the payload dumped in one step (`Record`),
the SET lands (`PersistLands`). `opened_at` is wall-clock time, so every copy
ages wherever it is. `Deploy` restarts an idle worker (uvicorn finishes its
requests first), `Crash` any worker; `Vanish` is expiry, eviction or a restart
of Redis.

*CacheAside.* One key. The places a task goes through are drawn in the header
of the module. The payload is a version the source's data had while the
upstream call was on its way (`StartsFetch`, `FetchReturns`): which of them is
up to the source. A call may take up to `FetchMax` ticks, longer than the losers
wait or the lock lives: timeouts bound each read, an adapter makes several
requests, and slow sources may take 60 s (adapters/stada.py:99). A tick is some seconds, so a Redis round trip, which is
milliseconds or else an error, happens before the next tick; only a task whose
GET is answered may be late (the event loop is busy), and its reply ages
meanwhile. The 20 ms polling of the losers is a wait that ends when the entry
is there or `WaitMax` ticks have passed. `Abort` is a cancelled task or a dead
process; the lock stays, as in the code.

Redis errors, evictions, sources that fail and `Abort` are defined here and
composed in `ResilientClient`. `SingleFlight` composes the rest, since what the
lock is for needs a working Redis, and adds a history variable: `calm`, the
ticks since a call was last slow, that is, had lasted as long as a loser waits
or the lock lives.

*ResilientClient.* Adds to `CacheAside` those faults and what `refresh()` does around the
upstream call (`AllowRequest`, `Refuse`, `CallReturns`, `CallRaises`), the
path of `store=False` (`OnDemand`), the `except` clause and its fallback
(`LastCache`, `LastCacheFails`), and what it does not catch (`Propagate`).
`store` is fixed per behaviour, as each adapter passes a constant. The breaker
lives in memory here; `BreakerRedis` models its mirroring. The limits are part
of the upstream call here; `OutboundLimits` models them.

*OutboundLimits.* asyncio's semaphore and lock serve first come, first served:
each is a line of tasks per worker. The time to sleep is computed before the
sleep (`PaceSleep`) and other tasks run meanwhile; stamp, release of the lock
and start of the call follow each other without an await (`BeginCall`).

*ChargingPoller.* `eround_status_poller`, one per worker, split at its awaits:
the SET NX (`TakeLock`, `LockTaken`, `LockFails`), `fetch_afir` (`Pull`: the
source hands its queue out and forgets it; `PullRefused`: a body over the size
cap or not JSON reads as no points, mobilithek_afir.py:213-218, and the iteration
goes on), the transaction of
`store_point_statuses` (`StorePoints`) and the snapshot (`StoreLatest`). Each
may raise, before or after it took effect, and the iteration is over
(`...Fails`); a worker may die at any point (`Crash`). A status is the number
of changes its point has seen, so that older and newer are visible. Points
without an ID or a status, which the code skips, are left out. Errors that
concern the lock are counted apart from the other faults, because the
properties depend on it.

*GtfsRtPoller.* `gtfs_rt_poller`, one per worker: the lock (`TakeLock`,
`LockTaken`, `LockFails`), `_fetch_with_fallback` and parsing (`Fetch`: the
updates of DELFI while it answers, otherwise those of gtfs.de; the trip ids of
the two are different), then `store_updates_indexed` command by command: SET
of a trip (`StoreTrip`), SADD (`AddKey`) and EXPIRE (`ExpireKey`) for each of
its keys, and the provenance at the end (`StoreSource`). An update is
represented by its keys, the stops and the line it is indexed under; delays
and times are what the keys stand for. The order of trips and keys, the feed's
in the code, is any order here. A key and its set live in Redis with the ticks
they have left; a set between SADD and its first EXPIRE has none (`Never`). `Shown`,
`Departures` and `FromDelfi` are the readers, each as one look at Redis; a
route that awaits between two reads may mix two such looks. An iteration lasts
up to `PollMax` ticks; one that lasts longer than interval and TTL leave it
(`Timely`) is an overrun, and `calm` counts the ticks since the last overrun or
fault. A feed without data (`None`)
counts as DELFI not answering, or as a failure of the iteration.

*StaticTimetable.* `Download`, `Write`, `Replace` and `Dies` are
`refresh_static_gtfs` and `_write_atomic`: a body of status 200, whatever it is,
a temporary file of a new name, `os.replace`. `Poll` is one iteration of the
poller as far as the file matters: it reads the index if it has not
(`Loaded`), and a `BadZipFile` ends it before anything is stored. The route
`/live/{slug}/transit/trip/{id}` is `Ask`, `NoData` or `GetUpdate`, then the two
openings of the file (`ReadStopTimes`, `ReadStops`), which are one synchronous
call: the worker's event loop stands still in between (`Blocked`), the jobs,
other processes, do not. A release gives each trip its stops and each stop its
place; `stops_with_geo_for_trip` skips those without time or place
(`Located`), and `estimate_position` says between which two and how far. Places
and fractions are left as they are: the line between two points is
`Way`. A time is the seconds since midnight, of which the day has `Day`.

*Adapters.* A reply is one of eight kinds (`Reply`): entries of the city,
entries of elsewhere only, none, an object of another shape, a body the parser
refuses, a body a guard refuses, a status some adapters read as "no data", and
any other failure. An outcome is an exception `fetch` knows (`HTTPError`) or
does not (`Other`), or a payload of one of six kinds; entries that miss the
part of a failed request (`part`) and emptiness that is not the source's
(`blank`) are told apart from the real things, which the code does not do.
`Plain` is the table of an adapter that calls `raise_for_status` and indexes
the members it needs; every `try`, `.get(..) or []`, filter and guard of an
adapter changes a line of it (`Tolerant`, `Scoped`, `Nearest`, `Lenient`,
`Guarded`, `GoneIsEmpty`), and sequences and fan-outs of requests combine
tables (`InTurn`, `Gathered`, `Then`, `Detail`, `Optional`). The fields of the
entries are left out. A loop over requests of one kind makes
as many as there are replies (fan-outs, `Pages`), or is represented by two of
them. One call is `CallSpec`: `Receive` a reply at a
time, then `Return` what the adapter makes of them.

*Answers, Routes.* A handler awaits nothing but `fetch` between its start and
its answer, so it is a function from the request, the settings and what the
facade has returned so far to its next step: a fetch or the answer. The order
of its guards is the order of the code: `Covered(.., Toggled(..))` is not
`Toggled(.., Covered(..))`. The key of an entry is what the handler passes to
`build_cache_key`, the hash of which is injective for this purpose. Two texts
that the code joins to one stay strings (`Param`, `Scope`: `feature=benches`,
`{dataset}-{slug}`), for whether two of them are the same is what `OwnEntry` is
about. Settings are read again by each handler, and do not change while the service runs.

*Service.* The facade is what `ResilientClient` establishes of it for one
worker without Redis errors: `FromCache` serves an entry that is kept and has a
stale one refreshed in the background (`Refresh`), `FromUpstream` is the
adapter returning or raising past `fetch`, `Unavailable` is the breaker or
`httpx.HTTPError` with nothing kept. The parts of `/compare` and of the
overview interleave; `BudgetEnds` is `wait_for` cancelling a highlight. An
exception that leaves a part is the answer to the whole request, as
`asyncio.gather` has it. Which replies a call may meet depends on its source:
a publication about one city has entries of that city and no other (`Home`).

## 3. Runs

| run | question | bounds |
|---|---|---|
| `breaker_local` | does one breaker trip exactly, stay quiet, keep `BreakerContract`, heal, whatever the order of late answers and cancellations? | 3 tasks, threshold 2, cooldown 2 |
| `breaker_redis` | is any copy torn or able to lock a source out, and does every worker heal, with interleaved fetches and a fault? | 2 workers, tasks 2+1, 2 in flight, threshold 2, cooldown 1, 1 fault |
| `breaker_redis_serial` | without overlap, are two workers one breaker, through deploys? | 2 workers, 1 in flight, threshold 2, cooldown 2, no fault |
| `single_flight` | is there one upstream call at a time, and is newer data never overwritten by older, but for slow calls and a while after them? | 3 requests, 1 refresher, ttl 3, stale 4, lock 3, wait 2, calls of at most 4 ticks, 2 changes of the data |
| `resilient_client` | is a kept entry always served, does every fetch return, does a source that is back reach the cache again, and the breaker of one on demand close? | 2 requests, 1 refresher, `store` both, threshold 2, cooldown 2, 1 fault, 1 change of the data |
| `charging` | does any step that does not fail forget a change of a point, does the newest status win, does the snapshot outlive a failure, does pulling go on? | 2 workers, 2 points, 1 change each, interval 10, lock 9, snapshot 30, iterations of at most 2 ticks, 1 fault, 1 fault of the lock |
| `gtfs_rt` | do readers ever see an update long replaced, miss one, get the wrong provenance, and does every key expire, with faults and overruns and after them? | 2 workers, a DELFI and a gtfs.de trip, 1 key, interval 2, lock 1, TTL 5, iterations of at most 2 ticks (timely: 1), 1 change, 1 fault |
| `static_timetable` | is a replacement noticed by a request, has a trip under way its position and no other one, does live data come back after a bad download? | 2 jobs, 2 releases and a body that is none, 2 trips, a day of 5, delays 0 and 1, TTL 1 |
| `static_timetable_no500` | violated: a trip whose static data cannot be resolved is answered, never a 500 | 1 job |
| `outbound_limits` | are limit and pace kept per worker, is everyone served, with cancelled waiters? | 2 workers, tasks 3+1, limit 2, interval 2 |
| `adapters` | is an outage raised as such, and is a failed request raised, or the rest returned if it is spare? | every adapter, every sequence of 3 replies |
| `service` | is no source asked that is off, is no entry read by a route it was not fetched for, is an outage always said, is nothing of elsewhere shown, do rows and highlights say what their route says, and does one part that fails or hangs take no other with it? | all routes, 17 cities and one that is not registered, 12 settings, 2 requests |

Why the bounds are enough. Threshold 2 is the smallest with a counter that is
neither zero nor full; cooldown 2 has a tick that is neither the first nor the
last (`breaker_redis` has 1, and its invariants are proved for every value).
Three tasks let a late answer arrive while another task probes and a third has
just been let in. Two workers are what two copies need; two tasks in one of
them, a reply that is applied after a neighbour's outcome. In `single_flight`
the order of the times is that of the code: wait < lock <= ttl < stale (wait 5 s,
lock 10 s, ttl 60 s and more), and a call ends at once, within the wait, after
it, with the lock or when the entry it might have left is gone (`FetchMax` =
stale); three requests are a winner, a loser and a late one, with a background
refresh at the same time, and the theorems hold for any number of each. A fault is a Redis error, an eviction, a
cancelled or a dead task, wherever the code may meet one; `MaxFaults` bounds
how many a behaviour has. In `single_flight` there is none, since the claim is
about a working Redis.
In `charging` a tick is half a minute: interval, lock and snapshot are the code's
300, 295 and 900 s, the lock rounded down. That an iteration ends before
its lock is an assumption (`PollMax < LockTTL`); the read timeout of the HTTP
client bounds each read and not the whole download, so it rests on the
download being small, as the deltas are. The first pull may find statuses of
all points in the queue.
In `gtfs_rt` a tick is some 20 s: interval, lock and TTL are the code's 45, 40 and
90 s, the lock rounded down. Iterations of one tick are timely, those of two overrun what interval and
TTL leave, and outlive the lock; either may happen at any time, also again and again. How long
they take in the code depends on the feed, and nobody limits it:
adapters/gtfs_rt.py:50-53 counts 72,483 updates and 1.1 million values of stops,
and each is two awaited commands of Redis (store.py:85-98), while timely are
22 s. So no property may rest on timely iterations for ever.
`NeverFarBehind` and the first half of `NamespacesMatch` hold whatever
iterations take: a change of an update is visible after `Horizon`, a TTL and an
iteration. A gap in between there may be: an update disappears when its TTL ends before the next
iteration stores it (section 5). `NoGap` and the second half of
`NamespacesMatch` say that it is over `Recovery` ticks after the last fault or
overrun, that is, after two rounds of an iteration, a sleep and an iteration. One round is not enough: the first
iteration after a fault or a change may add a trip to a set that expires before its
EXPIRE (store.py:92-98), which then has no effect, and only the second puts it back.
`KeysExpire` is about what a fault leaves between SADD and EXPIRE as well: a set
without a TTL, until the next timely round of an update that is in it.
The two trips share
the one key, so that either renews the set of the other. A trip with
several keys, and any number of changes and faults, is left to the proofs, which hold for
every number of each. All five
properties are invariants, so the symmetry of the workers is sound.
In `static_timetable` a timetable has what the estimate may trip over: two stops
at the same time, a stop without time and one without a place in the middle, a
trip that ends after midnight, one that the other release does not have; two jobs
are what an overlap needs. Its two invariants are proved for every timetable.
Source data that changes at most `MaxVersion` times is only relevant to
`NeverOverwrittenByOlder`, for which one older and one newer payload suffice.
In `adapters` three replies are as many as any adapter tells apart: a loop over
requests of one kind is represented by its first ones, and the theorems are
about any number of them. Which requests are spare (`Spare`) is what the
repository says of them, at the lines the definition names, and not what the code
does; `Unkept` are the adapters whose code does otherwise (section 5).
In `service` the first request is any of them, under any setting: all toggles
off, all credentials missing, one of two sources of a route off, nothing in the
archive. The second is made with everything on, to a source that has an entry
by then, about `kiel` or `bremen`: entries can only be confused by two requests
that share a source, and every table of the registry tells those two apart or
treats all cities alike. Of the replies of one call at most the first differs
from the others. The 17 cities of `Registry` are those that some route treats
specially, and `kiel` for the rest of the 84. `/compare` is asked for two
registered cities and one unknown, the overview for one of each.

Deadlock is checked in every run but two: time always passes. A call of an
adapter ends (`adapters`), and a client stops after `MaxRequests` (`service`).

### Fairness

Time passes (`WF(Tick)`). Tasks that can run do: asyncio runs every ready
task, and every await ends because the HTTP client has timeouts
(`infra/http.py`: 2 s to connect, 5 s to read) and Redis calls either
return or raise. Requests keep coming (`WF` on starting one): the liveness
properties are about a source somebody asks for. Two assumptions are strong:
in `BreakerLocal`, `SF(Succeed(t))`, a call that could return its answer again
and again is not cancelled every single time (only the overview cancels, after
3 s; the topic routes ask the same sources without a budget); and in `BreakerRedis`, `SF(Start(t))`
(bounded in-flight fetches must not starve a task for ever, an artefact of
`MaxInFlight`) and `SF(Admit(t))`, the cache does not answer every fetch for
ever, because its entries expire. In `ChargingPoller` every await of an iteration ends and every sleep ends on
time. In `StaticTimetable` the poller's loop goes on whatever an iteration raises
(poller.py:170-172), and a request that holds the event loop finishes; jobs,
downloads and requests owe nothing. In `Service` a fetch ends, which `FetchReturnsAlways` of `resilient_client`
shows, but not for the overview, which has a budget so as not to rely on it:
there only the timer is fair (`asyncio.wait_for`), and a source may hang. No
fairness is assumed for faults, restarts,
cancellations or the source itself.

## 4. Proofs

Checked by tlapm for every threshold, cooldown, set of workers, set of tasks
and number of faults, for the adapters of every number of requests, and for the
service of every set of cities, settings, resources asked for and number of
requests, whenever the budget of the overview ends, from the assumptions on
constants only. Most of them give types (`BreakerAssumption`, `RedisAssumption`, `CacheAssumption`,
`LimitsAssumption`, `PollerAssumption`, `RtAssumption`, `TimetableAssumption`).
Some relate times or data, and each is cited only by the proofs that need it:

| assumption | says | in the code |
|---|---|---|
| `PollerAssumption` (`ChargingPoller`) | an iteration ends before its lock | 295 s for a download of deltas |
| `GraceAssumption` | the lock ends with the interval; two intervals and two iterations are shorter than the snapshot's TTL | 295 and 300 s (charging/poller.py:31, 46), 900 s (charging/store.py:31) |
| `FitAssumption` | some worker runs; the transit lock ends with the interval; the interval is shorter than the TTL | interval - 5 s (transit/poller.py:138), 45 and 90 s (transit/poller.py:160, 202) |
| `TimesAssumption` | the times of a trip do not decrease | required of GTFS |
| `MaxRepliesAssumption` (`Adapters`) | a call has at least three replies to read | the gauge, its reading and its unit are three requests; an adapter that needs fewer ignores the rest |
| `ServiceAssumption` (`Service`) | what is asked is a route, a resource, a parameter of the code; `eva`, which stands for the station of a path, is no city | the routers and `RESOURCE_MAP` (compare.py:43-46) |
| `KeysDiffer` (`Service`) | the texts joined in a key are equal only if their parts are | a fact about strings that the prover has no theory for; TLC evaluates it over all features, data sets, zones and cities of the model |
| `Serial` (hypothesis of `BreakerRedisProofs!Implements`) | fetches do not overlap and nothing fails | the case in which breaker_redis.py:3-9 is meant literally; otherwise false (section 5, breaker_redis.py:8) |

*BreakerLocalProofs.* `TripsExactly` and `FailsFast` speak about histories and
are not inductive: nothing in them says what the counter of an OPEN breaker
is. `IInv` adds it: the counter is the number of failures in a row, the
breaker is `Coherent` (not CLOSED exactly when the counter is full, and only
an OPEN breaker has a running cooldown), and the age of a breaker that is not
CLOSED is the time since the last failure. `Inductive` proves it step by step
over `Admit`, `Succeed`, `Fail`, `Cancel`, `Tick` and `SourceFlips`;
`Typing`, `Trips`, `FailFast` follow. `Implements` proves
`Spec => Contract!Spec`: `calling`, `consec` and `quiet` are the abstract
state, `Admit` maps to `Call` because `IInv` says that a breaker that allows
a call with a full counter has been quiet for a cooldown.

*BreakerRedisProofs.* With several copies, equations between counter and
history are lost (a stale copy may overwrite a newer one). What is left and
inductive: every copy in a worker, in Redis or in a message is coherent, only
CLOSED and OPEN are ever persisted, and no copy claims to have been opened
later than the last failure (`OpenedNoLaterThanFailure`). From it follow
`NoTornCopies` and `NoLockOut`. `Implements` proves `Spec => SharedContract`
under `Serial`. There the equations come back, but for one copy at a time
(`OneBreaker`): the one in Redis while nobody persists, the reply or the
payload of the task under way, and the breaker of the worker it runs in from the
hydration to the outcome. Each has counted the failures in a row and was opened by the
last one (`Tracks`); the copies in other workers may be as old as they like. While
Redis has no entry, no outcome has been recorded and every worker is new.

*ChargingPollerProofs.* For any number of workers, points and faults. That no
step but one that fails forgets what was drained, and that no older status
replaces a newer, depends on who else may hold points.
`IInv` adds the argument: while the lock has not failed, the time an iteration
has lasted and the rest of its lock make up the whole lock (`Solo`), so it
still has the lock, nobody else polls, and what it carries is at least as new
as what is stored and is current unless the point is in the queue again
(`HandNewer`); a worker that does not store carries nothing (`Idles`).
`NothingForgotten` and `Newest` follow. The hypothesis "the lock works" is
necessary: see section 5 on poller.py:13-15.
That the snapshot outlives a failure is about who comes next:
`SnapshotComes` says that some worker polls already, or sleeps and wakes when
the lock is free, and that what is left of the snapshot lasts until that worker
is done with it, after a failure one interval and one iteration less. A worker that
finds the lock taken passes the duty to its holder, one that fails to itself.
`SnapshotLasts` follows with `GraceAssumption`.

*GtfsRtPollerProofs.* That what is shown after `Horizon` is current is not
inductive, since an iteration may have fetched long ago what it stores now.
`IInv` follows an update on its way. What a poller still carries of a trip is
the current update, or the trip has changed since the fetch, so not longer
ago than the iteration has lasted (`Carries`); what is stored is the current
update, or the change and the rest of the TTL together are within `Horizon`
(`Stored`: at the moment of the SET the TTL is whole and the change no older than
the iteration; then one grows as the other shrinks). `Idles` says that a
poller that does not store carries nothing and that the trip and key it is at
are among those it carries. For this
part, `Traced`, no assumption relates interval, lock and TTL, and `PollMax` is
any number everywhere, so `Tracing` and `NotFarBehind` cover
pollers that overlap because an iteration outlives its lock.

`NoGap`, `KeysExpire` and the second half of `NamespacesMatch` need `FitAssumption` and a second part. As long as
iterations are timely (`OnTime`), at every
moment somebody will write what has to be written before it expires (`TripComes`, `SourceComes`, `SetComes`,
`EntryComes`): a worker that polls, or sleeps and finds the lock free when it wakes
(`Returns`). How long ago the last write may lie then depends on where this
worker is and on whether it still carries the thing (`Unwritten`,
`HasWritten`). A fault or an overrun is a disturbance (`Disturbed`), from which
the count starts again. The lemmas follow the duty: `Passes` says who has it after a
step (the same worker, the one that takes the lock, after a fault anyone),
`Written` that who no longer carries something has stored it, `Untimed` and
`Timed` that what was written in time still is. Index entries take two rounds:
in the first a set may expire between SADD and EXPIRE, in the second it does
not (`SetStays`), so what is added stays (`Added`). `Entries` and `SaysFeed`
say that nothing empty is stored and that the provenance is as old as the
fetch it belongs to. `Inductive` puts the parts together; `Gapless`,
`Namespaces` and `AllKeysExpire` follow: what is said about gaps has the premise that the
last fault or overrun is `Recovery` ticks ago, which every behaviour reaches in which iterations
are timely for so long, and the last change of the update `Horizon` (`Settled` for index entries).

*OutboundLimitsProofs.* For any number of workers, tasks, limit and interval.
That at most `Limit` calls are under way is not inductive: `IInv` says that the
lines have exactly the tasks that are somewhere in them, each once (`Lined`),
and that who is past the semaphore is among the first `Limit` of its line
(`Holding`), also when a task before it is cancelled and everybody moves up.
`LimitKept` then is a count: the calling tasks are an injective image of places
in the line. `PaceKept` rests on `LongEnough`: only the first of
the pace line sleeps, and its sleep and the time since the last call make up the interval.

*ResilientClientProofs.* `KeptIsServed` is about the composition, for every
behaviour of breaker, source and cache: a request whose key stays in Redis
carries or gets an entry on every path that ends in an answer, the fallback
included. `OneCall` and `NewestKept` are about `SingleFlight`, for calls of any
length, any wait, lock and TTL; `CacheAssumption` asks that what is stored
outlives a lock, which a stale window of at least 60 s (cache.py:49) and a lock
of 10 s (cache.py:53) do. Single flight is not inductive: the lock is never
released and outlives nothing by itself. `SInv` adds, while no call is slow:
a call is younger than its lock and alone, unless it began before the last slow
call was over (`Late`, `Locks`); while a lock lives its call is under way or has
left an entry at least as young as the lock (`LockSaysWhy`); a loser has waited
no longer than that call (`Patience`); and what is on its way is not older than
what is there (`Newer`), unless it began when calls still overlapped. A slow
call ends all that: its lock runs out or its losers give up, so others start
calls of their own, which end less than `Prompt` ticks after it, unless they are slow
themselves. Single flight is back after `Prompt` ticks, and newer data is safe
after `Overcome`, when the calls that began until then are over as well. No
shorter time will do: with one tick less TLC finds either property violated.
All this holds until the first fault of a behaviour that may have any number.

*StaticTimetableProofs.* For any number of jobs and releases, any timetable
whose times do not decrease from stop to stop (`TimesAssumption`, which GTFS
requires) and any delays. Neither invariant is inductive: they speak of an
answer, not of how it came about. `IInv` adds that a job's temporary file is its
own and whole once it is written (`OwnFile`), that what is no timetable comes
from a job (`SpoiledBySome`), and that a request at its second opening has met
one release that knows the trip (`HasOpened`). `Estimated` is the lemma about
`estimate_position`: the first stop after the time and the one before it are the
two around it, or there is none. (That a set of positions has a first one rests
on `WFMin` of the library.) `Unnoticed` and `PositionIsTrue` follow.

`IInv` contains the type invariant of its module (`TypeOK`), so the runs check
it with the rest; those of `StaticTimetable`, `OutboundLimits` and `SingleFlight`, and `OneBreaker`,
were checked with TLC before the proof, and the properties they are for are run.

*ServiceProofs.* The theorems about one call rest on `AllTell`: for every
adapter, any number of replies from three on and any replies, an outage is an
`HTTPError`; an outcome that depends on a failed reply is an exception if the
request is not spare, and otherwise what remains of the answer, or an exception of
one of the four in `Unkept` (`Tolerable`); and only an adapter that does not filter (`AnyFeed`) ends with
entries of elsewhere (`Tells`). It is proved family by family (those that make
one request, in sequence, in parallel, page by page); for pages,
`LastPageOf` says which one is the last that is read.
`CallInvHolds` carries it to `CallSpec`.

The properties of `Service` are not inductive: they speak of the entry a part
finds and of what it has got, and say nothing of entries that only a later part
finds. `ServiceInv` adds that every entry is of the adapter and place
that its key stands for (`Owns`) and holds nothing of elsewhere unless its key
is one of three (`CacheHolds`), that every background refresh is of a call that
keeps it so, and that a part has got at most two results, each of a
call that its handler makes after the earlier ones and one that this call can
give (`PartsFit`). `Owns` is a function of the key (`OwnsOne`), which is where
`KeysDiffer` is used; hence `EntriesAreOwn`. Two lemmas carry the induction.
`AllSafe`: for every handler, every city it may be asked for, any toggles and
parameters, and after none, one or two results, the next fetch has a key
of its own and needs no toggle that is off (boards excepted), and the answer
says what became of the results (`Safe`). It is proved by shape: a fetch
behind guards (`Shaped`, for most routes), the boards, and
one by one the routes with two fetches. `OutcomesShown`: what a call
can give, by `AllTell`, is what its key may hold. `ServiceInvHolds` then goes
through `Ask`, `compare`, `city_overview`, `Fetching`, `BudgetEnds`, `Refresh`, `Age`
and `Respond`, and the six properties follow; `RowsAlwaysAgree` compares row and
route branch by branch (`RowsDegrade`, `NoErrors`). The tables of the
registry are part of the model, so the theorems are about its 17 cities, with any of them,
and any others, asked for.

`ServiceInv` was checked with TLC on the instance of `service` before it was
proved. The proof corrected the model once: `TogglesHold` had excepted the
boards only if `stada` alone is off, which with other toggles off as well is false;
the exception now is that of all the fetch needs only `stada` is.

Model-checked only: all liveness (`HealsItself`, `HealsEverywhere`,
`CacheRecovers`, `FetchReturnsAlways`, `KeepsPulling`, `LiveAgain`,
`EveryoneServed`, `EveryRequestEnds`), since the prover does not handle
fairness. Every invariant and action property of the passing runs is a theorem.

## 5. Where code and documentation disagree

Shown by a run that ends in a counterexample:

* `No500` (run `static_timetable_no500`): live.py:1085 and 1152 promise
  `unresolved=True` and no 500 for static data that cannot be read.
  `refresh_static_gtfs` installs any body of status 200 (refresh.py:88-98), and
  `zipfile.BadZipFile` is none of the exceptions live.py:1151 catches, so every
  request for a trip is a 500 until the next refresh.

Met while modelling, and plain from the code; no run is spent on them:

* transit/poller.py:52-54 (a read or parse error gives `None`, no crash): the
  same `BadZipFile` is not among the exceptions of poller.py:61, so every
  iteration of a worker that has not read the file before ends without storing
  anything, and live data stays away until the file is a ZIP again (`LiveAgain`).
* interpolation.py:61-62 ("25:30:00 = 01:30 of the following day"): the service
  day handed in is always midnight UTC of the day of the request
  (live.py:953-959), so at 01:30 such a trip has not departed yet and has no
  position; the times of the timetable, local ones, are read as UTC, one or two
  hours away. `PositionWhenUnderway` counts the day as the code does.
* refresh.py:81 ("no reader ever sees half a ZIP"): true of each opening. A
  request opens the file twice and may meet two releases: the stops of one with
  the places of the other. `PositionWhenUnderway` leaves it out.
* breaker_redis.py:8 (OPEN survives worker boundaries): `persist` is an
  unconditional SET of the worker's copy, so a failure recorded on a copy read
  before another worker opened the breaker overwrites the persisted OPEN with
  CLOSED (breaker_redis.py:127).
* charging/poller.py:13-15 (a failing lock leads to unnecessary traffic
  only): when Redis errs at the lock, two workers pull at the same time; the
  one that drained first may write last, and the older status of a point stays
  until its next change. `NewestWins` has the premise that the lock works.
* transit/store.py:14 and 123 (the trips listed serve the stop): the index sets
  are only ever extended, and every trip that is added renews the TTL of the
  whole set. A trip whose update leaves out a stop stays listed there as long
  as some other trip calls at it; the readers only test that the trip has an
  update.
* live.py:242-243 (other cities carry no subscription -> `disabled`):
  `live_traffic_flow` falls back to the subscription of Cologne for every city
  (live.py:250), so its traffic is shown for all of them. `ForeignNotShown`
  excepts this route.
* cities.py:683 (no departures -> `no_data`): the departures highlight tests
  `if not raw`, and what the adapter returns for an empty board is a dict with
  an empty list. The highlight says `ok`, the route `no_data`; `RowsAgree`
  excepts it.
* cities.py:4604 (`no_data`: no station or no departure): a board whose
  catalogue of stations could not be fetched says so too, and so does the
  report of intensive care (cities.py:4983) when its source is out.
  `OutageIsSaid` excepts both.
* compare.py:250 (an unknown `sort` -> 400): the rows are sorted before
  `paginate` looks at the whitelist, so `sort=data`, whose values are dicts,
  ends in a `TypeError` and 500. The sorting is not modelled.
* breaker.py:89 and 14 (HALF_OPEN allows exactly one probe): a HALF_OPEN
  breaker admits every caller (breaker.py:94-95).
* client.py:21 (`fetch` does not raise an unmapped upstream error): an
  exception of `fetch_fn` that is no httpx error, a parse error say
  (adapters/dwd.py:47-48), leaves `fetch` without the fallback.
* transit/store.py:17 (all keys carry a TTL): a set whose iteration ends between
  SADD and EXPIRE has none until a trip is added to it again, and if no trip
  calls there any more it stays for ever. `KeysExpire` says when it gets one.
* transit/poller.py:127 (the lock expires before the next tick) and
  store.py:17-20 (a new run overwrites, only a poller that fails lets updates
  expire): an iteration may take longer than the sleep after it and the TTL of
  90 s leave it, since the feed has 72,483 updates and 1.1 million values of stops
  (adapters/gtfs_rt.py:50-53) and each is two awaited commands. Then updates that the
  feed still has expire between two rounds although nothing failed, and the
  provenance, written last, may go while trips are shown. `NoGap` and the second
  half of `NamespacesMatch` have the premise that the last such iteration is two rounds ago.
* live.py:1122-1124 (ID namespace and static data always match): after a
  change of feed the trips of one are shown with the provenance of the other
  for up to `Horizon`, and after an eviction of the provenance too.
* transit/poller.py:119-121 (the static index changes only during the weekly
  refresh): a running poller never reads it again (poller.py:57), so the new
  timetable reaches it with the next deploy; the same holds for a file that
  was not there when it first looked (`index = "none"` in `StaticTimetable`).
* transit/poller.py:126 (only one worker polls per interval): only while an
  iteration is shorter than its lock of 40 s.
* breaker.py:50 and 90 (OPEN is held for the cooldown): a late success of a
  call let in earlier closes an open breaker at once (breaker.py:105).
* breaker_redis.py:8 (HALF_OPEN survives worker boundaries): it is never
  persisted, since `persist` follows outcomes only; each worker probes.
* breaker_redis.py:43-44 (a source untouched for a day starts cleanly
  CLOSED): the entry expires, the worker's memory does not.
* cache.py:4-6, 185-187 and 217-218 (exactly one upstream call for N cold
  requests): only while calls are shorter than the losers' wait of 5 s and the
  lock of 10 s (cache.py:53-57). A source that is slower, and timeouts of 30
  and 60 s are set for some (overpass.py:60, genesis.py:200), is called by every loser
  and by whoever takes the lock after it, and its late answer overwrites newer ones
  (`_store` does not look at what is there). `OneUpstreamCall` and
  `NeverOverwrittenByOlder` have the premise `calm`, and are violated without it.
* client.py:249 (open breaker: fallback instead of blocking): on a cold key
  whose lock is taken a fetch polls first, and asks the breaker after that.
* charging/poller.py:29-30 (no loss): the queue does not lose changes, but an
  iteration that fails or dies between the pull and the end of the transaction
  does; nothing puts them back, and the old status stays for up to a day.
  The same holds for a body over the size cap or not JSON, which
  `fetch_afir` turns into an empty answer after the source has handed its queue
  out (mobilithek_afir.py:213-218): no exception, and a snapshot without points
  is stored. `OnlyFaultsForget` says that nothing else forgets.
* mobilithek_datex3.py:318-319 ("Ein Fehlschlag des statischen Pulls darf die
  Live-Belegung NICHT kippen"): only `ValueError` is caught (line 327), so a 5xx
  or a network error of the static subscription leaves `fetch_frankfurt_parking` and the
  occupancy with it. mobilithek_datex2.py:745-747 (the static subscription is
  optional, "fehlt es oder liefert es nichts, wird die dynamische Belegung ohne
  Stammdaten zurückgegeben") has the same code for Wuppertal and Magdeburg.
* muenchen_radzaehl.py:25-27 and 180-181 (CSV not reachable: the stations all the
  same, with `value=None`): no exception of the catalogue or of the file is
  caught, and `raise_for_status` raises, so the stations are lost too. `FailureShows` asks for a
  partial answer when one of several requests fails that the repository calls
  spare; these four adapters (`Unkept`) break that.
* client.py:83-89 (limits for the shared address, aggregate rate): they are
  kept per process, so four workers may reach four times as much.

## 6. Not modelled, and the plan

The models leave out: the fields of entries and their mapping to records
(`normalization/`, pure conversions), the hash of a key, metrics and logging,
defective JSON in Redis (only this code writes the keys), the writes to the
archive (its package is not part of the repository), the slices of a page.
In the models of one component several keys and sources share nothing but
`bg_tasks` and are modelled as one; `Service` has them all. `Service` does not
split the facade at its awaits (that is `ResilientClient`), so two requests at
the same time, which only the cache could bring together, are not in it.

Read-only views of tables and settings (health, sources, track, dcat,
openapi), batch jobs (`ingest/`), metrics and the documentation site have no
state a request depends on.

Done: breaker, its mirroring in Redis, cache, facade, limits, both pollers and
their stores, the static timetable with its replacement and the interpolation,
the adapters, all routes with overview and compare, and the composition of
these; proofs of the safety of all of them. Left, in this order:

1. `main.py`: cancellation without await at shutdown; the middlewares in
   order, with the moving windows as external.
2. Pure algorithms against reference definitions: ETag comparison, the nearest
   city of a charging station.
3. The MCP server: how its tools answer when the API fails.
