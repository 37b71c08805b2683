---------------------------- MODULE StaticTimetable ----------------------------
(***************************************************************************)
(* The static GTFS file and who shares it: transit/refresh.py replaces it  *)
(* from outside, the poller of a worker (transit/poller.py) takes its      *)
(* index of lines from it once, and a request for a trip                   *)
(* (api/v1/live.py, transit/resolver.py) opens it twice, for the stop      *)
(* times and for the stops, and estimates a position                       *)
(* (transit/interpolation.py).                                             *)
(*                                                                         *)
(*   job:      idle -> writing -> written -> idle (replaced)               *)
(*   request:  idle -> update -> times -> stops -> answered                *)
(*                                                                         *)
(* One path is configured.  Jobs run at the same time (the timer's and one *)
(* by hand).  The worker's event loop stands still from the first opening  *)
(* of the file to the answer; jobs are other processes.  Requests only     *)
(* read, so one at a time stands for all.  A tick is the poller's          *)
(* interval.  The awaits of an iteration, the feed's failures and what     *)
(* Redis does to single keys are in GtfsRtPoller.                          *)
(***************************************************************************)
EXTENDS Integers, Sequences, FiniteSetsExt

CONSTANTS
  Jobs,      \* runs of the refresh batch
  Releases,  \* timetables gtfs.de publishes
  NotAZip,   \* a body with status 200 that is no timetable
  Trips,     \* trip ids, of all releases
  StopTimes, \* per release and trip: its stops, by stop_sequence; <<>>: none
  Places,    \* per release and stop: its place, or NoPlace
  NoTime,    \* a stop without a scheduled time
  NoPlace,   \* a stop that stops.txt has no coordinates for
  Day,       \* length of a day
  Delays,    \* delays of a trip
  TTL        \* ticks the updates of an iteration live in Redis

Bodies == Releases \cup {NotAZip}

Missing == "missing"     \* nothing is at the path
Half == "half"           \* a file that is being written

ASSUME TimetableAssumption ==
  /\ NotAZip \notin Releases /\ Trips # {}
  /\ {Missing, Half} \cap Bodies = {}
  /\ Day \in Nat \ {0} /\ TTL \in Nat \ {0} /\ Delays \subseteq Int

VARIABLES
  file,    \* what is at the path
  temp,    \* per job: what its temporary file holds, Missing: it has none
  job,     \* per job: what it does
  spoiled, \* history: what a job wrote was no timetable
  index,   \* index_cache of the poller: "unread", "none" or a release
  due,     \* the poller has not run in this tick
  left,    \* Redis: ticks the updates still live
  pc,      \* where the request is
  about,   \* its trip, when it was asked and the delay found
  opened,  \* what it has opened: the file of the stop times, that of the stops
  answer   \* its answer

batch == <<temp, job, spoiled>>
poller == <<index, due, left>>
request == <<pc, about, opened, answer>>
vars == <<file, batch, poller, request>>

NoPosition == {}
NoAnswer == [kind |-> "none"]
NoRequest == [trip |-> CHOOSE t \in Trips : TRUE, when |-> 0, delay |-> 0]

Init ==
  /\ file = Missing
  /\ temp = [j \in Jobs |-> Missing]
  /\ job = [j \in Jobs |-> "idle"]
  /\ spoiled = FALSE
  /\ index = "unread" /\ due = TRUE /\ left = 0
  /\ pc = "idle" /\ about = NoRequest /\ opened = <<>> /\ answer = NoAnswer

-----------------------------------------------------------------------------
(* refresh.py *)

(* Mutant: all jobs write to the same temporary file.                      *)
Download_OneName(j) ==
  /\ job[j] = "idle"
  /\ job' = [job EXCEPT ![j] = "writing"]
  /\ temp' = [k \in Jobs |-> IF k = j \/ temp[k] # Missing THEN Half ELSE Missing]
  /\ UNCHANGED <<file, spoiled, poller, request>>

(* A body arrives with status 200 and below the size cap (otherwise the    *)
(* job is over), and mkstemp opens a file of a new name.                   *)
Download(j) ==
  /\ job[j] = "idle"
  /\ job' = [job EXCEPT ![j] = "writing"]
  /\ temp' = [temp EXCEPT ![j] = Half]
  /\ UNCHANGED <<file, spoiled, poller, request>>

(* The body is written as it came: nothing looks into it. *)
Write(j) ==
  /\ job[j] = "writing"
  /\ job' = [job EXCEPT ![j] = "written"]
  /\ \E b \in Bodies :
       /\ temp' = [temp EXCEPT ![j] = b]
       /\ spoiled' = (spoiled \/ b = NotAZip)
  /\ UNCHANGED <<file, poller, request>>

(* os.replace *)
Replace(j) ==
  /\ job[j] = "written"
  /\ file' = temp[j]
  /\ temp' = [temp EXCEPT ![j] = Missing]
  /\ job' = [job EXCEPT ![j] = "idle"]
  /\ UNCHANGED <<spoiled, poller, request>>

(* A write fails and the temporary file is removed, or the job is killed   *)
(* and leaves it behind under a name nobody will open.                     *)
Dies(j) ==
  /\ job[j] # "idle"
  /\ temp' = [temp EXCEPT ![j] = Missing]
  /\ job' = [job EXCEPT ![j] = "idle"]
  /\ UNCHANGED <<file, spoiled, poller, request>>

-----------------------------------------------------------------------------
(* poller.py *)

(* _load_trip_route_index: a file that is not there is remembered as None. *)
Loaded == IF index # "unread" THEN index
          ELSE IF file = Missing THEN "none" ELSE file

Blocked == pc = "stops"

(* Mutant: what could not be read is remembered, too.                      *)
Poll_RemembersFailure ==
  /\ due /\ ~Blocked
  /\ due' = FALSE
  /\ index' = Loaded
  /\ left' = IF Loaded \in {NotAZip, Half} THEN left ELSE TTL
  /\ UNCHANGED <<file, batch, request>>

(* An iteration of the loop.  zipfile.BadZipFile is neither of the         *)
(* exceptions _load_trip_route_index catches: it ends the iteration before *)
(* anything is stored or cached.                                           *)
Poll ==
  /\ due /\ ~Blocked
  /\ due' = FALSE
  /\ IF Loaded \in {NotAZip, Half} THEN UNCHANGED <<index, left>>
     ELSE index' = Loaded /\ left' = TTL
  /\ UNCHANGED <<file, batch, request>>

(* A deploy: the poller's cache and the request under way are gone. *)
Restart ==
  /\ index' = "unread" /\ due' = TRUE
  /\ pc' = "idle" /\ about' = NoRequest /\ opened' = <<>> /\ answer' = NoAnswer
  /\ UNCHANGED <<file, batch, left>>

Tick ==
  /\ Blocked \/ ~due
  /\ due' = TRUE
  /\ left' = IF left > 0 THEN left - 1 ELSE 0
  /\ UNCHANGED <<file, batch, index, request>>

-----------------------------------------------------------------------------
(* resolver.py and interpolation.py *)

(* stops_with_geo_for_trip: stops without coordinates or time are skipped. *)
Located(times, r, t) ==
  LET whole == SelectSeq(StopTimes[times][t],
                         LAMBDA s : Places[r][s.stop] # NoPlace /\ s.at # NoTime)
  IN [i \in DOMAIN whole |-> [stop  |-> whole[i].stop,
                              at    |-> whole[i].at,
                              place |-> Places[r][whole[i].stop]]]

(* In a timetable the times of a trip do not decrease from stop to stop. *)
ASSUME TimesAssumption ==
  \A r \in Releases, t \in Trips :
    LET stops == Located(r, r, t)
    IN /\ Len(stops) \in Nat /\ DOMAIN stops = 1 .. Len(stops)
       /\ \A i \in DOMAIN stops : stops[i].at \in Int
       /\ \A i, j \in DOMAIN stops : i <= j => stops[i].at <= stops[j].at

(* The way from one stop to the next, of which `done' of `span' is done.   *)
Way(p, n, adjusted) ==
  [from |-> p.place, to |-> n.place, between |-> <<p.stop, n.stop>>,
   done |-> adjusted - p.at, span |-> n.at - p.at]

(* Mutant: the vehicle leaves a stop after its time only.                  *)
estimate_position_Late(stops, adjusted) ==
  LET later == {i \in DOMAIN stops : stops[i].at >= adjusted}
      nxt   == Min(later)
  IN IF later = {} \/ nxt = 1 THEN NoPosition
     ELSE {Way(stops[nxt - 1], stops[nxt], adjusted)}

(* The first stop after `adjusted', and the one before it: a position, or  *)
(* none.  The span is never 0 (estimate_position's `span <= 0').           *)
estimate_position(stops, adjusted) ==
  LET later == {i \in DOMAIN stops : stops[i].at > adjusted}
      nxt   == Min(later)
  IN IF later = {} \/ nxt = 1 THEN NoPosition
     ELSE {Way(stops[nxt - 1], stops[nxt], adjusted)}

-----------------------------------------------------------------------------
(* live_transit_trip *)

Ask(t) ==
  /\ pc \in {"idle", "answered"}
  /\ pc' = "update"
  /\ about' = [trip |-> t, when |-> 0, delay |-> 0]
  /\ opened' = <<>> /\ answer' = NoAnswer
  /\ UNCHANGED <<file, batch, poller>>

AnswersWith(a) == pc' = "answered" /\ answer' = a

NoData ==
  /\ pc = "update" /\ left = 0
  /\ AnswersWith([kind |-> "no_data"])
  /\ UNCHANGED <<file, batch, poller, about, opened>>

(* get_trip_update, then now_epoch, of which only the time since midnight  *)
(* matters (_service_day_epoch); then the provenance is awaited.           *)
GetUpdate ==
  /\ pc = "update" /\ left > 0
  /\ pc' = "times"
  /\ \E time \in 0 .. Day - 1, d \in Delays :
       about' = [about EXCEPT !.when = time, !.delay = d]
  /\ UNCHANGED <<file, batch, poller, opened, answer>>

Unresolved == [kind |-> "ok", unresolved |-> TRUE, position |-> NoPosition]

(* BadZipFile is not caught here, either. *)
Crashes == [kind |-> "error"]

(* stop_times_for_trip.  A file that is not there raises OSError.  A trip  *)
(* it does not have needs no second opening.                               *)
ReadStopTimes ==
  /\ pc = "times"
  /\ opened' = <<file>>
  /\ IF file \in {NotAZip, Half} THEN AnswersWith(Crashes)
     ELSE IF file = Missing THEN AnswersWith(Unresolved)
     ELSE IF StopTimes[file][about.trip] = <<>> THEN AnswersWith(Unresolved)
     ELSE pc' = "stops" /\ UNCHANGED answer
  /\ UNCHANGED <<file, batch, poller, about>>

(* _stops_geo_index, and the estimate; no stop with both: unresolved. *)
ReadStops ==
  /\ pc = "stops"
  /\ AnswersWith(
       IF file \in {NotAZip, Half} THEN Crashes
       ELSE LET stops == Located(opened[1], file, about.trip)
            IN IF file = Missing \/ stops = <<>> THEN Unresolved
               ELSE [kind |-> "ok", unresolved |-> FALSE,
                     position |-> estimate_position(stops, about.when - about.delay)])
  /\ opened' = Append(opened, file)
  /\ UNCHANGED <<file, batch, poller, about>>

Next ==
  \/ \E j \in Jobs : Download(j) \/ Write(j) \/ Replace(j) \/ Dies(j)
  \/ Poll \/ Restart \/ Tick
  \/ \E t \in Trips : Ask(t)
  \/ NoData \/ GetUpdate \/ ReadStopTimes \/ ReadStops

Spec == Init /\ [][Next]_vars

(***************************************************************************)
(* Time passes, the poller's loop goes on (poller.py:170-172), and a       *)
(* request that has the event loop comes to its end.                       *)
(***************************************************************************)
FairSpec == Spec /\ WF_vars(Tick) /\ WF_vars(Poll) /\ WF_vars(ReadStops)

-----------------------------------------------------------------------------
Steps == {"idle", "update", "times", "stops", "answered"}

TypeOK ==
  /\ file \in Bodies \cup {Missing}
  /\ temp \in [Jobs -> Bodies \cup {Missing, Half}]
  /\ job \in [Jobs -> {"idle", "writing", "written"}]
  /\ spoiled \in BOOLEAN
  /\ index \in Releases \cup {"unread", "none"}
  /\ due \in BOOLEAN /\ left \in 0 .. TTL
  /\ pc \in Steps
  /\ about \in [trip : Trips, when : 0 .. Day - 1, delay : Delays \cup {0}]
  /\ opened \in Seq(Bodies \cup {Missing})
  /\ answer.kind \in {"none", "no_data", "ok", "error"}

(***************************************************************************)
(* "no partial write risk, no reader ever sees half a ZIP" (refresh.py:81):*)
(* whenever jobs die and however many run at the same time, only a         *)
(* download that was no timetable in the first place makes a request fail, *)
(* and a request that has met one release resolves the trip just when this *)
(* release has it.  (One that met two may find the stops of the first gone.)*)
(***************************************************************************)
OneRelease(r) == opened # <<>> /\ \A i \in DOMAIN opened : opened[i] = r

Known(t, r) == StopTimes[r][t] # <<>> /\ Located(r, r, t) # <<>>

RefreshUnnoticed ==
  pc = "answered" /\ ~spoiled =>
    /\ answer.kind # "error"
    /\ answer.kind = "ok" => \A r \in Releases :
         OneRelease(r) => answer.unresolved = ~Known(about.trip, r)

(***************************************************************************)
(* "honestly before departure or after arrival, no fantasy position"       *)
(* (interpolation.py:31): from the departure until the arrival, as much    *)
(* later as the delay says, a trip is between the two stops that the       *)
(* timetable has it between, and there is no position before and after.    *)
(* Trips run on the day of the request, counted in UTC (live.py:953):      *)
(* past midnight a trip of the day before has no position.  A request that *)
(* met two releases is left out.                                           *)
(***************************************************************************)
Underway(stops, time) ==
  /\ Len(stops) > 0
  /\ stops[1].at <= time /\ time < stops[Len(stops)].at

PositionWhenUnderway ==
  pc = "answered" /\ answer.kind = "ok" =>
    \A r \in Releases :
      OneRelease(r) =>
        LET stops == Located(r, r, about.trip)
            time  == about.when - about.delay
        IN IF Known(about.trip, r) /\ Underway(stops, time)
           THEN \E i \in 1 .. Len(stops) - 1 :
                  /\ stops[i].at <= time /\ time < stops[i + 1].at
                  /\ answer.position = {Way(stops[i], stops[i + 1], time)}
           ELSE answer.position = NoPosition

(***************************************************************************)
(* A download that is no timetable stops the live data of a worker that    *)
(* has not read the file before (poller.py:59-63), but not for good: once  *)
(* the file is a timetable again there is live data again, without a       *)
(* restart.                                                                *)
(***************************************************************************)
LiveAgain == <>[](file \in Releases) => []<>(left > 0)

(***************************************************************************)
(* What the docs say and the code does not do.  live.py:1085: "If static   *)
(* data is not resolvable -> unresolved=True (no 500 ...)".                *)
(***************************************************************************)
No500 == answer.kind # "error"
=============================================================================
