------------------------- MODULE StaticTimetableProofs -------------------------
(***************************************************************************)
(* StaticTimetable, for any number of jobs and releases, any timetable and *)
(* any delays.                                                             *)
(***************************************************************************)
EXTENDS StaticTimetable, SequenceTheorems, WellFoundedInduction, TLAPS

(***************************************************************************)
(* A set of positions in a sequence has a first one.                       *)
(***************************************************************************)
LEMMA FirstOne ==
  ASSUME NEW S \in SUBSET Nat, S # {}
  PROVE  /\ Min(S) \in S
         /\ \A i \in S : Min(S) <= i
<1> DEFINE Less == {ss \in Nat \X Nat : ss[1] < ss[2]}
<1>1. IsWellFoundedOn(Less, Nat)
  BY NatLessThanWellFounded, Zenon DEF OpToRel
<1>2. PICK x \in S : \A y \in S : ~ (<<y, x>> \in Less)
  <2> HIDE DEF Less
  <2>1. QED
    BY <1>1, WFMin, Zenon
<1>3. \A y \in S : x <= y
  <2> SUFFICES ASSUME NEW y \in S, y < x PROVE FALSE
    OBVIOUS
  <2>1. <<y, x>> \in Nat \X Nat /\ <<y, x>>[1] = y /\ <<y, x>>[2] = x
    OBVIOUS
  <2>2. <<y, x>> \in Less
    BY <2>1
  <2> HIDE DEF Less
  <2>3. QED
    BY <1>2, <2>2
<1>4. QED
  BY <1>3 DEF Min

(***************************************************************************)
(* Two in a row.                                                           *)
(***************************************************************************)
LEMMA SecondOne ==
  ASSUME NEW S, NEW seq \in Seq(S), NEW e \in S, Len(seq) = 1
  PROVE  /\ Append(seq, e) \in Seq(S) /\ DOMAIN Append(seq, e) = 1 .. 2
         /\ Append(seq, e)[1] = seq[1] /\ Append(seq, e)[2] = e
<1>1. Append(seq, e) \in Seq(S)
  BY AppendProperties
<1>2. Len(Append(seq, e)) = Len(seq) + 1
  BY AppendProperties
<1>3. Append(seq, e)[1] = seq[1]
  BY AppendProperties
<1>4. Append(seq, e)[Len(seq) + 1] = e
  BY AppendProperties
<1>5. DOMAIN Append(seq, e) = 1 .. Len(Append(seq, e))
  BY <1>1
<1>6. QED
  BY <1>1, <1>2, <1>3, <1>4, <1>5

(***************************************************************************)
(* estimate_position, against the timetable: from departure to arrival it  *)
(* finds the two stops around the time, and nothing before and after.      *)
(***************************************************************************)
LEMMA Estimated ==
  ASSUME NEW stops, NEW time \in Int,
         Len(stops) \in Nat, DOMAIN stops = 1 .. Len(stops),
         \A i \in DOMAIN stops : stops[i].at \in Int,
         \A i, j \in DOMAIN stops : i <= j => stops[i].at <= stops[j].at
  PROVE  IF Underway(stops, time)
         THEN \E i \in 1 .. Len(stops) - 1 :
                /\ stops[i].at <= time /\ time < stops[i + 1].at
                /\ estimate_position(stops, time) = {Way(stops[i], stops[i + 1], time)}
         ELSE estimate_position(stops, time) = NoPosition
<1> DEFINE later == {i \in DOMAIN stops : stops[i].at > time}
           nxt == Min(later)
<1>1. estimate_position(stops, time) = IF later = {} \/ nxt = 1 THEN NoPosition
                                       ELSE {Way(stops[nxt - 1], stops[nxt], time)}
  BY DEF estimate_position
<1>2. CASE later = {}
  <2>1. ~ Underway(stops, time)
    BY <1>2 DEF Underway
  <2>2. QED
    BY <1>1, <1>2, <2>1
<1>3. CASE later # {}
  <2>1. later \in SUBSET Nat
    OBVIOUS
  <2>2. nxt \in later /\ \A i \in later : nxt <= i
    BY <1>3, <2>1, FirstOne
  <2> HIDE DEF nxt
  <2>3. CASE nxt = 1
    <3>1. ~ Underway(stops, time)
      BY <2>2, <2>3 DEF Underway
    <3>2. QED
      BY <1>1, <2>3, <3>1
  <2>4. CASE nxt # 1
    <3>1. nxt - 1 \in 1 .. Len(stops) - 1 /\ nxt - 1 \in DOMAIN stops /\ nxt \in DOMAIN stops
      BY <2>2, <2>4
    <3>2. nxt - 1 \notin later
      BY <2>2, <3>1
    <3>3. stops[nxt - 1].at <= time /\ time < stops[nxt].at
      BY <2>2, <3>1, <3>2
    <3>4. Underway(stops, time)
      <4>1. 1 \in DOMAIN stops /\ Len(stops) \in DOMAIN stops /\ Len(stops) > 0
        BY <3>1
      <4>2. stops[1].at <= stops[nxt - 1].at /\ stops[nxt].at <= stops[Len(stops)].at
        BY <3>1, <4>1
      <4>3. QED
        BY <3>1, <3>3, <4>1, <4>2 DEF Underway
    <3>5. estimate_position(stops, time) = {Way(stops[nxt - 1], stops[(nxt - 1) + 1], time)}
      BY <1>1, <1>3, <2>4, <3>1
    <3>6. QED
      BY <3>1, <3>3, <3>4, <3>5
  <2>5. QED
    BY <2>3, <2>4
<1>4. QED
  BY <1>2, <1>3

-----------------------------------------------------------------------------
(* What a job's temporary file holds follows from what the job does. *)
OwnFile ==
  \A j \in Jobs :
    /\ job[j] = "idle" => temp[j] = Missing
    /\ job[j] = "writing" => temp[j] = Half
    /\ job[j] = "written" => temp[j] \in Bodies

(* What is no timetable has been written by some job. *)
SpoiledBySome ==
  ~spoiled => file # NotAZip /\ \A j \in Jobs : temp[j] # NotAZip

(* What a request has opened follows from where it is. *)
HasOpened ==
  /\ pc \in {"idle", "update", "times"} => opened = <<>>
  /\ pc = "stops" => \E r \in Releases : /\ opened = <<r>>
                                         /\ StopTimes[r][about.trip] # <<>>

IInv ==
  /\ TypeOK
  /\ OwnFile
  /\ SpoiledBySome
  /\ HasOpened
  /\ RefreshUnnoticed
  /\ PositionWhenUnderway

USE TimetableAssumption

LEMMA Unlike == Missing \notin Bodies /\ Half \notin Bodies /\ Missing # Half
BY DEF Missing, Half

FilesOK == /\ file \in Bodies \cup {Missing}
           /\ temp \in [Jobs -> Bodies \cup {Missing, Half}]
           /\ job \in [Jobs -> {"idle", "writing", "written"}]
           /\ spoiled \in BOOLEAN
PollerOK == /\ index \in Releases \cup {"unread", "none"}
            /\ due \in BOOLEAN /\ left \in 0 .. TTL
RequestOK == /\ pc \in Steps
             /\ about \in [trip : Trips, when : 0 .. Day - 1, delay : Delays \cup {0}]
             /\ opened \in Seq(Bodies \cup {Missing})
             /\ answer.kind \in {"none", "no_data", "ok", "error"}

LEMMA Parts == TypeOK <=> FilesOK /\ PollerOK /\ RequestOK
BY DEF TypeOK, FilesOK, PollerOK, RequestOK

LEMMA PartsPrime == TypeOK' <=> FilesOK' /\ PollerOK' /\ RequestOK'
BY DEF TypeOK, FilesOK, PollerOK, RequestOK

LEMMA InitIInv == Init => IInv
<1> SUFFICES ASSUME Init PROVE IInv
  OBVIOUS
<1> USE DEF Init
<1>1. FilesOK
  BY DEF FilesOK
<1>2. PollerOK
  BY DEF PollerOK
<1>3. RequestOK
  <2>1. NoRequest \in [trip : Trips, when : 0 .. Day - 1, delay : Delays \cup {0}]
    BY DEF NoRequest
  <2>2. <<>> \in Seq(Bodies \cup {Missing})
    OBVIOUS
  <2>3. QED
    BY <2>1, <2>2 DEF RequestOK, Steps, NoAnswer
<1>4. OwnFile /\ HasOpened
  BY DEF OwnFile, HasOpened
<1>5. SpoiledBySome
  BY Unlike DEF SpoiledBySome, Bodies
<1>6. RefreshUnnoticed /\ PositionWhenUnderway
  BY DEF RefreshUnnoticed, PositionWhenUnderway
<1>7. QED
  BY <1>1, <1>2, <1>3, <1>4, <1>5, <1>6, Parts DEF IInv

(***************************************************************************)
(* A step that leaves the request alone leaves alone what holds of it.     *)
(***************************************************************************)
LEMMA RequestKept ==
  ASSUME IInv, UNCHANGED request, ~spoiled' => ~spoiled
  PROVE  HasOpened' /\ RefreshUnnoticed' /\ PositionWhenUnderway'
<1> USE DEF request, IInv
<1>1. HasOpened'
  BY DEF HasOpened
<1>2. RefreshUnnoticed'
  BY DEF RefreshUnnoticed, OneRelease
<1>3. PositionWhenUnderway'
  BY DEF PositionWhenUnderway, OneRelease
<1>4. QED
  BY <1>1, <1>2, <1>3

(* The jobs. *)
LEMMA NextJobs ==
  ASSUME IInv, NEW j \in Jobs, Download(j) \/ Write(j) \/ Replace(j) \/ Dies(j)
  PROVE  IInv'
<1> DEFINE FileParts == FilesOK' /\ OwnFile' /\ SpoiledBySome'
<1>1. FilesOK /\ PollerOK /\ RequestOK /\ OwnFile /\ SpoiledBySome
  BY Parts DEF IInv
<1>2. CASE Download(j)
  <2>1. FileParts /\ spoiled' = spoiled
    BY <1>1, <1>2, Unlike DEF Download, FilesOK, OwnFile, SpoiledBySome, Bodies
  <2>2. QED
    BY <1>1, <1>2, <2>1, PartsPrime, RequestKept DEF Download, IInv, PollerOK, RequestOK, poller, request
<1>3. CASE Write(j)
  <2>1. PICK b \in Bodies : /\ temp' = [temp EXCEPT ![j] = b]
                            /\ spoiled' = (spoiled \/ b = NotAZip)
    BY <1>3 DEF Write
  <2>2. FilesOK' /\ OwnFile'
    BY <1>1, <1>3, <2>1 DEF Write, FilesOK, OwnFile
  <2>3. ~spoiled' => ~spoiled /\ b # NotAZip
    BY <1>1, <2>1 DEF FilesOK
  <2>4. SpoiledBySome'
    BY <1>1, <1>3, <2>1, <2>3 DEF Write, FilesOK, SpoiledBySome
  <2>5. QED
    BY <1>1, <1>3, <2>2, <2>3, <2>4, PartsPrime, RequestKept
       DEF Write, IInv, PollerOK, RequestOK, poller, request
<1>4. CASE Replace(j)
  <2>1. FileParts /\ spoiled' = spoiled
    BY <1>1, <1>4, Unlike DEF Replace, FilesOK, OwnFile, SpoiledBySome, Bodies
  <2>2. QED
    BY <1>1, <1>4, <2>1, PartsPrime, RequestKept DEF Replace, IInv, PollerOK, RequestOK, poller, request
<1>5. CASE Dies(j)
  <2>1. FileParts /\ spoiled' = spoiled
    BY <1>1, <1>5, Unlike DEF Dies, FilesOK, OwnFile, SpoiledBySome, Bodies
  <2>2. QED
    BY <1>1, <1>5, <2>1, PartsPrime, RequestKept DEF Dies, IInv, PollerOK, RequestOK, poller, request
<1>6. QED
  BY <1>2, <1>3, <1>4, <1>5

(***************************************************************************)
(* The jobs' side is left alone by everybody else.                         *)
(***************************************************************************)
LEMMA FilesKept ==
  ASSUME IInv, UNCHANGED <<file, batch>>
  PROVE  FilesOK' /\ OwnFile' /\ SpoiledBySome'
BY Parts DEF IInv, FilesOK, OwnFile, SpoiledBySome, batch

(* The poller and time. *)
LEMMA NextPoller ==
  ASSUME IInv, Poll \/ Tick
  PROVE  IInv'
<1>1. UNCHANGED <<file, batch, request>>
  BY DEF Poll, Tick
<1>2. PollerOK'
  <2> USE Parts DEF IInv, PollerOK
  <2>1. CASE Tick
    BY <2>1 DEF Tick
  <2>2. CASE Poll
    <3>1. Loaded \in Bodies \cup {"unread", "none"}
      BY DEF Loaded, FilesOK, Bodies
    <3>2. Loaded \notin {NotAZip, Half} => Loaded \in Releases \cup {"unread", "none"}
      BY <3>1 DEF Bodies
    <3>3. \/ index' = index /\ left' = left
          \/ /\ Loaded \notin {NotAZip, Half}
             /\ index' = Loaded /\ left' = TTL
      BY <2>2 DEF Poll
    <3>4. due' = FALSE
      BY <2>2 DEF Poll
    <3>5. index' \in Releases \cup {"unread", "none"}
      BY <3>2, <3>3
    <3>6. left' \in 0 .. TTL
      BY <3>3
    <3>7. QED
      BY <3>4, <3>5, <3>6
  <2>3. QED
    BY <2>1, <2>2
<1>3. RequestOK'
  BY <1>1, Parts DEF IInv, RequestOK, request
<1>4. spoiled' = spoiled
  BY <1>1 DEF batch
<1>5. QED
  BY <1>1, <1>2, <1>3, <1>4, PartsPrime, FilesKept, RequestKept DEF IInv

(* A request that begins, or ends without having opened the file. *)
LEMMA NextBegins ==
  ASSUME IInv, Restart \/ (\E t \in Trips : Ask(t)) \/ NoData \/ GetUpdate
  PROVE  IInv'
<1>1. UNCHANGED <<file, batch>>
  BY DEF Restart, Ask, NoData, GetUpdate
<1>2. PollerOK'
  BY Parts DEF Restart, Ask, NoData, GetUpdate, IInv, PollerOK, poller
<1>3. RequestOK' /\ HasOpened' /\ RefreshUnnoticed' /\ PositionWhenUnderway'
  <2> USE Parts DEF IInv, RequestOK, Steps
  <2>1. CASE Restart
    BY <2>1, InitIInv DEF Restart, NoAnswer, NoRequest, HasOpened, RefreshUnnoticed,
       PositionWhenUnderway
  <2>2. ASSUME NEW t \in Trips, Ask(t)
        PROVE  RequestOK' /\ HasOpened' /\ RefreshUnnoticed' /\ PositionWhenUnderway'
    BY <2>2 DEF Ask, NoAnswer, HasOpened, RefreshUnnoticed, PositionWhenUnderway
  <2>3. CASE NoData
    BY <2>3 DEF NoData, AnswersWith, HasOpened, RefreshUnnoticed, PositionWhenUnderway
  <2>4. CASE GetUpdate
    BY <2>4 DEF GetUpdate, HasOpened, RefreshUnnoticed, PositionWhenUnderway
  <2>5. QED
    BY <2>1, <2>2, <2>3, <2>4
<1>4. QED
  BY <1>1, <1>2, <1>3, PartsPrime, FilesKept DEF IInv

(***************************************************************************)
(* The first opening: what a request has met so far is one release, or it  *)
(* is answered.                                                            *)
(***************************************************************************)
LEMMA NextReadStopTimes ==
  ASSUME IInv, ReadStopTimes
  PROVE  IInv'
<1>1. UNCHANGED <<file, batch, poller, about>> /\ opened' = <<file>>
  BY DEF ReadStopTimes
<1>2. FilesOK' /\ OwnFile' /\ SpoiledBySome' /\ PollerOK' /\ spoiled' = spoiled
  BY <1>1, FilesKept, Parts DEF IInv, PollerOK, poller, batch
<1>3. file \in Releases \cup {NotAZip, Missing} /\ (~spoiled => file # NotAZip)
  BY Parts DEF IInv, FilesOK, SpoiledBySome, Bodies
<1>4. <<file>> \in Seq(Bodies \cup {Missing})
  BY <1>3 DEF Bodies
<1>5. \A r : OneRelease(r)' <=> file = r
  BY <1>1 DEF OneRelease
<1>6. CASE file \in Releases /\ StopTimes[file][about.trip] # <<>>
  <2>1. pc' = "stops" /\ answer' = answer
    BY <1>6, Unlike DEF ReadStopTimes, Bodies
  <2>2. RequestOK' /\ HasOpened' /\ RefreshUnnoticed' /\ PositionWhenUnderway'
    BY <1>1, <1>4, <1>6, <2>1, Parts
       DEF IInv, RequestOK, Steps, HasOpened, RefreshUnnoticed, PositionWhenUnderway
  <2>3. QED
    BY <1>2, <2>2, PartsPrime DEF IInv
<1>7. CASE ~ (file \in Releases /\ StopTimes[file][about.trip] # <<>>)
  <2>1. /\ pc' = "answered"
        /\ answer' = IF file = NotAZip THEN Crashes ELSE Unresolved
    BY <1>3, <1>7, Unlike DEF ReadStopTimes, AnswersWith, Bodies
  <2>2. RequestOK'
    BY <1>1, <1>4, <2>1, Parts DEF IInv, RequestOK, Steps, Crashes, Unresolved
  <2>3. HasOpened'
    BY <2>1 DEF HasOpened
  <2>4. \A r \in Releases : OneRelease(r)' => ~Known(about.trip, r)
    BY <1>5, <1>7 DEF Known
  <2>5. RefreshUnnoticed'
    BY <1>1, <1>2, <1>3, <2>1, <2>4 DEF RefreshUnnoticed, Crashes, Unresolved
  <2>6. PositionWhenUnderway'
    BY <1>1, <2>1, <2>4 DEF PositionWhenUnderway, Crashes, Unresolved
  <2>7. QED
    BY <1>2, <2>2, <2>3, <2>5, <2>6, PartsPrime DEF IInv
<1>8. QED
  BY <1>6, <1>7

(***************************************************************************)
(* The second opening and the answer.                                      *)
(***************************************************************************)
LEMMA NextReadStops ==
  ASSUME IInv, ReadStops
  PROVE  IInv'
<1> DEFINE time == about.when - about.delay
<1>1. /\ UNCHANGED <<file, batch, poller, about>> /\ opened' = Append(opened, file)
      /\ pc = "stops" /\ pc' = "answered"
  BY DEF ReadStops, AnswersWith
<1>2. FilesOK' /\ OwnFile' /\ SpoiledBySome' /\ PollerOK' /\ spoiled' = spoiled
  BY <1>1, FilesKept, Parts DEF IInv, PollerOK, poller, batch
<1>3. /\ file \in Releases \cup {NotAZip, Missing} /\ (~spoiled => file # NotAZip)
      /\ about.trip \in Trips /\ time \in Int
  <2>1. /\ about.trip \in Trips /\ about.when \in 0 .. Day - 1
        /\ about.delay \in Delays \cup {0}
    BY Parts DEF IInv, RequestOK
  <2>2. about.when \in Int
    BY <2>1
  <2>3. about.delay \in Int
    <3>1. \A d \in Delays \cup {0} : d \in Int
      OBVIOUS
    <3>2. QED
      BY <2>1, <3>1
  <2>4. time \in Int
    BY <2>2, <2>3
  <2>5. QED
    BY <2>1, <2>4, Parts DEF IInv, FilesOK, SpoiledBySome, Bodies
<1>4. PICK met \in Releases : opened = <<met>> /\ StopTimes[met][about.trip] # <<>>
  BY <1>1 DEF IInv, HasOpened
<1>5. /\ opened' \in Seq(Bodies \cup {Missing})
      /\ DOMAIN opened' = 1 .. 2 /\ opened'[1] = met /\ opened'[2] = file
  <2>1. opened \in Seq(Bodies \cup {Missing}) /\ Len(opened) = 1 /\ opened[1] = met
    BY <1>4, Parts DEF IInv, RequestOK
  <2>2. file \in Bodies \cup {Missing}
    BY <1>3 DEF Bodies
  <2>3. QED
    BY <1>1, <2>1, <2>2, SecondOne
<1>6. \A r \in Releases : OneRelease(r)' => met = r /\ file = r
  BY <1>5 DEF OneRelease
<1>7. HasOpened'
  BY <1>1 DEF HasOpened
<1> DEFINE stops == Located(met, file, about.trip)
<1> HIDE DEF time
<1>8. CASE file = NotAZip
  <2>1. answer' = Crashes
    BY <1>8 DEF ReadStops, AnswersWith
  <2>2. RequestOK'
    BY <1>1, <1>5, <2>1, Parts DEF IInv, RequestOK, Steps, Crashes
  <2>3. RefreshUnnoticed' /\ PositionWhenUnderway'
    BY <1>2, <1>3, <1>8, <2>1 DEF RefreshUnnoticed, PositionWhenUnderway, Crashes
  <2>4. QED
    BY <1>2, <1>7, <2>2, <2>3, PartsPrime DEF IInv
<1>9. CASE file # NotAZip /\ (file = Missing \/ stops = <<>>)
  <2>1. answer' = Unresolved
    BY <1>3, <1>4, <1>9, Unlike DEF ReadStops, AnswersWith, Bodies
  <2>2. RequestOK'
    BY <1>1, <1>5, <2>1, Parts DEF IInv, RequestOK, Steps, Unresolved
  <2>3. \A r \in Releases : OneRelease(r)' => ~Known(about.trip, r)
    BY <1>6, <1>9, Unlike DEF Known, Bodies
  <2>4. RefreshUnnoticed' /\ PositionWhenUnderway'
    BY <1>1, <2>1, <2>3 DEF RefreshUnnoticed, PositionWhenUnderway, Unresolved
  <2>5. QED
    BY <1>2, <1>7, <2>2, <2>4, PartsPrime DEF IInv
<1>10. CASE file # NotAZip /\ file # Missing /\ stops # <<>>
  <2> DEFINE found == [kind |-> "ok", unresolved |-> FALSE,
                       position |-> estimate_position(stops, time)]
  <2>1. answer' = found
    BY <1>3, <1>4, <1>10, Unlike DEF ReadStops, AnswersWith, Bodies, time
  <2>2. RequestOK'
    BY <1>1, <1>5, <2>1, Parts DEF IInv, RequestOK, Steps
  <2>3. RefreshUnnoticed'
    BY <1>1, <1>4, <1>6, <1>10, <2>1 DEF RefreshUnnoticed, Known
  <2>4. PositionWhenUnderway'
    <3> SUFFICES ASSUME NEW r \in Releases, met = r, file = r
                 PROVE  IF Known(about.trip, r) /\ Underway(stops, time)
                        THEN \E i \in 1 .. Len(stops) - 1 :
                               /\ stops[i].at <= time /\ time < stops[i + 1].at
                               /\ answer'.position = {Way(stops[i], stops[i + 1], time)}
                        ELSE answer'.position = NoPosition
      BY <1>1, <1>6 DEF PositionWhenUnderway, time
    <3>1. Known(about.trip, r)
      BY <1>4, <1>10 DEF Known
    <3>2. answer'.position = estimate_position(stops, time)
      BY <2>1
    <3>3. /\ Len(stops) \in Nat /\ DOMAIN stops = 1 .. Len(stops)
          /\ \A i \in DOMAIN stops : stops[i].at \in Int
          /\ \A i, j \in DOMAIN stops : i <= j => stops[i].at <= stops[j].at
      BY <1>3, TimesAssumption
    <3> HIDE DEF stops
    <3>4. QED
      BY <1>3, <3>1, <3>2, <3>3, Estimated
  <2>5. QED
    BY <1>2, <1>7, <2>2, <2>3, <2>4, PartsPrime DEF IInv
<1>11. QED
  BY <1>8, <1>9, <1>10

(***************************************************************************)
(* The inductive invariant holds in every state.                           *)
(***************************************************************************)
THEOREM Inductive == Spec => []IInv
<1>1. IInv /\ [Next]_vars => IInv'
  <2> SUFFICES ASSUME IInv, [Next]_vars PROVE IInv'
    OBVIOUS
  <2>1. CASE UNCHANGED vars
    <3>1. UNCHANGED <<file, batch>> /\ UNCHANGED poller /\ UNCHANGED request
      BY <2>1 DEF vars
    <3>2. PollerOK' /\ RequestOK' /\ spoiled' = spoiled
      BY <3>1, Parts DEF IInv, PollerOK, RequestOK, poller, request, batch
    <3>3. QED
      BY <3>1, <3>2, FilesKept, RequestKept, PartsPrime DEF IInv
  <2>2. CASE Next
    BY <2>2, NextJobs, NextPoller, NextBegins, NextReadStopTimes, NextReadStops DEF Next
  <2>3. QED
    BY <2>1, <2>2
<1>2. QED
  BY <1>1, InitIInv, PTL DEF Spec

(***************************************************************************)
(* Files, poller and request are well typed.                               *)
(***************************************************************************)
THEOREM Typing == Spec => []TypeOK
<1>1. IInv => TypeOK
  BY DEF IInv
<1>2. QED
  BY <1>1, Inductive, PTL

(***************************************************************************)
(* No replacement is noticed by a request, however many jobs run and       *)
(* wherever they die (refresh.py:81), unless a download was no timetable.  *)
(***************************************************************************)
THEOREM Unnoticed == Spec => []RefreshUnnoticed
<1>1. IInv => RefreshUnnoticed
  BY DEF IInv
<1>2. QED
  BY <1>1, Inductive, PTL

(***************************************************************************)
(* A trip has its position from departure to arrival and none before and   *)
(* after (interpolation.py:31), for every timetable and every delay.       *)
(***************************************************************************)
THEOREM PositionIsTrue == Spec => []PositionWhenUnderway
<1>1. IInv => PositionWhenUnderway
  BY DEF IInv
<1>2. QED
  BY <1>1, Inductive, PTL
=============================================================================
