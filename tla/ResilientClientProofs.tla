------------------------ MODULE ResilientClientProofs ------------------------
(***************************************************************************)
(* CacheAside, in SingleFlight (SSpec) and in ResilientClient (CSpec), for *)
(* any number of requests and refreshers, any versions, calls of any       *)
(* length and any faults.                                                  *)
(***************************************************************************)
EXTENDS ResilientClient, SingleFlight, TLAPS

Statuses == {"NONE", "HIT", "STALE", "MISS", "ERROR", "STALE-ON-ERROR"}

Answer == [status : Statuses, payload : 0 .. MaxVersion \cup {NoEntry}]

(***************************************************************************)
(* Entries.                                                                *)
(***************************************************************************)
LEMMA EntryParts ==
  ASSUME NEW e \in Entry
  PROVE  /\ e # NoEntry /\ e.version # NoEntry
         /\ e.age \in 0 .. StaleFor /\ e.version \in 0 .. MaxVersion
BY CacheAssumption DEF Entry

LEMMA EntryFetched ==
  ASSUME NEW v \in 0 .. MaxVersion
  PROVE  /\ Payload(v) \in Entry /\ Payload(v) # NoEntry
         /\ Payload(v).age = 0 /\ Payload(v).version = v
<1>1. Payload(v) \in Entry
  BY CacheAssumption DEF Entry, Payload
<1>2. QED
  BY <1>1, EntryParts DEF Payload

LEMMA EntryAges ==
  ASSUME NEW e \in Entry \cup {NoEntry}
  PROVE  /\ EntryAged(e) \in Entry \cup {NoEntry}
         /\ e = NoEntry <=> EntryAged(e) = NoEntry
         /\ e # NoEntry => EntryAged(e).version = e.version
         /\ e # NoEntry /\ e.age < StaleFor => EntryAged(e).age = e.age + 1
<1>1. CASE e = NoEntry
  BY <1>1 DEF EntryAged, Gone
<1>2. CASE e \in Entry /\ e.age >= StaleFor
  <2>1. EntryAged(e) = e /\ e # NoEntry
    BY <1>2, EntryParts DEF EntryAged, Gone
  <2>2. ~(e.age < StaleFor)
    BY <1>2, EntryParts, CacheAssumption
  <2>3. QED
    BY <1>2, <2>1, <2>2
<1>3. CASE e \in Entry /\ ~(e.age >= StaleFor)
  <2> DEFINE f == [age |-> e.age + 1, version |-> e.version]
  <2>1. e # NoEntry /\ ~Gone(e)
    BY <1>3, EntryParts DEF Gone
  <2>2. e = [age |-> e.age, version |-> e.version]
    BY <1>3 DEF Entry
  <2>3. EntryAged(e) = f
    BY <2>1, <2>2 DEF EntryAged
  <2>4. e.age + 1 \in 0 .. StaleFor
    BY <1>3, EntryParts, CacheAssumption
  <2>5. f \in Entry
    BY <1>3, <2>4, EntryParts DEF Entry
  <2>6. QED
    BY <1>3, <2>1, <2>3, <2>5, EntryParts
<1>4. QED
  BY <1>1, <1>2, <1>3

(***************************************************************************)
(* Typing, for every action of CacheAside, the failing ones included.      *)
(***************************************************************************)
SharedOK == /\ entry \in Entry \cup {NoEntry} /\ lock \in 0 .. LockTTL
            /\ version \in 0 .. MaxVersion /\ up \in BOOLEAN
            /\ faults \in 0 .. MaxFaults

TasksOK == /\ pc \in [Tasks -> Places] /\ copy \in [Tasks -> Entry \cup {NoEntry}]
           /\ clock \in [Tasks -> Nat] /\ answer \in [Requests -> Answer]

LEMMA Parts == TypeOK <=> SharedOK /\ TasksOK
BY DEF TypeOK, SharedOK, TasksOK, Answer, Statuses

LEMMA PartsPrime == TypeOK' <=> SharedOK' /\ TasksOK'
BY DEF TypeOK, SharedOK, TasksOK, Answer, Statuses

LEMMA Answered ==
  ASSUME TasksOK, NEW t \in Tasks, NEW status \in Statuses,
         NEW v \in 0 .. MaxVersion \cup {NoEntry}, Answers(t, status, v)
  PROVE  TasksOK'
<1>1. [status |-> status, payload |-> v] \in Answer
  BY DEF Answer
<1>2. answer' \in [Requests -> Answer]
  BY <1>1 DEF TasksOK, Answers
<1>3. QED
  BY <1>2 DEF TasksOK, Answers, Goto, Carries, Places

Hits(t) == Request(t) \/ Get(t) \/ GetFails(t) \/ Hit(t) \/ NotFresh(t)

Calling(t) == FetchReturns(t) \/ Raises(t) \/ Store(t) \/ StoreFails(t) \/ Abort(t)

Outside == Evict \/ Publish \/ SourceFlips

LEMMA HitsTyped ==
  ASSUME TypeOK, NEW t \in Requests, Hits(t)
  PROVE  TypeOK'
<1> USE Parts, PartsPrime
<1>0. t \in Tasks /\ copy[t] \in Entry \cup {NoEntry}
  BY DEF Tasks, TasksOK
<1>1. SharedOK'
  BY CacheAssumption
     DEF Hits, Request, Get, GetFails, Hit, NotFresh, Fault, SharedOK
<1>2. CASE Hit(t)
  <2>1. copy[t] \in Entry
    BY <1>0, <1>2 DEF Hit, Fresh
  <2>2. QED
    BY <1>0, <1>1, <1>2, <2>1, EntryParts, Answered DEF Hit, Statuses
<1>3. CASE ~Hit(t)
  BY <1>0, <1>1, <1>3, EntryFetched
     DEF Hits, Request, Get, GetFails, NotFresh, TasksOK, SharedOK, Goto, Carries,
         StartsFetch, Places
<1>4. QED
  BY <1>2, <1>3

LEMMA LockTyped ==
  ASSUME TypeOK, Carried, NEW t \in Requests, TryLock(t)
  PROVE  TypeOK'
<1> USE Parts, PartsPrime, CacheAssumption
<1>0. t \in Tasks /\ copy[t] \in Entry \cup {NoEntry} /\ Refreshers \subseteq Tasks
  BY DEF Tasks, TasksOK
<1>1. SharedOK'
  BY DEF TryLock, StaleWins, StaleLoses, ColdWins, ColdLoses, Fault, SharedOK
<1>2. pc[t] = "stale" => copy[t] \in Entry
  BY <1>0 DEF Carried
<1>3. ASSUME NEW r \in Refreshers, StaleWins(t, r) PROVE TasksOK'
  <2>1. [status |-> "STALE", payload |-> copy[t].version] \in Answer
    BY <1>2, <1>3, EntryParts DEF StaleWins, Answer, Statuses
  <2>2. answer' \in [Requests -> Answer]
    BY <1>3, <2>1 DEF StaleWins, TasksOK
  <2>3. QED
    BY <1>0, <1>3, <2>2, EntryFetched DEF StaleWins, TasksOK, SharedOK, Places
<1>4. CASE StaleLoses(t)
  <2>1. copy[t].version \in 0 .. MaxVersion /\ "STALE" \in Statuses
    BY <1>2, <1>4, EntryParts DEF StaleLoses, Statuses
  <2>2. Answers(t, "STALE", copy[t].version)
    BY <1>4 DEF StaleLoses
  <2>3. QED
    BY <1>0, <1>1, <2>1, <2>2, Answered
<1>5. CASE ColdWins(t) \/ ColdLoses(t)
  <2>1. TasksOK'
    BY <1>0, <1>5, EntryFetched
       DEF ColdWins, ColdLoses, TasksOK, SharedOK, Goto, Carries, StartsFetch, Places
  <2>2. QED
    BY <1>1, <2>1
<1>6. QED
  BY <1>1, <1>3, <1>4, <1>5 DEF TryLock

LEMMA WaitTyped ==
  ASSUME TypeOK, NEW t \in Requests, Wait(t) \/ WaitFails(t)
  PROVE  TypeOK'
<1> USE Parts, PartsPrime, CacheAssumption
<1>0. t \in Tasks
  BY DEF Tasks
<1>1. SharedOK'
  BY DEF Wait, WaitFails, Fault, SharedOK
<1>2. CASE Wait(t) /\ entry # NoEntry
  <2>1. entry \in Entry
    BY <1>2 DEF SharedOK
  <2>2. QED
    BY <1>0, <1>1, <1>2, <2>1, EntryParts, Answered DEF Wait, Statuses
<1>3. CASE WaitFails(t) \/ (Wait(t) /\ entry = NoEntry)
  BY <1>0, <1>1, <1>3, EntryFetched
     DEF Wait, WaitFails, TasksOK, SharedOK, StartsFetch, Goto, Carries, Places
<1>4. QED
  BY <1>2, <1>3

LEMMA CallTyped ==
  ASSUME TypeOK, Carried, NEW t \in Tasks, Calling(t)
  PROVE  TypeOK'
<1> USE Parts, PartsPrime, CacheAssumption
<1>0. pc[t] \in {"fetch", "store"} => copy[t] \in Entry
  BY DEF Carried, TasksOK
<1>1. SharedOK'
  BY <1>0 DEF Calling, FetchReturns, Raises, Store, StoreFails, Abort, Fault, SharedOK
<1>2. CASE Store(t) \/ StoreFails(t)
  <2>1. CASE t \in Requests
    BY <1>0, <1>1, <1>2, <2>1, EntryParts, Answered DEF Store, StoreFails, Done, Statuses
  <2>2. CASE t \notin Requests
    BY <1>1, <1>2, <2>2 DEF Store, StoreFails, Done, TasksOK, Goto, Carries, Places
  <2>3. QED
    BY <2>1, <2>2
<1>3. CASE FetchReturns(t)
  <2>1. PICK v \in copy[t].version .. version : Carries(t, Payload(v))
    BY <1>3 DEF FetchReturns
  <2>2. Payload(v) \in Entry
    BY <1>0, <1>3, <2>1, EntryParts, EntryFetched DEF FetchReturns, SharedOK
  <2>3. QED
    BY <1>1, <1>3, <2>1, <2>2 DEF FetchReturns, TasksOK, Goto, Carries, Places
<1>4. CASE Raises(t) \/ Abort(t)
  BY <1>1, <1>4 DEF Raises, Abort, TasksOK, Goto, Carries, Places
<1>5. QED
  BY <1>2, <1>3, <1>4 DEF Calling

LEMMA OutsideTyped ==
  ASSUME TypeOK, Outside
  PROVE  TypeOK'
<1> USE Parts, PartsPrime, CacheAssumption
<1>1. SharedOK'
  <2>1. CASE Evict
    BY <2>1 DEF Evict, Fault, SharedOK
  <2>2. CASE Publish
    BY <2>2 DEF Publish, SharedOK
  <2>3. CASE SourceFlips
    <3>1. up' \in BOOLEAN
      BY <2>3 DEF SourceFlips, SharedOK
    <3>2. QED
      BY <2>3, <3>1 DEF SourceFlips, SharedOK
  <2>4. QED
    BY <2>1, <2>2, <2>3 DEF Outside
<1>2. TasksOK'
  BY DEF Outside, Evict, Publish, SourceFlips, TasksOK
<1>3. QED
  BY <1>1, <1>2

LEMMA TickTyped ==
  ASSUME TypeOK, Tick
  PROVE  TypeOK'
<1> USE Parts, PartsPrime, CacheAssumption DEF Tick
<1>1. SharedOK'
  BY EntryAges DEF SharedOK
<1>2. copy' \in [Tasks -> Entry \cup {NoEntry}]
  BY EntryAges DEF TasksOK
<1>3. NoAnswer \in Answer
  BY DEF NoAnswer, Answer, Statuses
<1>4. answer' \in [Requests -> Answer]
  BY <1>3 DEF TasksOK
<1>5. QED
  BY <1>1, <1>2, <1>4 DEF TasksOK, Places

(***************************************************************************)
(* What is about to be answered or stored is there: only the task that     *)
(* moves has to be looked at.                                              *)
(***************************************************************************)
LEMMA CarriedOn ==
  ASSUME TasksOK, Carried, NEW t \in Tasks,
         \A u \in Tasks : u # t =>
           (pc'[u] = pc[u] /\ copy'[u] = copy[u]) \/ copy'[u] # NoEntry,
         pc'[t] \in {"stale", "fetch", "store"} => copy'[t] # NoEntry
  PROVE  Carried'
BY DEF Carried

LEMMA Moves ==
  ASSUME TasksOK, NEW t \in Tasks, NEW p, Goto(t, p)
  PROVE  pc'[t] = p /\ \A u \in Tasks : u # t => pc'[u] = pc[u]
BY DEF TasksOK, Goto

LEMMA HitsCarried ==
  ASSUME TypeOK, Carried, NEW t \in Requests, Hits(t)
  PROVE  Carried'
<1>0. TasksOK /\ t \in Tasks
  BY Parts DEF Tasks
<1>1. \A u \in Tasks : u # t => pc'[u] = pc[u] /\ copy'[u] = copy[u]
  BY <1>0 DEF TasksOK, Hits, Request, Get, GetFails, Hit, NotFresh, Answers,
     StartsFetch, Goto, Carries
<1>2. pc'[t] \in {"stale", "fetch", "store"} => copy'[t] # NoEntry
  BY <1>0, EntryFetched DEF TypeOK, TasksOK, Hits, Request, Get, GetFails, Hit, NotFresh,
     Answers, StartsFetch, Goto, Carries, Gone
<1>3. QED
  BY <1>0, <1>1, <1>2, CarriedOn

LEMMA LockCarried ==
  ASSUME TypeOK, Carried, NEW t \in Requests, TryLock(t) \/ Wait(t) \/ WaitFails(t)
  PROVE  Carried'
<1>0. TasksOK /\ t \in Tasks /\ Refreshers \subseteq Tasks /\ t \notin Refreshers
  BY Parts, CacheAssumption DEF Tasks
<1>1. ASSUME NEW r \in Refreshers, StaleWins(t, r) PROVE Carried'
  <2>1. /\ pc'[t] = "answered" /\ copy'[r] = Payload(version)
        /\ \A u \in Tasks \ {t, r} : pc'[u] = pc[u] /\ copy'[u] = copy[u]
    BY <1>0, <1>1 DEF StaleWins, TasksOK
  <2>2. copy'[r] # NoEntry
    BY <2>1, EntryFetched DEF TypeOK
  <2>3. QED
    BY <1>0, <2>1, <2>2, CarriedOn
<1>2. CASE StaleLoses(t) \/ ColdWins(t) \/ ColdLoses(t) \/ Wait(t) \/ WaitFails(t)
  <2>1. \A u \in Tasks : u # t => pc'[u] = pc[u] /\ copy'[u] = copy[u]
    BY <1>0, <1>2 DEF TasksOK, StaleLoses, ColdWins, ColdLoses, Wait, WaitFails,
       Answers, StartsFetch, Goto, Carries
  <2>2. pc'[t] \in {"stale", "fetch", "store"} => copy'[t] # NoEntry
    BY <1>0, <1>2, EntryFetched
       DEF TypeOK, TasksOK, StaleLoses, ColdWins, ColdLoses, Wait, WaitFails,
           Answers, StartsFetch, Goto, Carries
  <2>3. QED
    BY <1>0, <2>1, <2>2, CarriedOn
<1>3. QED
  BY <1>1, <1>2 DEF TryLock

LEMMA CallCarried ==
  ASSUME TypeOK, Carried, NEW t \in Tasks, Calling(t)
  PROVE  Carried'
<1>0. TasksOK /\ version \in 0 .. MaxVersion
  BY Parts DEF SharedOK
<1>1. \A u \in Tasks : u # t => pc'[u] = pc[u] /\ copy'[u] = copy[u]
  BY <1>0 DEF TasksOK, Calling, FetchReturns, Raises, Store, StoreFails, Done, Abort,
     Answers, Goto, Carries
<1>2. pc'[t] \in {"stale", "fetch", "store"} => copy'[t] # NoEntry
  <2>1. CASE FetchReturns(t)
    <3>1. copy[t] \in Entry
      BY <1>0, <2>1 DEF FetchReturns, Carried, TasksOK
    <3>2. PICK v \in copy[t].version .. version : Carries(t, Payload(v))
      BY <2>1 DEF FetchReturns
    <3>3. v \in 0 .. MaxVersion
      BY <1>0, <3>1, <3>2, EntryParts, CacheAssumption
    <3>4. QED
      BY <1>0, <3>2, <3>3, EntryFetched DEF Carries, TasksOK
  <2>2. CASE ~FetchReturns(t)
    BY <1>0, <2>2 DEF TasksOK, Calling, Raises, Store, StoreFails, Done, Abort,
       Answers, Goto
  <2>3. QED
    BY <2>1, <2>2
<1>3. QED
  BY <1>0, <1>1, <1>2, CarriedOn

LEMMA TickCarried ==
  ASSUME TypeOK, Carried, Tick \/ Outside
  PROVE  Carried'
<1>0. TasksOK
  BY Parts
<1>1. CASE Tick
  BY <1>0, <1>1 DEF Tick, Quick, Carried, TasksOK
<1>2. CASE Outside
  BY <1>0, <1>2 DEF Outside, Evict, Publish, SourceFlips, Carried
<1>3. QED
  BY <1>1, <1>2

(***************************************************************************)
(* A step of the composition is one of CacheAside, except that an          *)
(* on-demand call answers at once, and that the fallback answers.          *)
(***************************************************************************)
FallsBack(t) == LastCache(t) \/ LastCacheFails(t)

AnswersOnDemand(t) ==
  /\ ~store /\ pc[t] = "fetch"
  /\ \E v \in copy[t].version .. version : Answers(t, "MISS", v)
  /\ UNCHANGED <<entry, lock, version, up, faults>>

LEMMA StepCases ==
  ASSUME Step
  PROVE  \/ UNCHANGED vars
         \/ \E t \in Requests : OnDemand(t) \/ FallsBack(t) \/ Raise(t)
         \/ \E t \in Requests : Hits(t) \/ TryLock(t) \/ Wait(t) \/ WaitFails(t)
         \/ \E t \in Tasks : Raises(t) \/ Store(t) \/ StoreFails(t) \/ Abort(t)
         \/ store /\ \E t \in Tasks : FetchReturns(t)
         \/ \E t \in Tasks : AnswersOnDemand(t)
         \/ Outside
         \/ Tick
<1>1. ASSUME NEW t \in Requests, Cached(t)
      PROVE  Hits(t) \/ TryLock(t) \/ Wait(t) \/ WaitFails(t)
  BY <1>1 DEF Cached, Hits, ReadCache
<1>2. ASSUME NEW t \in Requests, Fallback(t) PROVE FallsBack(t) \/ Raise(t)
  BY <1>2 DEF Fallback, FallsBack, Propagate
<1>3. ASSUME NEW t \in Tasks, FetchStep(t)
      PROVE  UNCHANGED vars \/ Raises(t) \/ (store /\ FetchReturns(t)) \/ AnswersOnDemand(t)
  BY <1>3 DEF FetchStep, AllowRequest, Refuse, CallReturns, CallRaises, FetchRaises,
     AnswersOnDemand
<1>4. ASSUME NEW t \in Tasks, Storage(t) \/ CAbort(t)
      PROVE  Store(t) \/ StoreFails(t) \/ Abort(t)
  BY <1>4 DEF Storage, CAbort
<1>5. (Environment => Outside) /\ (CTick => Tick)
  BY DEF Environment, Outside, CTick
<1>6. QED
  BY <1>1, <1>2, <1>3, <1>4, <1>5 DEF Step

LEMMA StepTyped ==
  ASSUME TypeOK, Carried, Step
  PROVE  TypeOK' /\ Carried'
<1> USE Parts, PartsPrime
<1>0. Requests \subseteq Tasks
  BY DEF Tasks
<1>1. CASE UNCHANGED vars
  BY <1>1 DEF vars, SharedOK, TasksOK, Carried
<1>2. ASSUME NEW t \in Requests, OnDemand(t) PROVE TypeOK' /\ Carried'
  <2>1. Payload(version) \in Entry /\ Payload(version) # NoEntry
    BY EntryFetched DEF SharedOK
  <2>2. QED
    BY <1>0, <1>2, <2>1
       DEF OnDemand, StartsFetch, Goto, Carries, SharedOK, TasksOK, Places, Carried
<1>3. ASSUME NEW t \in Tasks, NEW status \in Statuses,
             NEW v \in 0 .. MaxVersion \cup {NoEntry}, Answers(t, status, v),
             UNCHANGED <<entry, lock, version, up>>, faults' \in 0 .. MaxFaults
      PROVE  TypeOK' /\ Carried'
  <2>1. SharedOK' /\ TasksOK'
    BY <1>3, Answered DEF SharedOK
  <2>2. Carried'
    BY <1>3 DEF Answers, Goto, Carries, TasksOK, Carried
  <2>3. QED
    BY <2>1, <2>2
<1>4. ASSUME NEW t \in Requests, FallsBack(t) PROVE TypeOK' /\ Carried'
  <2>1. PICK v \in {NoEntry, Kept(entry)} : Answers(t, "STALE-ON-ERROR", v)
    BY <1>4 DEF FallsBack, LastCache, LastCacheFails
  <2>2. v \in 0 .. MaxVersion \cup {NoEntry} /\ "STALE-ON-ERROR" \in Statuses
    BY <2>1, EntryParts DEF Kept, SharedOK, Statuses
  <2>3. UNCHANGED <<entry, lock, version, up>> /\ faults' \in 0 .. MaxFaults
    BY <1>4, CacheAssumption DEF FallsBack, LastCache, LastCacheFails, Fault, SharedOK
  <2>4. QED
    BY <1>0, <1>3, <2>1, <2>2, <2>3
<1>5. ASSUME NEW t \in Requests, Raise(t) PROVE TypeOK' /\ Carried'
  BY <1>0, <1>3, <1>5 DEF Raise, SharedOK, Statuses
<1>6. ASSUME NEW t \in Tasks, AnswersOnDemand(t) PROVE TypeOK' /\ Carried'
  <2>1. PICK v \in copy[t].version .. version : Answers(t, "MISS", v)
    BY <1>6 DEF AnswersOnDemand
  <2>2. copy[t] \in Entry
    BY <1>6 DEF AnswersOnDemand, Carried, TasksOK
  <2>3. v \in 0 .. MaxVersion /\ "MISS" \in Statuses
    BY <2>1, <2>2, EntryParts, CacheAssumption DEF SharedOK, Statuses
  <2>4. QED
    BY <1>3, <1>6, <2>1, <2>3 DEF AnswersOnDemand, SharedOK
<1>7. QED
  BY <1>1, <1>2, <1>4, <1>5, <1>6, StepCases, HitsTyped, HitsCarried, LockTyped,
     LockCarried, WaitTyped, CallTyped, CallCarried, OutsideTyped, TickTyped,
     TickCarried DEF Calling

(***************************************************************************)
(* An on-demand source has no entry, so no request on its behalf is kept.  *)
(***************************************************************************)
NothingStored ==
  ~store => entry = NoEntry /\ \A t \in Tasks : pc[t] # "store"

CInv == TypeOK /\ Carried /\ NothingStored /\ DataWhileKept

LEMMA NextNothingStored ==
  ASSUME TypeOK, NothingStored, CNext
  PROVE  NothingStored'
<1> SUFFICES ASSUME ~store PROVE entry' = NoEntry /\ \A t \in Tasks : pc'[t] # "store"
  BY DEF NothingStored, CNext
<1> USE DEF NothingStored
<1>0. /\ pc \in [Tasks -> Places] /\ entry = NoEntry
      /\ Requests \subseteq Tasks /\ Refreshers \subseteq Tasks
  BY DEF TypeOK, Tasks
<1>1. CASE UNCHANGED vars
  BY <1>0, <1>1 DEF vars
<1>2. ASSUME NEW t \in Requests, OnDemand(t) \/ FallsBack(t) \/ Raise(t)
      PROVE  entry' = NoEntry /\ \A u \in Tasks : pc'[u] # "store"
  BY <1>0, <1>2 DEF OnDemand, FallsBack, LastCache, LastCacheFails, Raise, Answers,
     StartsFetch, Goto
<1>3. ASSUME NEW t \in Requests, Hits(t) \/ Wait(t) \/ WaitFails(t)
      PROVE  entry' = NoEntry /\ \A u \in Tasks : pc'[u] # "store"
  BY <1>0, <1>3 DEF Hits, Request, Get, GetFails, Hit, NotFresh, Wait, WaitFails,
     Answers, StartsFetch, Goto
<1>4. ASSUME NEW t \in Requests, TryLock(t)
      PROVE  entry' = NoEntry /\ \A u \in Tasks : pc'[u] # "store"
  BY <1>0, <1>4 DEF TryLock, StaleWins, StaleLoses, ColdWins, ColdLoses, Answers,
     StartsFetch, Goto
<1>5. ASSUME NEW t \in Tasks, Raises(t) \/ Store(t) \/ StoreFails(t) \/ Abort(t)
      PROVE  entry' = NoEntry /\ \A u \in Tasks : pc'[u] # "store"
  BY <1>0, <1>5 DEF Raises, Store, StoreFails, Abort, Goto
<1>6. ASSUME NEW t \in Tasks, AnswersOnDemand(t)
      PROVE  entry' = NoEntry /\ \A u \in Tasks : pc'[u] # "store"
  BY <1>0, <1>6 DEF AnswersOnDemand, Answers, Goto
<1>7. CASE Outside
  BY <1>0, <1>7 DEF Outside, Evict, Publish, SourceFlips
<1>8. CASE Tick
  BY <1>0, <1>8 DEF Tick, EntryAged, Gone
<1>9. QED
  BY <1>1, <1>2, <1>3, <1>4, <1>5, <1>6, <1>7, <1>8, StepCases DEF CNext

(***************************************************************************)
(* A request that is answered in this step with the key in Redis before    *)
(* and after it, other than by a fallback that fails, has its data.        *)
(***************************************************************************)
Fed(t) == answer'[t].status = "ERROR" \/ answer'[t].payload # NoEntry

LEMMA AnswerRead ==
  ASSUME TypeOK, NEW t \in Requests, NEW status, NEW v, Answers(t, status, v)
  PROVE  answer'[t].status = status /\ answer'[t].payload = v
BY DEF TypeOK, Answers

LEMMA Numbers ==
  /\ \A v \in 0 .. MaxVersion : v # NoEntry
  /\ \A e \in Entry : e.version # NoEntry
BY CacheAssumption, EntryParts

Same(t) == pc'[t] = "answered" => pc[t] = "answered" /\ answer'[t] = answer[t]

(* Somebody else's step, or one of t that does not answer.                 *)
LEMMA NotAnswered ==
  ASSUME TypeOK, NEW t \in Requests, NEW u \in Tasks, NEW p,
         \/ u # t /\ (UNCHANGED answer \/ \E a : answer' = [answer EXCEPT ![u] = a])
         \/ p # "answered",
         Goto(u, p), p # "answered" => UNCHANGED answer
  PROVE  Same(t)
BY DEF TypeOK, Goto, Same, Tasks

LEMMA EachAnswer ==
  ASSUME TypeOK, Carried, Step, store, entry # NoEntry, NEW t \in Requests
  PROVE  Same(t) \/ Fed(t) \/ FallbackFails(t)
<1>0. /\ t \in Tasks /\ Requests \subseteq Tasks /\ Refreshers \subseteq Tasks
      /\ t \notin Refreshers /\ pc \in [Tasks -> Places]
      /\ entry \in Entry /\ version \in 0 .. MaxVersion
      /\ \A u \in Tasks : copy[u] \in Entry \cup {NoEntry}
  BY CacheAssumption DEF Tasks, TypeOK
<1> DEFINE Good == Same(t) \/ Fed(t) \/ FallbackFails(t)
<1>1. ASSUME NEW u \in Tasks, NEW status, NEW v, Answers(u, status, v),
             v # NoEntry \/ status = "ERROR"
      PROVE  Good
  <2>1. CASE u = t
    BY <1>1, <2>1, AnswerRead DEF Fed
  <2>2. CASE u # t
    BY <1>1, <2>2, NotAnswered DEF Answers
  <2>3. QED
    BY <2>1, <2>2
<1>2. ASSUME NEW u \in Tasks, NEW p, p # "answered", Goto(u, p), UNCHANGED answer
      PROVE  Good
  BY <1>2, NotAnswered
<1>3. ASSUME pc' = pc, UNCHANGED answer PROVE Good
  BY <1>3 DEF Same
<1> HIDE DEF Good
<1>4. ASSUME NEW u \in Requests, Hits(u) PROVE Good
  <2>1. CASE Hit(u)
    BY <1>0, <1>1, <2>1, Numbers DEF Hit, Fresh
  <2>2. CASE Request(u) \/ Get(u) \/ GetFails(u) \/ NotFresh(u)
    BY <1>0, <1>2, <2>2 DEF Request, Get, GetFails, NotFresh, StartsFetch
  <2>3. QED
    BY <1>4, <2>1, <2>2 DEF Hits
<1>5. ASSUME NEW u \in Requests, TryLock(u) PROVE Good
  <2>1. pc[u] = "stale" => copy[u] \in Entry
    BY <1>0 DEF Carried
  <2>2. ASSUME NEW r \in Refreshers, StaleWins(u, r) PROVE Good
    <3>1. CASE u = t
      <4>1. answer'[t].payload = copy[t].version
        BY <2>2, <3>1 DEF StaleWins, TypeOK
      <4>2. QED
        BY <2>1, <2>2, <3>1, <4>1, Numbers DEF StaleWins, Fed, Good
    <3>2. CASE u # t
      BY <1>0, <2>2, <3>2 DEF StaleWins, Same, TypeOK, Good
    <3>3. QED
      BY <3>1, <3>2
  <2>3. CASE StaleLoses(u)
    BY <1>0, <1>1, <2>1, <2>3, Numbers DEF StaleLoses
  <2>4. CASE ColdWins(u) \/ ColdLoses(u)
    BY <1>0, <1>2, <2>4 DEF ColdWins, ColdLoses, StartsFetch
  <2>5. QED
    BY <1>5, <2>2, <2>3, <2>4 DEF TryLock
<1>6. ASSUME NEW u \in Requests, Wait(u) \/ WaitFails(u) PROVE Good
  <2>1. CASE Wait(u)
    BY <1>0, <1>1, <2>1, Numbers DEF Wait
  <2>2. CASE WaitFails(u)
    BY <1>0, <1>2, <2>2 DEF WaitFails, StartsFetch
  <2>3. QED
    BY <1>6, <2>1, <2>2
<1>7. ASSUME NEW u \in Tasks, Raises(u) \/ Abort(u) \/ FetchReturns(u) PROVE Good
  BY <1>2, <1>7 DEF Raises, Abort, FetchReturns
<1>8. ASSUME NEW u \in Tasks, Store(u) \/ StoreFails(u) PROVE Good
  <2>1. copy[u] \in Entry /\ Done(u)
    BY <1>0, <1>8 DEF Store, StoreFails, Carried
  <2>2. CASE u \in Requests
    BY <1>1, <2>1, <2>2, Numbers DEF Done
  <2>3. CASE u \notin Requests
    BY <1>2, <2>1, <2>3 DEF Done
  <2>4. QED
    BY <2>2, <2>3
<1>9. ASSUME NEW u \in Tasks, AnswersOnDemand(u) PROVE Good
  <2>1. PICK v \in copy[u].version .. version : Answers(u, "MISS", v)
    BY <1>9 DEF AnswersOnDemand
  <2>2. copy[u] \in Entry
    BY <1>0, <1>9 DEF AnswersOnDemand, Carried
  <2>3. v \in 0 .. MaxVersion
    BY <1>0, <2>1, <2>2, EntryParts, CacheAssumption
  <2>4. QED
    BY <1>1, <2>1, <2>3, Numbers
<1>10. ASSUME NEW u \in Requests, OnDemand(u) \/ Raise(u) PROVE Good
  BY <1>0, <1>1, <1>2, <1>10 DEF OnDemand, Raise, StartsFetch
<1>11. ASSUME NEW u \in Requests, LastCache(u) PROVE Good
  BY <1>0, <1>1, <1>11, Numbers DEF LastCache, Kept
<1>12. ASSUME NEW u \in Requests, LastCacheFails(u) PROVE Good
  <2>1. CASE u = t
    <3>1. pc[t] = "raised" /\ pc'[t] = "answered" /\ faults' # faults
      BY <1>0, <1>12, <2>1, CacheAssumption
         DEF LastCacheFails, Handled, Answers, Goto, Fault, TypeOK
    <3>2. QED
      BY <3>1 DEF FallbackFails, Good
  <2>2. CASE u # t
    BY <1>0, <1>12, <2>2, NotAnswered DEF LastCacheFails, Answers, Good
  <2>3. QED
    BY <2>1, <2>2
<1>13. CASE UNCHANGED vars \/ Outside
  <2>1. pc' = pc /\ answer' = answer
    BY <1>13 DEF vars, Outside, Evict, Publish, SourceFlips
  <2>2. QED
    BY <1>3, <2>1 DEF Good
<1>14. CASE Tick
  <2>1. pc'[t] # "answered"
    BY <1>0, <1>14 DEF Tick
  <2>2. QED
    BY <2>1 DEF Same, Good
<1>15. QED
  BY <1>4, <1>5, <1>6, <1>7, <1>8, <1>9, <1>10, <1>11, <1>12, <1>13, <1>14,
     StepCases DEF FallsBack, Good

LEMMA NextDataWhileKept == CInv /\ CNext => DataWhileKept'
<1> SUFFICES ASSUME CInv, CNext, NEW t \in Requests, pc'[t] = "answered",
                    answer'[t].status # "ERROR", t \in kept'
             PROVE  answer'[t].payload # NoEntry
  BY DEF DataWhileKept
<1>1. StillKept(t)
  BY DEF CNext
<1>2. store /\ entry # NoEntry /\ ~FallbackFails(t)
  BY <1>1 DEF StillKept, CInv, NothingStored
<1>3. Same(t) \/ Fed(t)
  BY <1>2, EachAnswer DEF CInv, CNext
<1>4. CASE Same(t)
  BY <1>1, <1>4 DEF Same, StillKept, CInv, DataWhileKept
<1>5. CASE Fed(t)
  BY <1>5 DEF Fed
<1>6. QED
  BY <1>3, <1>4, <1>5

LEMMA InitTypeOK == Init => TypeOK /\ Carried
<1> SUFFICES ASSUME Init PROVE TypeOK /\ Carried
  OBVIOUS
<1>1. NoAnswer \in Answer
  BY DEF NoAnswer, Answer, Statuses
<1>2. TasksOK
  BY <1>1 DEF Init, TasksOK, Places
<1>3. SharedOK
  <2>1. up \in BOOLEAN
    BY DEF Init
  <2>2. QED
    BY <2>1, CacheAssumption DEF Init, SharedOK
<1>4. QED
  BY <1>2, <1>3, Parts DEF Init, Carried

(***************************************************************************)
(* Fallback policy (resilience/client.py:16-19): a request that finds the  *)
(* key in Redis and does not lose it gets data, whatever fails, unless the *)
(* fallback's own read fails or fetch_fn raises what fetch does not catch. *)
(***************************************************************************)
THEOREM KeptIsServed == CSpec => []DataWhileKept
<1>1. CInit => CInv
  BY InitTypeOK DEF CInit, CInv, Init, NothingStored, DataWhileKept
<1>2. CInv /\ [CNext]_all => CInv'
  <2>1. CASE CNext
    BY <2>1, StepTyped, NextNothingStored, NextDataWhileKept DEF CInv, CNext
  <2>2. CASE UNCHANGED all
    BY <2>2 DEF all, vars, CInv, TypeOK, Carried, NothingStored, DataWhileKept
  <2>3. QED
    BY <2>1, <2>2
<1>3. CInv => DataWhileKept
  BY DEF CInv
<1>4. QED
  BY <1>1, <1>2, <1>3, PTL DEF CSpec

-----------------------------------------------------------------------------
(***************************************************************************)
(* Single flight.  Its steps are typed as above.                           *)
(***************************************************************************)
LEMMA Limits ==
  /\ Prompt \in Nat /\ Prompt > 0 /\ Prompt <= WaitMax /\ Prompt <= LockTTL
  /\ Overcome \in Nat /\ Overcome >= Prompt
BY CacheAssumption DEF Prompt, Overcome

LEMMA SharedTyped ==
  ASSUME TypeOK, Carried, Quickly \/ Tick \/ UNCHANGED vars
  PROVE  TypeOK' /\ Carried'
<1>1. ASSUME NEW t \in Requests, Request(t) \/ ReadCache(t) PROVE TypeOK' /\ Carried'
  BY <1>1, HitsTyped, HitsCarried DEF ReadCache, Hits
<1>2. ASSUME NEW t \in Requests, TryLock(t) \/ Wait(t) PROVE TypeOK' /\ Carried'
  BY <1>2, LockTyped, WaitTyped, LockCarried
<1>3. ASSUME NEW t \in Tasks, FetchReturns(t) \/ Store(t) PROVE TypeOK' /\ Carried'
  BY <1>3, CallTyped, CallCarried DEF Calling
<1>4. CASE Publish
  BY <1>4, OutsideTyped, TickCarried DEF Outside
<1>5. CASE Tick
  BY <1>5, TickTyped, TickCarried
<1>6. CASE UNCHANGED vars
  BY <1>6 DEF vars, TypeOK, Carried
<1>7. QED
  BY <1>1, <1>2, <1>3, <1>4, <1>5, <1>6 DEF Quickly

LEMMA SafeCalm ==
  ASSUME calm \in 0 .. Overcome, [SNext]_svars
  PROVE  calm' \in 0 .. Overcome /\ calm' <= calm + 1
BY Limits DEF SNext, STick, svars

(***************************************************************************)
(* A step of a task that neither calls nor begins to call or to wait, and  *)
(* leaves entry, lock and data alone.                                      *)
(***************************************************************************)
LEMMA Bystander ==
  ASSUME TypeOK, InFlight, NEW t \in Tasks, ~Calls(t),
         UNCHANGED <<entry, lock, version, calm>>,
         pc'[t] \notin {"wait", "fetch", "store"}, clock'[t] = 0,
         \A u \in Tasks : u # t =>
           pc'[u] = pc[u] /\ clock'[u] = clock[u] /\ copy'[u] = copy[u]
  PROVE  InFlight'
<1>1. \A u \in Tasks : Calls(u)' => Calls(u) /\ u # t
  BY DEF Calls
<1>2. \A u \in Tasks : Calls(u) => Calls(u)' /\ u # t
  BY DEF Calls
<1>3. Clocks'
  BY <1>1 DEF InFlight, Clocks
<1>4. Locks'
  BY <1>1 DEF InFlight, Locks, Late
<1>5. LockSaysWhy'
  BY <1>2 DEF InFlight, LockSaysWhy
<1>6. Patience'
  BY <1>2 DEF InFlight, Patience
<1>7. Newer'
  BY <1>1 DEF InFlight, Newer
<1>8. QED
  BY <1>3, <1>4, <1>5, <1>6, <1>7 DEF InFlight

(***************************************************************************)
(* Whoever takes the lock is alone, but for calls that were on their way   *)
(* while one was slow: the others are younger than the lock lives.         *)
(***************************************************************************)
LEMMA Starts ==
  ASSUME TypeOK, calm \in 0 .. Overcome, InFlight, lock = 0, lock' = LockTTL,
         UNCHANGED <<entry, version, calm>>,
         NEW r \in Tasks, pc'[r] = "fetch", clock'[r] = 0, copy'[r] = Payload(version),
         \A u \in Tasks : u # r =>
           /\ clock'[u] = clock[u]
           /\ \/ pc'[u] = pc[u] /\ copy'[u] = copy[u]
              \/ pc'[u] = "answered" /\ pc[u] = "stale",
         ~Calls(r)
  PROVE  InFlight'
<1> USE CacheAssumption, Limits
<1>0. /\ clock \in [Tasks -> Nat] /\ version \in 0 .. MaxVersion
      /\ Payload(version).age = 0 /\ Payload(version).version = version
  BY EntryFetched DEF TypeOK
<1>1. \A u \in Tasks : Calls(u)' => u = r \/ (Calls(u) /\ u # r /\ copy'[u] = copy[u])
  BY DEF Calls
<1>2. \A u \in Tasks : Calls(u) => Calls(u)' /\ u # r
  BY DEF Calls
<1>3. Clocks'
  BY <1>0, <1>1 DEF InFlight, Clocks, Calls
<1>4. ASSUME NEW u \in Tasks, Calls(u) PROVE Late(u)
  BY <1>0, <1>4 DEF InFlight, Clocks, Locks, Late
<1>5. Locks'
  BY <1>0, <1>1, <1>4 DEF Locks, Late
<1>6. LockSaysWhy'
  BY DEF LockSaysWhy, Calls
<1>7. Patience'
  BY <1>2 DEF InFlight, Patience
<1>8. Newer'
  BY <1>0, <1>1 DEF InFlight, Newer
<1>9. QED
  BY <1>3, <1>5, <1>6, <1>7, <1>8 DEF InFlight

(***************************************************************************)
(* A loser does not give up before a call is slow.                         *)
(***************************************************************************)
LEMMA GivesUp ==
  ASSUME TypeOK, calm \in 0 .. Overcome, InFlight, UNCHANGED calm,
         NEW t \in Requests, Wait(t), entry = NoEntry
  PROVE  InFlight'
<1> USE CacheAssumption, Limits
<1>0. /\ t \in Tasks /\ pc[t] = "wait" /\ clock[t] >= WaitMax
      /\ pc' = [pc EXCEPT ![t] = "fetch"] /\ clock' = [clock EXCEPT ![t] = 0]
      /\ copy' = [copy EXCEPT ![t] = Payload(version)] /\ UNCHANGED <<entry, lock, version>>
      /\ pc \in [Tasks -> Places] /\ clock \in [Tasks -> Nat]
      /\ copy \in [Tasks -> Entry \cup {NoEntry}] /\ version \in 0 .. MaxVersion
      /\ Payload(version).age = 0 /\ Payload(version).version = version
  BY EntryFetched DEF Wait, StartsFetch, Goto, Carries, TypeOK, Tasks
<1>1. PICK s \in Tasks : Calls(s) /\ clock[t] <= clock[s]
  BY <1>0 DEF InFlight, Patience
<1>2. calm = 0
  BY <1>0, <1>1 DEF InFlight, Clocks
<1>3. \A u \in Tasks : Calls(u) => Calls(u)' /\ u # t
  BY <1>0 DEF Calls
<1>4. Clocks' /\ Locks'
  BY <1>0, <1>2 DEF InFlight, Clocks, Locks, Late, Calls
<1>5. LockSaysWhy'
  BY <1>1, <1>3 DEF LockSaysWhy
<1>6. Patience'
  BY <1>0, <1>3 DEF InFlight, Patience
<1>7. Newer'
  BY <1>0, <1>2 DEF InFlight, Newer, Calls
<1>8. QED
  BY <1>4, <1>5, <1>6, <1>7 DEF InFlight

(***************************************************************************)
(* Who finds the lock taken has somebody to wait for.                      *)
(***************************************************************************)
LEMMA Queues ==
  ASSUME TypeOK, InFlight, UNCHANGED calm, NEW t \in Requests, ColdLoses(t), ~Fault
  PROVE  InFlight'
<1>0. /\ t \in Tasks /\ lock > 0 /\ UNCHANGED <<entry, lock, version, clock>>
      /\ pc[t] = "cold" /\ pc'[t] = "wait" /\ clock[t] = 0
      /\ \A u \in Tasks : u # t => pc'[u] = pc[u] /\ copy'[u] = copy[u]
      /\ clock \in [Tasks -> Nat]
  BY DEF ColdLoses, Goto, Carries, InFlight, Clocks, TypeOK, Tasks
<1>1. \A u \in Tasks : Calls(u)' <=> Calls(u)
  BY <1>0 DEF Calls
<1>2. Clocks' /\ Locks' /\ LockSaysWhy' /\ Newer'
  BY <1>0, <1>1 DEF InFlight, Clocks, Locks, Late, LockSaysWhy, Newer, Calls
<1>3. entry # NoEntry \/ \E s \in Tasks : Calls(s)
  BY <1>0 DEF InFlight, LockSaysWhy
<1>4. Patience'
  BY <1>0, <1>1, <1>3 DEF InFlight, Patience
<1>5. QED
  BY <1>2, <1>4 DEF InFlight

(***************************************************************************)
(* The call returns, and its entry is stored.                              *)
(***************************************************************************)
LEMMA Returns ==
  ASSUME TypeOK, Carried, InFlight, UNCHANGED calm, NEW t \in Tasks, FetchReturns(t)
  PROVE  InFlight'
<1> USE CacheAssumption
<1>0. /\ pc[t] = "fetch" /\ pc' = [pc EXCEPT ![t] = "store"]
      /\ UNCHANGED <<entry, lock, clock, version>>
      /\ pc \in [Tasks -> Places] /\ copy \in [Tasks -> Entry \cup {NoEntry}]
      /\ version \in 0 .. MaxVersion /\ copy[t] \in Entry
  BY DEF FetchReturns, Goto, TypeOK, Carried
<1>1. PICK v \in copy[t].version .. version : copy' = [copy EXCEPT ![t] = Payload(v)]
  BY DEF FetchReturns, Carries
<1>2. /\ v \in 0 .. MaxVersion /\ v >= copy[t].version /\ v <= version
      /\ copy[t].version \in Nat
  BY <1>0, <1>1, EntryParts
<1>3. copy'[t].age = 0 /\ copy'[t].version = v
  BY <1>0, <1>1, <1>2, EntryFetched
<1>4. \A u \in Tasks : Calls(u)' <=> Calls(u)
  BY <1>0 DEF Calls
<1>5. Clocks' /\ Locks' /\ LockSaysWhy' /\ Patience'
  BY <1>0, <1>4 DEF InFlight, Clocks, Locks, Late, LockSaysWhy, Patience
<1>6. entry # NoEntry => entry.version \in Nat
  BY EntryParts DEF TypeOK
<1>7. Newer'
  <2>1. SUFFICES ASSUME NEW u \in Tasks, Calls(u)
                 PROVE  /\ copy'[u].version <= version /\ copy'[u].age = 0
                        /\ \/ clock[u] + Prompt > calm
                           \/ entry # NoEntry => entry.version <= copy'[u].version
    BY <1>0, <1>4 DEF InFlight, Newer
  <2>2. CASE u = t
    BY <1>0, <1>2, <1>3, <1>6, <2>1, <2>2 DEF InFlight, Newer
  <2>3. CASE u # t
    BY <1>0, <1>1, <2>1, <2>3 DEF InFlight, Newer
  <2>4. QED
    BY <2>2, <2>3
<1>8. QED
  BY <1>5, <1>7 DEF InFlight

LEMMA Stores ==
  ASSUME TypeOK, Carried, calm \in 0 .. Overcome, InFlight, UNCHANGED calm,
         NEW t \in Tasks, Store(t)
  PROVE  /\ InFlight'
         /\ calm = Overcome /\ entry # NoEntry => entry'.version >= entry.version
<1> USE CacheAssumption, Limits
<1>0. /\ pc[t] = "store" /\ entry' = copy[t] /\ copy[t] \in Entry /\ Calls(t)
      /\ UNCHANGED <<lock, version>> /\ lock \in 0 .. LockTTL
      /\ \A u \in Tasks : u # t =>
           pc'[u] = pc[u] /\ clock'[u] = clock[u] /\ copy'[u] = copy[u]
      /\ pc'[t] \in {"idle", "answered"} /\ clock'[t] = 0
      /\ clock \in [Tasks -> Nat]
  BY DEF Store, Done, Answers, Goto, Carries, TypeOK, Carried, Calls
<1>1. \A u \in Tasks : Calls(u)' => Calls(u) /\ u # t
  BY <1>0 DEF Calls
<1>2. entry' # NoEntry /\ entry'.age = 0 /\ entry'.version <= version
  BY <1>0, EntryParts DEF InFlight, Newer
<1>3. Clocks' /\ Locks'
  BY <1>0, <1>1 DEF InFlight, Clocks, Locks, Late
<1>4. LockSaysWhy' /\ Patience'
  BY <1>0, <1>2 DEF LockSaysWhy, Patience
<1>5. Newer'
  <2>1. ASSUME NEW u \in Tasks, Calls(u), u # t PROVE clock[u] + Prompt > calm
    <3>1. Late(t) \/ Late(u)
      BY <1>0, <2>1 DEF InFlight, Locks
    <3>2. calm > 0 => clock[t] < Prompt /\ clock[u] < Prompt
      BY <1>0, <2>1 DEF InFlight, Clocks
    <3>3. QED
      BY <1>0, <3>1, <3>2 DEF Late
  <2>2. QED
    BY <1>0, <1>1, <1>2, <2>1 DEF InFlight, Newer
<1>6. ASSUME calm = Overcome, entry # NoEntry PROVE entry'.version >= entry.version
  <2>1. clock[t] < Prompt
    BY <1>0, <1>6 DEF InFlight, Clocks
  <2>2. ~(clock[t] + Prompt > calm)
    BY <1>0, <1>6, <2>1 DEF Overcome
  <2>3. entry.version <= copy[t].version
    BY <1>0, <1>6, <2>2 DEF InFlight, Newer
  <2>4. entry.version \in Nat /\ copy[t].version \in Nat
    BY <1>0, <1>6, EntryParts DEF TypeOK
  <2>5. QED
    BY <1>0, <2>3, <2>4
<1>7. QED
  BY <1>3, <1>4, <1>5, <1>6 DEF InFlight

(***************************************************************************)
(* Time passes: call, lock, entry, patience and history age together.      *)
(***************************************************************************)
LEMMA Ages ==
  ASSUME TypeOK, calm \in 0 .. Overcome, InFlight, STick
  PROVE  InFlight'
<1> USE CacheAssumption, Limits
<1>0. /\ pc \in [Tasks -> Places] /\ clock \in [Tasks -> Nat]
      /\ lock \in 0 .. LockTTL /\ entry \in Entry \cup {NoEntry}
      /\ version' = version /\ version \in Nat
      /\ calm' \in 0 .. Overcome /\ calm' <= calm + 1
  BY DEF TypeOK, STick, Tick
<1>1. \A u \in Tasks :
        /\ pc[u] # "store" /\ pc'[u] # "store"
        /\ pc'[u] \in {"wait", "fetch"} => pc'[u] = pc[u] /\ clock'[u] = clock[u] + 1
        /\ pc'[u] \notin {"wait", "fetch"} => clock'[u] = clock[u] /\ pc[u] # "wait"
        /\ pc[u] = "fetch" => pc'[u] = "fetch" /\ copy'[u] = copy[u]
        /\ pc[u] = "wait" => pc'[u] = "wait" /\ entry = NoEntry
  BY <1>0 DEF STick, Tick, Quick, TypeOK
<1>2. \A u \in Tasks : /\ Calls(u)' <=> Calls(u)
                       /\ Calls(u) => clock'[u] = clock[u] + 1 /\ copy'[u] = copy[u]
  BY <1>1 DEF Calls
<1>3. lock' = IF lock > 0 THEN lock - 1 ELSE 0
  BY DEF STick, Tick
<1>4. Clocks'
  <2>1. ASSUME NEW u \in Tasks, pc'[u] \notin {"wait", "fetch", "store"} PROVE clock'[u] = 0
    BY <1>0, <1>1, <2>1 DEF InFlight, Clocks
  <2>2. ASSUME NEW u \in Tasks, calm' > 0, Calls(u)' PROVE clock'[u] < Prompt
    <3>1. ~Slow(u)'
      BY <2>2 DEF STick
    <3>2. pc'[u] = "fetch"
      BY <1>1, <2>2 DEF Calls
    <3>3. clock'[u] \in Nat
      BY <1>0, <1>2, <2>2
    <3>4. ~(clock'[u] >= Prompt)
      BY <3>1, <3>2 DEF Slow
    <3>5. QED
      BY <3>3, <3>4
  <2>3. QED
    BY <2>1, <2>2 DEF Clocks
<1>5. Locks'
  BY <1>0, <1>2, <1>3 DEF InFlight, Locks, Late
<1>6. LockSaysWhy'
  <2>1. SUFFICES ASSUME lock' > 0, \A u \in Tasks : ~Calls(u)
                 PROVE  entry' # NoEntry /\ entry'.age + lock' <= LockTTL
    BY <1>2 DEF LockSaysWhy
  <2>2. lock > 0 /\ lock' = lock - 1
    BY <1>0, <1>3, <2>1
  <2>3. entry # NoEntry /\ entry \in Entry /\ entry.age + lock <= LockTTL
    BY <1>0, <2>1, <2>2 DEF InFlight, LockSaysWhy
  <2>4. entry.age \in Nat
    BY <2>3, EntryParts
  <2>5. entry.age + 1 < StaleFor
    BY <1>0, <2>1, <2>2, <2>3, <2>4
  <2>6. EntryAged(entry) # NoEntry /\ EntryAged(entry).age = entry.age + 1
    BY <2>3, <2>4, <2>5, EntryAges
  <2>7. entry' = EntryAged(entry)
    BY <2>4, <2>5, <2>6 DEF STick, Tick, Gone
  <2>8. QED
    BY <1>0, <2>2, <2>3, <2>4, <2>6, <2>7
<1>7. Patience'
  <2>1. SUFFICES ASSUME NEW u \in Tasks, pc'[u] = "wait"
                 PROVE  \E s \in Tasks : Calls(s)' /\ clock'[u] <= clock'[s]
    BY DEF Patience
  <2>2. pc[u] = "wait" /\ entry = NoEntry /\ clock'[u] = clock[u] + 1
    BY <1>1, <2>1
  <2>3. PICK s \in Tasks : Calls(s) /\ clock[u] <= clock[s]
    BY <2>2 DEF InFlight, Patience
  <2>4. QED
    BY <1>0, <1>2, <2>2, <2>3
<1>8. Newer'
  <2>1. entry' # NoEntry => entry # NoEntry /\ entry'.version = entry.version
    BY <1>0, EntryAges DEF STick, Tick
  <2>2. QED
    BY <1>0, <1>2, <2>1 DEF InFlight, Newer
<1>9. QED
  BY <1>4, <1>5, <1>6, <1>7, <1>8 DEF InFlight

LEMMA NextInFlight ==
  ASSUME TypeOK, Carried, calm \in 0 .. Overcome, InFlight, faults = 0, faults' = 0,
         [SNext]_svars
  PROVE  InFlight'
<1> USE CacheAssumption
<1>0. /\ Requests \subseteq Tasks /\ Refreshers \subseteq Tasks
      /\ pc \in [Tasks -> Places] /\ clock \in [Tasks -> Nat]
      /\ copy \in [Tasks -> Entry \cup {NoEntry}] /\ ~Fault
      /\ \A u \in Tasks : pc[u] \notin {"wait", "fetch", "store"} => clock[u] = 0
  BY DEF Tasks, TypeOK, Fault, InFlight, Clocks
<1>1. ASSUME NEW t \in Requests, Request(t) \/ ReadCache(t), UNCHANGED calm PROVE InFlight'
  BY <1>0, <1>1, Bystander
     DEF Request, ReadCache, Get, Hit, NotFresh, Answers, Goto, Carries, Calls
<1>2. ASSUME NEW t \in Requests, NEW r \in Refreshers, StaleWins(t, r), UNCHANGED calm
      PROVE  InFlight'
  <2>1. /\ pc'[r] = "fetch" /\ clock'[r] = 0 /\ copy'[r] = Payload(version) /\ ~Calls(r)
        /\ \A u \in Tasks : u # r =>
             /\ clock'[u] = clock[u]
             /\ \/ pc'[u] = pc[u] /\ copy'[u] = copy[u]
                \/ pc'[u] = "answered" /\ pc[u] = "stale"
    BY <1>0, <1>2 DEF StaleWins, Calls
  <2>2. lock = 0 /\ lock' = LockTTL /\ UNCHANGED <<entry, version>>
    BY <1>2 DEF StaleWins
  <2>3. QED
    BY <1>0, <1>2, <2>1, <2>2, Starts
<1>3. ASSUME NEW t \in Requests, ColdWins(t), UNCHANGED calm PROVE InFlight'
  BY <1>0, <1>3, Starts DEF ColdWins, StartsFetch, Goto, Carries, Calls
<1>4. ASSUME NEW t \in Requests, StaleLoses(t), UNCHANGED calm PROVE InFlight'
  BY <1>0, <1>4, Bystander DEF StaleLoses, Answers, Goto, Carries, Calls
<1>5. ASSUME NEW t \in Requests, ColdLoses(t), UNCHANGED calm PROVE InFlight'
  BY <1>0, <1>5, Queues
<1>6. ASSUME NEW t \in Requests, Wait(t), UNCHANGED calm PROVE InFlight'
  <2>1. CASE entry = NoEntry
    BY <1>6, <2>1, GivesUp
  <2>2. CASE entry # NoEntry
    BY <1>0, <1>6, <2>2, Bystander DEF Wait, Answers, Goto, Carries, Calls
  <2>3. QED
    BY <2>1, <2>2
<1>7. ASSUME NEW t \in Tasks, FetchReturns(t) \/ Store(t), UNCHANGED calm PROVE InFlight'
  BY <1>7, Returns, Stores
<1>8. CASE Publish /\ UNCHANGED calm
  <2>1. version' = version + 1 /\ UNCHANGED <<entry, lock, pc, copy, clock, calm>>
    BY <1>8 DEF Publish
  <2>2. Newer'
    <3>1. entry # NoEntry => entry.version \in Nat
      BY EntryParts DEF TypeOK
    <3>2. \A t \in Tasks : Calls(t) => copy[t].version \in Nat
      BY EntryParts DEF TypeOK, Carried, Calls
    <3>3. version \in Nat
      BY DEF TypeOK
    <3>4. QED
      BY <2>1, <3>1, <3>2, <3>3 DEF InFlight, Newer, Calls
  <2>3. QED
    BY <2>1, <2>2
       DEF InFlight, Clocks, Locks, Late, LockSaysWhy, Patience, Calls
<1>9. CASE STick
  BY <1>9, Ages
<1>10. CASE UNCHANGED svars
  BY <1>10 DEF svars, vars, InFlight, Clocks, Locks, Late, LockSaysWhy, Patience, Newer,
     Calls
<1>11. QED
  BY <1>1, <1>2, <1>3, <1>4, <1>5, <1>6, <1>7, <1>8, <1>9, <1>10
     DEF SNext, Quickly, TryLock

LEMMA FaultsGrow ==
  ASSUME TypeOK, [SNext]_svars
  PROVE  faults' = 0 => faults = 0
BY DEF TypeOK, SNext, STick, Quickly, Request, ReadCache, Get, Hit, NotFresh, TryLock,
   StaleWins, StaleLoses, ColdWins, ColdLoses, Wait, FetchReturns, Store, Publish, Tick,
   Fault, svars, vars

LEMMA InitSInv == SInit => SInv
<1> SUFFICES ASSUME SInit PROVE SInv
  OBVIOUS
<1>1. InFlight /\ calm \in 0 .. Overcome
  BY Limits
     DEF SInit, Init, InFlight, Clocks, Locks, Late, LockSaysWhy, Patience, Newer, Calls
<1>2. QED
  BY <1>1, InitTypeOK DEF SInit, SInv

LEMMA NextSInv == SInv /\ [SNext]_svars => SInv'
<1> SUFFICES ASSUME SInv, [SNext]_svars PROVE SInv'
  OBVIOUS
<1>1. TypeOK' /\ Carried'
  BY SharedTyped DEF SInv, SNext, STick, svars
<1>2. QED
  BY <1>1, SafeCalm, NextInFlight, FaultsGrow DEF SInv

(***************************************************************************)
(* The inductive invariant holds in every state, however long calls last.  *)
(***************************************************************************)
THEOREM Inductive == SSpec => []SInv
BY InitSInv, NextSInv, PTL DEF SSpec

(***************************************************************************)
(* Single flight (infra/cache.py:4-6, 185-187): until Redis fails for the  *)
(* first time, and once no call has been slow for as long as a loser       *)
(* waits, there are never two upstream calls for the key.                  *)
(***************************************************************************)
THEOREM OneCall == SSpec => []OneUpstreamCall
<1>1. SInv => OneUpstreamCall
  <2> SUFFICES ASSUME SInv, faults = 0, calm >= Prompt,
                      NEW s \in Tasks, NEW t \in Tasks, Calls(s), Calls(t), s # t
               PROVE  FALSE
    BY DEF OneUpstreamCall
  <2>1. InFlight /\ clock[s] \in Nat /\ clock[t] \in Nat /\ calm \in Nat
    BY Limits DEF SInv, TypeOK
  <2>2. clock[s] < Prompt /\ clock[t] < Prompt
    BY <2>1, Limits DEF InFlight, Clocks
  <2>3. Late(s) \/ Late(t)
    BY <2>1 DEF InFlight, Locks
  <2>4. QED
    BY <2>1, <2>2, <2>3, Limits DEF Late
<1>2. QED
  BY <1>1, Inductive, PTL

(***************************************************************************)
(* Hence no entry is replaced by an older one (infra/cache.py:105-125),    *)
(* once the effects of the last slow call are over.                        *)
(***************************************************************************)
THEOREM NewestKept == SSpec => NeverOverwrittenByOlder
<1>1. ASSUME SInv, [SNext]_svars
      PROVE  [faults' = 0 /\ calm = Overcome /\ entry # NoEntry /\ entry' # NoEntry
                => entry'.version >= entry.version]_svars
  <2> SUFFICES ASSUME SNext, faults' = 0, calm = Overcome, entry # NoEntry, entry' # NoEntry
               PROVE  entry'.version >= entry.version
    BY <1>1
  <2>0. TypeOK /\ Carried /\ calm \in 0 .. Overcome /\ InFlight
    BY <1>1, FaultsGrow DEF SInv
  <2>1. entry \in Entry /\ entry.version \in Nat
    BY <2>0, EntryParts DEF TypeOK
  <2>2. CASE entry' = entry
    BY <2>1, <2>2
  <2>3. CASE UNCHANGED calm /\ \E t \in Tasks : Store(t)
    BY <2>0, <2>3, Stores
  <2>4. CASE STick
    BY <2>1, <2>4, EntryAges DEF STick, Tick
  <2>5. QED
    BY <2>2, <2>3, <2>4
       DEF SNext, Quickly, Request, ReadCache, Get, Hit, NotFresh, TryLock, StaleWins,
           StaleLoses, ColdWins, ColdLoses, Wait, FetchReturns, Publish
<1>2. QED
  BY <1>1, Inductive, PTL DEF SSpec, NeverOverwrittenByOlder
=============================================================================
