----------------------------- MODULE SingleFlight -----------------------------
(***************************************************************************)
(* What the lock of cache_get_or_set achieves (infra/cache.py:185-230),    *)
(* as long as Redis and the source are well: CacheAside, with a history of *)
(* slow calls.  The losers of the lock wait for the winner's entry for     *)
(* some seconds, and the lock expires after some more.  A source that      *)
(* takes longer than either is called again meanwhile, and its late answer *)
(* overwrites newer ones.  That is over some time after the last such call.*)
(***************************************************************************)
EXTENDS CacheAside

VARIABLE calm   \* history: ticks since a call was last slow, at most Overcome

svars == <<vars, calm>>

(* A call is slow when it has lasted that long. *)
Prompt == IF WaitMax < LockTTL THEN WaitMax ELSE LockTTL

(* The calls that began before a slow one ended, and those that overlapped *)
(* with them, are over.                                                    *)
Overcome == 2 * Prompt - 1

Slow(t) == pc[t] = "fetch" /\ clock[t] >= Prompt

SInit == Init /\ calm = Overcome

STick ==
  /\ Tick
  /\ calm' = IF \E t \in Tasks : Slow(t)' THEN 0
             ELSE IF calm < Overcome THEN calm + 1 ELSE Overcome

SNext == (Quickly /\ UNCHANGED calm) \/ STick

SSpec == SInit /\ [][SNext]_svars

-----------------------------------------------------------------------------
Calls(t) == pc[t] \in {"fetch", "store"}

(***************************************************************************)
(* "Single-flight: concurrent cold misses trigger exactly ONE upstream     *)
(* call" (cache.py:4-6, 217-218): not during a slow call, nor shortly      *)
(* after it, when the calls it caused are still on their way.  From then   *)
(* on it holds again, although the lock is never released, and whatever    *)
(* tasks are late.                                                         *)
(***************************************************************************)
OneUpstreamCall ==
  faults = 0 /\ calm >= Prompt =>
    \A s, t \in Tasks : Calls(s) /\ Calls(t) => s = t

(***************************************************************************)
(* A slow call may overwrite newer data with older (cache.py:105-125 does  *)
(* not look at what is there); a call that began after its effects are     *)
(* over does not.                                                          *)
(***************************************************************************)
NeverOverwrittenByOlder ==
  [][faults' = 0 /\ calm = Overcome /\ entry # NoEntry /\ entry' # NoEntry
       => entry'.version >= entry.version]_svars

-----------------------------------------------------------------------------
(***************************************************************************)
(* Why, inductively.  Clocks run while somebody waits or calls, and no     *)
(* call has been slow for calm ticks.                                      *)
(***************************************************************************)
Clocks == \A t \in Tasks :
  /\ pc[t] \notin {"wait", "fetch", "store"} => clock[t] = 0
  /\ calm > 0 /\ Calls(t) => clock[t] < Prompt

(* A call began when the last slow call was still on its way, or before,   *)
Late(t) == clock[t] >= calm

(* or it began with the lock, which outlives it, and then it is alone.     *)
Locks ==
  /\ \A t \in Tasks : Calls(t) => Late(t) \/ lock + clock[t] >= LockTTL
  /\ \A s, t \in Tasks : Calls(s) /\ Calls(t) /\ s # t => Late(s) \/ Late(t)

(* While the lock lives either a call is still on its way or its entry is  *)
(* there, and so whoever waits has not waited longer than a call lasts, or *)
(* finds the entry.                                                        *)
LockSaysWhy == lock > 0 =>
  \/ \E t \in Tasks : Calls(t)
  \/ entry # NoEntry /\ entry.age + lock <= LockTTL

Patience == \A t \in Tasks : pc[t] = "wait" =>
  entry # NoEntry \/ \E s \in Tasks : Calls(s) /\ clock[t] <= clock[s]

(* What is on its way is not older than what is there, if it began after   *)
(* the calls that overlapped were over.                                    *)
Newer ==
  /\ entry # NoEntry => entry.version <= version
  /\ \A t \in Tasks : Calls(t) =>
       /\ copy[t].version <= version /\ copy[t].age = 0
       /\ \/ clock[t] + Prompt > calm
          \/ entry # NoEntry => entry.version <= copy[t].version

InFlight == Clocks /\ Locks /\ LockSaysWhy /\ Patience /\ Newer

SInv == TypeOK /\ Carried /\ calm \in 0 .. Overcome /\ (faults = 0 => InFlight)
=============================================================================
