------------------------------- MODULE Adapters -------------------------------
(***************************************************************************)
(* One call of an adapter: the replies to its requests arrive one by one,  *)
(* then it returns or raises.  A reply to a request that the adapter does  *)
(* not send has no part in the outcome.                                    *)
(***************************************************************************)
EXTENDS Fetchers

CONSTANT MaxReplies   \* requests of one call, as many as a loop makes

(* Three are told apart: the gauge, its reading and its unit; discovery,   *)
(* licence and stations of a sharing system; stations, catalogue and file. *)
ASSUME MaxRepliesAssumption == MaxReplies \in Nat /\ MaxReplies >= 3

VARIABLES
  fn,        \* the adapter
  replies,   \* the replies so far
  outcome    \* what it returned or raised, "pending" until then

callVars == <<fn, replies, outcome>>

Possible == IF fn \in OneCityFeeds THEN Reply \ {"far"} ELSE Reply

CallInit ==
  /\ fn \in Fetchers
  /\ replies = <<>>
  /\ outcome = "pending"

Receive ==
  /\ Len(replies) < MaxReplies
  /\ \E k \in Possible : replies' = Append(replies, k)
  /\ UNCHANGED <<fn, outcome>>

Return ==
  /\ Len(replies) = MaxReplies
  /\ outcome = "pending"
  /\ outcome' = OutcomeOf(fn, replies)
  /\ UNCHANGED <<fn, replies>>

CallNext == Receive \/ Return

CallSpec == CallInit /\ [][CallNext]_callVars

(***************************************************************************)
(* Requests that the repository calls spare: when one fails, its part is   *)
(* missing and the rest is returned.                                       *)
(***************************************************************************)
(* Requests in parallel, of which one must be answered: a single motorway  *)
(* or file drops out (autobahn.py:23-26, duesseldorf_radzaehl.py:30-32).   *)
FanOuts == {"fetch_traffic", "fetch_webcams", "fetch_duesseldorf_radzaehl"}

(* Names and capacities may fail without the occupancy                     *)
(* (mobilithek_datex3.py:318-319, mobilithek_datex2.py:745-747).           *)
StaticPulls == {"fetch_wuppertal_parking", "fetch_magdeburg_parking",
                "fetch_frankfurt_parking"}

(* Another source stands in (poller.py:71-77).                             *)
WithFallback == {"fetch_gtfs_rt_feed"}

(* Adapters that raise a failure of a spare request all the same: they     *)
(* catch none (Munich) or only ValueError.                                 *)
Unkept == StaticPulls \cup {"fetch_muenchen_radzaehl"}

WithSpare ==
  FanOuts \cup WithFallback \cup Unkept \cup {"fetch_fire_danger", "fetch_water_level"}

(* Replies that an adapter without a guard understands.                    *)
WellFormed == {"rows", "far", "none", "barred"}

(* The i-th request of a call of f with replies r is spare: the index for  *)
(* grassland (dwd_fire.py:187), the unit of the gauge (pegelonline.py:     *)
(* 141-144), the counts of Munich (muenchen_radzaehl.py:25-27), and those  *)
(* above.                                                                  *)
Spare(f, r, i) ==
  \/ f = "fetch_fire_danger" /\ i = 2
  \/ f = "fetch_water_level" /\ i = 3
  \/ f = "fetch_muenchen_radzaehl" /\ i \in 2 .. 3
  \/ f \in StaticPulls /\ i = 2
  \/ f \in WithFallback /\ i = 1 /\ parse_trip_updates[r[2]] \notin Raised
  \/ f \in FanOuts /\ \E j \in DOMAIN r : r[j] \in WellFormed

(* What an adapter may end with when its i-th request has failed.          *)
Tolerable(f, r, i, o) ==
  IF Spare(f, r, i)
  THEN \/ o \in {"part", "blank"}
       \/ f \in WithFallback /\ o \in Payload
       \/ f \in Unkept /\ o \in Raised
  ELSE \/ o \in Raised
       \/ f \in FanOuts /\ o = "blank"

(* The outcome rests on the i-th reply: another one would change it.       *)
RestsOn(i) ==
  \E k \in Possible : OutcomeOf(fn, [replies EXCEPT ![i] = k]) # outcome

(* An adapter none of whose requests is answered raises httpx.HTTPError,   *)
(* whatever it makes of partial answers: this is what the breaker counts   *)
(* and what makes fetch fall back to the kept entry (client.py:246-249).   *)
OutageIsRaised ==
  outcome # "pending" /\ (\A i \in 1 .. MaxReplies : replies[i] = "down")
    => outcome = "HTTPError"

(* A failed request that the outcome rests on is raised, so that it is     *)
(* never taken for the absence of entries; unless the repository calls it  *)
(* spare: then it does not take down what the other requests brought,      *)
(* which is returned with its part missing.  The adapters of Unkept break  *)
(* the second half.                                                        *)
FailureShows ==
  outcome # "pending" =>
    \A i \in 1 .. MaxReplies :
      replies[i] = "down" /\ RestsOn(i) => Tolerable(fn, replies, i, outcome)
=============================================================================
