------------------------------- MODULE Replies -------------------------------
(***************************************************************************)
(* What an upstream server can answer to one HTTP request, and what an     *)
(* adapter (src/cityscape/adapters) makes of it.  A body is one of a few   *)
(* kinds; what an adapter returns is told apart by what the routes and     *)
(* the facade do with it.                                                  *)
(***************************************************************************)
EXTENDS Naturals, Sequences

Reply == {
  "rows",    \* well-formed, with entries for the city asked about
  "far",     \* well-formed, with entries, none of them for the city
  "none",    \* well-formed, without entries
  "odd",     \* a well-formed object without the expected members, such as
             \* an error message that comes with status 200
  "junk",    \* a body the parser refuses
  "barred",  \* a body a guard refuses before it is parsed: too large, or
             \* with a DOCTYPE; to an adapter without a guard it is rows
  "gone",    \* the status some adapters read as "no data": 404, 422
  "down" }   \* any other HTTP error, a timeout, a broken connection

Raised == {
  "HTTPError",  \* httpx.HTTPError: the breaker counts it, fetch falls back
  "Other" }     \* any other exception: it passes through fetch

Payload == {
  "full",     \* the entries of the city
  "part",     \* entries, but some reply was not understood or had failed
  "foreign",  \* entries of somewhere else
  "empty",    \* no entries, and the source has none
  "blank",    \* no entries, because a reply was not understood or failed
  "null" }    \* None

Outcome == Raised \cup Payload

(***************************************************************************)
(* One request: raise_for_status, parse, pick the entries.  Plain fails    *)
(* on a missing member (d["features"]); the other tables change a line.    *)
(***************************************************************************)
Plain == [rows |-> "full", far |-> "foreign", none |-> "empty",
          odd |-> "Other", junk |-> "Other", barred |-> "full",
          gone |-> "HTTPError", down |-> "HTTPError"]

(* d.get("features") or []: a missing member reads as no entries. *)
Tolerant == [Plain EXCEPT !["odd"] = "blank"]

(* The request, or a filter over the entries, names the city. *)
Scoped(table) == [table EXCEPT !["far"] = "empty"]

(* The nearest entry is taken, however far it is. *)
Nearest(table) == [table EXCEPT !["far"] = "full"]

(* The parser's exception, or a failed pattern, reads as no entries. *)
Lenient(table) == [table EXCEPT !["junk"] = "blank"]

(* A body the guard refuses reads as no entries. *)
Guarded(table) == [table EXCEPT !["barred"] = "blank"]

(* The special status reads as no entries. *)
GoneIsEmpty(table) == [table EXCEPT !["gone"] = "empty"]

(***************************************************************************)
(* Several requests.                                                       *)
(***************************************************************************)
ToSet(s) == {s[i] : i \in DOMAIN s}

(* The entries of several payloads in one list. *)
Merge(S) ==
  LET found == S \cap {"full", "part", "foreign"} IN
  CASE found = {} -> IF S \subseteq {"empty"} THEN "empty" ELSE "blank"
    [] found = {"foreign"} -> "foreign"
    [] found # {} /\ found # {"foreign"} ->
         IF S \cap {"part", "blank"} = {} THEN "full" ELSE "part"

FirstRaised(s) ==
  s[CHOOSE i \in DOMAIN s : s[i] \in Raised
                            /\ \A j \in 1 .. i - 1 : s[j] \notin Raised]

(* One after the other: the first exception ends it. *)
InTurn(s) ==
  IF ToSet(s) \cap Raised = {} THEN Merge(ToSet(s)) ELSE FirstRaised(s)

(* asyncio.gather(return_exceptions=True), raised only if all of them are. *)
Gathered(s) ==
  LET answered == ToSet(s) \ Raised IN
  CASE answered = {} -> s[1]
    [] ToSet(s) = answered -> Merge(answered)
    [] answered # {} /\ ToSet(s) # answered -> Merge(answered \cup {"blank"})

(* The second request is sent if the first has found what it needs. *)
Then(first, second) == IF first = "full" THEN second ELSE first

(* The second request completes the entry the first one found. *)
Detail(first, second) ==
  Then(first, IF second \in Raised \cup {"full"} THEN second ELSE "part")

(* The same, with failures of the second request swallowed. *)
Optional(first, second) ==
  Then(first, IF second = "full" THEN "full" ELSE "part")
=============================================================================
