-------------------------------- MODULE Service --------------------------------
(***************************************************************************)
(* The service as a client sees it: requests to the routes (Routes), which *)
(* call the adapters (Fetchers) through the facade.  The facade is what    *)
(* ResilientClient establishes of it, for one worker without Redis errors: *)
(* an entry that is kept is served, fresh or stale, and a stale one is     *)
(* refreshed in the background; otherwise the adapter is called, or the    *)
(* breaker refuses.  /compare and the overview fetch their parts side by   *)
(* side (asyncio.gather).                                                  *)
(***************************************************************************)
EXTENDS Routes, Fetchers

CONSTANTS
  Cities,       \* slugs a client asks for, registered or not; "eva" stands
                \*   for the station of a path and is none
  Repeated,     \* those about which there is a request after the first
  OverviewCities, \* those whose overview a client asks for
  CompareCities,  \* those of /compare, in the order given
  Handlers,     \* routes a client asks for, but for the overview and /compare
  Resources,    \* resources asked of /compare
  Parametrised, \* those with a query or path parameter that may be refused
  Settings,     \* pairs of the toggles that are off or credentials that are
                \*   missing, and what archive, seeds and Redis contain
  MaxRequests   \* bound: requests

ASSUME ServiceAssumption ==
  /\ Handlers \subseteq CityRoutes \cup LiveRoutes
  /\ Parametrised \subseteq Handlers
  /\ Resources \subseteq RESOURCE_MAP \cup delegated_resources
  /\ MaxRequests \in Nat
  /\ "eva" \notin Cities \cup Repeated \cup OverviewCities \cup ToSet(CompareCities)

(* The texts of two keys are equal only if what they are made of is.       *)
Zones == {SMARD_STATE_TO_ZONE(slug) : slug \in Registered}
ASSUME KeysDiffer ==
  /\ \A f, g \in OsmFeatures : Param("feature", f) = Param("feature", g) => f = g
  /\ \A f \in OsmFeatures : Param("feature", f) # Param("type", "school")
  /\ \A d, e \in GenesisTables, s, t \in Registered :
       Scope(d, s) # t /\ (Scope(d, s) = Scope(e, t) => d = e /\ s = t)
  /\ \A y, z \in Zones : Scope("load", y) = Scope("load", z) => y = z
  /\ \A z \in Zones : Scope("load", z) # Scope("price", "DE")

VARIABLES
  off,        \* the setting
  has,        \* the contents
  cache,      \* cache[k]: who wrote the entry k, its payload, whether it is fresh
  refreshing, \* background refreshes that have not ended: the calls
  request,    \* the request being served: its route and whether its
              \*   parameters are acceptable
  parts,      \* its parts, one but for /compare and the overview: the
              \*   handler, the city, what the facade returned, and whether
              \*   the budget of the part is used up
  served      \* requests so far

settings == <<off, has>>
vars == <<off, has, cache, refreshing, request, parts, served>>

NoRequest == [route |-> "none", valid |-> TRUE]

Init ==
  /\ \E s \in Settings : off = s[1] /\ has = s[2]
  /\ cache = <<>>
  /\ refreshing = {}
  /\ request = NoRequest
  /\ parts = <<>>
  /\ served = 0

-----------------------------------------------------------------------------
(* The handlers at work. *)

get_city(slug) == slug \in Registered \cup {"eva"}

NextStep(p) ==
  CASE p.late -> Say("error")
    [] ~p.late /\ ~get_city(p.slug) ->
         Say(IF request.route = "compare" THEN "not_found" ELSE "404")
    [] ~p.late /\ get_city(p.slug) ->
         Handle(p.handler, [slug |-> p.slug, valid |-> request.valid,
                            off |-> off, has |-> has, got |-> p.got])

Fetches(p) == NextStep(p).do = "fetch"
Status(p) == IF Fetches(p) THEN "pending" ELSE NextStep(p).status
Answered == \A i \in DOMAIN parts : ~Fetches(parts[i])

(* An exception that leaves a part is the answer to the whole request.     *)
ErrorCodes == {"400", "404", "422", "500", "503"}
Response ==
  LET raised == {i \in DOMAIN parts : Status(parts[i]) \in ErrorCodes}
  IN  IF raised = {} THEN "200"
      ELSE Status(parts[CHOOSE i \in raised : \A j \in raised : i <= j])

-----------------------------------------------------------------------------
(* The sources. *)

(* Publications that are about one city.                                   *)
Home == [koeln_traffic_flow |-> "koeln", koeln_baustellen_live |-> "koeln",
  koeln_ereignisse_live |-> "koeln", koeln_lez_live |-> "koeln",
  berlin_verkehrsmeldungen |-> "berlin", hannover_verkehrsmeldungen |-> "hannover",
  kiel_zaehlstellen |-> "kiel", bremen_baustellen |-> "bremen",
  frankfurt_parking |-> "frankfurt", wuppertal_parking |-> "wuppertal",
  magdeburg_parking |-> "magdeburg"]

PossibleReplies(call) ==
  CASE call.source \in DOMAIN Home ->
         Reply \ {IF Home[call.source] = call.slug THEN "far" ELSE "rows"}
    [] call.source \notin DOMAIN Home /\ call.fn \in OneCityFeeds -> Reply \ {"far"}
    [] call.source \notin DOMAIN Home /\ call.fn \notin OneCityFeeds -> Reply

(* Bound: at most the first reply differs from the others.                 *)
OutcomesAmong ==
  [fn \in Fetchers |-> [possible \in {Reply, Reply \ {"far"}, Reply \ {"rows"}} |->
     {OutcomeOf(fn, <<first, other, other>>) : first \in possible, other \in possible}]]

Outcomes(call) == OutcomesAmong[call.fn][PossibleReplies(call)]

-----------------------------------------------------------------------------
(* ResilientSourceClient.fetch. *)

Kept(call) == call.store /\ call.key \in DOMAIN cache

Store(call, payload) ==
  IF ~call.store THEN UNCHANGED cache
  ELSE cache' = [k \in DOMAIN cache \cup {call.key} |->
                   IF k = call.key THEN [fn |-> call.fn, slug |-> call.slug,
                                         payload |-> payload, fresh |-> TRUE]
                                   ELSE cache[k]]

Returns(i, result) == parts' = [parts EXCEPT ![i].got = Append(@, result)]

(* HIT, or STALE with a refresh in the background. *)
FromCache(i) ==
  LET call == NextStep(parts[i]) IN
  /\ Fetches(parts[i]) /\ Kept(call)
  /\ Returns(i, cache[call.key].payload)
  /\ refreshing' = IF cache[call.key].fresh THEN refreshing
                                            ELSE refreshing \cup {call}
  /\ UNCHANGED <<settings, cache, request, served>>

(* MISS: the adapter returns, or raises something fetch does not catch.    *)
FromUpstream(i) ==
  LET call == NextStep(parts[i]) IN
  /\ Fetches(parts[i]) /\ ~Kept(call)
  /\ \E outcome \in Outcomes(call) \ {"HTTPError"} :
       /\ Returns(i, outcome)
       /\ IF outcome \in Payload THEN Store(call, outcome) ELSE UNCHANGED cache
  /\ UNCHANGED <<settings, refreshing, request, served>>

(* It raises httpx.HTTPError, or the breaker refuses, and nothing is kept. *)
Unavailable(i) ==
  LET call == NextStep(parts[i]) IN
  /\ Fetches(parts[i]) /\ ~Kept(call)
  /\ Returns(i, "nothing")
  /\ UNCHANGED <<settings, cache, refreshing, request, served>>

(* A background refresh ends; its exceptions go to the log.                *)
Refresh(call) ==
  /\ call \in refreshing
  /\ refreshing' = refreshing \ {call}
  /\ \E outcome \in Outcomes(call) :
       IF outcome \in Payload THEN Store(call, outcome) ELSE UNCHANGED cache
  /\ UNCHANGED <<settings, request, parts, served>>

(* Bound: requests after the first are made with everything switched on    *)
(* and concern a source that has an entry, of one of a few cities.         *)
MayAsk ==
  /\ request = NoRequest
  /\ served < MaxRequests
  /\ served > 0 => off \cup has = {}

(* The entries get stale, or Redis drops them, between two requests.       *)
Age ==
  /\ MayAsk /\ served > 0
  /\ DOMAIN cache # {}
  /\ \/ /\ \E k \in DOMAIN cache : cache[k].fresh
        /\ cache' = [k \in DOMAIN cache |-> [cache[k] EXCEPT !.fresh = FALSE]]
     \/ cache' = <<>>
  /\ UNCHANGED <<settings, refreshing, request, parts, served>>

-----------------------------------------------------------------------------
(* A client. *)

Part(handler, slug) == [handler |-> handler, slug |-> slug, got |-> <<>>, late |-> FALSE]

Asked == IF served = 0 THEN Cities ELSE Repeated

SharesASource ==
  \E i \in DOMAIN parts', k \in DOMAIN cache :
    /\ cache[k].slug \in Repeated
    /\ Fetches(parts[i])' /\ NextStep(parts[i])'.key[1] = k[1]

Asks(route, valid, asked) ==
  /\ request' = [route |-> route, valid |-> valid]
  /\ parts' = asked
  /\ served' = served + 1
  /\ UNCHANGED <<settings, cache, refreshing>>
  /\ served > 0 => SharesASource

Ask ==
  /\ MayAsk
  /\ \E handler \in Handlers :
       \E slug \in IF handler \in DOMAIN PathCity THEN {PathCity[handler]} ELSE Asked,
          valid \in IF handler \in Parametrised THEN BOOLEAN ELSE {TRUE} :
         Asks(handler, valid, <<Part(handler, slug)>>)

compare ==
  /\ MayAsk
  /\ \E resource \in Resources :
       Asks("compare", TRUE,
            [i \in DOMAIN CompareCities |-> Part(resource, CompareCities[i])])

city_overview ==
  /\ MayAsk
  /\ \E slug \in OverviewCities :
       Asks("overview", TRUE,
            IF get_city(slug) THEN [i \in DOMAIN Highlights |-> Part(Highlights[i], slug)]
                              ELSE <<Part("city", slug)>>)

(* Mutant: only the first highlight has a budget.                          *)
BudgetEnds_First(i) ==
  /\ request.route = "overview"
  /\ i = 1 /\ Fetches(parts[i])
  /\ parts' = [parts EXCEPT ![i].late = TRUE]
  /\ UNCHANGED <<settings, cache, refreshing, request, served>>

(* wait_for cancels a highlight; nothing of it is seen by the client.      *)
BudgetEnds(i) ==
  /\ request.route = "overview"
  /\ Fetches(parts[i])
  /\ parts' = [parts EXCEPT ![i].late = TRUE]
  /\ UNCHANGED <<settings, cache, refreshing, request, served>>

Respond ==
  /\ request # NoRequest
  /\ Answered
  /\ request' = NoRequest
  /\ parts' = <<>>
  /\ UNCHANGED <<settings, cache, refreshing, served>>

Fetching(i) == FromCache(i) \/ FromUpstream(i) \/ Unavailable(i)

Next ==
  \/ Ask \/ compare \/ city_overview
  \/ \E i \in DOMAIN parts : Fetching(i) \/ BudgetEnds(i)
  \/ \E call \in refreshing : Refresh(call)
  \/ Age
  \/ Respond

(* A fetch ends (ResilientClient.FetchReturnsAlways), but the overview     *)
(* does not rely on it; the event loop runs timers and handlers.           *)
Fairness ==
  /\ WF_vars(\E i \in DOMAIN parts : request.route # "overview" /\ Fetching(i))
  /\ WF_vars(\E i \in DOMAIN parts : BudgetEnds(i))
  /\ WF_vars(Respond)

Spec == Init /\ [][Next]_vars /\ Fairness

-----------------------------------------------------------------------------
(***************************************************************************)
(* Properties.                                                             *)
(***************************************************************************)

(* The toggle and the credentials that a fetch needs, by its source.       *)
Needs(call) ==
  CASE call.fn \in GenesisTables -> {"genesis_regio", "genesis_credentials"}
    [] call.source = "genesis_hospital" \/ call.fn = "fetch_demographics" ->
         {"genesis", "genesis_credentials"}
    [] call.source = "divi_live" -> {"divi"}
    [] call.source \in {"db_timetables", "db_fasta", "stada"} ->
         {call.source, "db_credentials"}
    [] call.source = "hvv_geofox" -> {call.source, "hvv_credentials"}
    [] call.source \in DOMAIN Home -> {call.source, "mobilithek_cert"}
    [] call.source \notin DOMAIN Home \cup {"genesis", "genesis_hospital",
         "divi_live", "db_timetables", "db_fasta", "stada", "hvv_geofox"} ->
         {call.source}

Boards == {"city_station_departures", "city_station_arrivals", "highlight-departures"}

(* A source that is switched off, or has no credentials, is never asked,   *)
(* whichever route, row or highlight could ask it.  The catalogue of       *)
(* stations is asked on behalf of a board without its own toggle.          *)
TogglesHold ==
  \A i \in DOMAIN parts :
    LET call == NextStep(parts[i]) IN
    Fetches(parts[i]) =>
      \/ off \cap Needs(call) = {}
      \/ /\ parts[i].handler \in Boards /\ call.source = "stada"
         /\ off \cap Needs(call) = {"stada"}

(* What is found under a key was fetched by the same adapter for the same  *)
(* city (or zone, or station): routes that share a source either share     *)
(* what it delivers or have keys of their own (build_cache_key).           *)
OwnEntry ==
  \A i \in DOMAIN parts :
    LET call == NextStep(parts[i]) IN
    Fetches(parts[i]) /\ Kept(call) =>
      cache[call.key].fn = call.fn /\ cache[call.key].slug = call.slug

(* A source that could not be asked is never told as one that has nothing: *)
(* the answer is 503, or an error in the row.  Not so where the code       *)
(* prefers to answer: the report of intensive care (cities.py:4983), a     *)
(* board of a city whose stations could not be looked up, events and       *)
(* hospitals of which another source had some.                             *)
OutageIsSaid ==
  \A i \in DOMAIN parts :
    LET p == parts[i] IN
    "nothing" \in {p.got[j] : j \in DOMAIN p.got} =>
      \/ Status(p) \in {"503", "error"}
      \/ p.handler = "city_icu_live" /\ Status(p) = "no_data"
      \/ p.handler \in Boards /\ p.got[1] = "nothing" /\ Status(p) = "no_data"
      \/ p.handler = "city_events" /\ p.got[1] \in {"full", "part", "foreign"}
      \/ p.handler = "city_health" /\ Status(p) \in {"ok", "disabled"}

(* Entries of elsewhere are not shown as the city's: 84 cities share the   *)
(* nationwide documents.  (Without entries of its own a city has no        *)
(* warnings, which is "ok".)  The exception is the traffic of Cologne,     *)
(* which live.py:250 serves to every city that has no subscription.        *)
ForeignNotShown ==
  \A i \in DOMAIN parts :
    LET p == parts[i] IN
    Status(p) = "ok" /\ p.got # <<>> /\ p.got[Len(p.got)] = "foreign" =>
      p.handler \in {"city_weather_warnings", "weather-warnings", "live_traffic_flow"}

(* The rows and highlights, and the routes that they stand for.            *)
Rows == RESOURCE_MAP \cup delegated_resources \cup ToSet(Highlights)

RouteOf == [row \in Rows |->
  CASE row \in {"weather", "highlight-weather"} -> "city_weather"
    [] row \in {"air", "highlight-air"} -> "city_air"
    [] row = "highlight-departures" -> "city_station_departures"
    [] row = "indicators" -> "city_indicators"
    [] row = "demographics" -> "city_demographics"
    [] row = "unemployment" -> "city_unemployment"
    [] row = "tourism" -> "city_tourism"
    [] row = "charging-status" -> "city_charging_status"
    [] row = "weather-warnings" -> "city_weather_warnings"]

Agrees(p) ==
  LET row == Status(p)
      route == Status([p EXCEPT !.handler = RouteOf[p.handler]])
  IN  row = IF route \in ErrorCodes THEN "error" ELSE route

(* A row of /compare and a highlight say what the route says that they     *)
(* stand for, an error if it answers with one.  Departures are left out:   *)
(* the highlight tests the board for members, not for departures, and      *)
(* calls an empty one "ok" where the route says "no_data".                 *)
RowsAgree ==
  \A i \in DOMAIN parts :
    LET p == parts[i] IN
    p.handler \in DOMAIN RouteOf /\ ~p.late /\ p.handler # "highlight-departures"
      => Agrees(p)

(* /compare and the overview of a registered city answer with 200 whatever *)
(* happens to their parts, and tell the status of each.                    *)
PartsDegrade ==
  Answered /\ parts # <<>> /\ (\E i \in DOMAIN parts : parts[i].handler \in DOMAIN RouteOf)
    => Response = "200"

(* Every request is answered, the overview even if a source hangs.         *)
EveryRequestEnds == request # NoRequest ~> request = NoRequest
=============================================================================
