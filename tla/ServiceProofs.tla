--------------------------- MODULE ServiceProofs ---------------------------
(***************************************************************************)
(* What holds of one call of any adapter, however many requests it makes,  *)
(* and of all routes, for any cities asked for, any toggles and            *)
(* credentials, any length of a comparison, and wherever the budget of the *)
(* overview ends.                                                          *)
(*                                                                         *)
(* The module has four parts.  Every adapter raises what fails unless it   *)
(* is spare, and finds entries of elsewhere only where it does not         *)
(* filter (Tells, AllTell).  Every handler fetches under toggles and keys  *)
(* of its own, at most twice, and says what became of it (Safe, AllSafe).  *)
(* From both, the cache and the parts of a request are always in order     *)
(* (ServiceInv), and from that follow the properties of Service.           *)
(***************************************************************************)
EXTENDS Service, Adapters, WellFoundedInduction, TLAPS

-----------------------------------------------------------------------------
(***************************************************************************)
(* One call of an adapter.                                                 *)
(***************************************************************************)
Known == Outcome \ {"null"}

(* Requests that an adapter may make: three at least are told apart. *)
Many == Nat \ 0 .. 2

(* The n replies that an adapter f can get; a feed of one city has nothing *)
(* of elsewhere.                                                           *)
Feed(n, f) == [1 .. n -> IF f \in OneCityFeeds THEN Reply \ {"far"} ELSE Reply]

(* Adapters that do not filter what is of elsewhere. *)
AnyFeed == {"measured", "parking"} \cup {
  "fetch_dwd_warnings_all", "fetch_all_stations", "fetch_gtfs_rt_feed", "fetch_afir",
  "fetch_notice_export", "fetch_wuppertal_parking", "fetch_magdeburg_parking",
  "fetch_frankfurt_parking"}

(* The same replies but for the i-th. *)
ButFor(n, r, i) ==
  {s \in [1 .. n -> Reply] : \A j \in 1 .. n : j # i => s[j] = r[j]}

(* What is shown of every adapter f and all replies r to its requests.     *)
Tells(n, f, r) ==
  /\ OutcomeOf(f, r) \in Outcome
  /\ OutcomeOf(f, r) = "null" => f \in LandValueFormats
  /\ (\A i \in 1 .. n : r[i] = "down") => OutcomeOf(f, r) = "HTTPError"
  /\ \A i \in 1 .. n : r[i] = "down" =>
       \/ Tolerable(f, r, i, OutcomeOf(f, r))
       \/ \A s \in ButFor(n, r, i) : OutcomeOf(f, s) = OutcomeOf(f, r)
  /\ OutcomeOf(f, r) = "foreign" =>
       f \in AnyFeed /\ \E i \in 1 .. n : r[i] = "far"

(***************************************************************************)
(* The tables of Replies: an outage is an HTTPError in each of them, and   *)
(* only entries of elsewhere are foreign.                                  *)
(***************************************************************************)
Table(T) ==
  /\ T \in [Reply -> Known]
  /\ T["down"] = "HTTPError"
  /\ \A k \in Reply : T[k] = "foreign" => k = "far"

Own(T) == Table(T) /\ \A k \in Reply : T[k] # "foreign"

(* The tables of Replies and what the wrappers of Answers make of them.    *)
LEMMA Tables ==
  /\ Table(Plain) /\ Table(Tolerant)
  /\ \A T : Table(T) => /\ Own(Scoped(T)) /\ Own(Nearest(T)) /\ Table(Lenient(T))
                        /\ Table(Guarded(T)) /\ Table(GoneIsEmpty(T))
  /\ \A T : Own(T) => Own(Lenient(T)) /\ Own(Guarded(T)) /\ Own(GoneIsEmpty(T))
BY DEF Table, Own, Plain, Tolerant, Scoped, Lenient, Guarded, GoneIsEmpty, Nearest,
       Known, Reply, Outcome, Raised, Payload

(* A request that is not spare fails the call.                             *)
LEMMA RaisedTolerable ==
  ASSUME NEW f, f \notin WithSpare, NEW r, NEW i, NEW o \in Raised
  PROVE  Tolerable(f, r, i, o)
BY DEF Tolerable, Spare, WithSpare, Unkept

(* The adapters with spare requests by name.                               *)
LEMMA SpareNames ==
  WithSpare = {"fetch_traffic", "fetch_webcams", "fetch_duesseldorf_radzaehl",
               "fetch_gtfs_rt_feed", "fetch_wuppertal_parking",
               "fetch_magdeburg_parking", "fetch_frankfurt_parking",
               "fetch_muenchen_radzaehl", "fetch_fire_danger", "fetch_water_level"}
BY DEF WithSpare, FanOuts, WithFallback, Unkept, StaticPulls

(***************************************************************************)
(* An adapter that makes one request.                                      *)
(***************************************************************************)
LEMMA Single ==
  ASSUME NEW f, NEW T, \A s : OutcomeOf(f, s) = T[s[1]],
         Own(T) \/ (Table(T) /\ f \in OneCityFeeds \cup AnyFeed), f \notin WithSpare,
         NEW n \in Many, NEW r \in Feed(n, f)
  PROVE  Tells(n, f, r)
<1> USE DEF Many
<1>1. 1 \in 1 .. n /\ r[1] \in Reply /\ (f \in OneCityFeeds => r[1] # "far")
  BY DEF Feed
<1>2. /\ OutcomeOf(f, r) \in Known
      /\ OutcomeOf(f, r) = "foreign" => f \in AnyFeed /\ r[1] = "far"
  BY <1>1 DEF Own, Table
<1>3. ASSUME NEW i \in 1 .. n, r[i] = "down"
      PROVE  \/ OutcomeOf(f, r) \in Raised
             \/ \A s \in ButFor(n, r, i) : OutcomeOf(f, s) = OutcomeOf(f, r)
  BY <1>1, <1>3 DEF Own, Table, Raised, ButFor
<1>4. (\A i \in 1 .. n : r[i] = "down") => OutcomeOf(f, r) = "HTTPError"
  BY DEF Own, Table
<1>5. QED
  BY <1>1, <1>2, <1>3, <1>4, RaisedTolerable DEF Tells, Known

(***************************************************************************)
(* Documents of all of Germany, not filtered.                              *)
(***************************************************************************)
Nationwide == {"fetch_dwd_warnings_all", "fetch_all_stations"}

(* Their one document is taken as it is.                                   *)
LEMMA NationwideTell ==
  \A n \in Many : \A f \in Nationwide : \A r \in Feed(n, f) : Tells(n, f, r)
<1>1. ASSUME NEW f \in Nationwide, NEW s PROVE OutcomeOf(f, s) = Tolerant[s[1]]
  BY DEF Nationwide, OutcomeOf, OsmFeatures, GenesisTables, SmardSeries,
         Publications, LandValueFormats, fetch_dwd_warnings_all,
         fetch_all_stations
<1>2. QED
  BY <1>1, Single, Tables, SpareNames DEF Nationwide, AnyFeed, OneCityFeeds

(***************************************************************************)
(* The request, or a filter, names the city.                               *)
(***************************************************************************)
Filtering == OsmFeatures \cup {"fetch_bathing_water", "fetch_solar",
  "fetch_population_density", "fetch_pois", "fetch_trees", "fetch_heritage",
  "fetch_hospitals_wikidata", "fetch_demographics", "fetch_hospitals",
  "fetch_hospital_atlas", "fetch_destination_one", "fetch_station_facilities",
  "fetch_vgn_departures", "fetch_parkendd", "fetch_fuel_prices"}

(* What is of elsewhere is filtered out, so none of these is foreign.      *)
LEMMA FilteringTell ==
  \A n \in Many : \A f \in Filtering : \A r \in Feed(n, f) : Tells(n, f, r)
<1>1. ASSUME NEW f \in Filtering, NEW s PROVE OutcomeOf(f, s) = Scoped(Tolerant)[s[1]]
  BY DEF Filtering, OutcomeOf, OsmFeatures, GenesisTables, SmardSeries,
         Publications, LandValueFormats, fetch_osm_feature,
         split_count_element, fetch_bathing_water, fetch_solar,
         fetch_population_density, fetch_pois, fetch_trees, fetch_heritage,
         fetch_hospitals_wikidata, fetch_demographics, fetch_hospitals,
         fetch_hospital_atlas, fetch_destination_one, fetch_station_facilities,
         fetch_vgn_departures, fetch_parkendd, fetch_fuel_prices
<1>2. QED
  BY <1>1, Single, Tables, SpareNames DEF Filtering, AnyFeed, OneCityFeeds,
     OsmFeatures

(***************************************************************************)
(* The same, and a missing member fails.                                   *)
(***************************************************************************)
Strict == {"fetch_weather", "fetch_city_base"}

(* The same of the two that index the members of a body.                   *)
LEMMA StrictTell ==
  \A n \in Many : \A f \in Strict : \A r \in Feed(n, f) : Tells(n, f, r)
<1>1. ASSUME NEW f \in Strict, NEW s PROVE OutcomeOf(f, s) = Scoped(Plain)[s[1]]
  BY DEF Strict, OutcomeOf, OsmFeatures, GenesisTables, SmardSeries,
         Publications, LandValueFormats, fetch_weather, fetch_city_base,
         choose_quantity
<1>2. QED
  BY <1>1, Single, Tables, SpareNames DEF Strict, AnyFeed, OneCityFeeds

(***************************************************************************)
(* Feeds of one city.                                                      *)
(***************************************************************************)
CityFeeds == {"fetch_koeln_events", "fetch_berlin_road_events",
  "fetch_hamburg_road_events", "fetch_dortmund_road_events",
  "fetch_dortmund_parking", "fetch_berlin_radzaehl"}

(* Nothing of elsewhere is in the feed of one city.                        *)
LEMMA CityFeedsTell ==
  \A n \in Many : \A f \in CityFeeds : \A r \in Feed(n, f) : Tells(n, f, r)
<1>1. ASSUME NEW f \in CityFeeds, NEW s PROVE OutcomeOf(f, s) = Tolerant[s[1]]
  BY DEF CityFeeds, OutcomeOf, OsmFeatures, GenesisTables, SmardSeries,
         Publications, LandValueFormats, fetch_koeln_events,
         fetch_berlin_road_events, fetch_hamburg_road_events,
         fetch_dortmund_road_events, fetch_dortmund_parking,
         fetch_berlin_radzaehl
<1>2. QED
  BY <1>1, Single, Tables, SpareNames DEF CityFeeds, AnyFeed, OneCityFeeds

(***************************************************************************)
(* Files of one city.                                                      *)
(***************************************************************************)
CsvFeeds == {"fetch_essen_radzaehl", "fetch_koeln_radzaehl",
  "fetch_stuttgart_radzaehl", "fetch_hamburg_radzaehl"}

(* The same of the files, whose odd rows are skipped.                      *)
LEMMA CsvFeedsTell ==
  \A n \in Many : \A f \in CsvFeeds : \A r \in Feed(n, f) : Tells(n, f, r)
<1>1. ASSUME NEW f \in CsvFeeds, NEW s PROVE OutcomeOf(f, s) = Lenient(Tolerant)[s[1]]
  BY DEF CsvFeeds, OutcomeOf, OsmFeatures, GenesisTables, SmardSeries,
         Publications, LandValueFormats, fetch_essen_radzaehl,
         fetch_koeln_radzaehl, fetch_stuttgart_radzaehl,
         fetch_hamburg_radzaehl, Csv
<1>2. QED
  BY <1>1, Single, Tables, SpareNames DEF CsvFeeds, AnyFeed, OneCityFeeds

(***************************************************************************)
(* Waiting times: a body that is refused has no entries.                   *)
(***************************************************************************)
Waiting == {"fetch_koeln_wartezeiten"}

(* A failed request of the waiting times is raised.                        *)
LEMMA WaitingTell ==
  \A n \in Many : \A f \in Waiting : \A r \in Feed(n, f) : Tells(n, f, r)
<1>1. ASSUME NEW f \in Waiting, NEW s
      PROVE  OutcomeOf(f, s) = Lenient(Guarded(Tolerant))[s[1]]
  BY DEF Waiting, OutcomeOf, OsmFeatures, GenesisTables, SmardSeries,
         Publications, LandValueFormats, fetch_koeln_wartezeiten
<1>2. QED
  BY <1>1, Single, Tables, SpareNames DEF Waiting, AnyFeed, OneCityFeeds

(***************************************************************************)
(* Whatever is wrong with the body, it has no entries.                     *)
(***************************************************************************)
Swallowing == {"fetch_for_ags", "fetch_sperrinfosys_road_events"}

(* A failed request is raised though a bad body is not.                    *)
LEMMA SwallowingTell ==
  \A n \in Many : \A f \in Swallowing : \A r \in Feed(n, f) : Tells(n, f, r)
<1>1. ASSUME NEW f \in Swallowing, NEW s
      PROVE  OutcomeOf(f, s) = Lenient(Guarded(Scoped(Tolerant)))[s[1]]
  BY DEF Swallowing, OutcomeOf, OsmFeatures, GenesisTables, SmardSeries,
         Publications, LandValueFormats, fetch_for_ags,
         fetch_sperrinfosys_road_events, read_sperrungen_features
<1>2. QED
  BY <1>1, Single, Tables, SpareNames DEF Swallowing, AnyFeed, OneCityFeeds

(***************************************************************************)
(* XML with a guard.                                                       *)
(***************************************************************************)
Mobidata == {"fetch_mobidata_road_events"}

(* A failed request for the XML is raised.                                 *)
LEMMA MobidataTell ==
  \A n \in Many : \A f \in Mobidata : \A r \in Feed(n, f) : Tells(n, f, r)
<1>1. ASSUME NEW f \in Mobidata, NEW s
      PROVE  OutcomeOf(f, s) = Guarded(Scoped(Tolerant))[s[1]]
  BY DEF Mobidata, OutcomeOf, OsmFeatures, GenesisTables, SmardSeries,
         Publications, LandValueFormats, fetch_mobidata_road_events,
         parse_mobidata_datex2
<1>2. QED
  BY <1>1, Single, Tables, SpareNames DEF Mobidata, AnyFeed, OneCityFeeds

(***************************************************************************)
(* The archive of notices.                                                 *)
(***************************************************************************)
Notices == {"fetch_notice_export"}

(* A failed request for the archive is raised.                             *)
LEMMA NoticesTell ==
  \A n \in Many : \A f \in Notices : \A r \in Feed(n, f) : Tells(n, f, r)
<1>1. ASSUME NEW f \in Notices, NEW s
      PROVE  OutcomeOf(f, s) = Guarded(Lenient(Tolerant))[s[1]]
  BY DEF Notices, OutcomeOf, OsmFeatures, GenesisTables, SmardSeries,
         Publications, LandValueFormats, fetch_notice_export, parse_zip,
         parse_ocds_release
<1>2. QED
  BY <1>1, Single, Tables, SpareNames DEF Notices, AnyFeed, OneCityFeeds

(***************************************************************************)
(* Charging points of all publishers.                                      *)
(***************************************************************************)
Afir == {"fetch_afir"}

(* A pull that fails is raised; one that finds nothing new is not.         *)
LEMMA AfirTell ==
  \A n \in Many : \A f \in Afir : \A r \in Feed(n, f) : Tells(n, f, r)
<1>1. ASSUME NEW f \in Afir, NEW s
      PROVE  OutcomeOf(f, s) = Lenient(GoneIsEmpty(Guarded(Tolerant)))[s[1]]
  BY DEF Afir, OutcomeOf, OsmFeatures, GenesisTables, SmardSeries,
         Publications, LandValueFormats, fetch_afir, parse_afir_v3,
         pull_subscription
<1>2. QED
  BY <1>1, Single, Tables, SpareNames DEF Afir, AnyFeed, OneCityFeeds

(***************************************************************************)
(* Publications of Mobilithek that are filtered.                           *)
(***************************************************************************)
Situations == {"situation"}

(* The same of publications that are filtered by city.                     *)
LEMMA SituationsTell ==
  \A n \in Many : \A f \in Situations : \A r \in Feed(n, f) : Tells(n, f, r)
<1>1. ASSUME NEW f \in Situations, NEW s
      PROVE  OutcomeOf(f, s) = Scoped(GoneIsEmpty(Guarded(Tolerant)))[s[1]]
  BY DEF Situations, OutcomeOf, OsmFeatures, GenesisTables, SmardSeries,
         Publications, LandValueFormats, fetch_datex2, parse_datex2_situations,
         pull_subscription
<1>2. QED
  BY <1>1, Single, Tables, SpareNames DEF Situations, AnyFeed, OneCityFeeds

(***************************************************************************)
(* Publications of Mobilithek that are not filtered.                       *)
(***************************************************************************)
Measurements == {"measured", "parking"}

(* The same of publications that are not; they may be foreign.             *)
LEMMA MeasurementsTell ==
  \A n \in Many : \A f \in Measurements : \A r \in Feed(n, f) : Tells(n, f, r)
<1>1. ASSUME NEW f \in Measurements, NEW s
      PROVE  OutcomeOf(f, s) = GoneIsEmpty(Guarded(Tolerant))[s[1]]
  BY DEF Measurements, OutcomeOf, OsmFeatures, GenesisTables, SmardSeries,
         Publications, LandValueFormats, fetch_datex2, parse_datex2_measured,
         parse_datex2_parking, pull_subscription
<1>2. QED
  BY <1>1, Single, Tables, SpareNames DEF Measurements, AnyFeed, OneCityFeeds

(***************************************************************************)
(* Tables of GENESIS: a body that is no archive raises.                    *)
(***************************************************************************)

(* A failed request for a table is raised.                                 *)
LEMMA GenesisTell ==
  \A n \in Many : \A f \in GenesisTables : \A r \in Feed(n, f) : Tells(n, f, r)
<1> DEFINE T == [Lenient(Scoped(Tolerant)) EXCEPT !["junk"] = "Other"]
<1>1. ASSUME NEW f \in GenesisTables, NEW s PROVE OutcomeOf(f, s) = T[s[1]]
  BY Tables DEF OutcomeOf, OsmFeatures, GenesisTables, SmardSeries,
         Publications, LandValueFormats, fetch_genesis_table,
         parse_datencsv_latest, Table, Own, Known, Reply
<1>2. Own(T)
  <2>1. Own(Lenient(Scoped(Tolerant)))
    BY Tables
  <2>2. QED
    BY <2>1 DEF Own, Table, Known, Outcome, Raised, Payload, Reply
<1> HIDE DEF T
<1>3. QED
  BY <1>1, <1>2, Single, SpareNames DEF GenesisTables

(***************************************************************************)
(* The nearest station, and the index for grassland if it can be had.      *)
(***************************************************************************)
LEMMA FireDangerTells ==
  ASSUME NEW n \in Many, NEW r \in Feed(n, "fetch_fire_danger")
  PROVE  Tells(n, "fetch_fire_danger", r)
<1> USE DEF Many
<1> DEFINE Of(s) == OutcomeOf("fetch_fire_danger", s)
           index == Nearest(Tolerant)
<1>1. \A s : Of(s) = Optional(index[s[1]], index[s[2]])
  BY DEF OutcomeOf, OsmFeatures, GenesisTables, SmardSeries, Publications,
         LandValueFormats, fetch_fire_danger
<1>2. Own(index)
  BY Tables DEF Own
<1> HIDE DEF Of, index
<1>3. /\ r \in [1 .. n -> Reply] /\ 1 \in 1 .. n
      /\ 2 \in 1 .. n /\ 3 \in 1 .. n
  BY DEF Feed
<1>4. /\ Of(r) \in Known \ {"foreign"}
      /\ r[1] = "down" /\ r[2] = "down" /\ r[3] = "down" => Of(r) = "HTTPError"
  BY <1>1, <1>2, <1>3 DEF Own, Table, Known, Outcome, Raised, Payload, Then,
         Optional, Detail
<1>5. ASSUME NEW i \in 1 .. n, r[i] = "down"
      PROVE  \/ Tolerable("fetch_fire_danger", r, i, Of(r))
             \/ \A s \in ButFor(n, r, i) : Of(s) = Of(r)
  BY <1>1, <1>2, <1>3, <1>5 DEF Tolerable, Spare, FanOuts, StaticPulls,
         WithFallback, Unkept, ButFor, Own, Table, Known, Outcome, Raised, Then, Optional, Detail
<1>6. QED
  BY <1>3, <1>4, <1>5 DEF Tells, Of, Known

(***************************************************************************)
(* Two requests in turn: the first exception, or the entries of both.      *)
(***************************************************************************)
LEMMA Merged ==
  \A S \in SUBSET Known :
    /\ Merge(S) \in Payload \ {"null"}
    /\ Merge(S) = "foreign" => "foreign" \in S
BY DEF Merge, Known, Outcome, Payload, Raised

(* Two requests in turn: the exception of the first, or else of the        *)
(* second, or else what both found.                                        *)
LEMMA InTurnOfTwo ==
  ASSUME NEW a \in Known, NEW b \in Known
  PROVE  /\ a \in Raised => InTurn(<<a, b>>) = a
         /\ a \notin Raised /\ b \in Raised => InTurn(<<a, b>>) = b
         /\ a \notin Raised /\ b \notin Raised => InTurn(<<a, b>>) = Merge({a, b})
<1> DEFINE s == <<a, b>>
<1>1. DOMAIN s = 1 .. 2 /\ s[1] = a /\ s[2] = b /\ ToSet(s) = {a, b}
  BY DEF ToSet
<1>2. CASE a \in Raised
  <2>1. \A i \in DOMAIN s :
        s[i] \in Raised /\ (\A j \in 1 .. i - 1 : s[j] \notin Raised) <=> i = 1
    BY <1>1, <1>2
  <2>2. QED
    BY <1>1, <1>2, <2>1 DEF InTurn, FirstRaised
<1>3. CASE a \notin Raised /\ b \in Raised
  <2>1. \A i \in DOMAIN s :
        s[i] \in Raised /\ (\A j \in 1 .. i - 1 : s[j] \notin Raised) <=> i = 2
    BY <1>1, <1>3
  <2>2. QED
    BY <1>1, <1>3, <2>1 DEF InTurn, FirstRaised
<1>4. CASE a \notin Raised /\ b \notin Raised
  BY <1>1, <1>4 DEF InTurn
<1>5. QED
  BY <1>2, <1>3, <1>4

InTurnGives(a, b) ==
  IF a \in Raised THEN {a} ELSE IF b \in Raised THEN {b}
  ELSE IF "foreign" \in {a, b} THEN Payload \ {"null"} ELSE Payload \ {"null", "foreign"}

(* So one of these.                                                        *)
LEMMA InTurnPair == \A a, b \in Known : InTurn(<<a, b>>) \in InTurnGives(a, b)
<1> SUFFICES ASSUME NEW a \in Known, NEW b \in Known
             PROVE  InTurn(<<a, b>>) \in InTurnGives(a, b)
  OBVIOUS
<1>1. /\ Merge({a, b}) \in Payload \ {"null"}
      /\ Merge({a, b}) = "foreign" => "foreign" \in {a, b}
  BY Merged
<1>2. QED
  BY <1>1, InTurnOfTwo DEF InTurnGives

(***************************************************************************)
(* Both documents are asked for before either is read.                     *)
(***************************************************************************)
LEMMA PollenTells ==
  ASSUME NEW n \in Many, NEW r \in Feed(n, "fetch_pollen_uv")
  PROVE  Tells(n, "fetch_pollen_uv", r)
<1> USE DEF Many
<1> DEFINE Of(s) == OutcomeOf("fetch_pollen_uv", s)
           region == Scoped(Tolerant)
           both(s) == InTurn(<<region[s[1]], region[s[2]]>>)
<1>1. \A s : Of(s) = IF {s[1], s[2]} \cap {"down", "gone"} # {} THEN "HTTPError"
                     ELSE both(s)
  BY DEF OutcomeOf, OsmFeatures, GenesisTables, SmardSeries, Publications,
         LandValueFormats, fetch_pollen_uv
<1>2. Own(region)
  BY Tables DEF Own
<1> HIDE DEF Of, region, both
<1>3. /\ r \in [1 .. n -> Reply] /\ 1 \in 1 .. n
      /\ 2 \in 1 .. n /\ 3 \in 1 .. n
  BY DEF Feed
<1>p. /\ \A s \in [1 .. n -> Reply] : both(s) \in InTurnGives(region[s[1]], region[s[2]])
      /\ \A s, t : s[1] = t[1] /\ s[2] = t[2] => both(s) = both(t)
  BY <1>2, <1>3, InTurnPair DEF both, Own, Table
<1>4. /\ Of(r) \in Known \ {"foreign"}
      /\ r[1] = "down" /\ r[2] = "down" /\ r[3] = "down" => Of(r) = "HTTPError"
  BY <1>1, <1>2, <1>3, <1>p DEF Own, Table, Known, Outcome, Raised, Payload,
         Then, Optional, Detail, InTurnGives
<1>5. ASSUME NEW i \in 1 .. n, r[i] = "down"
      PROVE  Of(r) \in Raised \/ \A s \in ButFor(n, r, i) : Of(s) = Of(r)
  BY <1>1, <1>2, <1>3, <1>5, <1>p DEF ButFor, Own, Table, Known, Outcome, Raised,
         Then, Optional, Detail, InTurnGives
<1>6. QED
  BY <1>3, <1>4, <1>5, RaisedTolerable, SpareNames DEF Tells, Of, Known

(***************************************************************************)
(* The stations, then one or two of them.                                  *)
(***************************************************************************)
LEMMA AirTells ==
  ASSUME NEW n \in Many, NEW r \in Feed(n, "fetch_air_uba")
  PROVE  Tells(n, "fetch_air_uba", r)
<1> USE DEF Many
<1> DEFINE Of(s) == OutcomeOf("fetch_air_uba", s)
           nearest == [Nearest(Plain) EXCEPT !["odd"] = "HTTPError", !["none"] = "HTTPError"]
           value == Scoped(Tolerant)
           both(s) == InTurn(<<value[s[2]], value[s[3]]>>)
<1>1. \A s : Of(s) = Then(nearest[s[1]], IF value[s[2]] \in {"empty", "blank"}
                            THEN both(s) ELSE value[s[2]])
  BY DEF OutcomeOf, OsmFeatures, GenesisTables, SmardSeries, Publications,
         LandValueFormats, fetch_air_uba, nearest_stations, latest_value
<1>2. Own(nearest) /\ Own(value)
  BY Tables DEF Nearest, Plain, Own, Table, Known, Outcome, Raised, Payload,
         Reply
<1> HIDE DEF Of, nearest, value, both
<1>3. /\ r \in [1 .. n -> Reply] /\ 1 \in 1 .. n
      /\ 2 \in 1 .. n /\ 3 \in 1 .. n
  BY DEF Feed
<1>p. /\ \A s \in [1 .. n -> Reply] : both(s) \in InTurnGives(value[s[2]], value[s[3]])
      /\ \A s, t : s[2] = t[2] /\ s[3] = t[3] => both(s) = both(t)
  BY <1>2, <1>3, InTurnPair DEF both, Own, Table
<1>4. /\ Of(r) \in Known \ {"foreign"}
      /\ r[1] = "down" /\ r[2] = "down" /\ r[3] = "down" => Of(r) = "HTTPError"
  BY <1>1, <1>2, <1>3, <1>p DEF Own, Table, Known, Outcome, Raised, Payload,
         Then, Optional, Detail, InTurnGives
<1>5. ASSUME NEW i \in 1 .. n, r[i] = "down"
      PROVE  Of(r) \in Raised \/ \A s \in ButFor(n, r, i) : Of(s) = Of(r)
  BY <1>1, <1>2, <1>3, <1>5, <1>p DEF ButFor, Own, Table, Known, Outcome, Raised,
         Then, Optional, Detail, InTurnGives
<1>6. QED
  BY <1>3, <1>4, <1>5, RaisedTolerable, SpareNames DEF Tells, Of, Known

(***************************************************************************)
(* The gauge, its reading, and the unit if it can be had.                  *)
(***************************************************************************)
LEMMA WaterLevelTells ==
  ASSUME NEW n \in Many, NEW r \in Feed(n, "fetch_water_level")
  PROVE  Tells(n, "fetch_water_level", r)
<1> USE DEF Many
<1> DEFINE Of(s) == OutcomeOf("fetch_water_level", s)
           nearest == Scoped(Tolerant)
           reading == Tolerant
<1>1. \A s : Of(s) = Optional(Detail(nearest[s[1]], reading[s[2]]), reading[s[3]])
  BY DEF OutcomeOf, OsmFeatures, GenesisTables, SmardSeries, Publications,
         LandValueFormats, fetch_water_level
<1>2. Own(nearest) /\ Table(reading)
  BY Tables DEF Own
<1> HIDE DEF Of, nearest, reading
<1>3. /\ r \in [1 .. n -> Reply] /\ 1 \in 1 .. n
      /\ 2 \in 1 .. n /\ 3 \in 1 .. n
  BY DEF Feed
<1>4. /\ Of(r) \in Known \ {"foreign"}
      /\ r[1] = "down" /\ r[2] = "down" /\ r[3] = "down" => Of(r) = "HTTPError"
  BY <1>1, <1>2, <1>3 DEF Own, Table, Known, Outcome, Raised, Payload, Then,
         Optional, Detail
<1>5. ASSUME NEW i \in 1 .. n, r[i] = "down"
      PROVE  \/ Tolerable("fetch_water_level", r, i, Of(r))
             \/ \A s \in ButFor(n, r, i) : Of(s) = Of(r)
  BY <1>1, <1>2, <1>3, <1>5 DEF Tolerable, Spare, FanOuts, StaticPulls,
         WithFallback, Unkept, ButFor, Own, Table, Known, Outcome, Raised, Then, Optional, Detail
<1>6. QED
  BY <1>3, <1>4, <1>5 DEF Tells, Of, Known

(***************************************************************************)
(* The home page, then two gauges.                                         *)
(***************************************************************************)
LEMMA FloodTells ==
  ASSUME NEW n \in Many, NEW r \in Feed(n, "fetch_flood")
  PROVE  Tells(n, "fetch_flood", r)
<1> USE DEF Many
<1> DEFINE Of(s) == OutcomeOf("fetch_flood", s)
           home == [Lenient(Tolerant) EXCEPT !["far"] = "blank", !["none"] = "blank"]
           pegel == Lenient(Scoped(Tolerant))
           both(s) == InTurn(<<pegel[s[2]], pegel[s[3]]>>)
<1>1. \A s : Of(s) = Then(home[s[1]], both(s))
  BY DEF OutcomeOf, OsmFeatures, GenesisTables, SmardSeries, Publications,
         LandValueFormats, fetch_flood
<1>2. Own(home) /\ Own(pegel)
  BY Tables DEF Lenient, Tolerant, Plain, Own, Table, Known, Outcome, Raised,
         Payload, Reply
<1> HIDE DEF Of, home, pegel, both
<1>3. /\ r \in [1 .. n -> Reply] /\ 1 \in 1 .. n
      /\ 2 \in 1 .. n /\ 3 \in 1 .. n
  BY DEF Feed
<1>p. /\ \A s \in [1 .. n -> Reply] : both(s) \in InTurnGives(pegel[s[2]], pegel[s[3]])
      /\ \A s, t : s[2] = t[2] /\ s[3] = t[3] => both(s) = both(t)
  BY <1>2, <1>3, InTurnPair DEF both, Own, Table
<1>4. /\ Of(r) \in Known \ {"foreign"}
      /\ r[1] = "down" /\ r[2] = "down" /\ r[3] = "down" => Of(r) = "HTTPError"
  BY <1>1, <1>2, <1>3, <1>p DEF Own, Table, Known, Outcome, Raised, Payload,
         Then, Optional, Detail, InTurnGives
<1>5. ASSUME NEW i \in 1 .. n, r[i] = "down"
      PROVE  Of(r) \in Raised \/ \A s \in ButFor(n, r, i) : Of(s) = Of(r)
  BY <1>1, <1>2, <1>3, <1>5, <1>p DEF ButFor, Own, Table, Known, Outcome, Raised,
         Then, Optional, Detail, InTurnGives
<1>6. QED
  BY <1>3, <1>4, <1>5, RaisedTolerable, SpareNames DEF Tells, Of, Known

(***************************************************************************)
(* The index, then the series it names.                                    *)
(***************************************************************************)
LEMMA SmardTell ==
  ASSUME NEW f \in SmardSeries, NEW n \in Many, NEW r \in Feed(n, f)
  PROVE  Tells(n, f, r)
<1> USE DEF Many
<1> DEFINE Of(s) == OutcomeOf(f, s)
           index == Scoped(Tolerant)
<1>1. \A s : Of(s) = Then(index[s[1]], index[s[2]])
  BY DEF OutcomeOf, OsmFeatures, GenesisTables, SmardSeries, Publications,
         LandValueFormats, fetch_smard
<1>2. Own(index)
  BY Tables DEF Own
<1> HIDE DEF Of, index
<1>3. /\ r \in [1 .. n -> Reply] /\ 1 \in 1 .. n
      /\ 2 \in 1 .. n /\ 3 \in 1 .. n
  BY DEF Feed
<1>4. /\ Of(r) \in Known \ {"foreign"}
      /\ r[1] = "down" /\ r[2] = "down" /\ r[3] = "down" => Of(r) = "HTTPError"
  BY <1>1, <1>2, <1>3 DEF Own, Table, Known, Outcome, Raised, Payload, Then,
         Optional, Detail
<1>5. ASSUME NEW i \in 1 .. n, r[i] = "down"
      PROVE  Of(r) \in Raised \/ \A s \in ButFor(n, r, i) : Of(s) = Of(r)
  BY <1>1, <1>2, <1>3, <1>5 DEF ButFor, Own, Table, Known, Outcome, Raised, Then,
         Optional, Detail
<1>6. QED
  BY <1>3, <1>4, <1>5, RaisedTolerable, SpareNames DEF Tells, Of, Known, SmardSeries

(***************************************************************************)
(* Pages of the register of intensive care.                                *)
(***************************************************************************)
LEMMA IcuTells ==
  ASSUME NEW n \in Many, NEW r \in Feed(n, "fetch_icu_live")
  PROVE  Tells(n, "fetch_icu_live", r)
<1> USE DEF Many
<1> DEFINE Of(s) == OutcomeOf("fetch_icu_live", s)
           page == Scoped(Tolerant)
           both(s) == InTurn(<<page[s[1]], page[s[2]]>>)
<1>1. \A s : Of(s) = CASE s[1] \in {"none", "odd"} -> page[s[1]]
                     [] s[1] \notin {"none", "odd"} -> both(s)
  BY DEF OutcomeOf, OsmFeatures, GenesisTables, SmardSeries, Publications,
         LandValueFormats, fetch_icu_live
<1>2. Own(page) /\ page["none"] = "empty" /\ page["odd"] = "blank"
  BY Tables DEF Scoped, Tolerant, Plain, Own, Table, Known, Outcome, Raised,
         Payload, Reply
<1> HIDE DEF Of, page, both
<1>3. /\ r \in [1 .. n -> Reply] /\ 1 \in 1 .. n
      /\ 2 \in 1 .. n /\ 3 \in 1 .. n
  BY DEF Feed
<1>p. /\ \A s \in [1 .. n -> Reply] : both(s) \in InTurnGives(page[s[1]], page[s[2]])
      /\ \A s, t : s[1] = t[1] /\ s[2] = t[2] => both(s) = both(t)
  BY <1>2, <1>3, InTurnPair DEF both, Own, Table
<1>4. /\ Of(r) \in Known \ {"foreign"}
      /\ r[1] = "down" /\ r[2] = "down" /\ r[3] = "down" => Of(r) = "HTTPError"
  BY <1>1, <1>2, <1>3, <1>p DEF Own, Table, Known, Outcome, Raised, Payload,
         Then, Optional, Detail, InTurnGives
<1>5. ASSUME NEW i \in 1 .. n, r[i] = "down"
      PROVE  Of(r) \in Raised \/ \A s \in ButFor(n, r, i) : Of(s) = Of(r)
  BY <1>1, <1>2, <1>3, <1>5, <1>p DEF ButFor, Own, Table, Known, Outcome, Raised,
         Then, Optional, Detail, InTurnGives
<1>6. QED
  BY <1>3, <1>4, <1>5, RaisedTolerable, SpareNames DEF Tells, Of, Known

(***************************************************************************)
(* The changes of a station, then two hours of its plan.                   *)
(***************************************************************************)
LEMMA BoardsTell ==
  ASSUME NEW f \in {"fetch_station_departures", "fetch_station_arrivals"}, NEW n
         \in Many, NEW r \in Feed(n, f)
  PROVE  Tells(n, f, r)
<1> USE DEF Many
<1> DEFINE Of(s) == OutcomeOf(f, s)
           get == GoneIsEmpty(Scoped(Lenient(Guarded(Tolerant))))
           both(s) == InTurn(<<get[s[2]], get[s[3]]>>)
<1>1. \A s : Of(s) = CASE get[s[1]] \in Raised -> get[s[1]]
                     [] get[s[1]] = "blank" -> Optional(both(s), "blank")
                     [] get[s[1]] \in {"full", "empty"} -> both(s)
  BY DEF OutcomeOf, OsmFeatures, GenesisTables, SmardSeries, Publications,
         LandValueFormats, fetch_station_departures, fetch_station_arrivals,
         fetch_board, parse_changes, parse_board, get_board, guarded_parse
<1>2. Own(get) /\ \A k \in Reply : get[k] \in Raised \cup {"blank", "full", "empty"}
  BY Tables DEF GoneIsEmpty, Scoped, Lenient, Guarded, Tolerant, Plain, Own,
         Table, Known, Outcome, Raised, Payload, Reply
<1> HIDE DEF Of, get, both
<1>3. /\ r \in [1 .. n -> Reply] /\ 1 \in 1 .. n
      /\ 2 \in 1 .. n /\ 3 \in 1 .. n
  BY DEF Feed
<1>p. /\ \A s \in [1 .. n -> Reply] : both(s) \in InTurnGives(get[s[2]], get[s[3]])
      /\ \A s, t : s[2] = t[2] /\ s[3] = t[3] => both(s) = both(t)
  BY <1>2, <1>3, InTurnPair DEF both, Own, Table
<1>4. /\ Of(r) \in Known \ {"foreign"}
      /\ r[1] = "down" /\ r[2] = "down" /\ r[3] = "down" => Of(r) = "HTTPError"
  BY <1>1, <1>2, <1>3, <1>p DEF Own, Table, Known, Outcome, Raised, Payload,
         Then, Optional, Detail, InTurnGives
<1>5. ASSUME NEW i \in 1 .. n, r[i] = "down"
      PROVE  Of(r) \in Raised \/ \A s \in ButFor(n, r, i) : Of(s) = Of(r)
  BY <1>1, <1>2, <1>3, <1>5, <1>p DEF ButFor, Own, Table, Known, Outcome, Raised,
         Then, Optional, Detail, InTurnGives
<1>6. QED
  BY <1>3, <1>4, <1>5, RaisedTolerable, SpareNames DEF Tells, Of, Known

(***************************************************************************)
(* A station of Hamburg, then its departures.                              *)
(***************************************************************************)
LEMMA GeofoxTells ==
  ASSUME NEW n \in Many, NEW r \in Feed(n, "fetch_hvv_departures")
  PROVE  Tells(n, "fetch_hvv_departures", r)
<1> USE DEF Many
<1> DEFINE Of(s) == OutcomeOf("fetch_hvv_departures", s)
           geofoxed == Scoped(Tolerant)
<1>1. \A s : Of(s) = Then(geofoxed[s[1]], geofoxed[s[2]])
  BY DEF OutcomeOf, OsmFeatures, GenesisTables, SmardSeries, Publications,
         LandValueFormats, fetch_hvv_departures, geofox
<1>2. Own(geofoxed)
  BY Tables DEF Own
<1> HIDE DEF Of, geofoxed
<1>3. /\ r \in [1 .. n -> Reply] /\ 1 \in 1 .. n
      /\ 2 \in 1 .. n /\ 3 \in 1 .. n
  BY DEF Feed
<1>4. /\ Of(r) \in Known \ {"foreign"}
      /\ r[1] = "down" /\ r[2] = "down" /\ r[3] = "down" => Of(r) = "HTTPError"
  BY <1>1, <1>2, <1>3 DEF Own, Table, Known, Outcome, Raised, Payload, Then,
         Optional, Detail
<1>5. ASSUME NEW i \in 1 .. n, r[i] = "down"
      PROVE  \/ Of(r) \in Raised
             \/ \A s \in ButFor(n, r, i) : Of(s) = Of(r)
  BY <1>1, <1>2, <1>3, <1>5 DEF ButFor, Own, Table, Known, Outcome, Raised, Then,
         Optional, Detail
<1>6. QED
  BY <1>3, <1>4, <1>5, RaisedTolerable, SpareNames DEF Tells, Of, Known

(***************************************************************************)
(* Discovery, licence and stations of a sharing system.                    *)
(***************************************************************************)
LEMMA SharingTells ==
  ASSUME NEW n \in Many, NEW r \in Feed(n, "fetch_sharing")
  PROVE  Tells(n, "fetch_sharing", r)
<1> USE DEF Many
<1> DEFINE Of(s) == OutcomeOf("fetch_sharing", s)
           feeds == [Scoped(Tolerant) EXCEPT !["none"] = "blank"]
           licence == [Scoped(Tolerant) EXCEPT !["none"] = "empty"]
           stations == [Tolerant EXCEPT !["far"] = "full", !["none"] = "full"]
<1>1. \A s : Of(s) = Then(feeds[s[1]], Detail(licence[s[2]], stations[s[3]]))
  BY DEF OutcomeOf, OsmFeatures, GenesisTables, SmardSeries, Publications,
         LandValueFormats, fetch_sharing, fetch_system, gbfs_feeds,
         tier_a_license, gbfs_stations
<1>2. Own(feeds) /\ Own(licence) /\ Own(stations)
  BY Tables DEF Scoped, Tolerant, Plain, Own, Table, Known, Outcome, Raised,
         Payload, Reply
<1> HIDE DEF Of, feeds, licence, stations
<1>3. /\ r \in [1 .. n -> Reply] /\ 1 \in 1 .. n
      /\ 2 \in 1 .. n /\ 3 \in 1 .. n
  BY DEF Feed
<1>4. /\ Of(r) \in Known \ {"foreign"}
      /\ r[1] = "down" /\ r[2] = "down" /\ r[3] = "down" => Of(r) = "HTTPError"
  BY <1>1, <1>2, <1>3 DEF Own, Table, Known, Outcome, Raised, Payload, Then,
         Optional, Detail
<1>5. ASSUME NEW i \in 1 .. n, r[i] = "down"
      PROVE  Of(r) \in Raised \/ \A s \in ButFor(n, r, i) : Of(s) = Of(r)
  BY <1>1, <1>2, <1>3, <1>5 DEF ButFor, Own, Table, Known, Outcome, Raised, Then,
         Optional, Detail
<1>6. QED
  BY <1>3, <1>4, <1>5, RaisedTolerable, SpareNames DEF Tells, Of, Known

(***************************************************************************)
(* The catalogue, then the file it names.                                  *)
(***************************************************************************)
LEMMA MunichFilesTell ==
  ASSUME NEW f \in {"fetch_muenchen_road_events", "fetch_muenchen_parking"}, NEW
         n \in Many, NEW r \in Feed(n, f)
  PROVE  Tells(n, f, r)
<1> USE DEF Many
<1> DEFINE Of(s) == OutcomeOf(f, s)
           show == [Tolerant EXCEPT !["far"] = "Other", !["none"] = "blank"]
           file == Tolerant
<1>1. \A s : Of(s) = Then(show[s[1]], file[s[2]])
  BY DEF OutcomeOf, OsmFeatures, GenesisTables, SmardSeries, Publications,
         LandValueFormats, fetch_muenchen_road_events, fetch_muenchen_parking,
         package_show
<1>2. Own(show) /\ Table(file)
  BY Tables DEF Tolerant, Plain, Own, Table, Known, Outcome, Raised, Payload,
         Reply
<1> HIDE DEF Of, show, file
<1>3. /\ r \in [1 .. n -> Reply] /\ 1 \in 1 .. n
      /\ 2 \in 1 .. n /\ 3 \in 1 .. n
  BY DEF Feed
<1>c. \A i \in 1 .. n : r[i] # "far"
  BY DEF Feed, OneCityFeeds
<1>4. /\ Of(r) \in Known \ {"foreign"}
      /\ r[1] = "down" /\ r[2] = "down" /\ r[3] = "down" => Of(r) = "HTTPError"
  BY <1>1, <1>2, <1>3, <1>c DEF Own, Table, Known, Outcome, Raised, Payload,
         Then, Optional, Detail
<1>5. ASSUME NEW i \in 1 .. n, r[i] = "down"
      PROVE  Of(r) \in Raised \/ \A s \in ButFor(n, r, i) : Of(s) = Of(r)
  BY <1>1, <1>2, <1>3, <1>5, <1>c DEF ButFor, Own, Table, Known, Outcome, Raised,
         Then,
         Optional, Detail
<1>6. QED
  BY <1>3, <1>4, <1>5, RaisedTolerable, SpareNames DEF Tells, Of, Known

(***************************************************************************)
(* Two layers of Cologne.                                                  *)
(***************************************************************************)
LEMMA CologneTells ==
  ASSUME NEW n \in Many, NEW r \in Feed(n, "fetch_koeln_road_events")
  PROVE  Tells(n, "fetch_koeln_road_events", r)
<1> USE DEF Many
<1> DEFINE Of(s) == OutcomeOf("fetch_koeln_road_events", s)
           layer == Scoped(Tolerant)
           both(s) == InTurn(<<layer[s[1]], layer[s[2]]>>)
<1>1. \A s : Of(s) = both(s)
  BY DEF OutcomeOf, OsmFeatures, GenesisTables, SmardSeries, Publications,
         LandValueFormats, fetch_koeln_road_events
<1>2. Own(layer)
  BY Tables DEF Own
<1> HIDE DEF Of, layer, both
<1>3. /\ r \in [1 .. n -> Reply] /\ 1 \in 1 .. n
      /\ 2 \in 1 .. n /\ 3 \in 1 .. n
  BY DEF Feed
<1>p. /\ \A s \in [1 .. n -> Reply] : both(s) \in InTurnGives(layer[s[1]], layer[s[2]])
      /\ \A s, t : s[1] = t[1] /\ s[2] = t[2] => both(s) = both(t)
  BY <1>2, <1>3, InTurnPair DEF both, Own, Table
<1>4. /\ Of(r) \in Known \ {"foreign"}
      /\ r[1] = "down" /\ r[2] = "down" /\ r[3] = "down" => Of(r) = "HTTPError"
  BY <1>1, <1>2, <1>3, <1>p DEF Own, Table, Known, Outcome, Raised, Payload,
         Then, Optional, Detail, InTurnGives
<1>5. ASSUME NEW i \in 1 .. n, r[i] = "down"
      PROVE  \/ Of(r) \in Raised
             \/ \A s \in ButFor(n, r, i) : Of(s) = Of(r)
  BY <1>1, <1>2, <1>3, <1>5, <1>p DEF ButFor, Own, Table, Known, Outcome, Raised,
         Then, Optional, Detail, InTurnGives
<1>6. QED
  BY <1>3, <1>4, <1>5, RaisedTolerable, SpareNames DEF Tells, Of, Known

(***************************************************************************)
(* The stations of Leipzig, then their counts.                             *)
(***************************************************************************)
LEMMA LeipzigTells ==
  ASSUME NEW n \in Many, NEW r \in Feed(n, "fetch_leipzig_radzaehl")
  PROVE  Tells(n, "fetch_leipzig_radzaehl", r)
<1> USE DEF Many
<1> DEFINE Of(s) == OutcomeOf("fetch_leipzig_radzaehl", s)
           places == Tolerant
           counts == Lenient(Tolerant)
<1>1. \A s : Of(s) = Detail(places[s[1]], counts[s[2]])
  BY DEF OutcomeOf, OsmFeatures, GenesisTables, SmardSeries, Publications,
         LandValueFormats, fetch_leipzig_radzaehl, fetch_standorte,
         latest_counts, Csv
<1>2. Table(places) /\ Table(counts)
  BY Tables DEF Own
<1> HIDE DEF Of, places, counts
<1>3. /\ r \in [1 .. n -> Reply] /\ 1 \in 1 .. n
      /\ 2 \in 1 .. n /\ 3 \in 1 .. n
  BY DEF Feed
<1>c. \A i \in 1 .. n : r[i] # "far"
  BY DEF Feed, OneCityFeeds
<1>4. /\ Of(r) \in Known \ {"foreign"}
      /\ r[1] = "down" /\ r[2] = "down" /\ r[3] = "down" => Of(r) = "HTTPError"
  BY <1>1, <1>2, <1>3, <1>c DEF Own, Table, Known, Outcome, Raised, Payload,
         Then, Optional, Detail
<1>5. ASSUME NEW i \in 1 .. n, r[i] = "down"
      PROVE  \/ Of(r) \in Raised
             \/ \A s \in ButFor(n, r, i) : Of(s) = Of(r)
  BY <1>1, <1>2, <1>3, <1>5, <1>c DEF ButFor, Own, Table, Known, Outcome, Raised,
         Then,
         Optional, Detail
<1>6. QED
  BY <1>3, <1>4, <1>5, RaisedTolerable, SpareNames DEF Tells, Of, Known

(***************************************************************************)
(* The stations of Munich, the catalogue of this year or the year before,  *)
(* and the file.                                                           *)
(***************************************************************************)
LEMMA MunichCountsTell ==
  ASSUME NEW n \in Many, NEW r \in Feed(n, "fetch_muenchen_radzaehl")
  PROVE  Tells(n, "fetch_muenchen_radzaehl", r)
<1> USE DEF Many
<1> DEFINE Of(s) == OutcomeOf("fetch_muenchen_radzaehl", s)
           places == Tolerant
           url == [Tolerant EXCEPT !["far"] = "Other", !["none"] = "null",
                                   !["odd"] = "null", !["gone"] = "null"]
           day == Lenient(Tolerant)
<1>1. \A s : Of(s) = Detail(places[s[1]], IF url[s[2]] = "null" THEN url[s[3]]
                                                      ELSE Then(url[s[2]], day[s[3]]))
  BY DEF OutcomeOf, OsmFeatures, GenesisTables, SmardSeries, Publications,
         LandValueFormats, fetch_muenchen_radzaehl, fetch_stations,
         latest_daily_csv_url, parse_latest_day, Csv
<1>2. /\ Table(places) /\ Table(day) /\ url["down"] = "HTTPError"
      /\ \A k \in Reply : url[k] \in Outcome \ {"foreign"}
  BY Tables DEF Tolerant, Plain, Own, Table, Known, Outcome, Raised, Payload,
         Reply
<1> HIDE DEF Of, places, url, day
<1>3. /\ r \in [1 .. n -> Reply] /\ 1 \in 1 .. n
      /\ 2 \in 1 .. n /\ 3 \in 1 .. n
  BY DEF Feed
<1>c. \A i \in 1 .. n : r[i] # "far"
  BY DEF Feed, OneCityFeeds
<1>4. /\ Of(r) \in Known \ {"foreign"}
      /\ r[1] = "down" /\ r[2] = "down" /\ r[3] = "down" => Of(r) = "HTTPError"
  BY <1>1, <1>2, <1>3, <1>c DEF Own, Table, Known, Outcome, Raised, Payload,
         Then, Optional, Detail
<1>5. ASSUME NEW i \in 1 .. n, r[i] = "down"
      PROVE  \/ Tolerable("fetch_muenchen_radzaehl", r, i, Of(r))
             \/ \A s \in ButFor(n, r, i) : Of(s) = Of(r)
  BY <1>1, <1>2, <1>3, <1>5, <1>c DEF Tolerable, Spare, FanOuts, StaticPulls,
         WithFallback, Unkept, ButFor, Own, Table, Known, Outcome, Raised, Then,
         Optional, Detail
<1>6. QED
  BY <1>3, <1>4, <1>5 DEF Tells, Of, Known

(***************************************************************************)
(* Occupancy and names of facilities, by two subscriptions.                *)
(***************************************************************************)
(* The names may be missing, the occupancy may not.                        *)
LEMMA FacilitiesTell ==
  ASSUME NEW f \in StaticPulls, NEW n \in Many, NEW r \in Feed(n, f)
  PROVE  Tells(n, f, r)
<1> USE DEF Many
<1> DEFINE Of(s) == OutcomeOf(f, s)
           pull == GoneIsEmpty(Guarded(Tolerant))
<1>1. \A s : Of(s) = join_facilities(s[1] \notin {"gone", "barred"}, pull[s[1]], pull[s[2]])
  BY DEF OutcomeOf, OsmFeatures, GenesisTables, SmardSeries, Publications,
         LandValueFormats, StaticPulls, fetch_wuppertal_parking, fetch_magdeburg_parking,
         fetch_frankfurt_parking, fetch_facility_parking_v2, parse_facility_status_v2,
         parse_facility_static_v2, parse_parking_status_v3, parse_parking_static_v3,
         pull_subscription
<1>2. Table(pull) /\ pull["gone"] = "empty" /\ pull["barred"] = "blank"
  BY Tables DEF GoneIsEmpty, Guarded, Tolerant, Plain
<1> HIDE DEF Of, pull
<1>3. /\ r \in [1 .. n -> Reply] /\ 1 \in 1 .. n
      /\ 2 \in 1 .. n
  BY DEF Feed
<1>4. /\ Of(r) \in Known
      /\ Of(r) = "foreign" => r[1] = "far"
      /\ r[1] = "down" /\ r[2] = "down" => Of(r) = "HTTPError"
  BY <1>1, <1>2, <1>3 DEF join_facilities, Optional, Then, Table, Known, Outcome,
                          Raised, Payload
<1>5. ASSUME NEW i \in 1 .. n, r[i] = "down"
      PROVE  Tolerable(f, r, i, Of(r)) \/ \A s \in ButFor(n, r, i) : Of(s) = Of(r)
  BY <1>1, <1>2, <1>3, <1>5
     DEF Tolerable, Spare, FanOuts, StaticPulls, WithFallback, Unkept, ButFor,
            join_facilities, Optional, Then, Table, Known, Outcome, Raised
<1>6. QED
  BY <1>3, <1>4, <1>5 DEF Tells, Of, Known, AnyFeed, StaticPulls

(***************************************************************************)
(* The feed of DELFI, or of gtfs.de in its place.                          *)
(***************************************************************************)
LEMMA GtfsTells ==
  ASSUME NEW n \in Many, NEW r \in Feed(n, "fetch_gtfs_rt_feed")
  PROVE  Tells(n, "fetch_gtfs_rt_feed", r)
<1> USE DEF Many
<1> DEFINE Of(s) == OutcomeOf("fetch_gtfs_rt_feed", s)
           parse == [Plain EXCEPT !["barred"] = "Other"]
<1>1. \A s : Of(s) = parse[IF s[1] \in {"gone", "down"} THEN s[2] ELSE s[1]]
  BY DEF OutcomeOf, OsmFeatures, GenesisTables, SmardSeries, Publications,
         LandValueFormats, fetch_gtfs_rt_feed, parse_trip_updates
<1>2. Table(parse) /\ parse_trip_updates = parse
  BY Tables DEF Table, Known, Outcome, Raised, Payload, Reply, parse_trip_updates
<1> HIDE DEF Of, parse
<1>3. r \in [1 .. n -> Reply] /\ 1 \in 1 .. n /\ 2 \in 1 .. n
  BY DEF Feed, OneCityFeeds
<1>4. /\ Of(r) \in Known
      /\ Of(r) = "foreign" => r[1] = "far" \/ r[2] = "far"
      /\ r[1] = "down" /\ r[2] = "down" => Of(r) = "HTTPError"
  BY <1>1, <1>2, <1>3 DEF Table
<1>5. ASSUME NEW i \in 1 .. n, r[i] = "down"
      PROVE  Tolerable("fetch_gtfs_rt_feed", r, i, Of(r))
             \/ \A s \in ButFor(n, r, i) : Of(s) = Of(r)
  <2>1. i # 1 /\ i # 2 => \A s \in ButFor(n, r, i) : Of(s) = Of(r)
    BY <1>1, <1>3 DEF ButFor
  <2>2. CASE Spare("fetch_gtfs_rt_feed", r, i)
    <3>1. i = 1 /\ parse[r[2]] \notin Raised
      BY <1>2, <2>2 DEF Spare, FanOuts, StaticPulls
    <3>2. Of(r) = parse[r[2]]
      BY <1>1, <1>5, <3>1
    <3>3. Of(r) \in Payload
      BY <1>4, <3>1, <3>2 DEF Known, Outcome
    <3>4. QED
      BY <2>2, <3>3 DEF Tolerable, WithFallback
  <2>3. CASE ~Spare("fetch_gtfs_rt_feed", r, i) /\ i = 1
    <3>1. Of(r) = parse[r[2]]
      BY <1>1, <1>5, <2>3
    <3>2. Of(r) \in Raised
      BY <1>2, <2>3, <3>1 DEF Spare, WithFallback
    <3>3. QED
      BY <2>3, <3>2 DEF Tolerable
  <2>4. CASE ~Spare("fetch_gtfs_rt_feed", r, i) /\ i = 2
    <3>1. CASE r[1] \in {"gone", "down"}
      <4>1. Of(r) = "HTTPError"
        BY <1>1, <1>2, <1>5, <2>4, <3>1 DEF Table
      <4>2. QED
        BY <2>4, <4>1 DEF Tolerable, Raised
    <3>2. CASE r[1] \notin {"gone", "down"}
      <4>1. \A s \in ButFor(n, r, i) : s[1] = r[1]
        BY <1>3, <2>4 DEF ButFor
      <4>2. QED
        BY <1>1, <3>2, <4>1
    <3>3. QED
      BY <3>1, <3>2
  <2>5. QED
    BY <2>1, <2>2, <2>3, <2>4
<1>6. QED
  BY <1>3, <1>4, <1>5 DEF Tells, Of, Known, AnyFeed

(***************************************************************************)
(* Requests in parallel: what is missing shows unless all have failed, and *)
(* then it is raised.                                                      *)
(***************************************************************************)
LEMMA FanOutTells ==
  ASSUME NEW f \in FanOuts, NEW T, Table(T), NEW n \in Many, NEW r \in Feed(n, f),
         \A s \in [1 .. n -> Reply] :
           OutcomeOf(f, s) = Gathered([i \in DOMAIN s |-> T[s[i]]]),
         \A i \in 1 .. n : T[r[i]] # "foreign",
         \A k \in WellFormed : T[k] \notin Raised,
         \A k \in Reply \ WellFormed : T[k] \in Raised \cup {"blank"}
  PROVE  Tells(n, f, r)
<1> USE DEF Many
<1> DEFINE v == [i \in 1 .. n |-> T[r[i]]]
           answered == ToSet(v) \ Raised
<1>1. r \in [1 .. n -> Reply] /\ 1 \in 1 .. n
  BY DEF Feed
<1>2. /\ OutcomeOf(f, r) = Gathered(v)
      /\ DOMAIN v = 1 .. n
      /\ \A i \in 1 .. n : v[i] = T[r[i]] /\ v[i] \in Known \ {"foreign"}
      /\ \A i \in 1 .. n : v[i] \in ToSet(v)
      /\ ToSet(v) \subseteq Known \ {"foreign"}
  BY <1>1 DEF Table, ToSet
<1> HIDE DEF v
<1>3. CASE answered = {}
  <2>1. Gathered(v) = v[1] /\ v[1] \in Raised
    BY <1>1, <1>2, <1>3 DEF Gathered
  <2>2. v[1] \in Known \ {"foreign"} /\ (r[1] = "down" => v[1] = "HTTPError")
    BY <1>1, <1>2 DEF Table
  <2>3. ASSUME NEW i \in 1 .. n PROVE Tolerable(f, r, i, v[1])
    <3>1. \A j \in DOMAIN r : r[j] \notin WellFormed
      BY <1>1, <1>2, <1>3
    <3>2. ~Spare(f, r, i)
      BY <3>1 DEF Spare, FanOuts, StaticPulls, WithFallback
    <3>3. QED
      BY <2>1, <3>2 DEF Tolerable
  <2>4. QED
    BY <1>1, <1>2, <2>1, <2>2, <2>3 DEF Tells, Known
<1>4. CASE answered # {}
  <2>1. /\ Merge(answered) \in Known /\ Merge(answered) # "foreign"
        /\ Merge(answered \cup {"blank"}) \in {"part", "blank"}
    <3>1. answered \in SUBSET Known /\ "foreign" \notin answered
      BY <1>2
    <3>2. Merge(answered) \in Payload \ {"null"} /\ Merge(answered) # "foreign"
      BY <3>1, Merged
    <3>3. Merge(answered \cup {"blank"}) \in {"part", "blank"}
      BY <3>1 DEF Merge
    <3>4. QED
      BY <3>2, <3>3 DEF Known, Outcome, Payload, Raised
  <2>2. Gathered(v) = IF ToSet(v) = answered THEN Merge(answered)
                                             ELSE Merge(answered \cup {"blank"})
    BY <1>4 DEF Gathered
  <2>3. OutcomeOf(f, r) \in Known \ {"foreign"}
    BY <1>2, <2>1, <2>2 DEF Known, Outcome, Payload, Raised
  <2>4. ASSUME NEW i \in 1 .. n, r[i] = "down"
        PROVE  Tolerable(f, r, i, OutcomeOf(f, r))
    <3>1. v[i] \in ToSet(v) /\ v[i] \in Raised
      BY <1>2, <2>4 DEF Table, Raised
    <3>2. OutcomeOf(f, r) = Merge(answered \cup {"blank"})
      BY <1>2, <2>2, <3>1
    <3>3. CASE \E j \in DOMAIN r : r[j] \in WellFormed
      BY <2>1, <3>2, <3>3 DEF Tolerable, Spare
    <3>4. CASE \A j \in DOMAIN r : r[j] \notin WellFormed
      <4>1. \A j \in 1 .. n : v[j] \in Raised \cup {"blank"}
        BY <1>1, <1>2, <3>4
      <4>2. ToSet(v) \subseteq Raised \cup {"blank"}
        BY <1>2, <4>1 DEF ToSet
      <4>3. answered \cup {"blank"} = {"blank"}
        BY <4>2
      <4>4. Merge({"blank"}) = "blank"
        BY DEF Merge
      <4>5. QED
        BY <2>1, <3>2, <4>3, <4>4 DEF Tolerable
    <3>5. QED
      BY <3>3, <3>4
  <2>5. ~ \A i \in 1 .. n : r[i] = "down"
    <3>1. PICK i \in 1 .. n : v[i] \notin Raised
      BY <1>2, <1>4 DEF ToSet
    <3>2. QED
      BY <1>2, <3>1 DEF Table, Raised
  <2>6. QED
    BY <2>3, <2>4, <2>5 DEF Tells, Known
<1>5. QED
  BY <1>3, <1>4

(* The roads of a city, asked for in parallel.                             *)
LEMMA RoadsTell ==
  ASSUME NEW f \in {"fetch_traffic", "fetch_webcams"}, NEW n \in Many, NEW r \in
         Feed(n, f)
  PROVE  Tells(n, f, r)
<1> DEFINE T == [k \in Reply |-> FilteredItems(k)]
<1>1. ASSUME NEW s \in [1 .. n -> Reply]
      PROVE  OutcomeOf(f, s) = Gathered([i \in DOMAIN s |-> T[s[i]]])
  <2>1. [i \in DOMAIN s |-> FilteredItems(s[i])] = [i \in DOMAIN s |-> T[s[i]]]
    OBVIOUS
  <2>2. OutcomeOf(f, s) = Gathered([i \in DOMAIN s |-> FilteredItems(s[i])])
    BY DEF OutcomeOf, OsmFeatures, GenesisTables, SmardSeries, Publications,
           LandValueFormats, fetch_traffic, fetch_webcams, raise_if_all_failed
  <2>3. QED
    BY <2>1, <2>2
<1>2. Own(T)
  BY Tables DEF Own, Table, FilteredItems, bbox_items, get_service_items, Known,
                Outcome, Raised, Payload, Reply
<1>3. r \in [1 .. n -> Reply]
  BY DEF Feed
<1>4. /\ \A k \in WellFormed : T[k] \notin Raised
      /\ \A k \in Reply \ WellFormed : T[k] \in Raised \cup {"blank"}
  BY DEF WellFormed, FilteredItems, bbox_items, get_service_items, Tolerant, Plain,
         Raised, Reply
<1> HIDE DEF T
<1>5. QED
  BY <1>1, <1>2, <1>3, <1>4, FanOutTells DEF Own, FanOuts

(* The stations of Duesseldorf, asked for in parallel.                     *)
LEMMA DuesseldorfTells ==
  ASSUME NEW n \in Many, NEW r \in Feed(n, "fetch_duesseldorf_radzaehl")
  PROVE  Tells(n, "fetch_duesseldorf_radzaehl", r)
<1> DEFINE T == Lenient(Tolerant)
<1>1. \A s : OutcomeOf("fetch_duesseldorf_radzaehl", s)
               = Gathered([i \in DOMAIN s |-> T[s[i]]])
  BY DEF OutcomeOf, OsmFeatures, GenesisTables, SmardSeries, Publications,
         LandValueFormats, fetch_duesseldorf_radzaehl, sum_station_csv, Csv
<1>2. Table(T)
  BY Tables
<1>3. \A i \in 1 .. n : r[i] \in Reply /\ r[i] # "far"
  BY DEF Feed, OneCityFeeds
<1>4. /\ \A k \in WellFormed : T[k] \notin Raised
      /\ \A k \in Reply \ WellFormed : T[k] \in Raised \cup {"blank"}
  BY DEF WellFormed, Lenient, Tolerant, Plain, Raised, Reply
<1> HIDE DEF T
<1>5. QED
  BY <1>1, <1>2, <1>3, <1>4, FanOutTells DEF Table, FanOuts

(***************************************************************************)
(* Requests one after the other, any number of them: the first exception   *)
(* ends the call.                                                          *)
(***************************************************************************)
LEMMA FirstOne ==
  ASSUME NEW S \in SUBSET Nat, S # {}
  PROVE  \E x \in S : \A y \in S : x <= y
<1> DEFINE Less == {ss \in Nat \X Nat : ss[1] < ss[2]}
<1>1. IsWellFoundedOn(Less, Nat)
  BY NatLessThanWellFounded, Zenon DEF OpToRel
<1>2. PICK x \in S : \A y \in S : ~ (<<y, x>> \in Less)
  <2> HIDE DEF Less
  <2>1. QED
    BY <1>1, WFMin, Zenon
<1>3. ASSUME NEW y \in S, y < x PROVE FALSE
  <2>1. <<y, x>> \in Nat \X Nat /\ <<y, x>>[1] = y /\ <<y, x>>[2] = x
    OBVIOUS
  <2>2. <<y, x>> \in Less
    BY <1>3, <2>1
  <2> HIDE DEF Less
  <2>3. QED
    BY <1>2, <2>2
<1>4. QED
  BY <1>3

(* The first exception of some replies is one of them.                     *)
LEMMA FirstRaisedOf ==
  ASSUME NEW n \in Nat, NEW v \in [1 .. n -> Outcome], NEW k \in 1 .. n, v[k] \in Raised
  PROVE  \E i \in 1 .. n : FirstRaised(v) = v[i] /\ v[i] \in Raised
<1> DEFINE S == {i \in 1 .. n : v[i] \in Raised}
<1>1. PICK x \in S : \A y \in S : x <= y
  <2>1. S \in SUBSET Nat /\ k \in S
    OBVIOUS
  <2>2. QED
    BY <2>1, FirstOne
<1>2. x \in DOMAIN v /\ v[x] \in Raised /\ \A j \in 1 .. x - 1 : v[j] \notin Raised
  BY <1>1
<1>3. DOMAIN v = 1 .. n
  OBVIOUS
<1>4. QED
  BY <1>2, <1>3 DEF FirstRaised

(* Any number of requests in turn: an exception among them is raised.      *)
LEMMA InTurnOf ==
  ASSUME NEW n \in Nat, NEW v \in [1 .. n -> Known]
  PROVE  /\ InTurn(v) \in Known
         /\ (\A i \in 1 .. n : v[i] # "foreign") => InTurn(v) # "foreign"
         /\ \A k \in 1 .. n : v[k] \in Raised =>
              \E i \in 1 .. n : InTurn(v) = v[i] /\ v[i] \in Raised
<1>1. /\ ToSet(v) \in SUBSET Known
      /\ \A i \in 1 .. n : v[i] \in ToSet(v)
      /\ \A e \in ToSet(v) : \E i \in 1 .. n : e = v[i]
  BY DEF ToSet
<1>2. CASE ToSet(v) \cap Raised = {}
  <2>1. InTurn(v) = Merge(ToSet(v))
    BY <1>2 DEF InTurn
  <2>2. /\ Merge(ToSet(v)) \in Payload \ {"null"}
        /\ Merge(ToSet(v)) = "foreign" => "foreign" \in ToSet(v)
    BY <1>1, Merged
  <2>3. QED
    BY <1>1, <1>2, <2>1, <2>2 DEF Known, Outcome, Payload
<1>3. CASE ToSet(v) \cap Raised # {}
  <2>1. PICK k \in 1 .. n : v[k] \in Raised
    BY <1>1, <1>3
  <2>2. InTurn(v) = FirstRaised(v)
    BY <1>3 DEF InTurn
  <2>3. v \in [1 .. n -> Outcome]
    BY DEF Known
  <2>4. PICK i \in 1 .. n : FirstRaised(v) = v[i] /\ v[i] \in Raised
    BY <2>1, <2>3, FirstRaisedOf
  <2>5. QED
    BY <2>2, <2>4 DEF Raised
<1>4. QED
  BY <1>2, <1>3

(* The states of the roads of Hamburg are such requests.                   *)
LEMMA HamburgTells ==
  ASSUME NEW n \in Many, NEW r \in Feed(n, "fetch_hamburg_verkehrslage")
  PROVE  Tells(n, "fetch_hamburg_verkehrslage", r)
<1> USE DEF Many
<1> DEFINE Of(s) == OutcomeOf("fetch_hamburg_verkehrslage", s)
           T == Tolerant
           v == [i \in 1 .. n |-> T[r[i]]]
<1>1. r \in [1 .. n -> Reply] /\ (\A i \in 1 .. n : r[i] # "far")
      /\ 1 \in 1 .. n
  BY DEF Feed, OneCityFeeds
<1>2. Of(r) = InTurn(v)
  BY <1>1 DEF OutcomeOf, OsmFeatures, GenesisTables, SmardSeries, Publications,
         LandValueFormats, fetch_hamburg_verkehrslage, fetch_state
<1>3. Table(T)
  BY Tables
<1> HIDE DEF Of, T
<1>4. /\ v \in [1 .. n -> Known]
      /\ \A i \in 1 .. n : v[i] = T[r[i]] /\ v[i] # "foreign"
      /\ \A i \in 1 .. n : r[i] = "down" => v[i] = "HTTPError"
  BY <1>1, <1>3 DEF Table
<1> HIDE DEF v
<1>5. Of(r) \in Known \ {"foreign"}
  BY <1>2, <1>4, InTurnOf
<1>6. ASSUME NEW k \in 1 .. n, r[k] = "down"
      PROVE  \E i \in 1 .. n : Of(r) = v[i] /\ v[i] \in Raised
  <2>1. v[k] \in Raised
    BY <1>4, <1>6 DEF Raised
  <2>2. QED
    BY <1>2, <1>4, <2>1, InTurnOf
<1>7. QED
  BY <1>1, <1>4, <1>5, <1>6, RaisedTolerable, SpareNames DEF Tells, Of, Known

(***************************************************************************)
(* Land values, page by page until one is not full.                        *)
(***************************************************************************)
IsLast(r, i) ==
  /\ r[i] # "rows" \/ i = Len(r)
  /\ \A j \in 1 .. i - 1 : r[j] = "rows"

(* The last page is the only one that ends the reading.                    *)
LEMMA LastPageOf ==
  ASSUME NEW n \in Many, NEW r \in [1 .. n -> Reply]
  PROVE  /\ LastPage(r) \in 1 .. n /\ IsLast(r, LastPage(r))
         /\ \A i \in 1 .. n : IsLast(r, i) => i = LastPage(r)
<1> USE DEF Many
<1>1. Len(r) = n
  BY DEF Reply
<1>2. LastPage(r) = CHOOSE i \in 1 .. n : IsLast(r, i)
  BY <1>1 DEF LastPage, IsLast
<1> DEFINE S == {i \in 1 .. n : r[i] # "rows" \/ i = n}
<1>3. PICK x \in S : \A y \in S : x <= y
  <2>1. S \in SUBSET Nat /\ n \in S
    OBVIOUS
  <2>2. QED
    BY <2>1, FirstOne
<1>4. x \in 1 .. n /\ IsLast(r, x)
  BY <1>3 DEF IsLast
<1>5. ASSUME NEW i \in 1 .. n, NEW j \in 1 .. n, IsLast(r, i), IsLast(r, j)
      PROVE  i = j
  BY <1>5 DEF IsLast
<1>6. QED
  BY <1>2, <1>4, <1>5

(* A page that fails is raised, or lies behind the last one.               *)
LEMMA PagesTell ==
  ASSUME NEW T, Own(T), NEW n \in Many, NEW r \in [1 .. n -> Reply]
  PROVE  /\ Pages(r, T) \in Known \ {"foreign"}
         /\ r[1] = "down" => Pages(r, T) = "HTTPError"
         /\ \A i \in 1 .. n : r[i] = "down" =>
              \/ Pages(r, T) \in Raised
              \/ \A s \in ButFor(n, r, i) : Pages(s, T) = Pages(r, T)
<1> USE DEF Many
<1> DEFINE Count(s) == LastPage(s) + (IF s[LastPage(s)] = "rows" THEN 1 ELSE 0)
           Page(s) == [i \in 1 .. Count(s) |-> IF i > LastPage(s) THEN "blank" ELSE T[s[i]]]
<1>1. ASSUME NEW s \in [1 .. n -> Reply]
      PROVE  /\ Pages(s, T) = InTurn(Page(s))
             /\ LastPage(s) \in 1 .. n /\ IsLast(s, LastPage(s))
             /\ Count(s) \in Nat /\ LastPage(s) \in 1 .. Count(s)
             /\ Page(s) \in [1 .. Count(s) -> Known \ {"foreign"}]
  <2>1. LastPage(s) \in 1 .. n /\ IsLast(s, LastPage(s))
    BY LastPageOf
  <2>2. Count(s) \in Nat /\ LastPage(s) \in 1 .. Count(s)
    BY <2>1
  <2>3. ASSUME NEW i \in 1 .. Count(s)
        PROVE  (IF i > LastPage(s) THEN "blank" ELSE T[s[i]]) \in Known \ {"foreign"}
    <3>1. CASE i > LastPage(s)
      BY <3>1 DEF Known, Outcome, Payload
    <3>2. CASE ~ (i > LastPage(s))
      <4>1. i \in 1 .. n
        BY <2>1, <2>2, <3>2
      <4>2. QED
        BY <3>2, <4>1 DEF Own, Table
    <3>3. QED
      BY <3>1, <3>2
  <2>4. Pages(s, T) = InTurn(Page(s))
    BY DEF Pages
  <2>5. QED
    BY <2>1, <2>2, <2>3, <2>4
<1>2. Page(r)[LastPage(r)] = T[r[LastPage(r)]]
  BY <1>1
<1>3. Pages(r, T) \in Known \ {"foreign"}
  <2>1. /\ Page(r) \in [1 .. Count(r) -> Known]
        /\ \A i \in 1 .. Count(r) : Page(r)[i] # "foreign"
    BY <1>1
  <2> HIDE DEF Page, Count
  <2>2. QED
    BY <1>1, <2>1, InTurnOf
<1>4. ASSUME NEW k \in 1 .. n, r[k] = "down", k = LastPage(r)
      PROVE  /\ Pages(r, T) \in Raised
             /\ k = 1 => Pages(r, T) = "HTTPError"
  <2>1. Count(r) = k /\ Page(r)[k] = "HTTPError"
    BY <1>1, <1>2, <1>4 DEF Own, Table
  <2>2. Page(r) \in [1 .. k -> Known] /\ k \in Nat
    BY <1>1, <2>1
  <2> HIDE DEF Page, Count
  <2>3. PICK i \in 1 .. k : InTurn(Page(r)) = Page(r)[i] /\ Page(r)[i] \in Raised
    <3>1. Page(r)[k] \in Raised
      BY <2>1 DEF Raised
    <3>2. QED
      BY <2>2, <3>1, InTurnOf
  <2>4. QED
    BY <1>1, <2>1, <2>3
<1>5. ASSUME NEW k \in 1 .. n, r[k] = "down", k # LastPage(r), NEW s \in ButFor(n, r, k)
      PROVE  Pages(s, T) = Pages(r, T)
  <2>1. k > LastPage(r)
    <3>1. LastPage(r) \in 1 .. n /\ \A j \in 1 .. LastPage(r) - 1 : r[j] = "rows"
      BY LastPageOf DEF IsLast
    <3>2. QED
      BY <1>5, <3>1
  <2>2. /\ s \in [1 .. n -> Reply] /\ LastPage(r) \in 1 .. n
        /\ \A j \in 1 .. LastPage(r) : j # k
        /\ \A j \in 1 .. LastPage(r) : s[j] = r[j]
    <3>1. LastPage(r) \in 1 .. n
      BY LastPageOf
    <3>2. \A j \in 1 .. LastPage(r) : j \in 1 .. n /\ j # k
      BY <2>1, <3>1
    <3>3. s \in [1 .. n -> Reply] /\ \A j \in 1 .. n : j # k => s[j] = r[j]
      BY <1>5 DEF ButFor
    <3>4. QED
      BY <3>1, <3>2, <3>3
  <2>3. Len(s) = n /\ Len(r) = n
    BY <2>2
  <2>4. IsLast(s, LastPage(r))
    <3>1. IsLast(r, LastPage(r))
      BY LastPageOf
    <3>2. QED
      BY <2>2, <2>3, <3>1 DEF IsLast
  <2>5. LastPage(s) = LastPage(r)
    BY <2>2, <2>4, LastPageOf
  <2>6. Count(s) = Count(r) /\ Page(s) = Page(r)
    <3>1. s[LastPage(r)] = r[LastPage(r)]
      BY <2>2
    <3>2. Count(s) = Count(r)
      BY <2>5, <3>1
    <3>3. \A i \in 1 .. Count(r) :
            (IF i > LastPage(s) THEN "blank" ELSE T[s[i]])
              = (IF i > LastPage(r) THEN "blank" ELSE T[r[i]])
      <4>1. LastPage(r) \in Nat
        BY <2>2
      <4>2. SUFFICES ASSUME NEW i \in 1 .. Count(r), ~ (i > LastPage(r))
            PROVE  T[s[i]] = T[r[i]]
        BY <2>5, Zenon
      <4>3. i \in 1 .. LastPage(r)
        BY <4>1, <4>2
      <4>4. QED
        BY <2>2, <4>3
    <3>4. QED
      BY <2>5, <3>2, <3>3
  <2>7. QED
    BY <1>1, <2>2, <2>6
<1>6. ASSUME r[1] = "down" PROVE LastPage(r) = 1
  <2>1. r \in [1 .. n -> Reply] /\ 1 \in 1 .. n /\ IsLast(r, 1)
    BY <1>6 DEF IsLast
  <2>2. QED
    BY <2>1, LastPageOf
<1>7. QED
  <2>1. r[1] = "down" => Pages(r, T) = "HTTPError"
    BY <1>4, <1>6
  <2>2. \A i \in 1 .. n : r[i] = "down" =>
          \/ Pages(r, T) \in Raised
          \/ \A s \in ButFor(n, r, i) : Pages(s, T) = Pages(r, T)
    BY <1>4, <1>5
  <2>3. QED
    BY <1>3, <2>1, <2>2

(* Both formats of the land values are read so.                            *)
LEMMA LandValuesTell ==
  ASSUME NEW n \in Many, NEW f \in LandValueFormats, NEW r \in Feed(n, f)
  PROVE  Tells(n, f, r)
<1> USE DEF Many
<1>1. PICK T : /\ Own(T)
               /\ \A s : OutcomeOf(f, s) = NullIfNone(Pages(s, T))
  <2>1. Own(Scoped(Tolerant)) /\ Own(parse_gml_page)
    BY Tables DEF Own, parse_gml_page
  <2>2. CASE f = "geojson"
    <3>1. \A s : OutcomeOf(f, s) = NullIfNone(Pages(s, Scoped(Tolerant)))
      BY <2>2 DEF OutcomeOf, OsmFeatures, GenesisTables, SmardSeries, Publications,
             LandValueFormats, fetch_city_land_values, fetch_brw_values,
             fetch_geojson_values
    <3>2. QED
      BY <2>1, <3>1
  <2>3. CASE f = "gml"
    <3>1. \A s : OutcomeOf(f, s) = NullIfNone(Pages(s, parse_gml_page))
      BY <2>3 DEF OutcomeOf, OsmFeatures, GenesisTables, SmardSeries, Publications,
             LandValueFormats, fetch_city_land_values, fetch_brw_values, paginate_gml
    <3>2. QED
      BY <2>1, <3>1
  <2>4. QED
    BY <2>2, <2>3 DEF LandValueFormats
<1>2. r \in [1 .. n -> Reply] /\ 1 \in 1 .. n
  BY DEF Feed
<1>3. /\ Pages(r, T) \in Known \ {"foreign"}
      /\ r[1] = "down" => Pages(r, T) = "HTTPError"
      /\ \A i \in 1 .. n : r[i] = "down" =>
           \/ Pages(r, T) \in Raised
           \/ \A s \in ButFor(n, r, i) : Pages(s, T) = Pages(r, T)
  BY <1>1, <1>2, PagesTell
<1>4. OutcomeOf(f, r) \in Outcome \ {"foreign"}
  BY <1>1, <1>3 DEF NullIfNone, Known, Outcome, Raised, Payload
<1>5. (\A i \in 1 .. n : r[i] = "down") => OutcomeOf(f, r) = "HTTPError"
  BY <1>1, <1>2, <1>3 DEF NullIfNone
<1>6. ASSUME NEW i \in 1 .. n, r[i] = "down"
      PROVE  \/ OutcomeOf(f, r) \in Raised
             \/ \A s \in ButFor(n, r, i) : OutcomeOf(f, s) = OutcomeOf(f, r)
  BY <1>1, <1>3, <1>6 DEF NullIfNone, Raised
<1>7. QED
  BY <1>4, <1>5, <1>6, RaisedTolerable, SpareNames DEF Tells, LandValueFormats

-----------------------------------------------------------------------------
(***************************************************************************)
(* All of them.                                                            *)
(***************************************************************************)
LEMMA AllTell ==
  \A n \in Many : \A f \in Fetchers : \A r \in Feed(n, f) : Tells(n, f, r)
<1> SUFFICES ASSUME NEW n \in Many, NEW f \in Fetchers
             PROVE  \A r \in Feed(n, f) : Tells(n, f, r)
  BY Zenon
<1>1. f \in Nationwide \cup Filtering \cup Strict \cup CityFeeds \cup CsvFeeds \cup Waiting
            \cup Swallowing \cup Mobidata \cup Notices \cup Afir \cup Situations
            \cup Measurements \cup StaticPulls \cup GenesisTables \cup SmardSeries
            \cup LandValueFormats
            \cup {"fetch_fire_danger", "fetch_pollen_uv", "fetch_air_uba",
                  "fetch_water_level", "fetch_flood", "fetch_icu_live",
                  "fetch_station_departures", "fetch_station_arrivals",
                  "fetch_hvv_departures", "fetch_sharing",
                  "fetch_muenchen_road_events", "fetch_muenchen_parking",
                  "fetch_koeln_road_events", "fetch_leipzig_radzaehl",
                  "fetch_muenchen_radzaehl", "fetch_gtfs_rt_feed", "fetch_traffic",
                  "fetch_webcams", "fetch_duesseldorf_radzaehl",
                  "fetch_hamburg_verkehrslage"}
  BY DEF Fetchers, OsmFeatures, GenesisTables, SmardSeries, Publications,
         LandValueFormats, Nationwide, Filtering, Strict, CityFeeds, CsvFeeds,
         Waiting, Swallowing, Mobidata, Notices, Afir, Situations, Measurements,
         StaticPulls
<1> DEFINE P(g) == \A r \in Feed(n, g) : Tells(n, g, r)
<1>2. /\ \A g \in Nationwide : P(g)
      /\ \A g \in Filtering : P(g)
      /\ \A g \in Strict : P(g)
      /\ \A g \in CityFeeds : P(g)
      /\ \A g \in CsvFeeds : P(g)
      /\ \A g \in Waiting : P(g)
      /\ \A g \in Swallowing : P(g)
      /\ \A g \in Mobidata : P(g)
  BY NationwideTell, FilteringTell, StrictTell, CityFeedsTell, CsvFeedsTell,
     WaitingTell, SwallowingTell, MobidataTell, Zenon
<1>3. /\ \A g \in Notices : P(g)
      /\ \A g \in Afir : P(g)
      /\ \A g \in Situations : P(g)
      /\ \A g \in Measurements : P(g)
      /\ \A g \in StaticPulls : P(g)
      /\ \A g \in GenesisTables : P(g)
      /\ \A g \in SmardSeries : P(g)
      /\ \A g \in LandValueFormats : P(g)
  BY NoticesTell, AfirTell, SituationsTell, MeasurementsTell, FacilitiesTell,
     GenesisTell, SmardTell, LandValuesTell, Zenon
<1>4. /\ P("fetch_fire_danger")
      /\ P("fetch_pollen_uv")
      /\ P("fetch_air_uba")
      /\ P("fetch_water_level")
      /\ P("fetch_flood")
      /\ P("fetch_icu_live")
      /\ P("fetch_hvv_departures")
      /\ P("fetch_sharing")
      /\ P("fetch_koeln_road_events")
      /\ P("fetch_leipzig_radzaehl")
      /\ P("fetch_muenchen_radzaehl")
      /\ P("fetch_gtfs_rt_feed")
      /\ P("fetch_duesseldorf_radzaehl")
      /\ P("fetch_hamburg_verkehrslage")
  BY FireDangerTells, PollenTells, AirTells, WaterLevelTells, FloodTells, IcuTells,
     GeofoxTells, SharingTells, CologneTells, LeipzigTells, MunichCountsTell,
     GtfsTells, DuesseldorfTells, HamburgTells, Zenon
<1>5. /\ P("fetch_station_departures") /\ P("fetch_station_arrivals")
      /\ P("fetch_muenchen_road_events") /\ P("fetch_muenchen_parking")
      /\ P("fetch_traffic") /\ P("fetch_webcams")
  BY BoardsTell, MunichFilesTell, RoadsTell
<1> HIDE DEF P
<1>6. P(f)
  BY <1>1, <1>2, <1>3, <1>4, <1>5
<1>7. QED
  BY <1>6 DEF P

-----------------------------------------------------------------------------
(***************************************************************************)
(* One call: what it ends with is what the adapter makes of MaxReplies     *)
(* replies.                                                                *)
(***************************************************************************)
CallInv ==
  /\ fn \in Fetchers
  /\ replies \in Seq(Possible)
  /\ Len(replies) <= MaxReplies
  /\ outcome # "pending" =>
       Len(replies) = MaxReplies /\ outcome = OutcomeOf(fn, replies)

(* CallInv holds of every call.                                            *)
THEOREM CallInvHolds == CallSpec => []CallInv
<1>1. CallInit => CallInv
  BY MaxRepliesAssumption DEF CallInit, CallInv
<1>2. CallInv /\ [CallNext]_callVars => CallInv'
  <2> SUFFICES ASSUME CallInv, [CallNext]_callVars PROVE CallInv'
    OBVIOUS
  <2>1. CASE Receive
    <3>1. PICK k \in Possible : replies' = Append(replies, k)
      BY <2>1 DEF Receive
    <3>2. Possible' = Possible /\ fn' = fn /\ outcome' = outcome
      BY <2>1 DEF Receive, Possible
    <3>3. /\ replies' \in Seq(Possible) /\ Len(replies') = Len(replies) + 1
          /\ Len(replies) \in Nat
      BY <3>1 DEF CallInv
    <3>4. Len(replies) < MaxReplies
      BY <2>1 DEF Receive
    <3>5. QED
      BY <3>2, <3>3, <3>4, MaxRepliesAssumption DEF CallInv
  <2>2. CASE Return
    BY <2>2 DEF Return, CallInv, Possible
  <2>3. CASE UNCHANGED callVars
    BY <2>3 DEF callVars, CallInv, Possible
  <2>4. QED
    BY <2>1, <2>2, <2>3 DEF CallNext
<1>3. QED
  BY <1>1, <1>2, PTL DEF CallSpec

(* A call that has ended is one of those that AllTell speaks of.           *)
LEMMA CallTells ==
  ASSUME CallInv, outcome # "pending"
  PROVE  /\ replies \in Feed(MaxReplies, fn)
         /\ outcome = OutcomeOf(fn, replies)
         /\ Tells(MaxReplies, fn, replies)
<1>1. replies \in Feed(MaxReplies, fn) /\ outcome = OutcomeOf(fn, replies)
  BY MaxRepliesAssumption DEF CallInv, Feed, Possible
<1>2. MaxReplies \in Many
  BY MaxRepliesAssumption DEF Many
<1>3. QED
  BY <1>1, <1>2, AllTell DEF CallInv

(* An adapter none of whose requests is answered raises httpx.HTTPError.   *)
THEOREM OutagesAreRaised == CallSpec => []OutageIsRaised
<1>1. CallInv => OutageIsRaised
  BY CallTells DEF OutageIsRaised, Tells
<1>2. QED
  BY <1>1, CallInvHolds, PTL

(* A failed request that the outcome rests on is raised, unless it is      *)
(* spare: then its part is missing, or it is one of the few known to take  *)
(* down the call all the same.                                             *)
THEOREM FailuresShow == CallSpec => []FailureShows
<1>1. CallInv => FailureShows
  <2> SUFFICES ASSUME CallInv, outcome # "pending", NEW i \in 1 .. MaxReplies,
                      replies[i] = "down", RestsOn(i)
               PROVE  Tolerable(fn, replies, i, outcome)
    BY DEF FailureShows
  <2>1. /\ replies \in [1 .. MaxReplies -> Reply] /\ outcome = OutcomeOf(fn, replies)
        /\ Tells(MaxReplies, fn, replies)
    BY CallTells DEF Feed
  <2>2. PICK k \in Possible : OutcomeOf(fn, [replies EXCEPT ![i] = k]) # outcome
    BY DEF RestsOn
  <2>3. [replies EXCEPT ![i] = k] \in ButFor(MaxReplies, replies, i)
    BY <2>1 DEF ButFor, Possible
  <2>4. QED
    BY <2>1, <2>2, <2>3 DEF Tells
<1>2. QED
  BY <1>1, CallInvHolds, PTL

-----------------------------------------------------------------------------
(***************************************************************************)
(* The owner of an entry: the adapter that writes it, and the city, zone   *)
(* or station it is called for.                                            *)
(***************************************************************************)
FnOf(prefix) ==
  CASE prefix = "dwd" -> "fetch_weather"
    [] prefix = "uba" -> "fetch_air_uba"
    [] prefix = "wikidata" -> "fetch_city_base"
    [] prefix = "solar" -> "fetch_solar"
    [] prefix = "pegelonline" -> "fetch_water_level"
    [] prefix = "dwd_pollen" -> "fetch_pollen_uv"
    [] prefix = "dwd_fire" -> "fetch_fire_danger"
    [] prefix = "eea_bathing" -> "fetch_bathing_water"
    [] prefix = "klinik_atlas" -> "fetch_hospital_atlas"
    [] prefix = "zensus_grid" -> "fetch_population_density"
    [] prefix = "lhp" -> "fetch_flood"
    [] prefix = "denkmal" -> "fetch_heritage"
    [] prefix = "baumkataster" -> "fetch_trees"
    [] prefix = "autobahn" -> "fetch_traffic"
    [] prefix = "autobahn_webcam" -> "fetch_webcams"
    [] prefix = "koeln_wartezeiten" -> "fetch_koeln_wartezeiten"
    [] prefix = "gbfs" -> "fetch_sharing"
    [] prefix = "db_fasta" -> "fetch_station_facilities"
    [] prefix = "tankerkoenig" -> "fetch_fuel_prices"
    [] prefix = "berlin_viz" -> "fetch_berlin_road_events"
    [] prefix = "koeln_verkehr" -> "fetch_koeln_road_events"
    [] prefix = "hamburg_baustellen" -> "fetch_hamburg_road_events"
    [] prefix = "muenchen_baustellen" -> "fetch_muenchen_road_events"
    [] prefix = "mobidata_bw" -> "fetch_mobidata_road_events"
    [] prefix = "dortmund_baustellen" -> "fetch_dortmund_road_events"
    [] prefix = "sperrinfosys" -> "fetch_sperrinfosys_road_events"
    [] prefix \in {"bremen_baustellen", "koeln_baustellen_live", "koeln_ereignisse_live",
                   "berlin_verkehrsmeldungen", "hannover_verkehrsmeldungen",
                   "koeln_lez_live"} -> "situation"
    [] prefix \in {"koeln_traffic_flow", "kiel_zaehlstellen"} -> "measured"
    [] prefix = "frankfurt_parking" -> "fetch_frankfurt_parking"
    [] prefix = "wuppertal_parking" -> "fetch_wuppertal_parking"
    [] prefix = "magdeburg_parking" -> "fetch_magdeburg_parking"
    [] prefix = "parkendd" -> "fetch_parkendd"
    [] prefix = "muenchen_parkhaeuser" -> "fetch_muenchen_parking"
    [] prefix = "muenchen_radzaehl" -> "fetch_muenchen_radzaehl"
    [] prefix = "leipzig_radzaehl" -> "fetch_leipzig_radzaehl"
    [] prefix = "hamburg_radzaehl" -> "fetch_hamburg_radzaehl"
    [] prefix = "berlin_radzaehl" -> "fetch_berlin_radzaehl"
    [] prefix = "stuttgart_radzaehl" -> "fetch_stuttgart_radzaehl"
    [] prefix = "koeln_radzaehl" -> "fetch_koeln_radzaehl"
    [] prefix = "essen_radzaehl" -> "fetch_essen_radzaehl"
    [] prefix = "duesseldorf_radzaehl" -> "fetch_duesseldorf_radzaehl"
    [] prefix = "destination_one" -> "fetch_destination_one"
    [] prefix = "koeln_events" -> "fetch_koeln_events"
    [] prefix = "genesis_hospital" -> "fetch_hospitals"
    [] prefix = "genesis_hospital_wikidata" -> "fetch_hospitals_wikidata"
    [] prefix = "dwd_warnings" -> "fetch_dwd_warnings_all"
    [] prefix = "bbk_nina" -> "fetch_for_ags"
    [] prefix = "stada" -> "fetch_all_stations"
    [] prefix = "db_timetables" -> "fetch_station_departures"
    [] prefix = "db_timetables_arr" -> "fetch_station_arrivals"
    [] prefix = "divi_live" -> "fetch_icu_live"
    [] prefix = "dortmund_parking" -> "fetch_dortmund_parking"
    [] prefix = "hamburg_verkehrslage" -> "fetch_hamburg_verkehrslage"
    [] prefix = "hvv_geofox" -> "fetch_hvv_departures"
    [] prefix = "vgn" -> "fetch_vgn_departures"

Owns(key, f, slug) ==
  \/ /\ key[1] = "overpass" /\ slug = key[2]
     /\ \/ f = "fetch_pois" /\ key[3] = Param("type", "school")
        \/ f \in OsmFeatures /\ key[3] = Param("feature", f)
  \/ /\ key[1] = "genesis" /\ slug \in Registered
     /\ \/ f = "fetch_demographics" /\ slug = key[2]
        \/ f \in GenesisTables /\ key[2] = Scope(f, slug)
  \/ /\ key[1] = "smard"
     /\ \/ f = "load" /\ slug \in Zones /\ key[2] = Scope("load", slug)
        \/ f = "price" /\ slug = "DE" /\ key[2] = Scope("price", "DE")
  \/ /\ key[1] \in {"dwd_warnings", "stada"} /\ slug = "all"
     /\ f = FnOf(key[1])
  \/ /\ key[1] \notin {"overpass", "genesis", "smard", "dwd_warnings", "stada"}
     /\ slug = key[2]
     /\ f = FnOf(key[1])

(* An entry has one owner: no two adapters, and no two cities, write under *)
(* one key.                                                                *)
LEMMA OwnsOne ==
  \A key, f, g, slug, t : Owns(key, f, slug) /\ Owns(key, g, t) => f = g /\ slug = t
<1> SUFFICES ASSUME NEW key, NEW f, NEW g, NEW slug, NEW t,
                    Owns(key, f, slug), Owns(key, g, t)
             PROVE  f = g /\ slug = t
  OBVIOUS
<1>1. CASE key[1] = "overpass"
  BY <1>1, KeysDiffer DEF Owns
<1>2. CASE key[1] = "genesis"
  BY <1>2, KeysDiffer DEF Owns
<1>3. CASE key[1] = "smard"
  BY <1>3, KeysDiffer DEF Owns
<1>4. CASE key[1] \notin {"overpass", "genesis", "smard"}
  BY <1>4 DEF Owns
<1>5. QED
  BY <1>1, <1>2, <1>3, <1>4

(* Entries of elsewhere that a city sees only through a filter, or, the    *)
(* traffic of Cologne, unfiltered.                                         *)
Unfiltered == {"dwd_warnings", "stada", "koeln_traffic_flow"}

MayShow(key) ==
  IF key[1] \in Unfiltered THEN Payload \ {"null"} ELSE Payload \ {"null", "foreign"}

Gives(call) == MayShow(call.key) \cup {"nothing", "Other"}

Places == Registered \cup Zones \cup {"all", "DE", "eva"}

(* A call of an adapter for a city, under a key that is theirs alone; an   *)
(* adapter that does not filter is called for the city of its source.      *)
Proper(call) ==
  /\ call.do = "fetch"
  /\ call.fn \in Fetchers \ LandValueFormats
  /\ call.slug \in Places
  /\ Owns(call.key, call.fn, call.slug)
  /\ call.fn \in AnyFeed =>
       \/ call.key[1] \in Unfiltered
       \/ call.source \in DOMAIN Home /\ Home[call.source] = call.slug
  /\ call.fn \in OneCityFeeds => call.source \notin DOMAIN Home

(* The toggles and credentials of the call are not among those off.        *)
MaySwitch(h, call, o) ==
  \/ o \cap Needs(call) = {}
  \/ h \in Boards /\ call.source = "stada" /\ o \cap Needs(call) = {"stada"}

Ask0(s, v, o, t) == [slug |-> s, valid |-> v, off |-> o, has |-> t, got |-> <<>>]
Ask1(s, v, o, t, a) == [slug |-> s, valid |-> v, off |-> o, has |-> t, got |-> <<a>>]
Ask2(s, v, o, t, a, b) ==
  [slug |-> s, valid |-> v, off |-> o, has |-> t, got |-> <<a, b>>]

StatusOf(answer) == IF answer.do = "fetch" THEN "pending" ELSE answer.status

(* What a handler may say after its first result, and after its second.    *)
Says1(h, a, st) ==
  /\ a = "nothing" =>
       \/ st \in {"503", "error"}
       \/ h = "city_icu_live" /\ st = "no_data"
       \/ h \in Boards /\ st = "no_data"
       \/ h = "city_health" /\ st \in {"ok", "disabled"}
  /\ st = "ok" /\ a = "foreign" =>
       h \in {"city_weather_warnings", "weather-warnings", "live_traffic_flow"}

Says2(h, a, b, st) ==
  /\ a # "nothing"
  /\ b = "nothing" => \/ st \in {"503", "error"}
                      \/ h = "city_events" /\ a \in {"full", "part", "foreign"}
  /\ b # "foreign"

(* What every handler h does for a city s.                                 *)
Safe(h, s) ==
  \A v \in BOOLEAN : \A o, t :
    LET q == Handle(h, Ask0(s, v, o, t)) IN
    q.do = "fetch" =>
      /\ Proper(q) /\ MaySwitch(h, q, o)
      /\ \A a \in Gives(q) :
           LET q1 == Handle(h, Ask1(s, v, o, t, a)) IN
           /\ Says1(h, a, StatusOf(q1))
           /\ q1.do = "fetch" =>
                /\ Proper(q1) /\ MaySwitch(h, q1, o)
                /\ \A b \in Gives(q1) :
                     LET q2 == Handle(h, Ask2(s, v, o, t, a, b)) IN
                     q2.do # "fetch" /\ Says2(h, a, b, q2.status)

(***************************************************************************)
(* The handlers by name.                                                   *)
(***************************************************************************)
LEMMA Dispatch ==
  ASSUME NEW c
  PROVE
      /\ Handle("highlight-weather", c) = snapshot_one(c, "weather")
      /\ Handle("highlight-air", c) = snapshot_one(c, "air")
      /\ Handle("highlight-departures", c) = snapshot_departures(c)
      /\ Handle("city_base", c) = city_base(c)
      /\ Handle("city_weather", c) = city_weather(c)
      /\ Handle("city_solar", c) = city_solar(c)
      /\ Handle("city_air", c) = city_air(c)
      /\ Handle("city_air_uba", c) = city_air_uba(c)
      /\ Handle("city_water_level", c) = city_water_level(c)
      /\ Handle("city_pollen_uv", c) = city_pollen_uv(c)
      /\ Handle("city_fire_danger", c) = city_fire_danger(c)
      /\ Handle("city_bathing_water", c) = city_bathing_water(c)
      /\ Handle("city_hospitals_atlas", c) = city_hospitals_atlas(c)
      /\ Handle("city_population_density", c) = city_population_density(c)
      /\ Handle("city_flood", c) = city_flood(c)
      /\ Handle("city_heritage", c) = city_heritage(c)
      /\ Handle("city_tree_cadastre", c) = city_tree_cadastre(c)
      /\ Handle("city_traffic", c) = city_traffic(c)
      /\ Handle("city_webcams", c) = city_webcams(c)
      /\ Handle("city_office_wait_times", c) = city_office_wait_times(c)
      /\ Handle("city_sharing", c) = city_sharing(c)
      /\ Handle("city_station_facilities", c) = city_station_facilities(c)
      /\ Handle("city_fuel_prices", c) = city_fuel_prices(c)
      /\ Handle("city_pois", c) = city_pois(c)
      /\ Handle("city_playgrounds", c) = city_playgrounds(c)
      /\ Handle("city_drinking_water", c) = city_drinking_water(c)
      /\ Handle("city_public_toilets", c) = city_public_toilets(c)
      /\ Handle("city_markets", c) = city_markets(c)
      /\ Handle("city_parcel_lockers", c) = city_parcel_lockers(c)
      /\ Handle("city_post_offices", c) = city_post_offices(c)
      /\ Handle("city_post_boxes", c) = city_post_boxes(c)
      /\ Handle("city_public_wifi", c) = city_public_wifi(c)
      /\ Handle("city_recycling_centres", c) = city_recycling_centres(c)
      /\ Handle("city_government_offices", c) = city_government_offices(c)
      /\ Handle("city_education", c) = city_education(c)
      /\ Handle("city_road_events", c) = city_road_events(c)
      /\ Handle("city_parking", c) = city_parking(c)
      /\ Handle("city_bike_counts", c) = city_bike_counts(c)
      /\ Handle("city_events", c) = city_events(c)
      /\ Handle("city_demographics", c) = city_demographics(c)
      /\ Handle("city_health", c) = city_health(c)
      /\ Handle("city_unemployment", c) = city_unemployment(c)
      /\ Handle("city_tourism", c) = city_tourism(c)
      /\ Handle("city_construction", c) = city_construction(c)
      /\ Handle("city_power_load", c) = city_power_load(c)
      /\ Handle("city_power_price", c) = city_power_price(c)
      /\ Handle("city_weather_warnings", c) = city_weather_warnings(c)
      /\ Handle("city_civil_protection_warnings", c) = city_civil_protection_warnings(c)
      /\ Handle("city_stations", c) = city_stations(c)
      /\ Handle("city_station_departures", c) = city_station_departures(c)
      /\ Handle("city_station_arrivals", c) = city_station_arrivals(c)
      /\ Handle("city_icu_live", c) = city_icu_live(c)
      /\ Handle("city_solar_roofs", c) = city_solar_roofs(c)
      /\ Handle("city_charging", c) = city_charging(c)
      /\ Handle("city_district_heating", c) = city_district_heating(c)
      /\ Handle("city_charging_status", c) = city_charging_status(c)
      /\ Handle("city_transit", c) = city_transit(c)
      /\ Handle("city_geo", c) = city_geo(c)
      /\ Handle("city_election", c) = city_election(c)
      /\ Handle("city_holidays", c) = city_holidays(c)
      /\ Handle("city_energy", c) = city_energy(c)
      /\ Handle("city_vehicle_registrations", c) = city_vehicle_registrations(c)
      /\ Handle("city_accidents", c) = city_accidents(c)
      /\ Handle("city_crime_stats", c) = city_crime_stats(c)
      /\ Handle("city_indicators", c) = city_indicators(c)
      /\ Handle("city_land_values", c) = city_land_values(c)
      /\ Handle("city_tax_rates", c) = city_tax_rates(c)
      /\ Handle("city_business_registrations", c) = city_business_registrations(c)
      /\ Handle("city_insolvencies", c) = city_insolvencies(c)
      /\ Handle("city_public_tenders", c) = city_public_tenders(c)
      /\ Handle("cities", c) = cities(c)
      /\ Handle("city", c) = city(c)
      /\ Handle("live_traffic_flow", c) = live_traffic_flow(c)
      /\ Handle("live_baustellen", c) = live_baustellen(c)
      /\ Handle("live_ereignisse", c) = live_ereignisse(c)
      /\ Handle("live_berlin_verkehrsmeldungen", c) = live_berlin_verkehrsmeldungen(c)
      /\ Handle("live_hannover_verkehrsmeldungen", c) = live_hannover_verkehrsmeldungen(c)
      /\ Handle("live_koeln_umweltzone", c) = live_koeln_umweltzone(c)
      /\ Handle("live_kiel_zaehlstellen", c) = live_kiel_zaehlstellen(c)
      /\ Handle("live_frankfurt_parking", c) = live_frankfurt_parking(c)
      /\ Handle("live_wuppertal_parking", c) = live_wuppertal_parking(c)
      /\ Handle("live_magdeburg_parking", c) = live_magdeburg_parking(c)
      /\ Handle("live_eround_charging", c) = live_eround_charging(c)
      /\ Handle("live_dortmund_parking", c) = live_dortmund_parking(c)
      /\ Handle("live_hamburg_verkehrslage", c) = live_hamburg_verkehrslage(c)
      /\ Handle("live_hamburg_departures", c) = live_hamburg_departures(c)
      /\ Handle("live_nuernberg_departures", c) = live_nuernberg_departures(c)
      /\ Handle("live_transit_departures", c) = live_transit_departures(c)
      /\ Handle("live_transit_trip", c) = live_transit_trip(c)
      /\ Handle("live_transit_route_status", c) = live_transit_route_status(c)
      /\ Handle("station_departures_by_eva", c) = station_departures_by_eva(c)
      /\ Handle("station_arrivals_by_eva", c) = station_arrivals_by_eva(c)
      /\ Handle("live_air", c) = live_air(c)
      /\ Handle("live_air_uba", c) = live_air_uba(c)
      /\ Handle("live_water_level", c) = live_water_level(c)
      /\ Handle("live_traffic", c) = live_traffic(c)
      /\ Handle("live_webcams", c) = live_webcams(c)
      /\ Handle("live_flood", c) = live_flood(c)
BY DEF Handle, RESOURCE_MAP, delegated_resources

(* What has failed is said to be unavailable.                              *)
LEMMA Settled ==
  \A a, e : /\ Settle(a, e).do = "say"
            /\ a = "nothing" => Settle(a, e).status = "503"
BY DEF Settle, Say, Nothing, Empty

(* The requests with no, one and two results.                              *)
LEMMA Fields ==
  \A s, v, o, t, a, b :
    /\ Ask0(s, v, o, t).slug = s /\ Ask1(s, v, o, t, a).slug = s
    /\ Ask2(s, v, o, t, a, b).slug = s
    /\ Ask0(s, v, o, t).off = o /\ Ask1(s, v, o, t, a).off = o
    /\ Ask2(s, v, o, t, a, b).off = o
    /\ Ask0(s, v, o, t).valid = v /\ Ask1(s, v, o, t, a).valid = v
    /\ Ask2(s, v, o, t, a, b).valid = v
    /\ Ask0(s, v, o, t).has = t /\ Ask1(s, v, o, t, a).has = t
    /\ Ask2(s, v, o, t, a, b).has = t
    /\ Ask0(s, v, o, t).got = <<>>
    /\ Ask1(s, v, o, t, a).got # <<>> /\ Ask1(s, v, o, t, a).got[1] = a
    /\ Len(Ask1(s, v, o, t, a).got) = 1
    /\ Ask2(s, v, o, t, a, b).got # <<>> /\ Ask2(s, v, o, t, a, b).got[1] = a
    /\ Len(Ask2(s, v, o, t, a, b).got) = 2 /\ Ask2(s, v, o, t, a, b).got[2] = b
BY DEF Ask0, Ask1, Ask2

(***************************************************************************)
(* Handlers without a fetch.                                               *)
(***************************************************************************)
Quiet(h, s) == \A c : c.slug = s => Handle(h, c).do = "say"

(* They fetch nothing, so there is nothing to say of a fetch.              *)
LEMMA QuietSafe == ASSUME NEW h, NEW s, Quiet(h, s) PROVE Safe(h, s)
BY Fields DEF Quiet, Safe

(***************************************************************************)
(* Handlers with one fetch.  If the validity of the parameters is an       *)
(* allowed one (none is in a city that is not allowed), such a handler is  *)
(* the fetch of the given toggles, whose result is settled with e for no   *)
(* entries; what it says of that may still be replaced by an error.        *)
(***************************************************************************)
Shaped(h, s, call, switches, e, allowed) ==
  /\ call.do = "fetch" /\ Needs(call) \subseteq switches
  /\ \A c : c.slug = s /\ c.valid \in BOOLEAN =>
       LET body == Toggled(c, switches, Upstream(c, call, e)) IN
       IF c.valid \in allowed
       THEN Handle(h, c) \in {body, Paged(c, body), Degraded(body)}
       ELSE Handle(h, c).do = "say"

(* A fetch is not replaced, and what is said of an outage stays an error.  *)
LEMMA Replaced ==
  ASSUME NEW c, NEW body, NEW answer \in {body, Paged(c, body), Degraded(body)}
  PROVE  /\ body.do = "fetch" => answer = body
         /\ answer.do = "fetch" => answer = body
         /\ body.do = "say" => answer.do = "say"
         /\ body.do = "say" /\ body.status = "503" => answer.status \in {"503", "error"}
BY DEF Paged, Degraded, Say

(* Such a handler makes the one fetch, and then says something.            *)
LEMMA ShapedOnce ==
  ASSUME NEW h, NEW s, NEW call, NEW switches, NEW e, NEW allowed,
         Shaped(h, s, call, switches, e, allowed)
  PROVE  \A v \in BOOLEAN : \A o, t : Handle(h, Ask0(s, v, o, t)).do = "fetch" =>
           /\ Handle(h, Ask0(s, v, o, t)) = call
           /\ o \cap Needs(call) = {}
           /\ \A a : /\ Handle(h, Ask1(s, v, o, t, a)).do = "say"
                     /\ a = "nothing" =>
                          Handle(h, Ask1(s, v, o, t, a)).status \in {"503", "error"}
<1> SUFFICES ASSUME NEW v \in BOOLEAN, NEW o, NEW t, Handle(h, Ask0(s, v, o, t)).do = "fetch"
             PROVE  /\ Handle(h, Ask0(s, v, o, t)) = call
                    /\ o \cap Needs(call) = {}
                    /\ \A a : /\ Handle(h, Ask1(s, v, o, t, a)).do = "say"
                              /\ a = "nothing" =>
                                   Handle(h, Ask1(s, v, o, t, a)).status \in {"503", "error"}
  OBVIOUS
<1> DEFINE Body(c) == Toggled(c, switches, Upstream(c, call, e))
<1>1. /\ Body(Ask0(s, v, o, t)) \in {call, Say("disabled")}
      /\ Body(Ask0(s, v, o, t)) = call => o \cap switches = {}
  BY Fields DEF Toggled, Upstream, On, Say, Shaped
<1>2. \A a : o \cap switches = {} => Body(Ask1(s, v, o, t, a)) = Settle(a, e)
  BY Fields DEF Toggled, Upstream, On
<1> HIDE DEF Body
<1>3. \A c : c.slug = s /\ c.valid = v =>
        IF v \in allowed
        THEN Handle(h, c) \in {Body(c), Paged(c, Body(c)), Degraded(Body(c))}
        ELSE Handle(h, c).do = "say"
  BY DEF Shaped, Body
<1>4. v \in allowed /\ Handle(h, Ask0(s, v, o, t)) = Body(Ask0(s, v, o, t))
  <2>1. Ask0(s, v, o, t).slug = s /\ Ask0(s, v, o, t).valid = v
    BY Fields
  <2>2. v \in allowed
    BY <1>3, <2>1
  <2>3. Handle(h, Ask0(s, v, o, t)) \in
          {Body(Ask0(s, v, o, t)), Paged(Ask0(s, v, o, t), Body(Ask0(s, v, o, t))),
           Degraded(Body(Ask0(s, v, o, t)))}
    BY <1>3, <2>1, <2>2
  <2>4. QED
    BY <2>2, <2>3, Replaced
<1>5. Handle(h, Ask0(s, v, o, t)) = call /\ o \cap switches = {}
  BY <1>1, <1>4 DEF Say
<1>6. ASSUME NEW a
      PROVE  /\ Handle(h, Ask1(s, v, o, t, a)).do = "say"
             /\ a = "nothing" =>
                  Handle(h, Ask1(s, v, o, t, a)).status \in {"503", "error"}
  <2>1. Body(Ask1(s, v, o, t, a)) = Settle(a, e)
    BY <1>2, <1>5
  <2>2. Handle(h, Ask1(s, v, o, t, a)) \in
          {Settle(a, e), Paged(Ask1(s, v, o, t, a), Settle(a, e)), Degraded(Settle(a, e))}
    BY <1>3, <1>4, <2>1, Fields
  <2>3. QED
    BY <2>2, Settled, Replaced
<1>7. QED
  BY <1>5, <1>6 DEF Shaped

(* So it is safe if the fetch is a proper one.                             *)
LEMMA ShapedSafe ==
  ASSUME NEW h, NEW s, NEW call, NEW switches, NEW e, NEW allowed,
         Shaped(h, s, call, switches, e, allowed), Proper(call),
         call.key[1] \notin Unfiltered \/ h = "live_traffic_flow"
  PROVE  Safe(h, s)
<1>1. call.key[1] \notin Unfiltered => \A a \in Gives(call) : a # "foreign"
  BY DEF Gives, MayShow
<1>2. QED
  BY <1>1, ShapedOnce DEF Safe, MaySwitch, Says1, StatusOf

(***************************************************************************)
(* The most frequent fetch: of one toggle, under the usual key.            *)
(***************************************************************************)
Row(source, f) ==
  /\ f = FnOf(source)
  /\ source \notin {"overpass", "genesis", "smard"} \cup Unfiltered
  /\ f \in Fetchers \ (LandValueFormats \cup AnyFeed)
  /\ f \in OneCityFeeds => source \notin DOMAIN Home

(* Such a fetch is proper, for every city of the registry.                 *)
LEMMA RowProper ==
  ASSUME NEW source, NEW f, Row(source, f), NEW s \in Registered
  PROVE  /\ Proper(CityFetch(source, f, s))
         /\ CityFetch(source, f, s).key[1] \notin Unfiltered
         /\ Proper(OnDemand(CityFetch(source, f, s)))
         /\ OnDemand(CityFetch(source, f, s)).key[1] \notin Unfiltered
BY DEF Row, Proper, CityFetch, Fetch, Owns, Places, Unfiltered, OnDemand

(* The sources that are fetched so.                                        *)
LEMMA SourceRows ==
  /\ Row("autobahn", "fetch_traffic")
  /\ Row("autobahn_webcam", "fetch_webcams")
  /\ Row("baumkataster", "fetch_trees")
  /\ Row("bbk_nina", "fetch_for_ags")
  /\ Row("berlin_radzaehl", "fetch_berlin_radzaehl")
  /\ Row("berlin_verkehrsmeldungen", "situation")
  /\ Row("berlin_viz", "fetch_berlin_road_events")
  /\ Row("bremen_baustellen", "situation")
  /\ Row("db_fasta", "fetch_station_facilities")
  /\ Row("db_timetables", "fetch_station_departures")
  /\ Row("db_timetables_arr", "fetch_station_arrivals")
  /\ Row("denkmal", "fetch_heritage")
  /\ Row("destination_one", "fetch_destination_one")
  /\ Row("divi_live", "fetch_icu_live")
  /\ Row("dortmund_baustellen", "fetch_dortmund_road_events")
  /\ Row("dortmund_parking", "fetch_dortmund_parking")
  /\ Row("duesseldorf_radzaehl", "fetch_duesseldorf_radzaehl")
  /\ Row("dwd", "fetch_weather")
  /\ Row("dwd_fire", "fetch_fire_danger")
  /\ Row("dwd_pollen", "fetch_pollen_uv")
  /\ Row("eea_bathing", "fetch_bathing_water")
  /\ Row("essen_radzaehl", "fetch_essen_radzaehl")
  /\ Row("gbfs", "fetch_sharing")
  /\ Row("genesis_hospital", "fetch_hospitals")
  /\ Row("hamburg_baustellen", "fetch_hamburg_road_events")
  /\ Row("hamburg_radzaehl", "fetch_hamburg_radzaehl")
  /\ Row("hamburg_verkehrslage", "fetch_hamburg_verkehrslage")
  /\ Row("hannover_verkehrsmeldungen", "situation")
  /\ Row("klinik_atlas", "fetch_hospital_atlas")
  /\ Row("koeln_baustellen_live", "situation")
  /\ Row("koeln_ereignisse_live", "situation")
  /\ Row("koeln_events", "fetch_koeln_events")
  /\ Row("koeln_lez_live", "situation")
  /\ Row("koeln_radzaehl", "fetch_koeln_radzaehl")
  /\ Row("koeln_verkehr", "fetch_koeln_road_events")
  /\ Row("koeln_wartezeiten", "fetch_koeln_wartezeiten")
  /\ Row("leipzig_radzaehl", "fetch_leipzig_radzaehl")
  /\ Row("lhp", "fetch_flood")
  /\ Row("mobidata_bw", "fetch_mobidata_road_events")
  /\ Row("muenchen_baustellen", "fetch_muenchen_road_events")
  /\ Row("muenchen_parkhaeuser", "fetch_muenchen_parking")
  /\ Row("muenchen_radzaehl", "fetch_muenchen_radzaehl")
  /\ Row("parkendd", "fetch_parkendd")
  /\ Row("pegelonline", "fetch_water_level")
  /\ Row("solar", "fetch_solar")
  /\ Row("sperrinfosys", "fetch_sperrinfosys_road_events")
  /\ Row("stuttgart_radzaehl", "fetch_stuttgart_radzaehl")
  /\ Row("tankerkoenig", "fetch_fuel_prices")
  /\ Row("uba", "fetch_air_uba")
  /\ Row("wikidata", "fetch_city_base")
  /\ Row("zensus_grid", "fetch_population_density")
BY DEF Row, FnOf, Fetchers, LandValueFormats, AnyFeed, OsmFeatures, GenesisTables,
       SmardSeries, Publications, Unfiltered, OneCityFeeds, Home

(* The toggles and credentials that each of them needs.                    *)
LEMMA SourceNeeds ==
  ASSUME NEW s
  PROVE
    /\ Needs(CityFetch("autobahn", "fetch_traffic", s)) = {"autobahn"}
    /\ Needs(CityFetch("autobahn_webcam", "fetch_webcams", s))
           = {"autobahn_webcam"}
    /\ Needs(CityFetch("baumkataster", "fetch_trees", s)) = {"baumkataster"}
    /\ Needs(CityFetch("bbk_nina", "fetch_for_ags", s)) = {"bbk_nina"}
    /\ Needs(CityFetch("berlin_radzaehl", "fetch_berlin_radzaehl", s))
           = {"berlin_radzaehl"}
    /\ Needs(CityFetch("berlin_verkehrsmeldungen", "situation", s))
           = {"berlin_verkehrsmeldungen", "mobilithek_cert"}
    /\ Needs(CityFetch("berlin_viz", "fetch_berlin_road_events", s))
           = {"berlin_viz"}
    /\ Needs(CityFetch("bremen_baustellen", "situation", s))
           = {"bremen_baustellen", "mobilithek_cert"}
    /\ Needs(CityFetch("db_fasta", "fetch_station_facilities", s))
           = {"db_fasta", "db_credentials"}
    /\ Needs(CityFetch("db_timetables", "fetch_station_departures", s))
           = {"db_timetables", "db_credentials"}
    /\ Needs(CityFetch("denkmal", "fetch_heritage", s)) = {"denkmal"}
    /\ Needs(CityFetch("destination_one", "fetch_destination_one", s))
           = {"destination_one"}
    /\ Needs(CityFetch("divi_live", "fetch_icu_live", s)) = {"divi"}
    /\ Needs(CityFetch("dortmund_baustellen", "fetch_dortmund_road_events", s))
           = {"dortmund_baustellen"}
    /\ Needs(CityFetch("dortmund_parking", "fetch_dortmund_parking", s))
           = {"dortmund_parking"}
    /\ Needs(CityFetch("duesseldorf_radzaehl", "fetch_duesseldorf_radzaehl", s))
           = {"duesseldorf_radzaehl"}
    /\ Needs(CityFetch("dwd", "fetch_weather", s)) = {"dwd"}
    /\ Needs(CityFetch("dwd_fire", "fetch_fire_danger", s)) = {"dwd_fire"}
    /\ Needs(CityFetch("dwd_pollen", "fetch_pollen_uv", s)) = {"dwd_pollen"}
    /\ Needs(CityFetch("eea_bathing", "fetch_bathing_water", s))
           = {"eea_bathing"}
    /\ Needs(CityFetch("essen_radzaehl", "fetch_essen_radzaehl", s))
           = {"essen_radzaehl"}
    /\ Needs(CityFetch("gbfs", "fetch_sharing", s)) = {"gbfs"}
    /\ Needs(CityFetch("genesis_hospital", "fetch_hospitals", s)) = Genesis
    /\ Needs(CityFetch("hamburg_baustellen", "fetch_hamburg_road_events", s))
           = {"hamburg_baustellen"}
    /\ Needs(CityFetch("hamburg_radzaehl", "fetch_hamburg_radzaehl", s))
           = {"hamburg_radzaehl"}
    /\ Needs(CityFetch("hamburg_verkehrslage", "fetch_hamburg_verkehrslage", s))
           = {"hamburg_verkehrslage"}
    /\ Needs(CityFetch("hannover_verkehrsmeldungen", "situation", s))
           = {"hannover_verkehrsmeldungen", "mobilithek_cert"}
    /\ Needs(CityFetch("klinik_atlas", "fetch_hospital_atlas", s))
           = {"klinik_atlas"}
    /\ Needs(CityFetch("koeln_baustellen_live", "situation", s))
           = {"koeln_baustellen_live", "mobilithek_cert"}
    /\ Needs(CityFetch("koeln_ereignisse_live", "situation", s))
           = {"koeln_ereignisse_live", "mobilithek_cert"}
    /\ Needs(CityFetch("koeln_events", "fetch_koeln_events", s))
           = {"koeln_events"}
    /\ Needs(CityFetch("koeln_lez_live", "situation", s))
           = {"koeln_lez_live", "mobilithek_cert"}
    /\ Needs(CityFetch("koeln_radzaehl", "fetch_koeln_radzaehl", s))
           = {"koeln_radzaehl"}
    /\ Needs(CityFetch("koeln_verkehr", "fetch_koeln_road_events", s))
           = {"koeln_verkehr"}
    /\ Needs(CityFetch("koeln_wartezeiten", "fetch_koeln_wartezeiten", s))
           = {"koeln_wartezeiten"}
    /\ Needs(CityFetch("leipzig_radzaehl", "fetch_leipzig_radzaehl", s))
           = {"leipzig_radzaehl"}
    /\ Needs(CityFetch("lhp", "fetch_flood", s)) = {"lhp"}
    /\ Needs(CityFetch("mobidata_bw", "fetch_mobidata_road_events", s))
           = {"mobidata_bw"}
    /\ Needs(CityFetch("muenchen_baustellen", "fetch_muenchen_road_events", s))
           = {"muenchen_baustellen"}
    /\ Needs(CityFetch("muenchen_parkhaeuser", "fetch_muenchen_parking", s))
           = {"muenchen_parkhaeuser"}
    /\ Needs(CityFetch("muenchen_radzaehl", "fetch_muenchen_radzaehl", s))
           = {"muenchen_radzaehl"}
    /\ Needs(CityFetch("parkendd", "fetch_parkendd", s)) = {"parkendd"}
    /\ Needs(CityFetch("pegelonline", "fetch_water_level", s)) = {"pegelonline"}
    /\ Needs(CityFetch("solar", "fetch_solar", s)) = {"solar"}
    /\ Needs(CityFetch("sperrinfosys", "fetch_sperrinfosys_road_events", s))
           = {"sperrinfosys"}
    /\ Needs(CityFetch("stuttgart_radzaehl", "fetch_stuttgart_radzaehl", s))
           = {"stuttgart_radzaehl"}
    /\ Needs(CityFetch("tankerkoenig", "fetch_fuel_prices", s))
           = {"tankerkoenig"}
    /\ Needs(CityFetch("uba", "fetch_air_uba", s)) = {"uba"}
    /\ Needs(CityFetch("wikidata", "fetch_city_base", s)) = {"wikidata"}
    /\ Needs(CityFetch("zensus_grid", "fetch_population_density", s))
           = {"zensus_grid"}
    /\ Needs(OnDemand(CityFetch("tankerkoenig", "fetch_fuel_prices", s)))
           = {"tankerkoenig"}
BY DEF Needs, CityFetch, Fetch, OnDemand, GenesisTables, Home, Genesis

CoveredIn(endpoint, s) == IF is_covered(endpoint, s) THEN BOOLEAN ELSE {}

(* The routes with one source, their toggles and what they say of no       *)
(* entries.                                                                *)
LEMMA SimpleShapes ==
  ASSUME NEW s
  PROVE
    /\ Shaped("city_base", s, CityFetch("wikidata", "fetch_city_base", s),
              {"wikidata"}, "ok", BOOLEAN)
    /\ Shaped("city_weather", s, CityFetch("dwd", "fetch_weather", s),
              {"dwd"}, "ok", BOOLEAN)
    /\ Shaped("city_solar", s, CityFetch("solar", "fetch_solar", s),
              {"solar"}, "ok", BOOLEAN)
    /\ Shaped("city_air", s, CityFetch("uba", "fetch_air_uba", s),
              {"uba"}, "ok", BOOLEAN)
    /\ Shaped("city_air_uba", s, CityFetch("uba", "fetch_air_uba", s),
              {"uba"}, "ok", BOOLEAN)
    /\ Shaped("city_water_level", s,
              CityFetch("pegelonline", "fetch_water_level", s),
              {"pegelonline"}, "no_data", BOOLEAN)
    /\ Shaped("city_pollen_uv", s,
              CityFetch("dwd_pollen", "fetch_pollen_uv", s),
              {"dwd_pollen"}, "ok", BOOLEAN)
    /\ Shaped("city_fire_danger", s,
              CityFetch("dwd_fire", "fetch_fire_danger", s),
              {"dwd_fire"}, "ok", BOOLEAN)
    /\ Shaped("city_bathing_water", s,
              CityFetch("eea_bathing", "fetch_bathing_water", s),
              {"eea_bathing"}, "ok", BOOLEAN)
    /\ Shaped("city_hospitals_atlas", s,
              CityFetch("klinik_atlas", "fetch_hospital_atlas", s),
              {"klinik_atlas"}, "ok", BOOLEAN)
    /\ Shaped("city_population_density", s,
              CityFetch("zensus_grid", "fetch_population_density", s),
              {"zensus_grid"}, "no_data", BOOLEAN)
    /\ Shaped("city_flood", s, CityFetch("lhp", "fetch_flood", s),
              {"lhp"}, "ok", CoveredIn("flood", s))
    /\ Shaped("city_heritage", s, CityFetch("denkmal", "fetch_heritage", s),
              {"denkmal"}, "ok", CoveredIn("heritage", s))
    /\ Shaped("city_tree_cadastre", s,
              CityFetch("baumkataster", "fetch_trees", s),
              {"baumkataster"}, "ok", CoveredIn("tree_cadastre", s))
    /\ Shaped("city_traffic", s, CityFetch("autobahn", "fetch_traffic", s),
              {"autobahn"}, "ok", CoveredIn("traffic", s))
    /\ Shaped("city_webcams", s,
              CityFetch("autobahn_webcam", "fetch_webcams", s),
              {"autobahn_webcam"}, "no_data", CoveredIn("webcams", s))
    /\ Shaped("city_office_wait_times", s,
              CityFetch("koeln_wartezeiten", "fetch_koeln_wartezeiten", s),
              {"koeln_wartezeiten"}, "no_data", CoveredIn("office_wait_times", s))
    /\ Shaped("city_sharing", s, CityFetch("gbfs", "fetch_sharing", s),
              {"gbfs"}, "no_data", CoveredIn("sharing", s))
    /\ Shaped("city_station_facilities", s,
              CityFetch("db_fasta", "fetch_station_facilities", s),
              {"db_fasta", "db_credentials"}, "ok", BOOLEAN)
    /\ Shaped("city_civil_protection_warnings", s,
              CityFetch("bbk_nina", "fetch_for_ags", s),
              {"bbk_nina"}, "ok", BOOLEAN)
    /\ Shaped("live_dortmund_parking", s,
              CityFetch("dortmund_parking", "fetch_dortmund_parking", s),
              {"dortmund_parking"}, "no_data", BOOLEAN)
    /\ Shaped("live_hamburg_verkehrslage", s,
              CityFetch("hamburg_verkehrslage", "fetch_hamburg_verkehrslage", s),
              {"hamburg_verkehrslage"}, "no_data", BOOLEAN)
    /\ Shaped("live_air", s, CityFetch("uba", "fetch_air_uba", s),
              {"uba"}, "ok", BOOLEAN)
    /\ Shaped("live_air_uba", s, CityFetch("uba", "fetch_air_uba", s),
              {"uba"}, "ok", BOOLEAN)
    /\ Shaped("live_water_level", s,
              CityFetch("pegelonline", "fetch_water_level", s),
              {"pegelonline"}, "no_data", BOOLEAN)
    /\ Shaped("live_traffic", s, CityFetch("autobahn", "fetch_traffic", s),
              {"autobahn"}, "ok", CoveredIn("traffic", s))
    /\ Shaped("live_webcams", s,
              CityFetch("autobahn_webcam", "fetch_webcams", s),
              {"autobahn_webcam"}, "no_data", CoveredIn("webcams", s))
    /\ Shaped("live_flood", s, CityFetch("lhp", "fetch_flood", s),
              {"lhp"}, "ok", CoveredIn("flood", s))
    /\ Shaped("city_fuel_prices", s,
              OnDemand(CityFetch("tankerkoenig", "fetch_fuel_prices", s)),
              {"tankerkoenig", "tankerkoenig_key"}, "no_data", BOOLEAN)
<1> USE SourceNeeds DEF Shaped, CoveredIn
<1>1. \A source, f : /\ CityFetch(source, f, s).do = "fetch"
                    /\ OnDemand(CityFetch(source, f, s)).do = "fetch"
  BY DEF CityFetch, Fetch, OnDemand
<1>2. \A c, switches : Toggled(c, switches, Say("not_covered")).do = "say"
  BY DEF Toggled, Say
<1>3. Say("not_covered").do = "say"
  BY DEF Say
<1>4. QED
  BY <1>1, <1>2, <1>3 DEF Handle, RESOURCE_MAP, delegated_resources, OneSource,
         OneSourceOrNoData, Covered, city_air, city_air_uba, city_base,
         city_bathing_water, city_civil_protection_warnings, city_fire_danger,
         city_flood, city_fuel_prices, city_heritage, city_hospitals_atlas,
         city_office_wait_times, city_pollen_uv, city_population_density,
         city_sharing, city_solar, city_station_facilities, city_traffic,
         city_tree_cadastre, city_water_level, city_weather, city_webcams,
         live_air, live_air_uba, live_dortmund_parking, live_flood,
         live_hamburg_verkehrslage, live_traffic, live_water_level,
         live_webcams

SimpleRoutes == {"city_base", "city_weather", "city_solar", "city_air",
  "city_air_uba", "city_water_level", "city_pollen_uv", "city_fire_danger",
  "city_bathing_water", "city_hospitals_atlas", "city_population_density",
  "city_flood", "city_heritage", "city_tree_cadastre", "city_traffic",
  "city_webcams", "city_office_wait_times", "city_sharing",
  "city_station_facilities", "city_civil_protection_warnings",
  "live_dortmund_parking", "live_hamburg_verkehrslage", "live_air",
  "live_air_uba", "live_water_level", "live_traffic", "live_webcams",
  "live_flood", "city_fuel_prices"}

(* They are safe, as their fetches are proper.                             *)
LEMMA SimpleSafe == \A h \in SimpleRoutes, s \in Registered : Safe(h, s)
<1> SUFFICES ASSUME NEW s \in Registered PROVE \A h \in SimpleRoutes : Safe(h, s)
  BY Zenon
<1> DEFINE Fits(call) == Proper(call) /\ call.key[1] \notin Unfiltered
<1>1. /\ Fits(CityFetch("wikidata", "fetch_city_base", s))
      /\ Fits(CityFetch("dwd", "fetch_weather", s))
      /\ Fits(CityFetch("solar", "fetch_solar", s))
      /\ Fits(CityFetch("uba", "fetch_air_uba", s))
      /\ Fits(CityFetch("pegelonline", "fetch_water_level", s))
      /\ Fits(CityFetch("dwd_pollen", "fetch_pollen_uv", s))
      /\ Fits(CityFetch("dwd_fire", "fetch_fire_danger", s))
      /\ Fits(CityFetch("eea_bathing", "fetch_bathing_water", s))
      /\ Fits(CityFetch("klinik_atlas", "fetch_hospital_atlas", s))
      /\ Fits(CityFetch("zensus_grid", "fetch_population_density", s))
      /\ Fits(CityFetch("lhp", "fetch_flood", s))
      /\ Fits(CityFetch("denkmal", "fetch_heritage", s))
      /\ Fits(CityFetch("baumkataster", "fetch_trees", s))
      /\ Fits(CityFetch("autobahn", "fetch_traffic", s))
      /\ Fits(CityFetch("autobahn_webcam", "fetch_webcams", s))
      /\ Fits(CityFetch("koeln_wartezeiten", "fetch_koeln_wartezeiten", s))
      /\ Fits(CityFetch("gbfs", "fetch_sharing", s))
      /\ Fits(CityFetch("db_fasta", "fetch_station_facilities", s))
      /\ Fits(CityFetch("bbk_nina", "fetch_for_ags", s))
      /\ Fits(CityFetch("dortmund_parking", "fetch_dortmund_parking", s))
      /\ Fits(CityFetch("hamburg_verkehrslage", "fetch_hamburg_verkehrslage", s))
      /\ Fits(OnDemand(CityFetch("tankerkoenig", "fetch_fuel_prices", s)))
  BY SourceRows, RowProper
<1>2. \A h, call, switches, e, allowed :
        Shaped(h, s, call, switches, e, allowed) /\ Fits(call) => Safe(h, s)
  BY ShapedSafe
<1> HIDE DEF Fits
<1>3. QED
  BY <1>1, <1>2, SimpleShapes DEF SimpleRoutes

(***************************************************************************)
(* Objects of OpenStreetMap.                                               *)
(***************************************************************************)
OsmCall(s, param, f) == Fetch("overpass", <<"overpass", s, param>>, f, s)

(* Every fetch of OpenStreetMap is proper: its key names the city and the  *)
(* feature.                                                                *)
LEMMA OsmProper ==
  \A s \in Registered :
    /\ Proper(OsmCall(s, Param("type", "school"), "fetch_pois"))
    /\ \A f \in OsmFeatures : Proper(OsmCall(s, Param("feature", f), f))
    /\ \A param, f : OsmCall(s, param, f).key[1] \notin Unfiltered
BY DEF OsmCall, Fetch, Proper, Owns, Places, Fetchers, OsmFeatures, LandValueFormats,
       AnyFeed, Unfiltered, OneCityFeeds, Home

(* A list is cut the same whether the toggle is asked before or after. *)
LEMMA PagedToggled ==
  \A c, switches, answer :
    Toggled(c, switches, Paged(c, answer)) = Paged(c, Toggled(c, switches, answer))
BY DEF Toggled, Paged, Say

(* Parameters that are refused, after the toggle was asked or before. *)
ValidInside(h, s, call, switches, e, code) ==
  \A c : c.slug = s =>
    Handle(h, c) = Toggled(c, switches, Valid(c, code, Upstream(c, call, e)))
ValidOutside(h, s, call, switches, e, code) ==
  \A c : c.slug = s =>
    Handle(h, c) = Valid(c, code, Toggled(c, switches, Upstream(c, call, e)))

(* Either way the handler is shaped, with parameters that are valid.       *)
LEMMA ValidShaped ==
  ASSUME NEW h, NEW s, NEW call, NEW switches, NEW e, NEW code,
         call.do = "fetch", Needs(call) \subseteq switches,
         \/ ValidInside(h, s, call, switches, e, code)
         \/ ValidOutside(h, s, call, switches, e, code)
  PROVE  Shaped(h, s, call, switches, e, {TRUE})
<1>1. SUFFICES ASSUME NEW c, c.slug = s, c.valid \in BOOLEAN
      PROVE  IF c.valid \in {TRUE}
             THEN Handle(h, c) = Toggled(c, switches, Upstream(c, call, e))
             ELSE Handle(h, c).do = "say"
  BY DEF Shaped
<1>2. CASE c.valid = TRUE
  <2>1. \A answer : Valid(c, code, answer) = answer
    BY <1>2, Zenon DEF Valid
  <2>2. QED
    BY <1>1, <1>2, <2>1 DEF ValidInside, ValidOutside
<1>3. CASE c.valid = FALSE
  <2>1. \A answer : Valid(c, code, answer) = Say(code)
    BY <1>3, Zenon DEF Valid
  <2>2. Handle(h, c).do = "say"
    <3>1. Say(code).do = "say" /\ Toggled(c, switches, Say(code)).do = "say"
      BY DEF Toggled, Say
    <3>2. \/ Handle(h, c) = Toggled(c, switches, Say(code))
          \/ Handle(h, c) = Say(code)
      BY <1>1, <2>1 DEF ValidInside, ValidOutside
    <3>3. QED
      BY <3>1, <3>2
  <2>3. c.valid \notin {TRUE}
    BY <1>3
  <2>4. QED
    BY <2>2, <2>3
<1>4. QED
  BY <1>1, <1>2, <1>3

(* The routes of OpenStreetMap have one fetch each.                        *)
LEMMA OsmShapes ==
  ASSUME NEW s
  PROVE
    /\ Shaped("city_playgrounds", s,
              OsmCall(s, Param("feature", "playgrounds"), "playgrounds"),
              {"overpass"}, "ok", BOOLEAN)
    /\ Shaped("city_drinking_water", s,
              OsmCall(s, Param("feature", "drinking-water"), "drinking-water"),
              {"overpass"}, "ok", BOOLEAN)
    /\ Shaped("city_public_toilets", s,
              OsmCall(s, Param("feature", "public-toilets"), "public-toilets"),
              {"overpass"}, "ok", BOOLEAN)
    /\ Shaped("city_markets", s,
              OsmCall(s, Param("feature", "markets"), "markets"),
              {"overpass"}, "ok", BOOLEAN)
    /\ Shaped("city_parcel_lockers", s,
              OsmCall(s, Param("feature", "parcel-lockers"), "parcel-lockers"),
              {"overpass"}, "ok", BOOLEAN)
    /\ Shaped("city_post_offices", s,
              OsmCall(s, Param("feature", "post-offices"), "post-offices"),
              {"overpass"}, "ok", BOOLEAN)
    /\ Shaped("city_post_boxes", s,
              OsmCall(s, Param("feature", "post-boxes"), "post-boxes"),
              {"overpass"}, "ok", BOOLEAN)
    /\ Shaped("city_public_wifi", s,
              OsmCall(s, Param("feature", "public-wifi"), "public-wifi"),
              {"overpass"}, "ok", BOOLEAN)
    /\ Shaped("city_recycling_centres", s,
              OsmCall(s, Param("feature", "recycling-centres"), "recycling-centres"),
              {"overpass"}, "ok", BOOLEAN)
    /\ Shaped("city_government_offices", s,
              OsmCall(s, Param("feature", "government-offices"), "government-offices"),
              {"overpass"}, "ok", BOOLEAN)
    /\ Shaped("city_education", s,
              OsmCall(s, Param("feature", "education"), "education"),
              {"overpass"}, "ok", BOOLEAN)
    /\ Shaped("city_pois", s, OsmCall(s, Param("type", "school"), "fetch_pois"),
              {"overpass"}, "ok", {TRUE})
<1>1. \A param, f : OsmCall(s, param, f).do = "fetch"
  BY DEF OsmCall, Fetch
<1>2. \A param : /\ Needs(OsmCall(s, param, "fetch_pois")) = {"overpass"}
                 /\ \A f \in OsmFeatures : Needs(OsmCall(s, param, f)) = {"overpass"}
  BY DEF OsmCall, Fetch, Needs, Home, OsmFeatures, GenesisTables
<1>3. \A c : c.slug = s => \A param, f : OsmFetch(c, param, f) = OsmCall(s, param, f)
  BY DEF OsmFetch, OsmCall
<1>5. \A c : c.slug = s => \A f :
        osm_feature_response(c, f)
          = Paged(c, Toggled(c, {"overpass"},
                       Upstream(c, OsmCall(s, Param("feature", f), f), "ok")))
  BY <1>3, PagedToggled DEF osm_feature_response
<1>6. \A c : c.slug = s =>
        city_pois(c) = Toggled(c, {"overpass"}, Valid(c, "422",
                         Upstream(c, OsmCall(s, Param("type", "school"), "fetch_pois"), "ok")))
  BY <1>3 DEF city_pois
<1>7. ValidInside("city_pois", s, OsmCall(s, Param("type", "school"), "fetch_pois"),
                  {"overpass"}, "ok", "422")
  BY <1>6, Dispatch DEF ValidInside
<1>8. Shaped("city_pois", s, OsmCall(s, Param("type", "school"), "fetch_pois"),
             {"overpass"}, "ok", {TRUE})
  BY <1>1, <1>2, <1>7, ValidShaped
<1>9. /\ Shaped("city_playgrounds", s,
                OsmCall(s, Param("feature", "playgrounds"), "playgrounds"),
                {"overpass"}, "ok", BOOLEAN)
      /\ Shaped("city_drinking_water", s,
                OsmCall(s, Param("feature", "drinking-water"), "drinking-water"),
                {"overpass"}, "ok", BOOLEAN)
      /\ Shaped("city_public_toilets", s,
                OsmCall(s, Param("feature", "public-toilets"), "public-toilets"),
                {"overpass"}, "ok", BOOLEAN)
      /\ Shaped("city_markets", s,
                OsmCall(s, Param("feature", "markets"), "markets"),
                {"overpass"}, "ok", BOOLEAN)
      /\ Shaped("city_parcel_lockers", s,
                OsmCall(s, Param("feature", "parcel-lockers"), "parcel-lockers"),
                {"overpass"}, "ok", BOOLEAN)
      /\ Shaped("city_post_offices", s,
                OsmCall(s, Param("feature", "post-offices"), "post-offices"),
                {"overpass"}, "ok", BOOLEAN)
      /\ Shaped("city_post_boxes", s,
                OsmCall(s, Param("feature", "post-boxes"), "post-boxes"),
                {"overpass"}, "ok", BOOLEAN)
      /\ Shaped("city_public_wifi", s,
                OsmCall(s, Param("feature", "public-wifi"), "public-wifi"),
                {"overpass"}, "ok", BOOLEAN)
      /\ Shaped("city_recycling_centres", s,
                OsmCall(s, Param("feature", "recycling-centres"), "recycling-centres"),
                {"overpass"}, "ok", BOOLEAN)
      /\ Shaped("city_government_offices", s,
                OsmCall(s, Param("feature", "government-offices"), "government-offices"),
                {"overpass"}, "ok", BOOLEAN)
      /\ Shaped("city_education", s,
                OsmCall(s, Param("feature", "education"), "education"),
                {"overpass"}, "ok", BOOLEAN)
  BY <1>1, <1>2, <1>5 DEF Shaped, Handle, RESOURCE_MAP, delegated_resources,
         OsmFeatures, city_playgrounds, city_drinking_water,
         city_public_toilets, city_markets, city_parcel_lockers,
         city_post_offices, city_post_boxes, city_public_wifi,
         city_recycling_centres, city_government_offices, city_education
<1>10. QED
  BY <1>8, <1>9, Zenon

OsmRoutes == {"city_playgrounds", "city_drinking_water", "city_public_toilets",
  "city_markets", "city_parcel_lockers", "city_post_offices",
  "city_post_boxes", "city_public_wifi", "city_recycling_centres",
  "city_government_offices", "city_education", "city_pois"}

(* They are safe.                                                          *)
LEMMA OsmSafe == \A h \in OsmRoutes, s \in Registered : Safe(h, s)
<1> SUFFICES ASSUME NEW s \in Registered PROVE \A h \in OsmRoutes : Safe(h, s)
  BY Zenon
<1>1. \A h, param, f, switches, e, allowed :
        /\ Shaped(h, s, OsmCall(s, param, f), switches, e, allowed)
        /\ Proper(OsmCall(s, param, f))
        => Safe(h, s)
  BY ShapedSafe, OsmProper
<1>2. QED
  BY <1>1, OsmShapes, OsmProper DEF OsmRoutes, OsmFeatures

(***************************************************************************)
(* Tables of GENESIS, series of SMARD, and stops that the request names.   *)
(***************************************************************************)
TableCall(d, s) == Fetch("genesis", <<"genesis", Scope(d, s), "">>, d, s)
SeriesCall(m, z) == Fetch("smard", <<"smard", Scope(m, z), "">>, m, z)
StopCall(source, town, what, f) == Fetch(source, <<source, town, what>>, f, town)
EvaCall(prefix, f) == Fetch("db_timetables", <<prefix, "eva", "">>, f, "eva")

(* A table is kept under its city, a series under the zone of the city.    *)
LEMMA KeyedProper ==
  ASSUME NEW s \in Registered
  PROVE
    /\ \A d \in GenesisTables :
         Proper(TableCall(d, s)) /\ TableCall(d, s).key[1] \notin Unfiltered
    /\ Proper(SeriesCall("load", SMARD_STATE_TO_ZONE(s)))
    /\ Proper(SeriesCall("price", "DE"))
    /\ \A m, z : SeriesCall(m, z).key[1] \notin Unfiltered
<1>1. SMARD_STATE_TO_ZONE(s) \in Zones
  BY DEF Zones
<1>2. QED
  BY <1>1 DEF TableCall, SeriesCall, Fetch, Proper, Owns, Places, Fetchers, OsmFeatures,
         GenesisTables, SmardSeries, Publications, LandValueFormats, AnyFeed, Unfiltered,
         OneCityFeeds, Home

(* The boards that a request names by a stop or a number are kept under    *)
(* them.                                                                   *)
LEMMA StopProper ==
  /\ Proper(StopCall("hvv_geofox", "hamburg", "station", "fetch_hvv_departures"))
  /\ Proper(StopCall("vgn", "nuernberg", "stop_id", "fetch_vgn_departures"))
  /\ \A town, what, f : /\ StopCall("hvv_geofox", town, what, f).key[1] \notin Unfiltered
                        /\ StopCall("vgn", town, what, f).key[1] \notin Unfiltered
  /\ Proper(EvaCall("db_timetables", "fetch_station_departures"))
  /\ Proper(EvaCall("db_timetables_arr", "fetch_station_arrivals"))
  /\ \A f : /\ EvaCall("db_timetables", f).key[1] \notin Unfiltered
            /\ EvaCall("db_timetables_arr", f).key[1] \notin Unfiltered
BY DEF StopCall, EvaCall, Fetch, Proper, Owns, FnOf, Places, Registered, CITY_REGISTRY,
       Fetchers, LandValueFormats, AnyFeed, OsmFeatures, GenesisTables, SmardSeries,
       Publications, Unfiltered, OneCityFeeds, Home

(* The routes and rows of tables and series have one fetch each.           *)
LEMMA KeyedShapes ==
  ASSUME NEW s
  PROVE
    /\ Shaped("city_unemployment", s, TableCall("unemployment", s),
              {"genesis_regio", "genesis_credentials"}, "no_data", BOOLEAN)
    /\ Shaped("city_tourism", s, TableCall("tourism", s),
              {"genesis_regio", "genesis_credentials"}, "no_data", BOOLEAN)
    /\ Shaped("city_construction", s, TableCall("construction", s),
              {"genesis_regio", "genesis_credentials"}, "no_data", BOOLEAN)
    /\ Shaped("unemployment", s, TableCall("unemployment", s),
              {"genesis_regio", "genesis_credentials"}, "no_data", BOOLEAN)
    /\ Shaped("tourism", s, TableCall("tourism", s),
              {"genesis_regio", "genesis_credentials"}, "no_data", BOOLEAN)
    /\ Shaped("city_power_load", s, SeriesCall("load", SMARD_STATE_TO_ZONE(s)),
              {"smard"}, "no_data", BOOLEAN)
    /\ Shaped("city_power_price", s,
              SeriesCall("price", "DE"), {"smard"}, "no_data", BOOLEAN)
<1> USE DEF Shaped
<1>1. /\ \A d : TableCall(d, s).do = "fetch"
      /\ \A m, z : SeriesCall(m, z).do = "fetch"
  BY DEF TableCall, SeriesCall, Fetch
<1>2. /\ \A d \in GenesisTables :
           Needs(TableCall(d, s)) = {"genesis_regio", "genesis_credentials"}
      /\ \A m \in SmardSeries : \A z : Needs(SeriesCall(m, z)) = {"smard"}
  BY DEF TableCall, SeriesCall, Fetch, Needs, Home, GenesisTables, SmardSeries
<1>3. \A c : c.slug = s => \A d :
        Fetch("genesis", <<"genesis", Scope(d, c.slug), "">>, d, c.slug) = TableCall(d, s)
  BY DEF TableCall
<1>4. \A m, z : Fetch("smard", <<"smard", Scope(m, z), "">>, m, z) = SeriesCall(m, z)
  BY DEF SeriesCall
<1>5. \A c : c.slug = s => \A d :
        genesis_regio_envelope(c, d)
          = Toggled(c, {"genesis_regio", "genesis_credentials"},
              Upstream(c, TableCall(d, s), "no_data"))
  BY <1>3 DEF genesis_regio_envelope
<1>6. \A c, m, z : smard_envelope(c, m, z)
                     = Toggled(c, {"smard"}, Upstream(c, SeriesCall(m, z), "no_data"))
  BY <1>4 DEF smard_envelope
<1>7. QED
  BY <1>1, <1>2, <1>5, <1>6 DEF Handle, RESOURCE_MAP, delegated_resources, one_delegated,
         city_unemployment, city_tourism, city_construction, city_power_load,
         city_power_price, GenesisTables, SmardSeries

(* So do the boards of a stop.                                             *)
LEMMA StopShapes ==
  /\ Shaped("live_hamburg_departures", "hamburg",
            StopCall("hvv_geofox", "hamburg", "station", "fetch_hvv_departures"),
            {"hvv_geofox", "hvv_credentials"}, "no_data", {TRUE})
  /\ Shaped("live_nuernberg_departures", "nuernberg",
            StopCall("vgn", "nuernberg", "stop_id", "fetch_vgn_departures"),
            {"vgn"}, "no_data", {TRUE})
  /\ Shaped("station_departures_by_eva", "eva",
            EvaCall("db_timetables", "fetch_station_departures"),
            {"db_timetables", "db_credentials"}, "no_data", {TRUE})
  /\ Shaped("station_arrivals_by_eva", "eva",
            EvaCall("db_timetables_arr", "fetch_station_arrivals"),
            {"db_timetables", "db_credentials"}, "no_data", {TRUE})
<1>1. /\ \A source, town, what, f : StopCall(source, town, what, f).do = "fetch"
      /\ \A prefix, f : EvaCall(prefix, f).do = "fetch"
  BY DEF StopCall, EvaCall, Fetch
<1>2. /\ Needs(StopCall("hvv_geofox", "hamburg", "station", "fetch_hvv_departures"))
           = {"hvv_geofox", "hvv_credentials"}
      /\ Needs(StopCall("vgn", "nuernberg", "stop_id", "fetch_vgn_departures"))
             = {"vgn"}
      /\ \A prefix : /\ Needs(EvaCall(prefix, "fetch_station_departures"))
                          = {"db_timetables", "db_credentials"}
                     /\ Needs(EvaCall(prefix, "fetch_station_arrivals"))
                          = {"db_timetables", "db_credentials"}
  BY DEF StopCall, EvaCall, Fetch, Needs, Home, GenesisTables
<1>4. /\ \A c : live_hamburg_departures(c) =
              Toggled(c, {"hvv_geofox", "hvv_credentials"}, Valid(c, "400",
                Upstream(c, StopCall("hvv_geofox", "hamburg", "station",
                                     "fetch_hvv_departures"), "no_data")))
      /\ \A c : live_nuernberg_departures(c) =
              Toggled(c, {"vgn"}, Valid(c, "400",
                Upstream(c, StopCall("vgn", "nuernberg", "stop_id",
                                     "fetch_vgn_departures"), "no_data")))
      /\ \A c, prefix, f : board_by_eva(c, prefix, f) =
              Valid(c, "422", Toggled(c, {"db_timetables", "db_credentials"},
                Upstream(c, EvaCall(prefix, f), "no_data")))
  BY DEF live_hamburg_departures, live_nuernberg_departures, board_by_eva, StopCall, EvaCall
<1>5. /\ ValidInside("live_hamburg_departures", "hamburg",
            StopCall("hvv_geofox", "hamburg", "station", "fetch_hvv_departures"),
            {"hvv_geofox", "hvv_credentials"}, "no_data", "400")
      /\ ValidInside("live_nuernberg_departures", "nuernberg",
            StopCall("vgn", "nuernberg", "stop_id", "fetch_vgn_departures"),
            {"vgn"}, "no_data", "400")
      /\ ValidOutside("station_departures_by_eva", "eva",
            EvaCall("db_timetables", "fetch_station_departures"),
            {"db_timetables", "db_credentials"}, "no_data", "422")
      /\ ValidOutside("station_arrivals_by_eva", "eva",
            EvaCall("db_timetables_arr", "fetch_station_arrivals"),
            {"db_timetables", "db_credentials"}, "no_data", "422")
  BY <1>4 DEF Handle, RESOURCE_MAP, delegated_resources, ValidInside, ValidOutside,
         station_departures_by_eva, station_arrivals_by_eva
<1>6. QED
  BY <1>1, <1>2, <1>5, ValidShaped

KeyedRoutes == {"city_unemployment", "city_tourism", "city_construction",
  "unemployment", "tourism", "city_power_load", "city_power_price"}

(* All of these are safe.                                                  *)
LEMMA KeyedSafe ==
  /\ \A s \in Registered :
       \A h \in KeyedRoutes : Safe(h, s)
  /\ Safe("live_hamburg_departures", "hamburg")
  /\ Safe("live_nuernberg_departures", "nuernberg")
  /\ Safe("station_departures_by_eva", "eva")
  /\ Safe("station_arrivals_by_eva", "eva")
<1>1. ASSUME NEW s \in Registered
      PROVE  \A h \in KeyedRoutes : Safe(h, s)
  BY KeyedShapes, KeyedProper, ShapedSafe DEF GenesisTables, KeyedRoutes
<1>2. QED
  BY <1>1, StopShapes, StopProper, ShapedSafe

(***************************************************************************)
(* What batch jobs, seeds and pollers have left.                           *)
(***************************************************************************)
ArchiveRoutes == {"city_solar_roofs", "city_charging", "city_district_heating",
  "city_charging_status", "city_transit", "city_geo", "city_election",
  "city_holidays", "city_energy", "city_vehicle_registrations",
  "city_accidents", "city_crime_stats", "city_indicators", "city_land_values",
  "city_tax_rates", "city_business_registrations", "city_insolvencies",
  "city_public_tenders", "cities", "city", "live_eround_charging",
  "live_transit_departures", "live_transit_trip", "live_transit_route_status",
  "indicators", "charging-status"}

(* These routes fetch nothing.                                             *)
LEMMA ArchiveSafe == \A h \in ArchiveRoutes : \A s : Safe(h, s)
<1>1. ASSUME NEW c, NEW switches, NEW what, NEW missing
      PROVE  Archived(c, switches, what, missing).do = "say"
  BY DEF Archived, Toggled, Say
<1>2. ASSUME NEW c, NEW answer, answer.do = "say"
      PROVE  /\ \A switches : Toggled(c, switches, answer).do = "say"
             /\ \A endpoint : Covered(c, endpoint, answer).do = "say"
             /\ \A code : Valid(c, code, answer).do = "say"
             /\ Paged(c, answer).do = "say"
             /\ Degraded(answer).do = "say"
  BY <1>2 DEF Toggled, Covered, Valid, Paged, Degraded, Say
<1>3. ASSUME NEW c PROVE \A h \in ArchiveRoutes : Handle(h, c).do = "say"
  <2> DEFINE Says(answer) == answer.do = "say"
  <2>1. /\ Says(Say("ok")) /\ Says(Say("disabled"))
        /\ \A switches, what, missing : Says(Archived(c, switches, what, missing))
        /\ \A answer : Says(answer) =>
             /\ \A switches : Says(Toggled(c, switches, answer))
             /\ \A endpoint : Says(Covered(c, endpoint, answer))
             /\ \A code : Says(Valid(c, code, answer))
             /\ Says(Paged(c, answer)) /\ Says(Degraded(answer))
    BY <1>1, <1>2 DEF Say
  <2> HIDE DEF Says
  <2>2. /\ Handle("indicators", c) = Degraded(city_indicators(c))
        /\ Handle("charging-status", c) = Degraded(city_charging_status(c))
    BY DEF Handle, RESOURCE_MAP, delegated_resources, one_delegated
  <2>3. /\ Says(city_solar_roofs(c))
        /\ Says(city_charging(c))
        /\ Says(city_district_heating(c))
        /\ Says(city_charging_status(c))
        /\ Says(city_transit(c))
        /\ Says(city_geo(c))
        /\ Says(city_election(c))
        /\ Says(city_holidays(c))
        /\ Says(city_energy(c))
        /\ Says(city_vehicle_registrations(c))
        /\ Says(city_accidents(c))
        /\ Says(city_crime_stats(c))
        /\ Says(city_indicators(c))
        /\ Says(city_land_values(c))
        /\ Says(city_tax_rates(c))
        /\ Says(city_business_registrations(c))
        /\ Says(city_insolvencies(c))
        /\ Says(city_public_tenders(c))
        /\ Says(cities(c))
        /\ Says(city(c))
        /\ Says(live_eround_charging(c))
        /\ Says(live_transit_departures(c))
        /\ Says(live_transit_trip(c))
        /\ Says(live_transit_route_status(c))
    BY <2>1 DEF live_transit, city_solar_roofs, city_charging,
           city_district_heating, city_charging_status, city_transit, city_geo,
           city_election, city_holidays, city_energy,
           city_vehicle_registrations, city_accidents, city_crime_stats,
           city_indicators, city_land_values, city_tax_rates,
           city_business_registrations, city_insolvencies, city_public_tenders,
           cities, city, live_eround_charging, live_transit_departures,
           live_transit_trip, live_transit_route_status
  <2>4. \A h \in ArchiveRoutes : Says(Handle(h, c))
    BY <2>1, <2>2, <2>3, Dispatch DEF ArchiveRoutes
  <2>5. QED
    BY <2>4 DEF Says
<1>4. QED
  BY <1>3, QuietSafe DEF Quiet

(***************************************************************************)
(* A source per city.                                                      *)
(***************************************************************************)

(* The usual fetch is a fetch.                                             *)
LEMMA CityFetches == \A source, f, s : CityFetch(source, f, s).do = "fetch"
BY DEF CityFetch, Fetch

(* One fetch, whatever the parameters.                                     *)
LEMMA AlwaysShaped ==
  ASSUME NEW h, NEW s, NEW call, NEW switches, NEW e,
         call.do = "fetch", Needs(call) \subseteq switches,
         \A c : c.slug = s => Handle(h, c) = Toggled(c, switches, Upstream(c, call, e))
  PROVE  Shaped(h, s, call, switches, e, BOOLEAN)
BY DEF Shaped

(* A city that is not covered gets no fetch.                               *)
LEMMA NotCoveredSafe ==
  ASSUME NEW h, NEW s, \A c : c.slug = s => Handle(h, c) = not_covered
  PROVE  Safe(h, s)
BY QuietSafe DEF Quiet, not_covered, Say

(* A source named by the table of a route. *)
Usual(source, f) == Row(source, f) /\ \A s : Needs(CityFetch(source, f, s)) = {source}

(* A route that fetches such a source for the city is safe.                *)
LEMMA UsualSafe ==
  ASSUME NEW h, NEW s \in Registered, NEW source, NEW f, Usual(source, f),
         \A c : c.slug = s => Handle(h, c) = OneSourceOrNoData(c, source, f)
  PROVE  Safe(h, s)
<1> DEFINE call == CityFetch(source, f, s)
<1>1. call.do = "fetch" /\ Needs(call) \subseteq {source}
  BY CityFetches DEF Usual
<1>2. \A c : c.slug = s => Handle(h, c) = Toggled(c, {source}, Upstream(c, call, "no_data"))
  BY DEF OneSourceOrNoData
<1>3. Proper(call) /\ call.key[1] \notin Unfiltered
  BY RowProper DEF Usual
<1> HIDE DEF call
<1>4. Shaped(h, s, call, {source}, "no_data", BOOLEAN)
  BY <1>1, <1>2, AlwaysShaped
<1>5. QED
  BY <1>3, <1>4, ShapedSafe

(* Road events: by the table of connectors, Bremen by a subscription.      *)
LEMMA RoadEventsSafe == \A s \in Registered : Safe("city_road_events", s)
<1>1. \A s \in DOMAIN CONNECTOR_MAP \ {"bremen"} :
        Usual(CONNECTOR_MAP[s], RoadEventsFn[CONNECTOR_MAP[s]])
  BY SourceRows, SourceNeeds DEF Usual, CONNECTOR_MAP, RoadEventsFn
<1>2. \A s \in DOMAIN CONNECTOR_MAP \ {"bremen"} : \A c : c.slug = s =>
        city_road_events(c)
          = OneSourceOrNoData(c, CONNECTOR_MAP[s], RoadEventsFn[CONNECTOR_MAP[s]])
  BY DEF city_road_events
<1>3. \A s \in DOMAIN CONNECTOR_MAP \ {"bremen"} :
        s \in Registered => Safe("city_road_events", s)
  BY <1>1, <1>2, UsualSafe, Dispatch
<1>4. \A s : s \notin DOMAIN CONNECTOR_MAP => Safe("city_road_events", s)
  <2>1. "bremen" \in DOMAIN CONNECTOR_MAP
    BY DEF CONNECTOR_MAP
  <2>2. \A s, c : s \notin DOMAIN CONNECTOR_MAP /\ c.slug = s =>
          city_road_events(c) = not_covered
    BY <2>1 DEF city_road_events
  <2>3. QED
    BY <2>2, NotCoveredSafe, Dispatch
<1>5. Safe("city_road_events", "bremen")
  <2> DEFINE call == CityFetch("bremen_baustellen", "situation", "bremen")
             switches == {"bremen_baustellen", "mobilithek_cert", "bremen_abo"}
  <2>1. "bremen" \in DOMAIN CONNECTOR_MAP
    BY DEF CONNECTOR_MAP
  <2>2. \A c : c.slug = "bremen" =>
          city_road_events(c) = Toggled(c, switches, Upstream(c, call, "no_data"))
    BY <2>1 DEF city_road_events, bremen_road_events
  <2>3. call.do = "fetch" /\ Needs(call) \subseteq switches
    BY CityFetches, SourceNeeds
  <2>4. Proper(call) /\ call.key[1] \notin Unfiltered
    BY SourceRows, RowProper DEF Registered, CITY_REGISTRY
  <2> HIDE DEF call, switches
  <2>5. Shaped("city_road_events", "bremen", call, switches, "no_data", BOOLEAN)
    BY <2>2, <2>3, AlwaysShaped, Dispatch
  <2>6. QED
    BY <2>4, <2>5, ShapedSafe
<1>6. QED
  BY <1>3, <1>4, <1>5

(* Counts of bicycles: by the table of sources.                            *)
LEMMA BikeCountsSafe == \A s \in Registered : Safe("city_bike_counts", s)
<1>1. \A s \in DOMAIN BikeCountsSource :
        Usual(BikeCountsSource[s], BikeCountsFn[BikeCountsSource[s]])
  BY SourceRows, SourceNeeds DEF Usual, BikeCountsSource, BikeCountsFn
<1>2. \A s \in DOMAIN BikeCountsSource : \A c : c.slug = s =>
        city_bike_counts(c)
          = OneSourceOrNoData(c, BikeCountsSource[s], BikeCountsFn[BikeCountsSource[s]])
  BY DEF city_bike_counts
<1>3. \A s \in DOMAIN BikeCountsSource :
        s \in Registered => Safe("city_bike_counts", s)
  BY <1>1, <1>2, UsualSafe, Dispatch
<1>4. \A s : s \notin DOMAIN BikeCountsSource => Safe("city_bike_counts", s)
  <2>1. \A s, c : s \notin DOMAIN BikeCountsSource /\ c.slug = s =>
          city_bike_counts(c) = not_covered
    BY DEF city_bike_counts
  <2>2. QED
    BY <2>1, NotCoveredSafe, Dispatch
<1>5. QED
  BY <1>3, <1>4

(* Publications that are not filtered are fetched for their own city only. *)
LEMMA AtHomeProper ==
  /\ Proper(CityFetch("frankfurt_parking", "fetch_frankfurt_parking", "frankfurt"))
  /\ CityFetch("frankfurt_parking", "fetch_frankfurt_parking", "frankfurt").key[1]
       \notin Unfiltered
  /\ Proper(CityFetch("wuppertal_parking", "fetch_wuppertal_parking", "wuppertal"))
  /\ CityFetch("wuppertal_parking", "fetch_wuppertal_parking", "wuppertal").key[1]
       \notin Unfiltered
  /\ Proper(CityFetch("magdeburg_parking", "fetch_magdeburg_parking", "magdeburg"))
  /\ CityFetch("magdeburg_parking", "fetch_magdeburg_parking", "magdeburg").key[1]
       \notin Unfiltered
  /\ Proper(CityFetch("kiel_zaehlstellen", "measured", "kiel"))
  /\ CityFetch("kiel_zaehlstellen", "measured", "kiel").key[1] \notin Unfiltered
BY DEF CityFetch, Fetch, Proper, Owns, FnOf, Places, Registered, CITY_REGISTRY,
       Fetchers, LandValueFormats, AnyFeed, OsmFeatures, GenesisTables, SmardSeries,
       Publications, Unfiltered, OneCityFeeds, Home

(* They need the certificate of Mobilithek.                                *)
LEMMA AtHomeNeeds ==
  /\ Needs(CityFetch("frankfurt_parking", "fetch_frankfurt_parking", "frankfurt"))
         = {"frankfurt_parking", "mobilithek_cert"}
  /\ Needs(CityFetch("wuppertal_parking", "fetch_wuppertal_parking", "wuppertal"))
         = {"wuppertal_parking", "mobilithek_cert"}
  /\ Needs(CityFetch("magdeburg_parking", "fetch_magdeburg_parking", "magdeburg"))
         = {"magdeburg_parking", "mobilithek_cert"}
  /\ Needs(CityFetch("kiel_zaehlstellen", "measured", "kiel"))
         = {"kiel_zaehlstellen", "mobilithek_cert"}
BY DEF Needs, CityFetch, Fetch, GenesisTables, Home

(* Parking: by a subscription in three cities, else by a public connector. *)
LEMMA ParkingSafe == \A s \in Registered : Safe("city_parking", s)
<1> DEFINE Free == PARTIAL_COVERAGE["parking"] \ MOBILITHEK_PARKING
           Via(s) == IF s \in MOBILITHEK_PARKING THEN MobilithekParking[s]
                     ELSE resolve_parking_connector(s)
           Call(s) == CityFetch(Via(s)[1], Via(s)[2], s)
           Switches(s) == {Via(s)[1], "mobilithek_cert", "parking_abo"}
<1>1. /\ Free = {"dortmund", "dresden", "hamburg", "koeln", "muenchen"}
      /\ MOBILITHEK_PARKING = {"frankfurt", "wuppertal", "magdeburg"}
      /\ PARTIAL_COVERAGE["parking"] = MOBILITHEK_PARKING \cup Free
  BY DEF PARTIAL_COVERAGE, PARKENDD_CITIES, MOBILITHEK_PARKING
<1>2. \A s \in Free : Via(s) \in {<<"parkendd", "fetch_parkendd">>,
                                  <<"muenchen_parkhaeuser", "fetch_muenchen_parking">>}
  BY <1>1 DEF resolve_parking_connector, PARKENDD_CITIES
<1>3. \A s \in Free : Usual(Via(s)[1], Via(s)[2])
  <2>1. /\ Usual("parkendd", "fetch_parkendd")
        /\ Usual("muenchen_parkhaeuser", "fetch_muenchen_parking")
    BY SourceRows, SourceNeeds DEF Usual
  <2>2. QED
    BY <1>2, <2>1
<1>4. \A s \in MOBILITHEK_PARKING :
        /\ Call(s).do = "fetch" /\ Needs(Call(s)) \subseteq Switches(s)
        /\ Proper(Call(s)) /\ Call(s).key[1] \notin Unfiltered
  <2>1. /\ Via("frankfurt") = <<"frankfurt_parking", "fetch_frankfurt_parking">>
        /\ Via("wuppertal") = <<"wuppertal_parking", "fetch_wuppertal_parking">>
        /\ Via("magdeburg") = <<"magdeburg_parking", "fetch_magdeburg_parking">>
    BY <1>1 DEF MobilithekParking
  <2>2. QED
    BY <1>1, <2>1, AtHomeProper, AtHomeNeeds, CityFetches
<1>5. /\ \A s \in MOBILITHEK_PARKING : \A c : c.slug = s =>
           city_parking(c) = Toggled(c, Switches(s), Upstream(c, Call(s), "no_data"))
      /\ \A s \in Free : \A c : c.slug = s =>
           city_parking(c) = OneSourceOrNoData(c, Via(s)[1], Via(s)[2])
      /\ \A s, c : s \notin MOBILITHEK_PARKING \cup Free /\ c.slug = s =>
           city_parking(c) = not_covered
  BY <1>1 DEF city_parking
<1> HIDE DEF Free, Via, Call, Switches
<1>6. \A s \in Free : s \in Registered => Safe("city_parking", s)
  BY <1>3, <1>5, UsualSafe, Dispatch
<1>7. \A s \in MOBILITHEK_PARKING : Safe("city_parking", s)
  <2> SUFFICES ASSUME NEW s \in MOBILITHEK_PARKING PROVE Safe("city_parking", s)
    OBVIOUS
  <2>1. Shaped("city_parking", s, Call(s), Switches(s), "no_data", BOOLEAN)
    BY <1>4, <1>5, AlwaysShaped, Dispatch
  <2>2. QED
    BY <1>4, <2>1, ShapedSafe
<1>8. \A s : s \notin MOBILITHEK_PARKING \cup Free => Safe("city_parking", s)
  BY <1>5, NotCoveredSafe, Dispatch
<1>9. QED
  BY <1>6, <1>7, <1>8

(***************************************************************************)
(* Publications of Mobilithek.                                             *)
(***************************************************************************)

(* The live routes of publications that are filtered.                      *)
LEMMA SituationShapes ==
  ASSUME NEW s
  PROVE
    /\ Shaped("live_ereignisse", s,
              CityFetch("koeln_ereignisse_live", "situation", s),
              {"koeln_ereignisse_live", "mobilithek_cert", "koeln_abo"}, "no_data", BOOLEAN)
    /\ Shaped("live_berlin_verkehrsmeldungen", s,
              CityFetch("berlin_verkehrsmeldungen", "situation", s),
              {"berlin_verkehrsmeldungen", "mobilithek_cert", "berlin_abo"}, "no_data", BOOLEAN)
    /\ Shaped("live_hannover_verkehrsmeldungen", s,
              CityFetch("hannover_verkehrsmeldungen", "situation", s),
              {"hannover_verkehrsmeldungen", "mobilithek_cert", "hannover_abo"},
              "no_data", BOOLEAN)
    /\ Shaped("live_koeln_umweltzone", s,
              CityFetch("koeln_lez_live", "situation", s),
              {"koeln_lez_live", "mobilithek_cert", "koeln_abo"}, "no_data", BOOLEAN)
    /\ Shaped("live_baustellen", s,
              IF s = "bremen" THEN CityFetch("bremen_baustellen", "situation", s)
              ELSE CityFetch("koeln_baustellen_live", "situation", s),
              IF s = "bremen" THEN {"bremen_baustellen", "mobilithek_cert", "bremen_abo"}
              ELSE {"koeln_baustellen_live", "mobilithek_cert", "koeln_default_abo"},
              "no_data", BOOLEAN)
<1>1. QED
  BY CityFetches, SourceNeeds DEF Shaped, Handle, RESOURCE_MAP,
         delegated_resources, live_mobilithek, live_baustellen,
         live_ereignisse, live_berlin_verkehrsmeldungen,
         live_hannover_verkehrsmeldungen, live_koeln_umweltzone

(* The live routes of one city.                                            *)
LEMMA AtHomeShapes ==
  /\ Shaped("live_frankfurt_parking", "frankfurt",
            CityFetch("frankfurt_parking", "fetch_frankfurt_parking", "frankfurt"),
            {"frankfurt_parking", "mobilithek_cert", "parking_abo"}, "no_data", BOOLEAN)
  /\ Shaped("live_wuppertal_parking", "wuppertal",
            CityFetch("wuppertal_parking", "fetch_wuppertal_parking", "wuppertal"),
            {"wuppertal_parking", "mobilithek_cert", "parking_abo"}, "no_data", BOOLEAN)
  /\ Shaped("live_magdeburg_parking", "magdeburg",
            CityFetch("magdeburg_parking", "fetch_magdeburg_parking", "magdeburg"),
            {"magdeburg_parking", "mobilithek_cert", "parking_abo"}, "no_data", BOOLEAN)
  /\ Shaped("live_kiel_zaehlstellen", "kiel",
            CityFetch("kiel_zaehlstellen", "measured", "kiel"),
            {"kiel_zaehlstellen", "mobilithek_cert", "kiel_abo"}, "no_data", BOOLEAN)
BY CityFetches, AtHomeNeeds DEF Shaped, Handle, RESOURCE_MAP,
       delegated_resources, live_mobilithek, live_frankfurt_parking,
       live_wuppertal_parking, live_magdeburg_parking, live_kiel_zaehlstellen

SituationRoutes == {"live_baustellen", "live_ereignisse",
  "live_berlin_verkehrsmeldungen", "live_hannover_verkehrsmeldungen",
  "live_koeln_umweltzone"}

(* All of these are safe.                                                  *)
LEMMA PublicationsSafe ==
  /\ \A h \in SituationRoutes, s \in Registered : Safe(h, s)
  /\ Safe("live_frankfurt_parking", "frankfurt")
  /\ Safe("live_wuppertal_parking", "wuppertal")
  /\ Safe("live_magdeburg_parking", "magdeburg")
  /\ Safe("live_kiel_zaehlstellen", "kiel")
<1>1. ASSUME NEW s \in Registered PROVE \A h \in SituationRoutes : Safe(h, s)
  <2> DEFINE Fits(call) == Proper(call) /\ call.key[1] \notin Unfiltered
  <2>1. \A source, f : Row(source, f) => Fits(CityFetch(source, f, s))
    BY RowProper
  <2>2. \A h, call, switches, e, allowed :
          Shaped(h, s, call, switches, e, allowed) /\ Fits(call) => Safe(h, s)
    BY ShapedSafe
  <2> HIDE DEF Fits
  <2>3. QED
    BY <2>1, <2>2, SituationShapes, SourceRows DEF SituationRoutes
<1>2. QED
  BY <1>1, AtHomeShapes, AtHomeProper, ShapedSafe

(***************************************************************************)
(* Entries of elsewhere.                                                   *)
(***************************************************************************)

(* The filter leaves the number of results alone and makes what is of      *)
(* elsewhere empty.                                                        *)
LEMMA FilteredFields ==
  ASSUME NEW s, NEW v, NEW o, NEW t, NEW a
  PROVE  /\ Filtered(Ask0(s, v, o, t)).got = <<>>
         /\ Filtered(Ask1(s, v, o, t, a)).got # <<>>
         /\ Filtered(Ask1(s, v, o, t, a)).got[1] = IF a = "foreign" THEN "empty" ELSE a
<1>1. /\ Filtered(Ask0(s, v, o, t)).got
           = [i \in DOMAIN <<>> |-> IF <<>>[i] = "foreign" THEN "empty" ELSE <<>>[i]]
  BY DEF Filtered, Ask0
<1>2. /\ Filtered(Ask1(s, v, o, t, a)).got
           = [i \in DOMAIN <<a>> |-> IF <<a>>[i] = "foreign" THEN "empty" ELSE <<a>>[i]]
  BY DEF Filtered, Ask1
<1>3. Filtered(Ask0(s, v, o, t)).got = <<>>
  BY <1>1
<1>4. DOMAIN <<a>> = {1}
  OBVIOUS
<1>5. Filtered(Ask1(s, v, o, t, a)).got[1] = IF a = "foreign" THEN "empty" ELSE a
  BY <1>2, <1>4
<1>6. DOMAIN Filtered(Ask1(s, v, o, t, a)).got # DOMAIN <<>>
  BY <1>2, <1>4
<1>7. QED
  BY <1>3, <1>5, <1>6

(* A fetch that is filtered, whatever the parameters; what is said of it   *)
(* may be replaced by the status of a row.                                 *)
LEMMA FilteredSafe ==
  ASSUME NEW h, NEW s, NEW call, NEW switches, NEW e, Proper(call),
         Needs(call) \subseteq switches,
         e = "ok" => h \in {"city_weather_warnings", "weather-warnings"},
         \A c : c.slug = s =>
           LET body == Toggled(c, switches, Upstream(Filtered(c), call, e)) IN
           Handle(h, c) \in {body, Degraded(body)}
  PROVE  Safe(h, s)
<1> DEFINE Body(c) == Toggled(c, switches, Upstream(Filtered(c), call, e))
<1>1. ASSUME NEW v \in BOOLEAN, NEW o, NEW t, Handle(h, Ask0(s, v, o, t)).do = "fetch"
      PROVE  /\ Handle(h, Ask0(s, v, o, t)) = call /\ o \cap switches = {}
             /\ \A a : /\ Handle(h, Ask1(s, v, o, t, a)).do = "say"
                       /\ Says1(h, a, Handle(h, Ask1(s, v, o, t, a)).status)
  <2>1. Body(Ask0(s, v, o, t)) = IF o \cap switches = {} THEN call ELSE Say("disabled")
    BY Fields, FilteredFields DEF Toggled, Upstream, On
  <2>2. \A a : o \cap switches = {} =>
          Body(Ask1(s, v, o, t, a)) = Settle(IF a = "foreign" THEN "empty" ELSE a, e)
    BY Fields, FilteredFields DEF Toggled, Upstream, On
  <2> HIDE DEF Body
  <2>3. \A c : c.slug = s => Handle(h, c) \in {Body(c), Degraded(Body(c))}
    BY DEF Body
  <2>4. /\ Handle(h, Ask0(s, v, o, t)) = call /\ o \cap switches = {}
    <3>1. /\ Degraded(Say("disabled")).do = "say" /\ Say("disabled").do = "say"
          /\ Degraded(call) = call
      BY DEF Degraded, Say, Proper
    <3>2. QED
      BY <1>1, <2>1, <2>3, <3>1, Fields
  <2>5. ASSUME NEW a
        PROVE  /\ Handle(h, Ask1(s, v, o, t, a)).do = "say"
               /\ Says1(h, a, Handle(h, Ask1(s, v, o, t, a)).status)
    <3> DEFINE b == IF a = "foreign" THEN "empty" ELSE a
    <3>1. Handle(h, Ask1(s, v, o, t, a)) \in {Settle(b, e), Degraded(Settle(b, e))}
      BY <2>2, <2>3, <2>4, Fields
    <3>2. /\ Settle(b, e).do = "say" /\ Degraded(Settle(b, e)).do = "say"
          /\ b = "nothing" => /\ Settle(b, e).status = "503"
                              /\ Degraded(Settle(b, e)).status = "error"
          /\ b = "empty" => /\ Settle(b, e).status = e
                            /\ Degraded(Settle(b, e)).status = "ok" => e = "ok"
      BY DEF Settle, Degraded, Say, Nothing, Empty
    <3>3. QED
      BY <3>1, <3>2 DEF Says1
  <2>6. QED
    BY <2>4, <2>5
<1>2. QED
  BY <1>1 DEF Safe, MaySwitch, StatusOf

(* The warnings and the catalogue of stations are filtered.                *)
LEMMA NationwideSafe ==
  \A s : /\ Safe("city_weather_warnings", s)
         /\ Safe("weather-warnings", s)
         /\ Safe("city_stations", s)
<1> DEFINE Warnings == Fetch("dwd_warnings", <<"dwd_warnings", "all", "">>,
                             "fetch_dwd_warnings_all", "all")
<1>1. /\ Proper(Warnings) /\ Needs(Warnings) \subseteq {"dwd_warnings"}
      /\ Proper(StationCatalog)
      /\ Needs(StationCatalog) = {"stada", "db_credentials"}
  BY DEF StationCatalog, Fetch, Proper, Owns, FnOf, Places, Fetchers, LandValueFormats,
         Unfiltered, Needs, GenesisTables, Home, OneCityFeeds
<1>2. /\ \A c : city_weather_warnings(c)
                  = Toggled(c, {"dwd_warnings"}, Upstream(Filtered(c), Warnings, "ok"))
      /\ \A c : city_stations(c)
                  = Toggled(c, {"stada", "db_credentials"},
                            Upstream(Filtered(c), StationCatalog, "no_data"))
  BY DEF city_weather_warnings, city_stations
<1>3. \A c : Handle("weather-warnings", c) = Degraded(city_weather_warnings(c))
  BY DEF Handle, RESOURCE_MAP, delegated_resources, one_delegated
<1> HIDE DEF Warnings
<1>4. \A s : Safe("city_weather_warnings", s)
  BY <1>1, <1>2, Dispatch, FilteredSafe
<1>5. \A s : Safe("weather-warnings", s)
  BY <1>1, <1>2, <1>3, FilteredSafe
<1>6. \A s : Safe("city_stations", s)
  BY <1>1, <1>2, Dispatch, FilteredSafe
<1>7. QED
  BY <1>4, <1>5, <1>6

(***************************************************************************)
(* The highlights and rows of weather and air, the traffic of Cologne.     *)
(***************************************************************************)

(* Rows and highlights of weather and air are the route with its errors    *)
(* made a status.                                                          *)
LEMMA RowsSafe ==
  \A s \in Registered :
    \A h \in {"weather", "air", "highlight-weather", "highlight-air"} : Safe(h, s)
<1> SUFFICES ASSUME NEW s \in Registered
             PROVE  \A h \in {"weather", "air", "highlight-weather", "highlight-air"} :
                      Safe(h, s)
  OBVIOUS
<1> DEFINE dwd == CityFetch("dwd", "fetch_weather", s)
           uba == CityFetch("uba", "fetch_air_uba", s)
           Fits(call) == Proper(call) /\ call.key[1] \notin Unfiltered
<1>1. /\ dwd.do = "fetch" /\ Needs(dwd) \subseteq {"dwd"} /\ Fits(dwd)
      /\ uba.do = "fetch" /\ Needs(uba) \subseteq {"uba"} /\ Fits(uba)
  BY CityFetches, SourceNeeds, SourceRows, RowProper
<1>2. \A c : c.slug = s =>
        /\ compare_one(c, "weather") = Degraded(Toggled(c, {"dwd"}, Upstream(c, dwd, "ok")))
        /\ compare_one(c, "air") = Degraded(Toggled(c, {"uba"}, Upstream(c, uba, "ok")))
  BY DEF compare_one, one
<1>3. \A c : /\ Handle("weather", c) = compare_one(c, "weather")
             /\ Handle("air", c) = compare_one(c, "air")
             /\ Handle("highlight-weather", c) = compare_one(c, "weather")
             /\ Handle("highlight-air", c) = compare_one(c, "air")
  BY DEF Handle, RESOURCE_MAP, delegated_resources, snapshot_one
<1> HIDE DEF dwd, uba
<1>4. /\ \A h \in {"weather", "highlight-weather"} : Shaped(h, s, dwd, {"dwd"}, "ok", BOOLEAN)
      /\ \A h \in {"air", "highlight-air"} : Shaped(h, s, uba, {"uba"}, "ok", BOOLEAN)
  BY <1>1, <1>2, <1>3 DEF Shaped
<1>5. QED
  BY <1>1, <1>4, ShapedSafe

(* The traffic of Cologne is shown for any city that asks, as it is.       *)
LEMMA TrafficFlowSafe == \A s \in Registered : Safe("live_traffic_flow", s)
<1> SUFFICES ASSUME NEW s \in Registered PROVE Safe("live_traffic_flow", s)
  OBVIOUS
<1> DEFINE call == CityFetch("koeln_traffic_flow", "measured", s)
           switches == {"koeln_traffic_flow", "mobilithek_cert", "koeln_default_abo"}
<1>1. /\ call.do = "fetch" /\ Needs(call) \subseteq switches /\ Proper(call)
  BY DEF CityFetch, Fetch, Needs, GenesisTables, Home, Proper, Owns, FnOf, Places, Fetchers,
         Publications, LandValueFormats, Unfiltered, OneCityFeeds
<1>2. \A c : c.slug = s =>
        live_traffic_flow(c) = Toggled(c, switches, Upstream(c, call, "no_data"))
  BY DEF live_traffic_flow, live_mobilithek
<1> HIDE DEF call, switches
<1>3. Shaped("live_traffic_flow", s, call, switches, "no_data", BOOLEAN)
  BY <1>1, <1>2, AlwaysShaped, Dispatch
<1>4. QED
  BY <1>1, <1>3, ShapedSafe

(***************************************************************************)
(* Boards.                                                                 *)
(***************************************************************************)

(* A request, without what the catalogue has answered.                     *)
RestOf(c) == [c EXCEPT !.got = Tail(@)]

(* What is left of a request without the answer of the catalogue.          *)
LEMMA RestFields ==
  ASSUME NEW s, NEW v, NEW o, NEW t
  PROVE  /\ \A a : RestOf(Ask1(s, v, o, t, a)) = Ask0(s, v, o, t)
         /\ \A a, b : RestOf(Ask2(s, v, o, t, a, b)) = Ask1(s, v, o, t, b)
<1>1. \A a, b : Tail(<<a>>) = <<>> /\ Tail(<<a, b>>) = <<b>>
  OBVIOUS
<1>2. QED
  BY <1>1 DEF Ask0, Ask1, Ask2, RestOf

(* The catalogue names the stations of the city if it has some for it.     *)
LEMMA ResolvedStations ==
  /\ \A s, v, o, t, a :
       resolve_city_station_evas(Ask1(s, v, o, t, a)) <=> a \in {"full", "part"}
  /\ \A s, v, o, t, a, b :
       resolve_city_station_evas(Ask2(s, v, o, t, a, b)) <=> a \in {"full", "part"}
<1>1. ASSUME NEW s, NEW v, NEW o, NEW t, NEW a, NEW b
      PROVE  resolve_city_station_evas(Ask2(s, v, o, t, a, b)) <=> a \in {"full", "part"}
  <2>1. Filtered(Ask2(s, v, o, t, a, b)).got
          = [i \in DOMAIN <<a, b>> |->
               IF <<a, b>>[i] = "foreign" THEN "empty" ELSE <<a, b>>[i]]
    BY DEF Filtered, Ask2
  <2>2. Filtered(Ask2(s, v, o, t, a, b)).got[1] = IF a = "foreign" THEN "empty" ELSE a
    BY <2>1
  <2>3. QED
    BY <2>2 DEF resolve_city_station_evas
<1>2. ASSUME NEW s, NEW v, NEW o, NEW t, NEW a
      PROVE  resolve_city_station_evas(Ask1(s, v, o, t, a)) <=> a \in {"full", "part"}
  BY FilteredFields DEF resolve_city_station_evas
<1>3. QED
  BY <1>1, <1>2

(* What a board h of the city s does: with the toggle and the credentials  *)
(* it fetches the board, before that the catalogue if the stations of the  *)
(* city are not known, and settles what it got.                            *)
BoardSwitches == {"db_timetables", "db_credentials"}
Shows(answer, a, e) == answer \in {Settle(a, e), Degraded(Settle(a, e))}

BoardAt(h, s, board, e, v, o, t) ==
  IF o \cap BoardSwitches # {} THEN Handle(h, Ask0(s, v, o, t)).do = "say"
  ELSE IF s \in STATION_EVAS
  THEN /\ Handle(h, Ask0(s, v, o, t)) = board
       /\ \A a : Shows(Handle(h, Ask1(s, v, o, t, a)), a, e)
  ELSE /\ Handle(h, Ask0(s, v, o, t)) = StationCatalog
       /\ \A a :
            IF a \in {"full", "part"}
            THEN /\ Handle(h, Ask1(s, v, o, t, a)) = board
                 /\ \A b : Shows(Handle(h, Ask2(s, v, o, t, a, b)), b, e)
            ELSE Handle(h, Ask1(s, v, o, t, a))
                   \in {Say("no_data")} \cup (IF a = "Other" THEN {Say("500"), Say("error")}
                                              ELSE {})

BoardOf(h, s, board, e) ==
  \A v \in BOOLEAN : \A o, t : BoardAt(h, s, board, e, v, o, t)

(* What is settled is said, and an outage is said to be one.               *)
LEMMA ShownSafe ==
  ASSUME NEW answer, NEW a, NEW e, Shows(answer, a, e)
  PROVE  answer.do = "say" /\ (a = "nothing" => answer.status \in {"503", "error"})
BY DEF Shows, Settle, Degraded, Say, Nothing, Empty

(* A board is safe: a failed catalogue is the one outage it hides.         *)
LEMMA BoardSafe ==
  ASSUME NEW h \in Boards, NEW s, NEW board, NEW e, BoardOf(h, s, board, e),
         Proper(board), board.key[1] \notin Unfiltered, Needs(board) = BoardSwitches
  PROVE  Safe(h, s)
<1>1. Proper(StationCatalog) /\ StationCatalog.source = "stada"
      /\ Needs(StationCatalog) = {"stada", "db_credentials"}
  BY DEF StationCatalog, Fetch, Proper, Owns, FnOf, Places, Fetchers, LandValueFormats,
         Unfiltered, Needs, GenesisTables, Home, OneCityFeeds
<1>2. board.do = "fetch" /\ StationCatalog.do = "fetch"
  BY <1>1 DEF Proper
<1>3. \A b \in Gives(board) : b # "foreign"
  BY DEF Gives, MayShow
<1>4. h \notin {"city_icu_live", "city_health", "city_events", "city_weather_warnings",
                "weather-warnings", "live_traffic_flow"}
  BY DEF Boards
<1>5. SUFFICES ASSUME NEW v \in BOOLEAN, NEW o, NEW t,
                      Handle(h, Ask0(s, v, o, t)).do = "fetch"
      PROVE  /\ Proper(Handle(h, Ask0(s, v, o, t)))
             /\ MaySwitch(h, Handle(h, Ask0(s, v, o, t)), o)
             /\ \A a \in Gives(Handle(h, Ask0(s, v, o, t))) :
                  LET q1 == Handle(h, Ask1(s, v, o, t, a)) IN
                  /\ Says1(h, a, StatusOf(q1))
                  /\ q1.do = "fetch" =>
                       /\ Proper(q1) /\ MaySwitch(h, q1, o)
                       /\ \A b \in Gives(q1) :
                            LET q2 == Handle(h, Ask2(s, v, o, t, a, b)) IN
                            q2.do # "fetch" /\ Says2(h, a, b, q2.status)
  BY Zenon DEF Safe
<1>6. o \cap BoardSwitches = {}
  BY <1>5 DEF BoardOf, BoardAt, Say
<1>7. MaySwitch(h, board, o) /\ MaySwitch(h, StationCatalog, o)
  <2>1. o \cap {"stada", "db_credentials"} \in {{}, {"stada"}}
    BY <1>6 DEF BoardSwitches
  <2>2. QED
    BY <1>1, <1>6, <2>1 DEF MaySwitch
<1>8. CASE s \in STATION_EVAS
  <2>1. Handle(h, Ask0(s, v, o, t)) = board
    BY <1>5, <1>6, <1>8 DEF BoardOf, BoardAt
  <2>2. \A a : Shows(Handle(h, Ask1(s, v, o, t, a)), a, e)
    BY <1>5, <1>6, <1>8 DEF BoardOf, BoardAt
  <2>3. \A a : LET q1 == Handle(h, Ask1(s, v, o, t, a)) IN
          q1.do = "say" /\ (a = "nothing" => q1.status \in {"503", "error"})
    BY <2>2, ShownSafe
  <2>4. QED
    BY <1>3, <1>7, <2>1, <2>3 DEF Says1, StatusOf
<1>9. CASE s \notin STATION_EVAS
  <2>1. Handle(h, Ask0(s, v, o, t)) = StationCatalog
    BY <1>5, <1>6, <1>9 DEF BoardOf, BoardAt
  <2>2. ASSUME NEW a, a \in {"full", "part"}
        PROVE  /\ Handle(h, Ask1(s, v, o, t, a)) = board
               /\ \A b : Shows(Handle(h, Ask2(s, v, o, t, a, b)), b, e)
    BY <1>5, <1>6, <1>9, <2>2 DEF BoardOf, BoardAt
  <2>3. ASSUME NEW a, a \notin {"full", "part"}
        PROVE  /\ Handle(h, Ask1(s, v, o, t, a)).do = "say"
               /\ Handle(h, Ask1(s, v, o, t, a)).status \in {"no_data", "500", "error"}
               /\ a # "Other" => Handle(h, Ask1(s, v, o, t, a)).status = "no_data"
    BY <1>5, <1>6, <1>9, <2>3 DEF BoardOf, BoardAt, Say
  <2>4. SUFFICES ASSUME NEW a
        PROVE  LET q1 == Handle(h, Ask1(s, v, o, t, a)) IN
                  /\ Says1(h, a, StatusOf(q1))
                  /\ q1.do = "fetch" =>
                       /\ Proper(q1) /\ MaySwitch(h, q1, o)
                       /\ \A b \in Gives(q1) :
                            LET q2 == Handle(h, Ask2(s, v, o, t, a, b)) IN
                            q2.do # "fetch" /\ Says2(h, a, b, q2.status)
    BY <1>1, <1>7, <2>1
  <2>5. CASE a \in {"full", "part"}
    <3>1. Handle(h, Ask1(s, v, o, t, a)) = board
      BY <2>2, <2>5
    <3>2. Says1(h, a, "pending")
      BY <2>5 DEF Says1
    <3>3. \A b : LET q2 == Handle(h, Ask2(s, v, o, t, a, b)) IN
            q2.do = "say" /\ (b = "nothing" => q2.status \in {"503", "error"})
      BY <2>2, <2>5, ShownSafe
    <3>4. QED
      BY <1>2, <1>3, <1>7, <2>5, <3>1, <3>2, <3>3 DEF Says2, StatusOf
  <2>6. CASE a \notin {"full", "part"}
    BY <2>3, <2>6 DEF Says1, StatusOf
  <2>7. QED
    BY <2>5, <2>6
<1>10. QED
  BY <1>8, <1>9

(* What a board sees of the request.                                       *)
LEMMA BoardFields ==
  /\ \A s, v, o, t : HasEvas(Ask0(s, v, o, t)) <=> s \in STATION_EVAS
  /\ \A s, v, o, t, a : HasEvas(Ask1(s, v, o, t, a)) <=> s \in STATION_EVAS
  /\ \A s, v, o, t, a, b : HasEvas(Ask2(s, v, o, t, a, b)) <=> s \in STATION_EVAS
  /\ \A s, v, o, t, call, e : Upstream(Ask0(s, v, o, t), call, e) = call
  /\ \A s, v, o, t, a, call, e : Upstream(Ask1(s, v, o, t, a), call, e) = Settle(a, e)
  /\ \A s, v, o, t, a, call, e : Upstream(RestOf(Ask1(s, v, o, t, a)), call, e) = call
  /\ \A s, v, o, t, a, b, call, e :
       Upstream(RestOf(Ask2(s, v, o, t, a, b)), call, e) = Settle(b, e)
<1>1. /\ \A s, v, o, t, a : RestOf(Ask1(s, v, o, t, a)) = Ask0(s, v, o, t)
      /\ \A s, v, o, t, a, b : RestOf(Ask2(s, v, o, t, a, b)) = Ask1(s, v, o, t, b)
  BY RestFields
<1>2. QED
  BY <1>1, Fields DEF HasEvas, Upstream

(* With a toggle off, nothing is fetched.                                  *)
LEMMA DisabledSays ==
  \A c, switches, answer : ~On(c, switches) => Toggled(c, switches, answer).do = "say"
BY DEF Toggled, Say

(* The board of a route, and of the overview.                              *)
CityBoardOn(c, board) ==
  CASE HasEvas(c) -> Upstream(c, board, "no_data")
    [] ~HasEvas(c) /\ c.got = <<>> -> StationCatalog
    [] ~HasEvas(c) /\ c.got # <<>> ->
         CASE c.got[1] = "Other" -> Say("500")
           [] c.got[1] # "Other" /\ ~resolve_city_station_evas(c) -> Say("no_data")
           [] c.got[1] # "Other" /\ resolve_city_station_evas(c) ->
                Upstream(RestOf(c), board, "no_data")

SnapshotOn(c, board) ==
  CASE HasEvas(c) -> Degraded(Upstream(c, board, "ok"))
    [] ~HasEvas(c) /\ c.got = <<>> -> StationCatalog
    [] ~HasEvas(c) /\ c.got # <<>> ->
         CASE c.got[1] = "Other" -> Say("error")
           [] c.got[1] # "Other" /\ ~resolve_city_station_evas(c) -> Say("no_data")
           [] c.got[1] # "Other" /\ resolve_city_station_evas(c) ->
                Degraded(Upstream(RestOf(c), board, "ok"))

(* The route does what is asked of a board.                                *)
LEMMA CityBoardSettles ==
  ASSUME NEW h, NEW s, NEW board, board.do = "fetch",
         \A c : c.slug = s =>
           Handle(h, c) = Toggled(c, BoardSwitches, CityBoardOn(c, board))
  PROVE  BoardOf(h, s, board, "no_data")
<1> SUFFICES ASSUME NEW v \in BOOLEAN, NEW o, NEW t
             PROVE  BoardAt(h, s, board, "no_data", v, o, t)
  BY DEF BoardOf
<1> USE DEF BoardAt
<1>1. CASE o \cap BoardSwitches # {}
  BY <1>1, DisabledSays, Fields DEF On
<1>2. CASE o \cap BoardSwitches = {}
  <2>1. \A c : c.slug = s /\ c.off = o => Handle(h, c) = CityBoardOn(c, board)
    BY <1>2 DEF Toggled, On
  <2>2. /\ Handle(h, Ask0(s, v, o, t)) = CityBoardOn(Ask0(s, v, o, t), board)
        /\ \A a : Handle(h, Ask1(s, v, o, t, a)) = CityBoardOn(Ask1(s, v, o, t, a), board)
        /\ \A a, b : Handle(h, Ask2(s, v, o, t, a, b))
                       = CityBoardOn(Ask2(s, v, o, t, a, b), board)
    BY <2>1, Fields
  <2>3. CityBoardOn(Ask0(s, v, o, t), board)
          = IF s \in STATION_EVAS THEN board ELSE StationCatalog
    BY BoardFields, Fields DEF CityBoardOn
  <2>4. ASSUME NEW a
        PROVE  CityBoardOn(Ask1(s, v, o, t, a), board)
                 = IF s \in STATION_EVAS THEN Settle(a, "no_data")
                   ELSE IF a = "Other" THEN Say("500")
                   ELSE IF a \in {"full", "part"} THEN board ELSE Say("no_data")
    <3> DEFINE c == Ask1(s, v, o, t, a)
    <3>1. /\ c.got # <<>> /\ c.got[1] = a
          /\ HasEvas(c) <=> s \in STATION_EVAS
          /\ resolve_city_station_evas(c) <=> a \in {"full", "part"}
      BY Fields, BoardFields, ResolvedStations
    <3>2. /\ Upstream(c, board, "no_data") = Settle(a, "no_data")
          /\ Upstream(RestOf(c), board, "no_data") = board
      BY BoardFields
    <3> HIDE DEF c
    <3>3. CityBoardOn(c, board)
            = IF s \in STATION_EVAS THEN Settle(a, "no_data")
              ELSE IF a = "Other" THEN Say("500")
              ELSE IF a \in {"full", "part"} THEN board ELSE Say("no_data")
      BY <3>1, <3>2 DEF CityBoardOn
    <3>4. QED
      BY <3>3 DEF c
  <2>5. ASSUME NEW a \in {"full", "part"}, NEW b, s \notin STATION_EVAS
        PROVE  CityBoardOn(Ask2(s, v, o, t, a, b), board) = Settle(b, "no_data")
    <3> DEFINE c == Ask2(s, v, o, t, a, b)
    <3>1. /\ c.got # <<>> /\ c.got[1] = a
          /\ ~HasEvas(c) /\ resolve_city_station_evas(c)
      BY <2>5, Fields, BoardFields, ResolvedStations
    <3>2. Upstream(RestOf(c), board, "no_data") = Settle(b, "no_data")
      BY BoardFields
    <3> HIDE DEF c
    <3>3. CityBoardOn(c, board) = Settle(b, "no_data")
      BY <3>1, <3>2 DEF CityBoardOn
    <3>4. QED
      BY <3>3 DEF c
  <2>6. QED
    BY <1>2, <2>2, <2>3, <2>4, <2>5 DEF Shows
<1>3. QED
  BY <1>1, <1>2

(* So does the highlight, whose errors are a status.                       *)
LEMMA SnapshotSettles ==
  ASSUME NEW h, NEW s, NEW board, board.do = "fetch",
         \A c : c.slug = s =>
           Handle(h, c) = Toggled(c, BoardSwitches, SnapshotOn(c, board))
  PROVE  BoardOf(h, s, board, "ok")
<1> SUFFICES ASSUME NEW v \in BOOLEAN, NEW o, NEW t
             PROVE  BoardAt(h, s, board, "ok", v, o, t)
  BY DEF BoardOf
<1> USE DEF BoardAt
<1>1. CASE o \cap BoardSwitches # {}
  BY <1>1, DisabledSays, Fields DEF On
<1>2. CASE o \cap BoardSwitches = {}
  <2>1. \A c : c.slug = s /\ c.off = o => Handle(h, c) = SnapshotOn(c, board)
    BY <1>2 DEF Toggled, On
  <2>2. /\ Handle(h, Ask0(s, v, o, t)) = SnapshotOn(Ask0(s, v, o, t), board)
        /\ \A a : Handle(h, Ask1(s, v, o, t, a)) = SnapshotOn(Ask1(s, v, o, t, a), board)
        /\ \A a, b : Handle(h, Ask2(s, v, o, t, a, b))
                       = SnapshotOn(Ask2(s, v, o, t, a, b), board)
    BY <2>1, Fields
  <2>3. Degraded(board) = board
    BY DEF Degraded
  <2>4. SnapshotOn(Ask0(s, v, o, t), board)
          = IF s \in STATION_EVAS THEN board ELSE StationCatalog
    BY <2>3, BoardFields, Fields DEF SnapshotOn
  <2>5. ASSUME NEW a
        PROVE  SnapshotOn(Ask1(s, v, o, t, a), board)
                 = IF s \in STATION_EVAS THEN Degraded(Settle(a, "ok"))
                   ELSE IF a = "Other" THEN Say("error")
                   ELSE IF a \in {"full", "part"} THEN board ELSE Say("no_data")
    <3> DEFINE c == Ask1(s, v, o, t, a)
    <3>1. /\ c.got # <<>> /\ c.got[1] = a
          /\ HasEvas(c) <=> s \in STATION_EVAS
          /\ resolve_city_station_evas(c) <=> a \in {"full", "part"}
      BY Fields, BoardFields, ResolvedStations
    <3>2. /\ Upstream(c, board, "ok") = Settle(a, "ok")
          /\ Upstream(RestOf(c), board, "ok") = board
      BY BoardFields
    <3> HIDE DEF c
    <3>3. SnapshotOn(c, board)
            = IF s \in STATION_EVAS THEN Degraded(Settle(a, "ok"))
              ELSE IF a = "Other" THEN Say("error")
              ELSE IF a \in {"full", "part"} THEN board ELSE Say("no_data")
      BY <2>3, <3>1, <3>2 DEF SnapshotOn
    <3>4. QED
      BY <3>3 DEF c
  <2>6. ASSUME NEW a \in {"full", "part"}, NEW b, s \notin STATION_EVAS
        PROVE  SnapshotOn(Ask2(s, v, o, t, a, b), board) = Degraded(Settle(b, "ok"))
    <3> DEFINE c == Ask2(s, v, o, t, a, b)
    <3>1. /\ c.got # <<>> /\ c.got[1] = a
          /\ ~HasEvas(c) /\ resolve_city_station_evas(c)
      BY <2>6, Fields, BoardFields, ResolvedStations
    <3>2. Upstream(RestOf(c), board, "ok") = Settle(b, "ok")
      BY BoardFields
    <3> HIDE DEF c
    <3>3. SnapshotOn(c, board) = Degraded(Settle(b, "ok"))
      BY <3>1, <3>2 DEF SnapshotOn
    <3>4. QED
      BY <3>3 DEF c
  <2>7. QED
    BY <1>2, <2>2, <2>4, <2>5, <2>6 DEF Shows
<1>3. QED
  BY <1>1, <1>2

(* Both routes and the highlight are safe.                                 *)
LEMMA BoardsSafe == \A h \in Boards, s \in Registered : Safe(h, s)
<1> SUFFICES ASSUME NEW s \in Registered PROVE \A h \in Boards : Safe(h, s)
  OBVIOUS
<1> DEFINE board(prefix, fn_) == Fetch("db_timetables", <<prefix, s, "">>, fn_, s)
           departures == board("db_timetables", "fetch_station_departures")
           arrivals == board("db_timetables_arr", "fetch_station_arrivals")
<1>1. /\ Proper(departures) /\ departures.key[1] \notin Unfiltered
      /\ Needs(departures) = BoardSwitches /\ departures.do = "fetch"
  <2>1. Row("db_timetables", "fetch_station_departures")
    BY SourceRows
  <2>2. departures = CityFetch("db_timetables", "fetch_station_departures", s)
    BY DEF CityFetch
  <2>3. Needs(departures) = BoardSwitches /\ departures.do = "fetch"
    <3>1. /\ Needs(CityFetch("db_timetables", "fetch_station_departures", s))
               = {"db_timetables", "db_credentials"}
          /\ CityFetch("db_timetables", "fetch_station_departures", s).do = "fetch"
      BY SourceNeeds, CityFetches
    <3>2. QED
      BY <2>2, <3>1 DEF BoardSwitches
  <2>4. Proper(departures) /\ departures.key[1] \notin Unfiltered
    BY <2>1, <2>2, RowProper
  <2>5. QED
    BY <2>3, <2>4
<1>2. /\ Proper(arrivals) /\ arrivals.key[1] \notin Unfiltered
      /\ Needs(arrivals) = BoardSwitches /\ arrivals.do = "fetch"
  <2>1. Row("db_timetables_arr", "fetch_station_arrivals")
    BY SourceRows
  <2>2. /\ arrivals.do = "fetch" /\ arrivals.fn = "fetch_station_arrivals"
        /\ arrivals.slug = s /\ arrivals.source = "db_timetables"
        /\ arrivals.key[1] = "db_timetables_arr" /\ arrivals.key[2] = s
    BY DEF Fetch
  <2>3. QED
    BY <2>1, <2>2 DEF Row, Proper, Owns, Places, Unfiltered, Needs, GenesisTables, Home,
           BoardSwitches
<1>3. \A c : c.slug = s =>
        /\ city_station_departures(c) = Toggled(c, BoardSwitches, CityBoardOn(c, departures))
        /\ city_station_arrivals(c) = Toggled(c, BoardSwitches, CityBoardOn(c, arrivals))
  BY DEF city_station_departures, city_station_arrivals, CityBoard, CityBoardOn, RestOf,
         BoardSwitches
<1>4. \A c : c.slug = s =>
        snapshot_departures(c) = Toggled(c, BoardSwitches, SnapshotOn(c, departures))
  BY DEF snapshot_departures, SnapshotOn, RestOf, BoardSwitches, CityFetch
<1> HIDE DEF departures, arrivals
<1>5. Safe("city_station_departures", s)
  <2>1. BoardOf("city_station_departures", s, departures, "no_data")
    BY <1>1, <1>3, Dispatch, CityBoardSettles
  <2>2. QED
    BY <1>1, <2>1, BoardSafe DEF Boards
<1>6. Safe("city_station_arrivals", s)
  <2>1. BoardOf("city_station_arrivals", s, arrivals, "no_data")
    BY <1>2, <1>3, Dispatch, CityBoardSettles
  <2>2. QED
    BY <1>2, <2>1, BoardSafe DEF Boards
<1>7. Safe("highlight-departures", s)
  <2>1. BoardOf("highlight-departures", s, departures, "ok")
    BY <1>1, <1>4, Dispatch, SnapshotSettles
  <2>2. QED
    BY <1>1, <2>1, BoardSafe DEF Boards
<1>8. QED
  BY <1>5, <1>6, <1>7 DEF Boards

(***************************************************************************)
(* Intensive care, demographics, hospitals.                                *)
(***************************************************************************)

(* Beds: an outage is said to be no data.                                  *)
LEMMA IcuSafe == \A s \in Registered : Safe("city_icu_live", s)
<1> SUFFICES ASSUME NEW s \in Registered PROVE Safe("city_icu_live", s)
  OBVIOUS
<1> DEFINE call == CityFetch("divi_live", "fetch_icu_live", s)
<1>1. call.do = "fetch" /\ Needs(call) = {"divi"}
  BY CityFetches, SourceNeeds
<1>2. Proper(call) /\ call.key[1] \notin Unfiltered
  BY SourceRows, RowProper
<1>3. \A c : c.slug = s =>
        city_icu_live(c) = Toggled(c, {"divi"},
          IF c.got # <<>> /\ Nothing(c.got[1]) THEN Say("no_data")
          ELSE Upstream(c, call, "ok"))
  BY DEF city_icu_live
<1> HIDE DEF call
<1>4. \A a \in Gives(call) : a # "foreign"
  BY <1>2 DEF Gives, MayShow
<1>5. ASSUME NEW v \in BOOLEAN, NEW o, NEW t,
             Handle("city_icu_live", Ask0(s, v, o, t)).do = "fetch"
      PROVE  /\ Handle("city_icu_live", Ask0(s, v, o, t)) = call /\ o \cap {"divi"} = {}
             /\ \A a : /\ Handle("city_icu_live", Ask1(s, v, o, t, a)).do = "say"
                       /\ a = "nothing" =>
                            Handle("city_icu_live", Ask1(s, v, o, t, a)).status = "no_data"
  <2>1. o \cap {"divi"} = {}
    BY <1>3, <1>5, Fields, Dispatch, DisabledSays DEF On
  <2>2. \A c : c.slug = s /\ c.off = o =>
          Handle("city_icu_live", c)
            = IF c.got # <<>> /\ Nothing(c.got[1]) THEN Say("no_data")
              ELSE Upstream(c, call, "ok")
    BY <1>3, <2>1, Dispatch DEF Toggled, On
  <2>3. Handle("city_icu_live", Ask0(s, v, o, t)) = call
    BY <2>2, Fields, BoardFields
  <2>4. \A a : Handle("city_icu_live", Ask1(s, v, o, t, a))
                 = IF a = "nothing" THEN Say("no_data") ELSE Settle(a, "ok")
    BY <2>2, Fields, BoardFields DEF Nothing
  <2>5. QED
    BY <2>1, <2>3, <2>4, Settled DEF Say
<1>6. QED
  BY <1>1, <1>2, <1>4, <1>5 DEF Safe, MaySwitch, Says1, StatusOf

(* Demographics: without the credentials, what the seed has left.          *)
LEMMA DemographicsSafe ==
  \A s \in Registered : Safe("city_demographics", s) /\ Safe("demographics", s)
<1> SUFFICES ASSUME NEW s \in Registered, NEW h \in {"city_demographics", "demographics"}
             PROVE  Safe(h, s)
  OBVIOUS
<1> DEFINE call == CityFetch("genesis", "fetch_demographics", s)
<1>1. /\ call.do = "fetch" /\ Needs(call) = Genesis
      /\ Proper(call) /\ call.key[1] \notin Unfiltered
  <2>1. /\ call.do = "fetch" /\ call.fn = "fetch_demographics" /\ call.slug = s
        /\ call.source = "genesis" /\ call.key[1] = "genesis" /\ call.key[2] = s
    BY DEF CityFetch, Fetch
  <2> HIDE DEF call
  <2>2. Needs(call) = Genesis
    BY <2>1 DEF Needs, GenesisTables, Genesis, Home
  <2>3. Proper(call)
    BY <2>1 DEF Proper, Owns, Places, Fetchers, LandValueFormats, AnyFeed, OneCityFeeds
  <2>4. QED
    BY <2>1, <2>2, <2>3 DEF Unfiltered
<1>2. \A c : c.slug = s =>
        city_demographics(c) = IF On(c, Genesis) THEN Upstream(c, call, "ok")
                               ELSE Say(IF "population" \in c.has THEN "ok" ELSE "disabled")
  BY DEF city_demographics
<1>3. \A c : Handle(h, c) \in {city_demographics(c), Degraded(city_demographics(c))}
  <2>1. \A c : Handle("demographics", c) = Degraded(city_demographics(c))
    BY DEF Handle, RESOURCE_MAP, delegated_resources, one_delegated
  <2>2. QED
    BY <2>1, Dispatch
<1> HIDE DEF call
<1>4. \A a \in Gives(call) : a # "foreign"
  BY <1>1 DEF Gives, MayShow
<1>5. /\ Degraded(call) = call
      /\ \A status : Say(status).do = "say" /\ Degraded(Say(status)).do = "say"
  BY <1>1 DEF Degraded, Say
<1>6. ASSUME NEW v \in BOOLEAN, NEW o, NEW t, Handle(h, Ask0(s, v, o, t)).do = "fetch"
      PROVE  /\ Handle(h, Ask0(s, v, o, t)) = call /\ o \cap Genesis = {}
             /\ \A a : /\ Handle(h, Ask1(s, v, o, t, a)).do = "say"
                       /\ a = "nothing" =>
                            Handle(h, Ask1(s, v, o, t, a)).status \in {"503", "error"}
  <2>1. \A c : c.slug = s /\ c.off = o /\ o \cap Genesis # {} => Handle(h, c).do = "say"
    BY <1>2, <1>3, <1>5 DEF On
  <2>2. o \cap Genesis = {}
    BY <1>6, <2>1, Fields
  <2>3. \A c : c.slug = s /\ c.off = o =>
          Handle(h, c) \in {Upstream(c, call, "ok"), Degraded(Upstream(c, call, "ok"))}
    BY <1>2, <1>3, <2>2 DEF On
  <2>4. Handle(h, Ask0(s, v, o, t)) = call
    BY <1>5, <2>3, Fields, BoardFields
  <2>5. \A a : Shows(Handle(h, Ask1(s, v, o, t, a)), a, "ok")
    BY <2>3, Fields, BoardFields DEF Shows
  <2>6. QED
    BY <2>2, <2>4, <2>5, ShownSafe
<1>7. QED
  BY <1>1, <1>4, <1>6 DEF Safe, MaySwitch, Says1, StatusOf

(* Hospitals: the table of GENESIS, or with its toggle off Wikidata, whose *)
(* outage is not said.                                                     *)
LEMMA HealthSafe == \A s \in Registered : Safe("city_health", s)
<1> SUFFICES ASSUME NEW s \in Registered PROVE Safe("city_health", s)
  OBVIOUS
<1> DEFINE table == CityFetch("genesis_hospital", "fetch_hospitals", s)
           wiki == Fetch("wikidata", <<"genesis_hospital_wikidata", s, "">>,
                         "fetch_hospitals_wikidata", s)
<1>1. /\ table.do = "fetch" /\ Needs(table) = Genesis
      /\ Proper(table) /\ table.key[1] \notin Unfiltered
  BY CityFetches, SourceNeeds, SourceRows, RowProper
<1>2. /\ wiki.do = "fetch" /\ Needs(wiki) = {"wikidata"}
      /\ Proper(wiki) /\ wiki.key[1] \notin Unfiltered
  BY DEF CityFetch, Fetch, Needs, GenesisTables, Genesis, Home, Proper, Owns, FnOf, Places,
         Fetchers, LandValueFormats, AnyFeed, Unfiltered, OneCityFeeds
<1>3. \A c : c.slug = s =>
        city_health(c) =
          IF On(c, Genesis) THEN Upstream(c, table, "ok")
          ELSE CASE ~On(c, {"wikidata"}) -> IcuAlone(c, "disabled")
                 [] On(c, {"wikidata"}) /\ c.got = <<>> -> wiki
                 [] On(c, {"wikidata"}) /\ c.got # <<>> ->
                      IF Nothing(c.got[1]) THEN IcuAlone(c, "disabled")
                                           ELSE Settle(c.got[1], "ok")
  BY DEF city_health
<1>4. \A c : IcuAlone(c, "disabled").do = "say"
             /\ IcuAlone(c, "disabled").status \in {"ok", "disabled"}
  BY DEF IcuAlone, Say
<1> HIDE DEF table, wiki
<1>5. /\ \A a \in Gives(table) : a # "foreign"
      /\ \A a \in Gives(wiki) : a # "foreign"
  BY <1>1, <1>2 DEF Gives, MayShow
<1>6. ASSUME NEW v \in BOOLEAN, NEW o, NEW t,
             Handle("city_health", Ask0(s, v, o, t)).do = "fetch"
      PROVE  /\ \/ /\ Handle("city_health", Ask0(s, v, o, t)) = table
                   /\ o \cap Genesis = {}
                \/ /\ Handle("city_health", Ask0(s, v, o, t)) = wiki
                   /\ o \cap {"wikidata"} = {}
             /\ \A a : /\ Handle("city_health", Ask1(s, v, o, t, a)).do = "say"
                       /\ a = "nothing" =>
                            Handle("city_health", Ask1(s, v, o, t, a)).status
                              \in {"503", "ok", "disabled"}
  <2>1. CASE o \cap Genesis = {}
    <3>1. \A c : c.slug = s /\ c.off = o => Handle("city_health", c) = Upstream(c, table, "ok")
      BY <1>3, <2>1, Dispatch DEF On
    <3>2. /\ Handle("city_health", Ask0(s, v, o, t)) = table
          /\ \A a : Handle("city_health", Ask1(s, v, o, t, a)) = Settle(a, "ok")
      BY <3>1, Fields, BoardFields
    <3>3. QED
      BY <2>1, <3>2, Settled
  <2>2. CASE o \cap Genesis # {}
    <3>1. \A c : c.slug = s /\ c.off = o =>
            Handle("city_health", c) =
              CASE ~On(c, {"wikidata"}) -> IcuAlone(c, "disabled")
                [] On(c, {"wikidata"}) /\ c.got = <<>> -> wiki
                [] On(c, {"wikidata"}) /\ c.got # <<>> ->
                     IF Nothing(c.got[1]) THEN IcuAlone(c, "disabled")
                                          ELSE Settle(c.got[1], "ok")
      <4>1. \A c : c.off = o => ~On(c, Genesis)
        BY <2>2 DEF On
      <4>2. QED
        BY <1>3, <4>1, Dispatch
    <3>2. CASE o \cap {"wikidata"} # {}
      <4>1. ~On(Ask0(s, v, o, t), {"wikidata"})
        BY <3>2, Fields DEF On
      <4>2. Handle("city_health", Ask0(s, v, o, t)) = IcuAlone(Ask0(s, v, o, t), "disabled")
        BY <3>1, <4>1, Fields
      <4>3. QED
        BY <1>4, <1>6, <4>2
    <3>3. CASE o \cap {"wikidata"} = {}
      <4>1. \A c : c.off = o => On(c, {"wikidata"})
        BY <3>3 DEF On
      <4>2. \A c : c.slug = s /\ c.off = o =>
              Handle("city_health", c) =
                IF c.got = <<>> THEN wiki
                ELSE IF Nothing(c.got[1]) THEN IcuAlone(c, "disabled")
                                          ELSE Settle(c.got[1], "ok")
        BY <3>1, <4>1
      <4>3. /\ Handle("city_health", Ask0(s, v, o, t)) = wiki
            /\ \A a : Handle("city_health", Ask1(s, v, o, t, a))
                        = IF Nothing(a) THEN IcuAlone(Ask1(s, v, o, t, a), "disabled")
                                        ELSE Settle(a, "ok")
        BY <4>2, Fields
      <4>4. QED
        BY <1>4, <3>3, <4>3, Settled DEF Nothing
    <3>4. QED
      BY <3>2, <3>3
  <2>3. QED
    BY <2>1, <2>2
<1>7. QED
  BY <1>1, <1>2, <1>5, <1>6 DEF Safe, MaySwitch, Says1, StatusOf

(***************************************************************************)
(* Events.                                                                 *)
(***************************************************************************)
(* Before the list is cut: with both sources on, the nationwide one first. *)
EventsOn(c, destination, koeln) ==
  LET destination_enabled == On(c, {"destination_one"})
      koeln_enabled == On(c, {"koeln_events"}) /\ c.slug = "koeln"
  IN  CASE ~destination_enabled /\ ~koeln_enabled -> Say("disabled")
        [] destination_enabled /\ ~koeln_enabled -> Upstream(c, destination, "no_data")
        [] ~destination_enabled /\ koeln_enabled -> Upstream(c, koeln, "no_data")
        [] destination_enabled /\ koeln_enabled ->
             CASE c.got = <<>> -> destination
               [] Len(c.got) = 1 /\ c.got[1] \in {"Other", "nothing"} ->
                    Settle(c.got[1], "no_data")
               [] Len(c.got) = 1 /\ c.got[1] \notin {"Other", "nothing"} -> koeln
               [] Len(c.got) = 2 -> BothEvents(c.got[1], c.got[2])

(* Events: two sources in turn in Cologne; the second may fail if the      *)
(* first has found some.                                                   *)
LEMMA EventsSafe == \A s \in Registered : Safe("city_events", s)
<1> SUFFICES ASSUME NEW s \in Registered PROVE Safe("city_events", s)
  OBVIOUS
<1> DEFINE destination == CityFetch("destination_one", "fetch_destination_one", s)
           koeln == CityFetch("koeln_events", "fetch_koeln_events", s)
<1>1. /\ destination.do = "fetch" /\ Needs(destination) = {"destination_one"}
      /\ Proper(destination) /\ destination.key[1] \notin Unfiltered
      /\ koeln.do = "fetch" /\ Needs(koeln) = {"koeln_events"}
      /\ Proper(koeln) /\ koeln.key[1] \notin Unfiltered
  BY CityFetches, SourceNeeds, SourceRows, RowProper
<1>2. \A c : c.slug = s => Handle("city_events", c) = Paged(c, EventsOn(c, destination, koeln))
  <2>1. \A c : c.slug = s => city_events(c) = Paged(c, EventsOn(c, destination, koeln))
    BY DEF city_events, EventsOn, DestinationFetch, KoelnFetch, CityEvents
  <2>2. QED
    BY <2>1, Dispatch
<1> HIDE DEF destination, koeln
<1>3. /\ \A a \in Gives(destination) : a # "foreign"
      /\ \A a \in Gives(koeln) : a # "foreign"
  BY <1>1 DEF Gives, MayShow
<1>4. /\ \A c : Paged(c, destination) = destination /\ Paged(c, koeln) = koeln
      /\ \A c, answer : answer.do = "say" =>
           /\ Paged(c, answer).do = "say"
           /\ answer.status # "ok" => Paged(c, answer) = answer
  BY <1>1 DEF Paged, Say
<1>5. ASSUME NEW a, NEW b, a # "nothing"
      PROVE  /\ BothEvents(a, b).do = "say"
             /\ b = "nothing" => \/ BothEvents(a, b).status = "503"
                                 \/ BothEvents(a, b).status = "ok" /\ ~Empty(a)
  BY Settled DEF BothEvents, CityEvents, Say
<1>6. SUFFICES ASSUME NEW v \in BOOLEAN, NEW o, NEW t,
                      Handle("city_events", Ask0(s, v, o, t)).do = "fetch"
      PROVE  LET q == Handle("city_events", Ask0(s, v, o, t)) IN
             /\ Proper(q) /\ o \cap Needs(q) = {}
             /\ \A a \in Gives(q) :
                  LET q1 == Handle("city_events", Ask1(s, v, o, t, a)) IN
                  /\ Says1("city_events", a, StatusOf(q1))
                  /\ q1.do = "fetch" =>
                       /\ Proper(q1) /\ o \cap Needs(q1) = {}
                       /\ \A b \in Gives(q1) :
                            LET q2 == Handle("city_events", Ask2(s, v, o, t, a, b)) IN
                            q2.do # "fetch" /\ Says2("city_events", a, b, q2.status)
  BY DEF Safe, MaySwitch
<1> DEFINE d == o \cap {"destination_one"} = {}
           k == o \cap {"koeln_events"} = {} /\ s = "koeln"
<1>7. \A c : c.slug = s /\ c.off = o =>
        /\ On(c, {"destination_one"}) <=> d
        /\ On(c, {"koeln_events"}) /\ c.slug = "koeln" <=> k
  BY DEF On
<1>8. /\ d => o \cap Needs(destination) = {}
      /\ k => o \cap Needs(koeln) = {}
  BY <1>1
<1> HIDE DEF d, k
<1>9. ASSUME NEW call \in {destination, koeln}, o \cap Needs(call) = {},
             \A c : c.slug = s /\ c.off = o =>
               EventsOn(c, destination, koeln) = Upstream(c, call, "no_data")
      PROVE  LET q == Handle("city_events", Ask0(s, v, o, t)) IN
             /\ q = call
             /\ \A a : LET q1 == Handle("city_events", Ask1(s, v, o, t, a)) IN
                       q1.do = "say" /\ (a = "nothing" => q1.status = "503")
  <2>1. /\ EventsOn(Ask0(s, v, o, t), destination, koeln) = call
        /\ \A a : EventsOn(Ask1(s, v, o, t, a), destination, koeln) = Settle(a, "no_data")
    BY <1>9, Fields, BoardFields
  <2>2. /\ Handle("city_events", Ask0(s, v, o, t)) = Paged(Ask0(s, v, o, t), call)
        /\ \A a : Handle("city_events", Ask1(s, v, o, t, a))
                    = Paged(Ask1(s, v, o, t, a), Settle(a, "no_data"))
    BY <1>2, <2>1, Fields
  <2>3. QED
    BY <1>4, <1>9, <2>2, Settled
<1>10. CASE ~d /\ ~k
  <2>1. EventsOn(Ask0(s, v, o, t), destination, koeln) = Say("disabled")
    BY <1>7, <1>10, Fields DEF EventsOn
  <2>2. Handle("city_events", Ask0(s, v, o, t)) = Say("disabled")
    BY <1>2, <1>4, <2>1, Fields DEF Say
  <2>3. QED
    BY <1>6, <2>2 DEF Say
<1>11. CASE d /\ ~k
  <2>1. \A c : c.slug = s /\ c.off = o =>
          EventsOn(c, destination, koeln) = Upstream(c, destination, "no_data")
    BY <1>7, <1>11 DEF EventsOn
  <2>2. QED
    BY <1>1, <1>3, <1>8, <1>9, <1>11, <2>1 DEF Says1, StatusOf
<1>12. CASE ~d /\ k
  <2>1. \A c : c.slug = s /\ c.off = o =>
          EventsOn(c, destination, koeln) = Upstream(c, koeln, "no_data")
    BY <1>7, <1>12 DEF EventsOn
  <2>2. QED
    BY <1>1, <1>3, <1>8, <1>9, <1>12, <2>1 DEF Says1, StatusOf
<1>13. CASE d /\ k
  <2>1. \A c : c.slug = s /\ c.off = o =>
          EventsOn(c, destination, koeln) =
             CASE c.got = <<>> -> destination
               [] Len(c.got) = 1 /\ c.got[1] \in {"Other", "nothing"} ->
                    Settle(c.got[1], "no_data")
               [] Len(c.got) = 1 /\ c.got[1] \notin {"Other", "nothing"} -> koeln
               [] Len(c.got) = 2 -> BothEvents(c.got[1], c.got[2])
    BY <1>7, <1>13 DEF EventsOn
  <2>2. /\ Len(<<>>) = 0
        /\ \A a : Ask1(s, v, o, t, a).got # <<>>
        /\ \A a, b : Ask2(s, v, o, t, a, b).got # <<>>
    BY Fields
  <2>3. EventsOn(Ask0(s, v, o, t), destination, koeln) = destination
    BY <2>1, <2>2, Fields
  <2>4. ASSUME NEW a
        PROVE  EventsOn(Ask1(s, v, o, t, a), destination, koeln)
                 = IF a \in {"Other", "nothing"} THEN Settle(a, "no_data") ELSE koeln
    BY <2>1, <2>2, Fields
  <2>5. ASSUME NEW a, NEW b
        PROVE  EventsOn(Ask2(s, v, o, t, a, b), destination, koeln) = BothEvents(a, b)
    BY <2>1, <2>2, Fields
  <2>6. Handle("city_events", Ask0(s, v, o, t)) = destination
    BY <1>2, <1>4, <2>3, Fields
  <2>7. SUFFICES ASSUME NEW a \in Gives(destination)
        PROVE  LET q1 == Handle("city_events", Ask1(s, v, o, t, a)) IN
                  /\ Says1("city_events", a, StatusOf(q1))
                  /\ q1.do = "fetch" =>
                       /\ Proper(q1) /\ o \cap Needs(q1) = {}
                       /\ \A b \in Gives(q1) :
                            LET q2 == Handle("city_events", Ask2(s, v, o, t, a, b)) IN
                            q2.do # "fetch" /\ Says2("city_events", a, b, q2.status)
    BY <1>1, <1>8, <1>13, <2>6
  <2>8. CASE a \in {"Other", "nothing"}
    <3>1. LET q1 == Handle("city_events", Ask1(s, v, o, t, a)) IN
            q1.do = "say" /\ (a = "nothing" => q1.status = "503")
      BY <1>2, <1>4, <2>4, <2>8, Fields, Settled
    <3>2. QED
      BY <1>3, <3>1 DEF Says1, StatusOf
  <2>9. CASE a \notin {"Other", "nothing"}
    <3>1. Handle("city_events", Ask1(s, v, o, t, a)) = koeln
      BY <1>2, <1>4, <2>4, <2>9, Fields
    <3>2. Says1("city_events", a, StatusOf(koeln))
      BY <1>1, <2>9 DEF Says1, StatusOf
    <3>3. ~Empty(a) => a \in {"full", "part"}
      BY <1>3, <2>9 DEF Gives, MayShow, Payload, Empty
    <3>4. ASSUME NEW b \in Gives(koeln)
          PROVE  LET q2 == Handle("city_events", Ask2(s, v, o, t, a, b)) IN
                 q2.do # "fetch" /\ Says2("city_events", a, b, q2.status)
      <4>1. Handle("city_events", Ask2(s, v, o, t, a, b))
              = Paged(Ask2(s, v, o, t, a, b), BothEvents(a, b))
        BY <1>2, <2>5, Fields
      <4>2. /\ Paged(Ask2(s, v, o, t, a, b), BothEvents(a, b)).do = "say"
            /\ b = "nothing" /\ a \notin {"full", "part"} =>
                 Paged(Ask2(s, v, o, t, a, b), BothEvents(a, b)).status = "503"
        BY <1>4, <1>5, <2>9, <3>3
      <4>3. QED
        BY <1>3, <2>9, <4>1, <4>2 DEF Says2
    <3>5. QED
      BY <1>1, <1>8, <1>13, <3>1, <3>2, <3>4
  <2>10. QED
    BY <2>8, <2>9
<1>14. QED
  BY <1>10, <1>11, <1>12, <1>13

AllHandlers == CityRoutes \cup LiveRoutes \cup Rows

(* The city of a request, or the one of the path.                          *)
Suits(h, s) == IF h \in DOMAIN PathCity THEN s = PathCity[h] ELSE s \in Registered

AnywhereSafe == ArchiveRoutes \cup SimpleRoutes \cup OsmRoutes \cup KeyedRoutes
  \cup {"city_road_events", "city_bike_counts", "city_parking"} \cup SituationRoutes
  \cup {"city_weather_warnings", "weather-warnings", "city_stations"}
  \cup {"weather", "air", "highlight-weather", "highlight-air", "live_traffic_flow"}
  \cup Boards \cup {"city_icu_live", "city_demographics", "demographics", "city_health",
                    "city_events"}

(* The rows of compare and the highlights of the overview, by name.        *)
LEMMA RowNames ==
  Rows = {"weather", "air", "indicators", "demographics", "unemployment", "tourism",
          "charging-status", "weather-warnings", "highlight-weather", "highlight-air",
          "highlight-departures"}
<1>1. DOMAIN Highlights = {1, 2, 3}
  BY DEF Highlights
<1>2. ToSet(Highlights) = {"highlight-weather", "highlight-air", "highlight-departures"}
  BY <1>1 DEF ToSet, Highlights
<1>3. QED
  BY <1>2 DEF Rows, RESOURCE_MAP, delegated_resources

(* Every handler that any city may ask for is safe.                        *)
LEMMA AnywhereIsSafe == \A h \in AnywhereSafe, s \in Registered : Safe(h, s)
<1> SUFFICES ASSUME NEW s \in Registered, NEW h \in AnywhereSafe PROVE Safe(h, s)
  OBVIOUS
<1>1. CASE h \in ArchiveRoutes
  BY <1>1, ArchiveSafe
<1>2. CASE h \in SimpleRoutes
  BY <1>2, SimpleSafe
<1>3. CASE h \in OsmRoutes
  BY <1>3, OsmSafe
<1>4. CASE h \in KeyedRoutes
  BY <1>4, KeyedSafe DEF KeyedRoutes
<1>5. CASE h \in {"city_road_events", "city_bike_counts", "city_parking"}
  BY <1>5, RoadEventsSafe, BikeCountsSafe, ParkingSafe
<1>6. CASE h \in SituationRoutes
  BY <1>6, PublicationsSafe
<1>7. CASE h \in {"city_weather_warnings", "weather-warnings", "city_stations"}
  BY <1>7, NationwideSafe
<1>8. CASE h \in {"weather", "air", "highlight-weather", "highlight-air", "live_traffic_flow"}
  BY <1>8, RowsSafe, TrafficFlowSafe
<1>9. CASE h \in Boards
  BY <1>9, BoardsSafe
<1>10. CASE h \in {"city_icu_live", "city_demographics", "demographics", "city_health",
                   "city_events"}
  BY <1>10, IcuSafe, DemographicsSafe, HealthSafe, EventsSafe
<1>11. QED
  BY <1>1, <1>2, <1>3, <1>4, <1>5, <1>6, <1>7, <1>8, <1>9, <1>10 DEF AnywhereSafe

(* Every handler is safe for every city that it can be asked for.          *)
LEMMA AllSafe == \A h \in AllHandlers : \A s : Suits(h, s) => Safe(h, s)
<1> SUFFICES ASSUME NEW h \in AllHandlers, NEW s, Suits(h, s) PROVE Safe(h, s)
  OBVIOUS
<1>1. CASE h \in DOMAIN PathCity
  <2>1. \A p \in DOMAIN PathCity : PathCity[p] \in Registered \cup {"eva"}
    BY DEF PathCity, Registered, CITY_REGISTRY
  <2>2. CASE h \in {"live_berlin_verkehrsmeldungen", "live_hannover_verkehrsmeldungen",
                    "live_koeln_umweltzone", "live_dortmund_parking",
                    "live_hamburg_verkehrslage"}
    <3>1. s \in Registered
      BY <2>2 DEF Suits, PathCity, Registered, CITY_REGISTRY
    <3>2. QED
      BY <2>2, <3>1, PublicationsSafe, SimpleSafe DEF SituationRoutes, SimpleRoutes
  <2>3. CASE h \in {"live_kiel_zaehlstellen", "live_frankfurt_parking",
                    "live_wuppertal_parking", "live_magdeburg_parking"}
    BY <1>1, <2>3, PublicationsSafe DEF Suits, PathCity
  <2>4. CASE h \in {"live_hamburg_departures", "live_nuernberg_departures",
                    "station_departures_by_eva", "station_arrivals_by_eva"}
    BY <1>1, <2>4, KeyedSafe DEF Suits, PathCity
  <2>5. CASE h = "live_eround_charging"
    BY <2>5, ArchiveSafe DEF ArchiveRoutes
  <2>6. QED
    BY <1>1, <2>2, <2>3, <2>4, <2>5 DEF PathCity
<1>2. CASE h \notin DOMAIN PathCity
  <2>1. h \in AnywhereSafe
    BY <1>2, RowNames DEF AllHandlers, CityRoutes, LiveRoutes, PathCity, AnywhereSafe,
       ArchiveRoutes, SimpleRoutes, OsmRoutes, KeyedRoutes, SituationRoutes, Boards
  <2>2. s \in Registered
    BY <1>2 DEF Suits
  <2>3. QED
    BY <2>1, <2>2, AnywhereIsSafe
<1>3. QED
  BY <1>1, <1>2

(* What an adapter is seen to return comes of replies that its source may  *)
(* give.                                                                   *)
LEMMA OutcomesOf ==
  ASSUME NEW call, Proper(call), NEW result \in Outcomes(call)
  PROVE  \E k, l \in PossibleReplies(call) : result = OutcomeOf(call.fn, <<k, l, l>>)
<1>1. /\ call.fn \in Fetchers
      /\ PossibleReplies(call) \in {Reply, Reply \ {"far"}, Reply \ {"rows"}}
  BY DEF Proper, PossibleReplies
<1>2. \A f \in Fetchers, p \in {Reply, Reply \ {"far"}, Reply \ {"rows"}} :
        \A x \in OutcomesAmong[f][p] : \E k, l \in p : x = OutcomeOf(f, <<k, l, l>>)
  BY DEF OutcomesAmong
<1>3. result \in OutcomesAmong[call.fn][PossibleReplies(call)]
  BY DEF Outcomes
<1>4. \A x \in OutcomesAmong[call.fn][PossibleReplies(call)] :
        \E k, l \in PossibleReplies(call) : x = OutcomeOf(call.fn, <<k, l, l>>)
  <2> DEFINE f == call.fn
             p == PossibleReplies(call)
             Sets == {Reply, Reply \ {"far"}, Reply \ {"rows"}}
  <2>1. f \in Fetchers /\ p \in Sets
    BY <1>1
  <2>2. \A g \in Fetchers, q \in Sets :
          \A x \in OutcomesAmong[g][q] : \E k, l \in q : x = OutcomeOf(g, <<k, l, l>>)
    BY <1>2
  <2> HIDE DEF f, p, Sets
  <2>3. \A x \in OutcomesAmong[f][p] : \E k, l \in p : x = OutcomeOf(f, <<k, l, l>>)
    BY <2>1, <2>2
  <2>4. QED
    BY <2>3 DEF f, p
<1>5. QED
  BY <1>3, <1>4

(***************************************************************************)
(* What an adapter is seen to return for a call that a handler makes.      *)
(***************************************************************************)
LEMMA OutcomesShown ==
  ASSUME NEW call, Proper(call)
  PROVE  Outcomes(call) \subseteq Raised \cup MayShow(call.key)
<1> SUFFICES ASSUME NEW result \in Outcomes(call)
             PROVE  result \in Raised \cup MayShow(call.key)
  OBVIOUS
<1>1. PICK k \in PossibleReplies(call), l \in PossibleReplies(call) :
        result = OutcomeOf(call.fn, <<k, l, l>>)
  BY OutcomesOf
<1> DEFINE r == <<k, l, l>>
<1>2. /\ PossibleReplies(call) \subseteq Reply
      /\ call.fn \in OneCityFeeds => "far" \notin PossibleReplies(call)
      /\ call.fn \in AnyFeed =>
           call.key[1] \in Unfiltered \/ "far" \notin PossibleReplies(call)
  BY DEF Proper, PossibleReplies
<1>3. /\ r \in Feed(3, call.fn)
      /\ (\E i \in 1 .. 3 : r[i] = "far") => "far" \in {k, l}
  <2>1. r \in [1 .. 3 -> {k, l}]
    OBVIOUS
  <2>2. {k, l} \subseteq IF call.fn \in OneCityFeeds THEN Reply \ {"far"} ELSE Reply
    BY <1>2
  <2>3. r \in Feed(3, call.fn)
    BY <2>1, <2>2 DEF Feed
  <2>4. QED
    BY <2>1, <2>3
<1> HIDE DEF r
<1>4. 3 \in Many /\ call.fn \in Fetchers /\ call.fn \notin LandValueFormats
  BY DEF Many, Proper
<1>5. Tells(3, call.fn, r)
  BY <1>3, <1>4, AllTell
<1>6. /\ result \in Outcome /\ result # "null"
      /\ result = "foreign" => call.key[1] \in Unfiltered
  BY <1>1, <1>2, <1>3, <1>4, <1>5 DEF Tells, r
<1>7. QED
  BY <1>6 DEF Outcome, MayShow

-----------------------------------------------------------------------------
(***************************************************************************)
(* The inductive invariant.  The properties speak of the entry or of the   *)
(* part they find; that they hold again after a step rests on what every   *)
(* other entry holds, since a part may read any of them next, and on where *)
(* the results of a part have come from.                                   *)
(***************************************************************************)
Results == Payload \cup {"nothing", "Other"}

Askable == Registered \cup {"eva"} \cup Cities \cup Repeated \cup OverviewCities
             \cup ToSet(CompareCities)

Entry == [fn : Fetchers, slug : Places, payload : Payload, fresh : BOOLEAN]

(* What the entry k holds.                                                 *)
Holds(k, e) ==
  /\ e \in Entry
  /\ Owns(k, e.fn, e.slug)
  /\ e.payload \in MayShow(k)

(* What the handler of the part p does when it has got these results.      *)
With(p, v, o, t, results) ==
  Handle(p.handler, [slug |-> p.slug, valid |-> v, off |-> o, has |-> t, got |-> results])

(* The handler makes this call, and this is what can become of it.         *)
Gets(call, result) == call.do = "fetch" /\ result \in Gives(call)

(* A part whose results are of the calls that its handler makes, in order, *)
(* for a city that its handler can be asked for.                           *)
Fits(p, v, o, t) ==
  /\ p \in [handler : AllHandlers, slug : Askable, got : Seq(Results), late : BOOLEAN]
  /\ get_city(p.slug) => Suits(p.handler, p.slug)
  /\ ~get_city(p.slug) => p.got = <<>>
  /\ \/ p.got = <<>>
     \/ \E a : p.got = <<a>> /\ Gets(With(p, v, o, t, <<>>), a)
     \/ \E a, b : /\ p.got = <<a, b>>
                  /\ Gets(With(p, v, o, t, <<>>), a)
                  /\ Gets(With(p, v, o, t, <<a>>), b)

CacheHolds == \A k \in DOMAIN cache : Holds(k, cache[k])
PartsFit == \A i \in DOMAIN parts : Fits(parts[i], request.valid, off, has)
(* A request has only parts that degrade, or none of them.                 *)
RowsTogether ==
  \A i \in DOMAIN parts :
    parts[i].handler \in Rows =>
      /\ request.route = "compare" \/ get_city(parts[i].slug)
      /\ \A j \in DOMAIN parts : parts[j].handler \in Rows

ServiceInv ==
  /\ CacheHolds
  /\ \A call \in refreshing : Proper(call)
  /\ request.valid \in BOOLEAN
  /\ PartsFit
  /\ RowsTogether

(***************************************************************************)
(* What the handler of a part does, said of the part.                      *)
(***************************************************************************)
LEMMA PartSafe ==
  ASSUME NEW p, NEW v \in BOOLEAN, NEW o, NEW t, Fits(p, v, o, t), get_city(p.slug),
         With(p, v, o, t, <<>>).do = "fetch"
  PROVE  /\ Proper(With(p, v, o, t, <<>>))
         /\ MaySwitch(p.handler, With(p, v, o, t, <<>>), o)
         /\ \A a \in Gives(With(p, v, o, t, <<>>)) :
              Says1(p.handler, a, StatusOf(With(p, v, o, t, <<a>>)))
         /\ \A a \in Gives(With(p, v, o, t, <<>>)) :
              With(p, v, o, t, <<a>>).do = "fetch" =>
                /\ Proper(With(p, v, o, t, <<a>>))
                /\ MaySwitch(p.handler, With(p, v, o, t, <<a>>), o)
                /\ \A b \in Gives(With(p, v, o, t, <<a>>)) :
                     /\ With(p, v, o, t, <<a, b>>).do # "fetch"
                     /\ Says2(p.handler, a, b, With(p, v, o, t, <<a, b>>).status)
<1>1. Safe(p.handler, p.slug)
  BY AllSafe DEF Fits
<1>2. /\ With(p, v, o, t, <<>>) = Handle(p.handler, Ask0(p.slug, v, o, t))
      /\ \A a : With(p, v, o, t, <<a>>) = Handle(p.handler, Ask1(p.slug, v, o, t, a))
      /\ \A a, b : With(p, v, o, t, <<a, b>>)
                     = Handle(p.handler, Ask2(p.slug, v, o, t, a, b))
  BY DEF With, Ask0, Ask1, Ask2
<1>3. QED
  BY <1>1, <1>2 DEF Safe

(* A part that is late or of an unknown city says so; another does what    *)
(* its handler does.                                                       *)
LEMMA PartSteps ==
  ASSUME NEW p, Fits(p, request.valid, off, has)
  PROVE  /\ p.late => NextStep(p) = Say("error")
         /\ ~p.late /\ ~get_city(p.slug) =>
              NextStep(p) = Say(IF request.route = "compare" THEN "not_found" ELSE "404")
         /\ ~p.late /\ get_city(p.slug) =>
              NextStep(p) = With(p, request.valid, off, has, p.got)
         /\ Fetches(p) => ~p.late /\ get_city(p.slug)
<1>1. p.late \in BOOLEAN
  BY DEF Fits
<1>2. /\ p.late => NextStep(p) = Say("error")
      /\ ~p.late /\ ~get_city(p.slug) =>
           NextStep(p) = Say(IF request.route = "compare" THEN "not_found" ELSE "404")
      /\ ~p.late /\ get_city(p.slug) =>
           NextStep(p) = With(p, request.valid, off, has, p.got)
  BY <1>1 DEF NextStep, With
<1>3. \A st : Say(st).do # "fetch"
  BY DEF Say
<1>4. QED
  BY <1>1, <1>2, <1>3 DEF Fetches

(* A part that fetches has at most one result, and its next fetch is a     *)
(* proper one.                                                             *)
LEMMA Fetched ==
  ASSUME NEW p, request.valid \in BOOLEAN, Fits(p, request.valid, off, has), Fetches(p)
  PROVE  /\ get_city(p.slug)
         /\ NextStep(p) = With(p, request.valid, off, has, p.got)
         /\ NextStep(p).do = "fetch"
         /\ Proper(NextStep(p)) /\ MaySwitch(p.handler, NextStep(p), off)
         /\ \/ p.got = <<>>
            \/ \E a : p.got = <<a>> /\ Gets(With(p, request.valid, off, has, <<>>), a)
<1>1. /\ get_city(p.slug) /\ NextStep(p) = With(p, request.valid, off, has, p.got)
      /\ NextStep(p).do = "fetch"
  BY PartSteps DEF Fetches
<1>2. CASE p.got = <<>>
  BY <1>1, <1>2, PartSafe
<1>3. ASSUME NEW a, p.got = <<a>>, Gets(With(p, request.valid, off, has, <<>>), a)
      PROVE  Proper(NextStep(p)) /\ MaySwitch(p.handler, NextStep(p), off)
  BY <1>1, <1>3, PartSafe DEF Gets
<1>4. ASSUME NEW a, NEW b, p.got = <<a, b>>,
             Gets(With(p, request.valid, off, has, <<>>), a),
             Gets(With(p, request.valid, off, has, <<a>>), b)
      PROVE  FALSE
  BY <1>1, <1>4, PartSafe DEF Gets
<1>5. QED
  BY <1>1, <1>2, <1>3, <1>4 DEF Fits

(* Two results are the first with the second appended.                     *)
LEMMA Appended == \A x, y : Append(<<x>>, y) = <<x, y>>
<1> SUFFICES ASSUME NEW x, NEW y PROVE Append(<<x>>, y) = <<x, y>>
  OBVIOUS
<1> DEFINE S == {x, y}
           longer == Append(<<x>>, y)
           both == <<x, y>>
<1>1. <<x>> \in Seq(S) /\ Len(<<x>>) = 1 /\ longer \in Seq(S) /\ Len(longer) = 2
  OBVIOUS
<1>2. longer[1] = x /\ longer[2] = y
  BY <1>1
<1>3. both \in Seq(S) /\ Len(both) = 2 /\ both[1] = x /\ both[2] = y
  OBVIOUS
<1> HIDE DEF longer, both
<1>4. longer \in [1 .. 2 -> S] /\ both \in [1 .. 2 -> S]
  BY <1>1, <1>3
<1>5. \A i \in 1 .. 2 : longer[i] = both[i]
  BY <1>2, <1>3
<1>6. longer = both
  BY <1>4, <1>5
<1>7. QED
  BY <1>6 DEF longer, both

(* Another result of a part fits.                                          *)
LEMMA OneMore ==
  ASSUME NEW p, request.valid \in BOOLEAN, Fits(p, request.valid, off, has), Fetches(p),
         NEW result \in Gives(NextStep(p))
  PROVE  /\ Fits([p EXCEPT !.got = Append(@, result)], request.valid, off, has)
         /\ [p EXCEPT !.got = Append(@, result)].handler = p.handler
         /\ [p EXCEPT !.got = Append(@, result)].slug = p.slug
<1> DEFINE q == [p EXCEPT !.got = Append(@, result)]
<1>1. /\ p \in [handler : AllHandlers, slug : Askable, got : Seq(Results), late : BOOLEAN]
      /\ get_city(p.slug) => Suits(p.handler, p.slug)
  BY DEF Fits
<1>2. /\ get_city(p.slug)
      /\ Gets(With(p, request.valid, off, has, p.got), result)
  BY Fetched DEF Gets
<1>3. result \in Results
  BY DEF Gives, MayShow, Results
<1>4. /\ q.handler = p.handler /\ q.slug = p.slug /\ q.late = p.late
      /\ q.got = Append(p.got, result)
      /\ q \in [handler : AllHandlers, slug : Askable, got : Seq(Results), late : BOOLEAN]
  BY <1>1, <1>3
<1> HIDE DEF q
<1>5. \A got : With(q, request.valid, off, has, got) = With(p, request.valid, off, has, got)
  BY <1>4 DEF With
<1>6. \/ q.got = <<result>> /\ Gets(With(q, request.valid, off, has, <<>>), result)
      \/ \E a : /\ q.got = <<a, result>>
                /\ Gets(With(q, request.valid, off, has, <<>>), a)
                /\ Gets(With(q, request.valid, off, has, <<a>>), result)
  <2>1. CASE p.got = <<>>
    BY <1>2, <1>4, <1>5, <2>1
  <2>2. ASSUME NEW a, p.got = <<a>>, Gets(With(p, request.valid, off, has, <<>>), a)
        PROVE  /\ q.got = <<a, result>>
               /\ Gets(With(q, request.valid, off, has, <<>>), a)
               /\ Gets(With(q, request.valid, off, has, <<a>>), result)
    <3>1. Append(<<a>>, result) = <<a, result>>
      BY Appended
    <3>2. q.got = <<a, result>>
      BY <1>4, <2>2, <3>1
    <3>3. Gets(With(q, request.valid, off, has, <<a>>), result)
      BY <1>2, <1>5, <2>2
    <3>4. QED
      BY <1>5, <2>2, <3>2, <3>3
  <2>3. QED
    BY <2>1, <2>2, Fetched
<1>7. Fits(q, request.valid, off, has)
  BY <1>1, <1>2, <1>4, <1>6 DEF Fits
<1>8. QED
  BY <1>4, <1>7 DEF q

(* The parts after such a step.                                            *)
LEMMA PartsReturn ==
  ASSUME ServiceInv, NEW i \in DOMAIN parts, Fetches(parts[i]),
         NEW result \in Gives(NextStep(parts[i])), Returns(i, result),
         UNCHANGED <<off, has, request>>
  PROVE  PartsFit' /\ RowsTogether'
<1> DEFINE q == [parts[i] EXCEPT !.got = Append(@, result)]
<1>1. /\ Fits(q, request.valid, off, has)
      /\ q.handler = parts[i].handler /\ q.slug = parts[i].slug
  BY OneMore DEF ServiceInv, PartsFit
<1>2. /\ DOMAIN parts' = DOMAIN parts
      /\ \A j \in DOMAIN parts : parts'[j] = IF j = i THEN q ELSE parts[j]
  BY DEF Returns
<1> HIDE DEF q
<1>3. PartsFit'
  BY <1>1, <1>2 DEF ServiceInv, PartsFit
<1>4. RowsTogether'
  <2>1. \A j \in DOMAIN parts : /\ parts'[j].handler = parts[j].handler
                                /\ parts'[j].slug = parts[j].slug
    BY <1>1, <1>2
  <2>2. QED
    BY <1>2, <2>1 DEF ServiceInv, RowsTogether, get_city
<1>5. QED
  BY <1>3, <1>4

(* A payload that is kept is its owner's.                                  *)
LEMMA StoreHolds ==
  ASSUME CacheHolds, NEW call, Proper(call), NEW payload \in MayShow(call.key),
         Store(call, payload)
  PROVE  CacheHolds'
<1>1. CASE ~call.store
  BY <1>1 DEF Store, CacheHolds
<1>2. CASE call.store
  <2> DEFINE e == [fn |-> call.fn, slug |-> call.slug, payload |-> payload, fresh |-> TRUE]
  <2>1. Holds(call.key, e)
    BY DEF Holds, Entry, Proper, MayShow
  <2> HIDE DEF e
  <2>2. cache' = [k \in DOMAIN cache \cup {call.key} |-> IF k = call.key THEN e ELSE cache[k]]
    BY <1>2 DEF Store, e
  <2>3. QED
    BY <2>1, <2>2 DEF CacheHolds
<1>3. QED
  BY <1>1, <1>2

(* What an adapter ends with is an exception or may be shown.              *)
LEMMA Ends ==
  ASSUME NEW call, Proper(call), NEW result \in Outcomes(call)
  PROVE  /\ result \in Payload => result \in MayShow(call.key)
         /\ result # "HTTPError" => result \in Gives(call)
<1>1. result \in Raised \cup MayShow(call.key)
  BY OutcomesShown
<1>2. QED
  BY <1>1 DEF Raised, Gives, Payload, MayShow

(* A fetch keeps the invariant: from the cache, from upstream, or not at   *)
(* all.                                                                    *)
LEMMA FetchingKeeps ==
  ASSUME ServiceInv, NEW i \in DOMAIN parts, Fetching(i)
  PROVE  ServiceInv'
<1> DEFINE call == NextStep(parts[i])
<1>1. Fetches(parts[i]) /\ UNCHANGED <<off, has, request>>
  BY DEF Fetching, FromCache, FromUpstream, Unavailable, settings
<1>2. Proper(call)
  BY <1>1, Fetched DEF ServiceInv, PartsFit
<1> HIDE DEF call
<1>3. CASE FromCache(i)
  <2>1. /\ call.key \in DOMAIN cache
        /\ Returns(i, cache[call.key].payload)
        /\ refreshing' \subseteq refreshing \cup {call}
        /\ UNCHANGED cache
    BY <1>3 DEF FromCache, Kept, call
  <2>2. cache[call.key].payload \in Gives(call)
    BY <2>1 DEF ServiceInv, CacheHolds, Holds, Gives
  <2>3. PartsFit' /\ RowsTogether'
    BY <1>1, <2>1, <2>2, PartsReturn DEF call
  <2>4. QED
    BY <1>1, <1>2, <2>1, <2>3 DEF ServiceInv, CacheHolds
<1>4. CASE FromUpstream(i)
  <2>1. PICK result \in Outcomes(call) \ {"HTTPError"} :
          /\ Returns(i, result)
          /\ IF result \in Payload THEN Store(call, result) ELSE UNCHANGED cache
    BY <1>4 DEF FromUpstream, call
  <2>2. /\ result \in Gives(call)
        /\ result \in Payload => result \in MayShow(call.key)
    BY <1>2, <2>1, Ends
  <2>3. PartsFit' /\ RowsTogether'
    BY <1>1, <2>1, <2>2, PartsReturn DEF call
  <2>4. CacheHolds'
    <3>1. CASE result \in Payload
      BY <1>2, <2>1, <2>2, <3>1, StoreHolds DEF ServiceInv
    <3>2. CASE result \notin Payload
      BY <2>1, <3>2 DEF ServiceInv, CacheHolds
    <3>3. QED
      BY <3>1, <3>2
  <2>5. refreshing' = refreshing
    BY <1>4 DEF FromUpstream
  <2>6. QED
    BY <1>1, <2>3, <2>4, <2>5 DEF ServiceInv
<1>5. CASE Unavailable(i)
  <2>1. Returns(i, "nothing") /\ UNCHANGED <<cache, refreshing>>
    BY <1>5 DEF Unavailable
  <2>2. "nothing" \in Gives(call)
    BY DEF Gives
  <2>3. PartsFit' /\ RowsTogether'
    BY <1>1, <2>1, <2>2, PartsReturn DEF call
  <2>4. QED
    BY <1>1, <2>1, <2>3 DEF ServiceInv, CacheHolds
<1>6. QED
  BY <1>3, <1>4, <1>5 DEF Fetching

(* So does a budget that ends: the part is late with what it got.          *)
LEMMA BudgetKeeps ==
  ASSUME ServiceInv, NEW i \in DOMAIN parts, BudgetEnds(i)
  PROVE  ServiceInv'
<1> DEFINE q == [parts[i] EXCEPT !.late = TRUE]
<1>1. Fits(parts[i], request.valid, off, has)
  BY DEF ServiceInv, PartsFit
<1>2. /\ q \in [handler : AllHandlers, slug : Askable, got : Seq(Results), late : BOOLEAN]
      /\ q.handler = parts[i].handler /\ q.slug = parts[i].slug /\ q.got = parts[i].got
  BY <1>1 DEF Fits
<1>3. /\ DOMAIN parts' = DOMAIN parts
      /\ \A j \in DOMAIN parts : parts'[j] = IF j = i THEN q ELSE parts[j]
      /\ UNCHANGED <<off, has, request, cache, refreshing>>
  BY DEF BudgetEnds, settings
<1> HIDE DEF q
<1>4. \A got : With(q, request.valid, off, has, got)
                 = With(parts[i], request.valid, off, has, got)
  BY <1>2 DEF With
<1>5. Fits(q, request.valid, off, has)
  BY <1>1, <1>2, <1>4 DEF Fits
<1>6. PartsFit'
  BY <1>3, <1>5 DEF ServiceInv, PartsFit
<1>7. RowsTogether'
  <2>1. \A j \in DOMAIN parts : /\ parts'[j].handler = parts[j].handler
                                /\ parts'[j].slug = parts[j].slug
    BY <1>2, <1>3
  <2>2. QED
    BY <1>3, <2>1 DEF ServiceInv, RowsTogether, get_city
<1>8. QED
  BY <1>3, <1>6, <1>7 DEF ServiceInv, CacheHolds

(* So does a refresh in the background, whose outcome is kept like that of *)
(* a fetch.                                                                *)
LEMMA RefreshKeeps ==
  ASSUME ServiceInv, NEW call \in refreshing, Refresh(call)
  PROVE  ServiceInv'
<1>1. Proper(call)
  BY DEF ServiceInv
<1>2. PICK result \in Outcomes(call) :
        IF result \in Payload THEN Store(call, result) ELSE UNCHANGED cache
  BY DEF Refresh
<1>3. CacheHolds'
  <2>1. CASE result \in Payload
    BY <1>1, <1>2, <2>1, Ends, StoreHolds DEF ServiceInv
  <2>2. CASE result \notin Payload
    BY <1>2, <2>2 DEF ServiceInv, CacheHolds
  <2>3. QED
    BY <2>1, <2>2
<1>4. /\ refreshing' = refreshing \ {call}
      /\ UNCHANGED <<off, has, request, parts>>
  BY DEF Refresh, settings
<1>5. QED
  BY <1>3, <1>4 DEF ServiceInv, PartsFit, RowsTogether, get_city

(* Entries that age, or that Redis loses, stay the entries of their        *)
(* owners.                                                                 *)
LEMMA AgeKeeps ==
  ASSUME ServiceInv, Age
  PROVE  ServiceInv'
<1>1. CacheHolds'
  <2>1. CASE cache' = <<>>
    BY <2>1 DEF CacheHolds
  <2>2. CASE cache' = [k \in DOMAIN cache |-> [cache[k] EXCEPT !.fresh = FALSE]]
    <3>1. ASSUME NEW k, NEW e, Holds(k, e)
          PROVE  Holds(k, [e EXCEPT !.fresh = FALSE])
      BY <3>1 DEF Holds, Entry
    <3>2. QED
      BY <2>2, <3>1 DEF ServiceInv, CacheHolds
  <2>3. QED
    BY <2>1, <2>2 DEF Age
<1>2. UNCHANGED <<off, has, request, parts, refreshing>>
  BY DEF Age, settings
<1>3. QED
  BY <1>1, <1>2 DEF ServiceInv, PartsFit, RowsTogether, get_city

(* A new part fits if its handler suits its city.                          *)
LEMMA NewPart ==
  ASSUME NEW handler \in AllHandlers, NEW slug \in Askable,
         get_city(slug) => Suits(handler, slug), NEW v, NEW o, NEW t
  PROVE  /\ Fits(Part(handler, slug), v, o, t)
         /\ Part(handler, slug).handler = handler /\ Part(handler, slug).slug = slug
BY DEF Part, Fits

(* A request keeps the invariant if its parts fit and are all rows or      *)
(* none.                                                                   *)
LEMMA AsksKeeps ==
  ASSUME ServiceInv, NEW route, NEW valid \in BOOLEAN, NEW asked, Asks(route, valid, asked),
         \A i \in DOMAIN asked : Fits(asked[i], valid, off, has),
         \A i \in DOMAIN asked :
           asked[i].handler \in Rows =>
             /\ route = "compare" \/ get_city(asked[i].slug)
             /\ \A j \in DOMAIN asked : asked[j].handler \in Rows
  PROVE  ServiceInv'
<1>1. /\ request'.valid = valid /\ request'.route = route /\ parts' = asked
      /\ UNCHANGED <<off, has, cache, refreshing>>
  BY DEF Asks, settings
<1>2. PartsFit'
  BY <1>1 DEF PartsFit
<1>3. RowsTogether'
  BY <1>1 DEF RowsTogether, get_city
<1>4. QED
  BY <1>1, <1>2, <1>3 DEF ServiceInv, CacheHolds

(* Every route is asked for a city it suits.                               *)
LEMMA AskKeeps == ASSUME ServiceInv, Ask PROVE ServiceInv'
<1>1. PICK handler \in Handlers :
        \E slug \in IF handler \in DOMAIN PathCity THEN {PathCity[handler]} ELSE Asked,
           valid \in IF handler \in Parametrised THEN BOOLEAN ELSE {TRUE} :
          Asks(handler, valid, <<Part(handler, slug)>>)
  BY DEF Ask
<1>2. PICK slug \in IF handler \in DOMAIN PathCity THEN {PathCity[handler]} ELSE Asked,
           valid \in BOOLEAN :
        Asks(handler, valid, <<Part(handler, slug)>>)
  BY <1>1
<1>3. handler \in AllHandlers
  BY ServiceAssumption DEF AllHandlers
<1>4. handler \notin Rows
  BY ServiceAssumption, RowNames DEF CityRoutes, LiveRoutes
<1>5. slug \in Askable /\ (get_city(slug) => Suits(handler, slug))
  <2>1. CASE handler \in DOMAIN PathCity
    <3>1. slug = PathCity[handler]
      BY <1>2, <2>1
    <3>2. \A h \in DOMAIN PathCity : PathCity[h] \in Registered \cup {"eva"}
      BY DEF PathCity, Registered, CITY_REGISTRY
    <3>3. QED
      BY <2>1, <3>1, <3>2 DEF Suits, Askable
  <2>2. CASE handler \notin DOMAIN PathCity
    <3>1. slug \in Cities \cup Repeated
      BY <1>2, <2>2 DEF Asked
    <3>2. slug # "eva"
      BY <3>1, ServiceAssumption
    <3>3. QED
      BY <2>2, <3>1, <3>2 DEF Suits, Askable, get_city
  <2>3. QED
    BY <2>1, <2>2
<1>6. /\ Fits(Part(handler, slug), valid, off, has)
      /\ Part(handler, slug).handler \notin Rows
  BY <1>3, <1>4, <1>5, NewPart
<1> DEFINE asked == <<Part(handler, slug)>>
<1>7. \A i \in DOMAIN asked : asked[i] = Part(handler, slug)
  OBVIOUS
<1>8. Asks(handler, valid, asked)
  BY <1>2
<1> HIDE DEF asked
<1>9. QED
  BY <1>6, <1>7, <1>8, AsksKeeps

(* A row or a highlight of a city a client asks for.                       *)
LEMMA NewRow ==
  ASSUME NEW row \in Rows, NEW slug \in Askable \ {"eva"}, NEW v, NEW o, NEW t
  PROVE  /\ Fits(Part(row, slug), v, o, t)
         /\ Part(row, slug).handler = row /\ Part(row, slug).slug = slug
<1>1. row \notin DOMAIN PathCity
  BY RowNames DEF PathCity
<1>2. QED
  BY <1>1, NewPart DEF AllHandlers, Suits, get_city

(* Compare asks for the same row of every city.                            *)
LEMMA compareKeeps == ASSUME ServiceInv, compare PROVE ServiceInv'
<1>1. PICK resource \in Resources :
        Asks("compare", TRUE,
             [i \in DOMAIN CompareCities |-> Part(resource, CompareCities[i])])
  BY DEF compare
<1> DEFINE asked == [i \in DOMAIN CompareCities |-> Part(resource, CompareCities[i])]
<1>2. resource \in Rows
  BY ServiceAssumption DEF Rows
<1>3. \A i \in DOMAIN CompareCities : CompareCities[i] \in Askable \ {"eva"}
  BY ServiceAssumption DEF ToSet, Askable
<1>4. \A i \in DOMAIN asked :
        Fits(asked[i], TRUE, off, has) /\ asked[i].handler \in Rows
  BY <1>2, <1>3, NewRow
<1>5. Asks("compare", TRUE, asked)
  BY <1>1
<1> HIDE DEF asked
<1>6. QED
  BY <1>4, <1>5, AsksKeeps

(* The overview asks for the highlights of a known city.                   *)
LEMMA OverviewKeeps == ASSUME ServiceInv, city_overview PROVE ServiceInv'
<1>1. PICK slug \in OverviewCities :
        Asks("overview", TRUE,
             IF get_city(slug) THEN [i \in DOMAIN Highlights |-> Part(Highlights[i], slug)]
                               ELSE <<Part("city", slug)>>)
  BY DEF city_overview
<1>2. slug \in Askable \ {"eva"}
  BY ServiceAssumption DEF Askable
<1>3. CASE get_city(slug)
  <2> DEFINE asked == [i \in DOMAIN Highlights |-> Part(Highlights[i], slug)]
  <2>1. \A i \in DOMAIN Highlights : Highlights[i] \in Rows
    BY DEF Rows, ToSet
  <2>2. \A i \in DOMAIN asked :
          /\ Fits(asked[i], TRUE, off, has) /\ asked[i].handler \in Rows
          /\ asked[i].slug = slug
    BY <1>2, <2>1, NewRow
  <2>3. Asks("overview", TRUE, asked)
    BY <1>1, <1>3
  <2> HIDE DEF asked
  <2>4. QED
    BY <1>3, <2>2, <2>3, AsksKeeps
<1>4. CASE ~get_city(slug)
  <2>1. /\ Fits(Part("city", slug), TRUE, off, has)
        /\ Part("city", slug).handler \notin Rows
    <3>1. "city" \in AllHandlers /\ "city" \notin Rows
      BY RowNames DEF AllHandlers, CityRoutes
    <3>2. QED
      BY <1>2, <1>4, <3>1, NewPart
  <2> DEFINE asked == <<Part("city", slug)>>
  <2>2. \A i \in DOMAIN asked : asked[i] = Part("city", slug)
    OBVIOUS
  <2>3. Asks("overview", TRUE, asked)
    BY <1>1, <1>4
  <2> HIDE DEF asked
  <2>4. QED
    BY <2>1, <2>2, <2>3, AsksKeeps
<1>5. QED
  BY <1>3, <1>4

(* In every state of the service every entry of the cache is of the        *)
(* adapter and the city that its key stands for and shows nothing that may *)
(* not be shown of them, every refresh in flight is of such a call, and    *)
(* every part of the request has got only what its handler fetched and     *)
(* what that fetch can give.                                               *)
THEOREM ServiceInvHolds == Spec => []ServiceInv
<1>1. Init => ServiceInv
  BY DEF Init, ServiceInv, CacheHolds, PartsFit, RowsTogether, NoRequest
<1>2. ServiceInv /\ [Next]_vars => ServiceInv'
  <2> SUFFICES ASSUME ServiceInv, [Next]_vars PROVE ServiceInv'
    OBVIOUS
  <2>1. CASE Ask
    BY <2>1, AskKeeps
  <2>2. CASE compare
    BY <2>2, compareKeeps
  <2>3. CASE city_overview
    BY <2>3, OverviewKeeps
  <2>4. ASSUME NEW i \in DOMAIN parts, Fetching(i) \/ BudgetEnds(i)
        PROVE  ServiceInv'
    BY <2>4, FetchingKeeps, BudgetKeeps
  <2>5. ASSUME NEW call \in refreshing, Refresh(call)
        PROVE  ServiceInv'
    BY <2>5, RefreshKeeps
  <2>6. CASE Age
    BY <2>6, AgeKeeps
  <2>7. CASE Respond
    BY <2>7 DEF Respond, settings, NoRequest, ServiceInv, CacheHolds, PartsFit, RowsTogether
  <2>8. CASE UNCHANGED vars
    BY <2>8 DEF vars, settings, ServiceInv, CacheHolds, PartsFit, RowsTogether, get_city
  <2>9. QED
    BY <2>1, <2>2, <2>3, <2>4, <2>5, <2>6, <2>7, <2>8 DEF Next
<1>3. QED
  BY <1>1, <1>2, PTL DEF Spec

-----------------------------------------------------------------------------
(***************************************************************************)
(* The properties.                                                         *)
(***************************************************************************)

(* A part of the request that is being answered fits.                      *)
LEMMA PartOf ==
  ASSUME ServiceInv, NEW i \in DOMAIN parts
  PROVE  request.valid \in BOOLEAN /\ Fits(parts[i], request.valid, off, has)
BY DEF ServiceInv, PartsFit

(* No handler fetches a source whose toggle is off or whose credentials    *)
(* are missing (is_source_enabled before every get_or_set).  The one       *)
(* exception is the catalogue of stations, which the boards ask for under  *)
(* the toggle of the boards.                                               *)
THEOREM TogglesAlwaysHold == Spec => []TogglesHold
<1>1. ServiceInv => TogglesHold
  <2> SUFFICES ASSUME ServiceInv, NEW i \in DOMAIN parts, Fetches(parts[i])
               PROVE  MaySwitch(parts[i].handler, NextStep(parts[i]), off)
    BY DEF TogglesHold, MaySwitch
  <2>1. QED
    BY PartOf, Fetched
<1>2. QED
  BY <1>1, ServiceInvHolds, PTL

(* What a handler reads from the cache was written for the same call: no   *)
(* two adapters, cities, zones or stations share a key (build_key).        *)
THEOREM EntriesAreOwn == Spec => []OwnEntry
<1>1. ServiceInv => OwnEntry
  <2> SUFFICES ASSUME ServiceInv, NEW i \in DOMAIN parts, Fetches(parts[i]),
                      Kept(NextStep(parts[i]))
               PROVE  /\ cache[NextStep(parts[i]).key].fn = NextStep(parts[i]).fn
                      /\ cache[NextStep(parts[i]).key].slug = NextStep(parts[i]).slug
    BY DEF OwnEntry
  <2> DEFINE call == NextStep(parts[i])
  <2>1. Owns(call.key, call.fn, call.slug)
    BY PartOf, Fetched DEF Proper
  <2>2. Owns(call.key, cache[call.key].fn, cache[call.key].slug)
    BY DEF Kept, ServiceInv, CacheHolds, Holds
  <2> HIDE DEF call
  <2>3. cache[call.key].fn = call.fn /\ cache[call.key].slug = call.slug
    BY <2>1, <2>2, OwnsOne
  <2>4. QED
    BY <2>3 DEF call
<1>2. QED
  BY <1>1, ServiceInvHolds, PTL

(* What is said of one result, and of two.                                 *)
LEMMA Said ==
  ASSUME NEW p, request.valid \in BOOLEAN, Fits(p, request.valid, off, has)
  PROVE  \/ p.late /\ Status(p) = "error"
         \/ p.got = <<>>
         \/ \E a : p.got = <<a>> /\ Says1(p.handler, a, Status(p))
         \/ \E a, b : p.got = <<a, b>> /\ Says2(p.handler, a, b, Status(p))
<1>1. CASE p.late
  BY <1>1, PartSteps DEF Status, Fetches, Say
<1>2. CASE ~p.late /\ p.got # <<>>
  <2>1. /\ get_city(p.slug)
        /\ NextStep(p) = With(p, request.valid, off, has, p.got)
    BY <1>2, PartSteps DEF Fits
  <2>2. Status(p) = StatusOf(With(p, request.valid, off, has, p.got))
    BY <2>1 DEF Status, Fetches, StatusOf
  <2>3. ASSUME NEW a, p.got = <<a>>, Gets(With(p, request.valid, off, has, <<>>), a)
        PROVE  Says1(p.handler, a, Status(p))
    BY <2>1, <2>2, <2>3, PartSafe DEF Gets
  <2>4. ASSUME NEW a, NEW b, p.got = <<a, b>>,
               Gets(With(p, request.valid, off, has, <<>>), a),
               Gets(With(p, request.valid, off, has, <<a>>), b)
        PROVE  Says2(p.handler, a, b, Status(p))
    BY <2>1, <2>2, <2>4, PartSafe DEF Gets, StatusOf
  <2>5. QED
    BY <1>2, <2>3, <2>4 DEF Fits
<1>3. QED
  BY <1>1, <1>2 DEF Fits

(* A part with a fetch that failed and nothing kept of it says 503 or      *)
(* error, but for the handlers that are known to hide it: beds, boards     *)
(* behind the catalogue, events of two sources and hospitals of Wikidata.  *)
THEOREM OutagesAreSaid == Spec => []OutageIsSaid
<1>1. ServiceInv => OutageIsSaid
  <2> SUFFICES ASSUME ServiceInv, NEW i \in DOMAIN parts,
                      "nothing" \in {parts[i].got[j] : j \in DOMAIN parts[i].got}
               PROVE  LET p == parts[i] IN
                      \/ Status(p) \in {"503", "error"}
                      \/ p.handler = "city_icu_live" /\ Status(p) = "no_data"
                      \/ p.handler \in Boards /\ p.got[1] = "nothing" /\ Status(p) = "no_data"
                      \/ p.handler = "city_events" /\ p.got[1] \in {"full", "part", "foreign"}
                      \/ p.handler = "city_health" /\ Status(p) \in {"ok", "disabled"}
    BY DEF OutageIsSaid
  <2> DEFINE p == parts[i]
  <2>1. \/ p.late /\ Status(p) = "error"
        \/ p.got = <<>>
        \/ \E a : p.got = <<a>> /\ Says1(p.handler, a, Status(p))
        \/ \E a, b : p.got = <<a, b>> /\ Says2(p.handler, a, b, Status(p))
    BY PartOf, Said
  <2>2. p.got # <<>>
    OBVIOUS
  <2>3. ASSUME NEW a, p.got = <<a>>, Says1(p.handler, a, Status(p))
        PROVE  a = "nothing" /\ p.got[1] = "nothing"
    BY <2>3
  <2>4. ASSUME NEW a, NEW b, p.got = <<a, b>>, Says2(p.handler, a, b, Status(p))
        PROVE  b = "nothing" /\ p.got[1] = a
    BY <2>4 DEF Says2
  <2> HIDE DEF p
  <2>5. \/ Status(p) \in {"503", "error"}
        \/ p.handler = "city_icu_live" /\ Status(p) = "no_data"
        \/ p.handler \in Boards /\ p.got[1] = "nothing" /\ Status(p) = "no_data"
        \/ p.handler = "city_events" /\ p.got[1] \in {"full", "part", "foreign"}
        \/ p.handler = "city_health" /\ Status(p) \in {"ok", "disabled"}
    BY <2>1, <2>2, <2>3, <2>4 DEF Says1, Says2
  <2>6. QED
    BY <2>5 DEF p
<1>2. QED
  BY <1>1, ServiceInvHolds, PTL

(* An ok answer does not rest on entries of elsewhere, but for the         *)
(* warnings, where no entries is a good answer, and the traffic of         *)
(* Cologne, which no route filters.                                        *)
THEOREM ForeignIsNotShown == Spec => []ForeignNotShown
<1>1. ServiceInv => ForeignNotShown
  <2> SUFFICES ASSUME ServiceInv, NEW i \in DOMAIN parts, Status(parts[i]) = "ok",
                      parts[i].got # <<>>, parts[i].got[Len(parts[i].got)] = "foreign"
               PROVE  parts[i].handler
                        \in {"city_weather_warnings", "weather-warnings", "live_traffic_flow"}
    BY DEF ForeignNotShown
  <2> DEFINE p == parts[i]
  <2>1. \/ p.late /\ Status(p) = "error"
        \/ p.got = <<>>
        \/ \E a : p.got = <<a>> /\ Says1(p.handler, a, Status(p))
        \/ \E a, b : p.got = <<a, b>> /\ Says2(p.handler, a, b, Status(p))
    BY PartOf, Said
  <2>2. ASSUME NEW a, p.got = <<a>> PROVE a = "foreign"
    BY <2>2
  <2>3. ASSUME NEW a, NEW b, p.got = <<a, b>> PROVE b = "foreign"
    BY <2>3
  <2>4. Status(p) = "ok" /\ p.got # <<>>
    OBVIOUS
  <2> HIDE DEF p
  <2>5. p.handler \in {"city_weather_warnings", "weather-warnings", "live_traffic_flow"}
    BY <2>1, <2>2, <2>3, <2>4 DEF Says1, Says2
  <2>6. QED
    BY <2>5 DEF p
<1>2. QED
  BY <1>1, ServiceInvHolds, PTL

(***************************************************************************)
(* Rows and highlights.                                                    *)
(***************************************************************************)
LEMMA RoutesOfRows ==
  /\ RouteOf["weather"] = "city_weather"
  /\ RouteOf["highlight-weather"] = "city_weather"
  /\ RouteOf["air"] = "city_air"
  /\ RouteOf["highlight-air"] = "city_air"
  /\ RouteOf["indicators"] = "city_indicators"
  /\ RouteOf["demographics"] = "city_demographics"
  /\ RouteOf["unemployment"] = "city_unemployment"
  /\ RouteOf["tourism"] = "city_tourism"
  /\ RouteOf["charging-status"] = "city_charging_status"
  /\ RouteOf["weather-warnings"] = "city_weather_warnings"
BY RowNames DEF RouteOf

(* A row is its route, with the errors made a status.                      *)
LEMMA RowsDegrade ==
  \A row \in Rows \ {"highlight-departures"} : \A c :
    /\ Handle(row, c) = Degraded(Handle(RouteOf[row], c))
    /\ Handle(RouteOf[row], c).do \in {"say", "fetch"}
<1> SUFFICES ASSUME NEW c
             PROVE  \A row \in Rows \ {"highlight-departures"} :
                      /\ Handle(row, c) = Degraded(Handle(RouteOf[row], c))
                      /\ Handle(RouteOf[row], c).do \in {"say", "fetch"}
  OBVIOUS
<1>1. /\ Handle("weather", c) = Degraded(city_weather(c))
      /\ Handle("highlight-weather", c) = Degraded(city_weather(c))
      /\ Handle("air", c) = Degraded(city_air(c))
      /\ Handle("highlight-air", c) = Degraded(city_air(c))
  BY DEF Handle, RESOURCE_MAP, delegated_resources, snapshot_one, compare_one, one,
         city_weather, city_air, OneSource
<1>2. /\ Handle("indicators", c) = Degraded(city_indicators(c))
      /\ Handle("demographics", c) = Degraded(city_demographics(c))
      /\ Handle("unemployment", c) = Degraded(city_unemployment(c))
      /\ Handle("tourism", c) = Degraded(city_tourism(c))
      /\ Handle("charging-status", c) = Degraded(city_charging_status(c))
      /\ Handle("weather-warnings", c) = Degraded(city_weather_warnings(c))
  BY DEF Handle, RESOURCE_MAP, delegated_resources, one_delegated
<1>3. /\ Handle("city_weather", c) = city_weather(c)
      /\ Handle("city_air", c) = city_air(c)
      /\ Handle("city_indicators", c) = city_indicators(c)
      /\ Handle("city_demographics", c) = city_demographics(c)
      /\ Handle("city_unemployment", c) = city_unemployment(c)
      /\ Handle("city_tourism", c) = city_tourism(c)
      /\ Handle("city_charging_status", c) = city_charging_status(c)
      /\ Handle("city_weather_warnings", c) = city_weather_warnings(c)
  BY Dispatch
<1>4. \A raw, e : Settle(raw, e).do = "say"
  BY Settled
<1>5. \A d, call, e : call.do = "fetch" => Upstream(d, call, e).do \in {"say", "fetch"}
  BY <1>4 DEF Upstream
<1>6. \A switches, answer : answer.do \in {"say", "fetch"} =>
        Toggled(c, switches, answer).do \in {"say", "fetch"}
  BY DEF Toggled, Say
<1>7. \A source, key, f, slug : Fetch(source, key, f, slug).do = "fetch"
  BY DEF Fetch
<1>8. /\ city_weather(c).do \in {"say", "fetch"}
      /\ city_air(c).do \in {"say", "fetch"}
      /\ city_unemployment(c).do \in {"say", "fetch"}
      /\ city_tourism(c).do \in {"say", "fetch"}
      /\ city_weather_warnings(c).do \in {"say", "fetch"}
  <2>1. \A d, switches, source, key, f, slug, e :
          Toggled(c, switches, Upstream(d, Fetch(source, key, f, slug), e)).do
            \in {"say", "fetch"}
    BY <1>5, <1>6, <1>7
  <2>2. QED
    BY <2>1 DEF city_weather, city_air, city_unemployment, city_tourism,
       city_weather_warnings, OneSource, CityFetch, genesis_regio_envelope
<1>9. /\ city_indicators(c).do \in {"say", "fetch"}
      /\ city_charging_status(c).do \in {"say", "fetch"}
      /\ city_demographics(c).do \in {"say", "fetch"}
  <2>1. \A st : Say(st).do = "say"
    BY DEF Say
  <2>2. /\ city_indicators(c).do \in {"say", "fetch"}
        /\ city_charging_status(c).do \in {"say", "fetch"}
    BY <1>6, <2>1 DEF city_indicators, city_charging_status, Archived
  <2>3. city_demographics(c).do \in {"say", "fetch"}
    <3>1. Upstream(c, CityFetch("genesis", "fetch_demographics", c.slug), "ok").do
            \in {"say", "fetch"}
      BY <1>5, <1>7 DEF CityFetch
    <3>2. QED
      BY <2>1, <3>1 DEF city_demographics
  <2>4. QED
    BY <2>2, <2>3
<1>10. QED
  BY <1>1, <1>2, <1>3, <1>8, <1>9, RoutesOfRows, RowNames

(* What a row or a highlight says is never an HTTP error.                  *)
LEMMA NoErrors ==
  \A row \in Rows : \A c :
    Handle(row, c).do # "fetch" => Handle(row, c).status \notin ErrorCodes
<1>1. \A answer : /\ answer.do \in {"say", "fetch"}
                  /\ Degraded(answer).do # "fetch"
                  => Degraded(answer).status \notin ErrorCodes
  BY DEF Degraded, Say, ErrorCodes
<1>2. ASSUME NEW row \in Rows \ {"highlight-departures"}, NEW c, Handle(row, c).do # "fetch"
      PROVE  Handle(row, c).status \notin ErrorCodes
  BY <1>1, <1>2, RowsDegrade
<1>3. ASSUME NEW c, snapshot_departures(c).do # "fetch"
      PROVE  snapshot_departures(c).status \notin ErrorCodes
  <2> DEFINE board == CityFetch("db_timetables", "fetch_station_departures", c.slug)
             shown(d) == Degraded(Upstream(d, board, "ok"))
  <2>1. \A d : Upstream(d, board, "ok").do \in {"say", "fetch"}
    BY Settled DEF Upstream, CityFetch, Fetch
  <2>2. \A d : shown(d).do # "fetch" => shown(d).status \notin ErrorCodes
    BY <1>1, <2>1
  <2>3. /\ Say("error").status \notin ErrorCodes /\ Say("no_data").status \notin ErrorCodes
        /\ Say("disabled").status \notin ErrorCodes
    BY DEF Say, ErrorCodes
  <2>4. StationCatalog.do = "fetch"
    BY DEF StationCatalog, Fetch
  <2>5. \/ snapshot_departures(c) \in
             {Say("disabled"), StationCatalog, Say("error"), Say("no_data")}
        \/ \E d : snapshot_departures(c) = shown(d)
    BY DEF snapshot_departures, Toggled
  <2> HIDE DEF shown
  <2>6. QED
    BY <1>3, <2>2, <2>3, <2>4, <2>5
<1>4. QED
  BY <1>2, <1>3, Dispatch

(* A row of compare, or a highlight but the board, says what the route of  *)
(* its resource says, with an error for every HTTP error (_delegated,      *)
(* _one, _snapshot_one).                                                   *)
THEOREM RowsAlwaysAgree == Spec => []RowsAgree
<1>1. ServiceInv => RowsAgree
  <2> SUFFICES ASSUME ServiceInv, NEW i \in DOMAIN parts,
                      parts[i].handler \in DOMAIN RouteOf, ~parts[i].late,
                      parts[i].handler # "highlight-departures"
               PROVE  Agrees(parts[i])
    BY DEF RowsAgree
  <2> DEFINE p == parts[i]
             q == [p EXCEPT !.handler = RouteOf[p.handler]]
  <2>1. p.handler \in Rows \ {"highlight-departures"}
    BY DEF RouteOf
  <2>2. Fits(p, request.valid, off, has)
    BY PartOf
  <2>3. /\ q.handler = RouteOf[p.handler] /\ q.slug = p.slug /\ q.got = p.got
        /\ q.late = p.late
    BY <2>2 DEF Fits
  <2>4. request.route = "compare" \/ get_city(p.slug)
    BY <2>1 DEF ServiceInv, RowsTogether
  <2>5. ~p.late
    OBVIOUS
  <2> HIDE DEF p, q
  <2>6. ASSUME ~get_city(p.slug)
        PROVE  Status(p) = IF Status(q) \in ErrorCodes THEN "error" ELSE Status(q)
    <3>1. NextStep(p) = Say("not_found") /\ NextStep(q) = Say("not_found")
      BY <2>3, <2>4, <2>5, <2>6 DEF NextStep
    <3>2. Status(p) = "not_found" /\ Status(q) = "not_found"
      BY <3>1 DEF Status, Fetches, Say
    <3>3. QED
      BY <3>2 DEF ErrorCodes
  <2>7. ASSUME get_city(p.slug)
        PROVE  Status(p) = IF Status(q) \in ErrorCodes THEN "error" ELSE Status(q)
    <3> DEFINE c == [slug |-> p.slug, valid |-> request.valid,
                     off |-> off, has |-> has, got |-> p.got]
    <3>1. NextStep(p) = Handle(p.handler, c) /\ NextStep(q) = Handle(RouteOf[p.handler], c)
      BY <2>3, <2>5, <2>7 DEF NextStep
    <3> HIDE DEF c
    <3>2. NextStep(p) = Degraded(NextStep(q)) /\ NextStep(q).do \in {"say", "fetch"}
      BY <2>1, <3>1, RowsDegrade
    <3>3. QED
      BY <3>2 DEF Degraded, Status, Fetches, Say, ErrorCodes
  <2>8. Status(p) = IF Status(q) \in ErrorCodes THEN "error" ELSE Status(q)
    BY <2>6, <2>7
  <2>9. QED
    BY <2>8 DEF Agrees, p, q
<1>2. QED
  BY <1>1, ServiceInvHolds, PTL

(* Compare, and the overview of a known city, respond 200 whatever becomes *)
(* of their parts (gather with a status per city).                         *)
THEOREM PartsAlwaysDegrade == Spec => []PartsDegrade
<1>1. ServiceInv => PartsDegrade
  <2> SUFFICES ASSUME ServiceInv, Answered, NEW k \in DOMAIN parts,
                      parts[k].handler \in DOMAIN RouteOf
               PROVE  Response = "200"
    BY DEF PartsDegrade
  <2>1. \A i \in DOMAIN parts :
          /\ parts[i].handler \in Rows
          /\ request.route = "compare" \/ get_city(parts[i].slug)
    BY DEF ServiceInv, RowsTogether, RouteOf
  <2>2. ASSUME NEW i \in DOMAIN parts
        PROVE  Status(parts[i]) \notin ErrorCodes
    <3> DEFINE p == parts[i]
    <3>1. /\ p.handler \in Rows /\ ~Fetches(p)
          /\ request.route = "compare" \/ get_city(p.slug)
          /\ Fits(p, request.valid, off, has)
      BY <2>1, PartOf DEF Answered
    <3> HIDE DEF p
    <3>2. Status(p) = NextStep(p).status /\ NextStep(p).do # "fetch"
      BY <3>1 DEF Status, Fetches
    <3>3. ASSUME p.late \/ ~get_city(p.slug)
          PROVE  Status(p) \notin ErrorCodes
      <4>1. NextStep(p) \in {Say("error"), Say("not_found")}
        BY <3>1, <3>3, PartSteps
      <4>2. QED
        BY <3>2, <4>1 DEF Say, ErrorCodes
    <3>4. ASSUME ~p.late, get_city(p.slug)
          PROVE  Status(p) \notin ErrorCodes
      <4>1. NextStep(p) = With(p, request.valid, off, has, p.got)
        BY <3>1, <3>4, PartSteps
      <4>2. QED
        BY <3>1, <3>2, <4>1, NoErrors DEF With
    <3>5. QED
      BY <3>3, <3>4 DEF p
  <2>3. QED
    BY <2>2 DEF Response
<1>2. QED
  BY <1>1, ServiceInvHolds, PTL

=============================================================================
