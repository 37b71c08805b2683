------------------------------- MODULE RoutesCity -------------------------------
(***************************************************************************)
(* The routes below /cities/{slug} (api/v1/cities.py), each a function of  *)
(* the request (see Answers).  The mapping of a payload to a record and    *)
(* the write to the archive (package cityscape.archive, not part of the    *)
(* repository) change no answer and are left out.                          *)
(***************************************************************************)
EXTENDS Answers

not_covered == Say("not_covered")

(***************************************************************************)
(* One toggle, one source.                                                 *)
(***************************************************************************)
city_base(c) == OneSource(c, "wikidata", "fetch_city_base")
city_weather(c) == OneSource(c, "dwd", "fetch_weather")
city_solar(c) == OneSource(c, "solar", "fetch_solar")
city_air(c) == OneSource(c, "uba", "fetch_air_uba")
city_air_uba(c) == OneSource(c, "uba", "fetch_air_uba")
city_water_level(c) == OneSourceOrNoData(c, "pegelonline", "fetch_water_level")
city_pollen_uv(c) == OneSource(c, "dwd_pollen", "fetch_pollen_uv")
city_fire_danger(c) == OneSource(c, "dwd_fire", "fetch_fire_danger")
city_bathing_water(c) == OneSource(c, "eea_bathing", "fetch_bathing_water")
city_hospitals_atlas(c) == OneSource(c, "klinik_atlas", "fetch_hospital_atlas")
city_population_density(c) == OneSourceOrNoData(c, "zensus_grid", "fetch_population_density")

city_flood(c) == Covered(c, "flood", OneSource(c, "lhp", "fetch_flood"))
city_heritage(c) == Covered(c, "heritage", OneSource(c, "denkmal", "fetch_heritage"))
city_tree_cadastre(c) == Covered(c, "tree_cadastre", OneSource(c, "baumkataster", "fetch_trees"))
city_traffic(c) == Covered(c, "traffic", OneSource(c, "autobahn", "fetch_traffic"))
city_webcams(c) ==
  Covered(c, "webcams", OneSourceOrNoData(c, "autobahn_webcam", "fetch_webcams"))
city_office_wait_times(c) ==
  Covered(c, "office_wait_times",
          OneSourceOrNoData(c, "koeln_wartezeiten", "fetch_koeln_wartezeiten"))
city_sharing(c) ==
  Toggled(c, {"gbfs"}, Covered(c, "sharing",
    Upstream(c, CityFetch("gbfs", "fetch_sharing", c.slug), "no_data")))

city_station_facilities(c) ==
  Toggled(c, {"db_fasta", "db_credentials"},
    Upstream(c, CityFetch("db_fasta", "fetch_station_facilities", c.slug), "ok"))

(* Prices may not be kept: neither read from Redis nor written to it. *)
city_fuel_prices(c) ==
  Toggled(c, {"tankerkoenig", "tankerkoenig_key"},
    Upstream(c, OnDemand(CityFetch("tankerkoenig", "fetch_fuel_prices", c.slug)), "no_data"))

(***************************************************************************)
(* Objects of OpenStreetMap, by type or by feature.                        *)
(***************************************************************************)
OsmFetch(c, param, fn) == Fetch("overpass", <<"overpass", c.slug, param>>, fn, c.slug)

city_pois(c) ==
  Toggled(c, {"overpass"}, Valid(c, "422",
    Upstream(c, OsmFetch(c, Param("type", "school"), "fetch_pois"), "ok")))

(* Mutant: the parameter is left out of the key.                           *)
osm_feature_response_OneKey(c, feature) ==
  Toggled(c, {"overpass"}, Paged(c,
    Upstream(c, CityFetch("overpass", feature, c.slug), "ok")))

osm_feature_response(c, feature) ==
  Toggled(c, {"overpass"}, Paged(c,
    Upstream(c, OsmFetch(c, Param("feature", feature), feature), "ok")))

city_playgrounds(c) == osm_feature_response(c, "playgrounds")
city_drinking_water(c) == osm_feature_response(c, "drinking-water")
city_public_toilets(c) == osm_feature_response(c, "public-toilets")
city_markets(c) == osm_feature_response(c, "markets")
city_parcel_lockers(c) == osm_feature_response(c, "parcel-lockers")
city_post_offices(c) == osm_feature_response(c, "post-offices")
city_post_boxes(c) == osm_feature_response(c, "post-boxes")
city_public_wifi(c) == osm_feature_response(c, "public-wifi")
city_recycling_centres(c) == osm_feature_response(c, "recycling-centres")
city_government_offices(c) == osm_feature_response(c, "government-offices")
city_education(c) == osm_feature_response(c, "education")

(***************************************************************************)
(* A source per city.                                                      *)
(***************************************************************************)
RoadEventsFn == [berlin_viz |-> "fetch_berlin_road_events",
  koeln_verkehr |-> "fetch_koeln_road_events",
  hamburg_baustellen |-> "fetch_hamburg_road_events",
  muenchen_baustellen |-> "fetch_muenchen_road_events",
  mobidata_bw |-> "fetch_mobidata_road_events",
  dortmund_baustellen |-> "fetch_dortmund_road_events",
  sperrinfosys |-> "fetch_sperrinfosys_road_events"]

bremen_road_events(c) ==
  Toggled(c, {"bremen_baustellen", "mobilithek_cert", "bremen_abo"},
    Upstream(c, CityFetch("bremen_baustellen", "situation", c.slug), "no_data"))

(* Bremen's events come by subscription, the others' without a key. *)
city_road_events(c) ==
  CASE c.slug \notin DOMAIN CONNECTOR_MAP -> not_covered
    [] c.slug = "bremen" -> bremen_road_events(c)
    [] c.slug \in DOMAIN CONNECTOR_MAP \ {"bremen"} ->
         LET source == CONNECTOR_MAP[c.slug]
         IN  OneSourceOrNoData(c, source, RoadEventsFn[source])

(* Occupancy by subscription, from ParkenDD, or the garages of Munich. *)
resolve_parking_connector(slug) ==
  CASE slug \in PARKENDD_CITIES -> <<"parkendd", "fetch_parkendd">>
    [] slug = "muenchen" -> <<"muenchen_parkhaeuser", "fetch_muenchen_parking">>

MobilithekParking == [frankfurt |-> <<"frankfurt_parking", "fetch_frankfurt_parking">>,
                      wuppertal |-> <<"wuppertal_parking", "fetch_wuppertal_parking">>,
                      magdeburg |-> <<"magdeburg_parking", "fetch_magdeburg_parking">>]

city_parking(c) ==
  CASE c.slug \in MOBILITHEK_PARKING ->
         LET via == MobilithekParking[c.slug]
         IN  Toggled(c, {via[1], "mobilithek_cert", "parking_abo"},
               Upstream(c, CityFetch(via[1], via[2], c.slug), "no_data"))
    [] c.slug \notin PARTIAL_COVERAGE["parking"] -> not_covered
    [] c.slug \in PARTIAL_COVERAGE["parking"] \ MOBILITHEK_PARKING ->
         LET via == resolve_parking_connector(c.slug)
         IN  OneSourceOrNoData(c, via[1], via[2])

BikeCountsSource == [muenchen |-> "muenchen_radzaehl", leipzig |-> "leipzig_radzaehl",
  hamburg |-> "hamburg_radzaehl", berlin |-> "berlin_radzaehl",
  stuttgart |-> "stuttgart_radzaehl", koeln |-> "koeln_radzaehl",
  essen |-> "essen_radzaehl", duesseldorf |-> "duesseldorf_radzaehl"]

BikeCountsFn == [muenchen_radzaehl |-> "fetch_muenchen_radzaehl",
  leipzig_radzaehl |-> "fetch_leipzig_radzaehl",
  hamburg_radzaehl |-> "fetch_hamburg_radzaehl",
  berlin_radzaehl |-> "fetch_berlin_radzaehl",
  stuttgart_radzaehl |-> "fetch_stuttgart_radzaehl",
  koeln_radzaehl |-> "fetch_koeln_radzaehl",
  essen_radzaehl |-> "fetch_essen_radzaehl",
  duesseldorf_radzaehl |-> "fetch_duesseldorf_radzaehl"]

city_bike_counts(c) ==
  IF c.slug \notin DOMAIN BikeCountsSource THEN not_covered
  ELSE LET source == BikeCountsSource[c.slug]
       IN  OneSourceOrNoData(c, source, BikeCountsFn[source])

(***************************************************************************)
(* Events: nationwide, and for Cologne the list of the city as well.  The  *)
(* nationwide source must answer; the other one only if it has nothing.    *)
(***************************************************************************)
DestinationFetch(c) == CityFetch("destination_one", "fetch_destination_one", c.slug)
KoelnFetch(c) == CityFetch("koeln_events", "fetch_koeln_events", c.slug)

CityEvents(raw) == Settle(raw, "no_data")

(* Both are asked: the second decides if the first had no events. *)
BothEvents(destination, koeln) ==
  CASE koeln = "Other" -> Say("500")
    [] koeln # "Other" /\ Empty(destination) -> CityEvents(koeln)
    [] koeln # "Other" /\ ~Empty(destination) -> Say("ok")

city_events(c) ==
  LET destination_enabled == On(c, {"destination_one"})
      koeln_enabled == On(c, {"koeln_events"}) /\ c.slug = "koeln"
  IN  Paged(c,
        CASE ~destination_enabled /\ ~koeln_enabled -> Say("disabled")
          [] destination_enabled /\ ~koeln_enabled ->
               Upstream(c, DestinationFetch(c), "no_data")
          [] ~destination_enabled /\ koeln_enabled ->
               Upstream(c, KoelnFetch(c), "no_data")
          [] destination_enabled /\ koeln_enabled ->
               CASE c.got = <<>> -> DestinationFetch(c)
                 [] Len(c.got) = 1 /\ c.got[1] \in {"Other", "nothing"} ->
                      CityEvents(c.got[1])
                 [] Len(c.got) = 1 /\ c.got[1] \notin {"Other", "nothing"} ->
                      KoelnFetch(c)
                 [] Len(c.got) = 2 -> BothEvents(c.got[1], c.got[2]))

(***************************************************************************)
(* Statistics of GENESIS, with what stands in when it is not configured.   *)
(***************************************************************************)
Genesis == {"genesis", "genesis_credentials"}

(* The registry knows the population of its cities. *)
city_demographics(c) ==
  IF On(c, Genesis) THEN Upstream(c, CityFetch("genesis", "fetch_demographics", c.slug), "ok")
  ELSE Say(IF "population" \in c.has THEN "ok" ELSE "disabled")

(* Hospitals of Wikidata are shown without GENESIS, if there are any; the  *)
(* intensive care report of the archive is added to either.                *)
IcuAlone(c, otherwise) == Say(IF "records" \in c.has THEN "ok" ELSE otherwise)

city_health(c) ==
  IF On(c, Genesis)
  THEN Upstream(c, CityFetch("genesis_hospital", "fetch_hospitals", c.slug), "ok")
  ELSE CASE ~On(c, {"wikidata"}) -> IcuAlone(c, "disabled")
         [] On(c, {"wikidata"}) /\ c.got = <<>> ->
              Fetch("wikidata", <<"genesis_hospital_wikidata", c.slug, "">>,
                    "fetch_hospitals_wikidata", c.slug)
         [] On(c, {"wikidata"}) /\ c.got # <<>> ->
              IF Nothing(c.got[1]) THEN IcuAlone(c, "disabled")
                                   ELSE Settle(c.got[1], "ok")

genesis_regio_envelope(c, dataset) ==
  Toggled(c, {"genesis_regio", "genesis_credentials"},
    Upstream(c, Fetch("genesis", <<"genesis", Scope(dataset, c.slug), "">>, dataset, c.slug),
             "no_data"))
city_unemployment(c) == genesis_regio_envelope(c, "unemployment")
city_tourism(c) == genesis_regio_envelope(c, "tourism")
city_construction(c) == genesis_regio_envelope(c, "construction")

(***************************************************************************)
(* One entry for several cities: the zone of a grid, all of Germany, a     *)
(* district.  The city's part is picked out after the fetch.               *)
(***************************************************************************)
smard_envelope(c, measure, region) ==
  Toggled(c, {"smard"},
    Upstream(c, Fetch("smard", <<"smard", Scope(measure, region), "">>, measure, region),
             "no_data"))
city_power_load(c) == smard_envelope(c, "load", SMARD_STATE_TO_ZONE(c.slug))
city_power_price(c) == smard_envelope(c, "price", "DE")

(* Mutant: the document is shown as it is.                                 *)
Filtered_Not(c) == c

(* Entries of elsewhere in a nationwide document are no entries. *)
Filtered(c) == [c EXCEPT !.got = [i \in DOMAIN @ |-> IF @[i] = "foreign" THEN "empty" ELSE @[i]]]

city_weather_warnings(c) ==
  Toggled(c, {"dwd_warnings"},
    Upstream(Filtered(c), Fetch("dwd_warnings", <<"dwd_warnings", "all", "">>,
                                "fetch_dwd_warnings_all", "all"), "ok"))

(* Kept under the key of the district, which is the city's for all here.   *)
city_civil_protection_warnings(c) ==
  Toggled(c, {"bbk_nina"}, Upstream(c, CityFetch("bbk_nina", "fetch_for_ags", c.slug), "ok"))

StationCatalog == Fetch("stada", <<"stada", "_all", "">>, "fetch_all_stations", "all")

city_stations(c) ==
  Toggled(c, {"stada", "db_credentials"}, Upstream(Filtered(c), StationCatalog, "no_data"))

(***************************************************************************)
(* Boards.  The stations of a city are listed, or looked up in the         *)
(* nationwide catalogue, whatever the toggle of the catalogue says; a      *)
(* catalogue that cannot be had is a city without stations.                *)
(***************************************************************************)
HasEvas(c) == c.slug \in STATION_EVAS
resolve_city_station_evas(c) == Filtered(c).got[1] \in {"full", "part"}

CityBoard(c, prefix, fn) ==
  LET board == Fetch("db_timetables", <<prefix, c.slug, "">>, fn, c.slug) IN
  Toggled(c, {"db_timetables", "db_credentials"},
    CASE HasEvas(c) -> Upstream(c, board, "no_data")
      [] ~HasEvas(c) /\ c.got = <<>> -> StationCatalog
      [] ~HasEvas(c) /\ c.got # <<>> ->
           CASE c.got[1] = "Other" -> Say("500")
             [] c.got[1] # "Other" /\ ~resolve_city_station_evas(c) -> Say("no_data")
             [] c.got[1] # "Other" /\ resolve_city_station_evas(c) ->
                  Upstream([c EXCEPT !.got = Tail(@)], board, "no_data"))

city_station_departures(c) == CityBoard(c, "db_timetables", "fetch_station_departures")
city_station_arrivals(c) == CityBoard(c, "db_timetables_arr", "fetch_station_arrivals")

(* A report that cannot be had is answered like an empty one. *)
city_icu_live(c) ==
  Toggled(c, {"divi"},
    IF c.got # <<>> /\ Nothing(c.got[1]) THEN Say("no_data")
    ELSE Upstream(c, CityFetch("divi_live", "fetch_icu_live", c.slug), "ok"))

(***************************************************************************)
(* What batch jobs, seeds and pollers have left.                           *)
(***************************************************************************)
city_solar_roofs(c) ==
  Toggled(c, {"solar_cadastre"}, Covered(c, "solar_roofs",
    Archived(c, {}, "seed", "no_data")))
city_charging(c) == Paged(c, Archived(c, {"bnetza"}, "records", "not_ingested"))
city_district_heating(c) ==
  Toggled(c, {"district_heating"}, Covered(c, "district_heating",
    Archived(c, {}, "records", "not_ingested")))
city_charging_status(c) == Archived(c, {"eround_charging"}, "statuses", "no_data")
city_transit(c) ==
  IF ~On(c, {"delfi"}) /\ ~On(c, {"hvv"}) THEN Say("disabled")
  ELSE Archived(c, {}, "records", "not_ingested")
city_geo(c) == Archived(c, {"bkg"}, "records", "not_ingested")
city_election(c) == Archived(c, {"bundeswahl"}, "records", "not_ingested")
city_holidays(c) == Archived(c, {"feiertage"}, "seed", "no_data")
city_energy(c) == Paged(c, Archived(c, {"mastr"}, "records", "not_ingested"))
city_vehicle_registrations(c) == Archived(c, {"kba"}, "records", "not_ingested")
city_accidents(c) == Archived(c, {"unfallatlas"}, "records", "not_ingested")
city_crime_stats(c) == Archived(c, {"bka_pks"}, "records", "not_ingested")
city_indicators(c) == Archived(c, {"inkar"}, "records", "not_ingested")
city_land_values(c) ==
  Toggled(c, {"boris"}, Covered(c, "land_values",
    Archived(c, {}, "records", "not_ingested")))

regio_configured == {"regionalstatistik", "regio_credentials"}
city_tax_rates(c) == Archived(c, regio_configured, "records", "not_ingested")
city_business_registrations(c) == Archived(c, regio_configured, "records", "not_ingested")
city_insolvencies(c) == Archived(c, regio_configured, "records", "not_ingested")

city_public_tenders(c) ==
  Toggled(c, {"oeffentlichevergabe"}, Valid(c, "422",
    Archived(c, {}, "records", "no_data")))

(* The list of cities and one city come from the registry alone. *)
cities(c) == Say("ok")
city(c) == Say("ok")
=============================================================================
