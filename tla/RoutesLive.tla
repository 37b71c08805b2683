------------------------------- MODULE RoutesLive -------------------------------
(***************************************************************************)
(* The routes below /live (api/v1/live.py), the boards of a single station *)
(* (stations.py), and the parts that /compare and the overview of a city   *)
(* are put together from (compare.py, cities.py).  See Answers for the     *)
(* form of a handler.                                                      *)
(***************************************************************************)
EXTENDS RoutesCity

(***************************************************************************)
(* Publications of Mobilithek: a toggle, the client certificate and a      *)
(* subscription are needed.                                                *)
(***************************************************************************)
live_mobilithek(c, source, abo, publication) ==
  Toggled(c, {source, "mobilithek_cert", abo},
    Upstream(c, CityFetch(source, publication, c.slug), "no_data"))

(* Two feeds of Cologne have a subscription in the code.                   *)
live_traffic_flow(c) ==
  live_mobilithek(c, "koeln_traffic_flow", "koeln_default_abo", "measured")
live_baustellen(c) ==
  IF c.slug = "bremen"
  THEN live_mobilithek(c, "bremen_baustellen", "bremen_abo", "situation")
  ELSE live_mobilithek(c, "koeln_baustellen_live", "koeln_default_abo", "situation")
live_ereignisse(c) ==
  live_mobilithek(c, "koeln_ereignisse_live", "koeln_abo", "situation")

(* Paths of one city.                                                      *)
live_berlin_verkehrsmeldungen(c) ==
  live_mobilithek(c, "berlin_verkehrsmeldungen", "berlin_abo", "situation")
live_hannover_verkehrsmeldungen(c) ==
  live_mobilithek(c, "hannover_verkehrsmeldungen", "hannover_abo", "situation")
live_koeln_umweltzone(c) == live_mobilithek(c, "koeln_lez_live", "koeln_abo", "situation")
live_kiel_zaehlstellen(c) == live_mobilithek(c, "kiel_zaehlstellen", "kiel_abo", "measured")
live_frankfurt_parking(c) ==
  live_mobilithek(c, "frankfurt_parking", "parking_abo", "fetch_frankfurt_parking")
live_wuppertal_parking(c) ==
  live_mobilithek(c, "wuppertal_parking", "parking_abo", "fetch_wuppertal_parking")
live_magdeburg_parking(c) ==
  live_mobilithek(c, "magdeburg_parking", "parking_abo", "fetch_magdeburg_parking")

(* The last delta the charging poller has left in Redis.                   *)
live_eround_charging(c) ==
  Archived(c, {"eround_charging", "mobilithek_cert", "eround_abo"}, "delta", "no_data")

live_dortmund_parking(c) ==
  OneSourceOrNoData(c, "dortmund_parking", "fetch_dortmund_parking")
live_hamburg_verkehrslage(c) ==
  OneSourceOrNoData(c, "hamburg_verkehrslage", "fetch_hamburg_verkehrslage")

(***************************************************************************)
(* Departures of a stop the request names.                                 *)
(***************************************************************************)
live_hamburg_departures(c) ==
  Toggled(c, {"hvv_geofox", "hvv_credentials"}, Valid(c, "400",
    Upstream(c, Fetch("hvv_geofox", <<"hvv_geofox", "hamburg", "station">>,
                      "fetch_hvv_departures", "hamburg"), "no_data")))
live_nuernberg_departures(c) ==
  Toggled(c, {"vgn"}, Valid(c, "400",
    Upstream(c, Fetch("vgn", <<"vgn", "nuernberg", "stop_id">>,
                      "fetch_vgn_departures", "nuernberg"), "no_data")))

(* What the GTFS-RT poller has stored (module GtfsRtPoller).               *)
live_transit(c) ==
  Toggled(c, {"gtfs_rt"}, Valid(c, "400", Archived(c, {}, "updates", "no_data")))
live_transit_departures(c) == live_transit(c)
live_transit_trip(c) == live_transit(c)
live_transit_route_status(c) == live_transit(c)

(* The number of the station is looked at before the toggle.               *)
board_by_eva(c, prefix, fn) ==
  Valid(c, "422", Toggled(c, {"db_timetables", "db_credentials"},
    Upstream(c, Fetch("db_timetables", <<prefix, "eva", "">>, fn, "eva"), "no_data")))
station_departures_by_eva(c) ==
  board_by_eva(c, "db_timetables", "fetch_station_departures")
station_arrivals_by_eva(c) ==
  board_by_eva(c, "db_timetables_arr", "fetch_station_arrivals")

(* Older paths of routes below /cities.                                    *)
live_air(c) == city_air(c)
live_air_uba(c) == city_air_uba(c)
live_water_level(c) == city_water_level(c)
live_traffic(c) == city_traffic(c)
live_webcams(c) == city_webcams(c)
live_flood(c) == city_flood(c)

(***************************************************************************)
(* One row of /compare, and one highlight of the overview.  Neither ever   *)
(* is an error: whatever goes wrong becomes the status of the row.         *)
(***************************************************************************)
(* Mutant: what the handler raises is not caught.                          *)
Degraded_Not(answer) == answer

Degraded(answer) ==
  IF answer.do = "say" /\ answer.status \in {"500", "503", "404", "400", "422"}
  THEN Say("error") ELSE answer

(* if not raw: the payload of each adapter is a dictionary that is never   *)
(* empty itself, whatever the lists in it.                                 *)
one(c, toggle, call) == Degraded(Toggled(c, toggle, Upstream(c, call, "ok")))

(* Mutant: the toggle of the other resource.                               *)
compare_one_SameToggle(c, resource) ==
  CASE resource = "weather" -> one(c, {"dwd"}, CityFetch("dwd", "fetch_weather", c.slug))
    [] resource = "air" -> one(c, {"dwd"}, CityFetch("uba", "fetch_air_uba", c.slug))

compare_one(c, resource) ==
  CASE resource = "weather" -> one(c, {"dwd"}, CityFetch("dwd", "fetch_weather", c.slug))
    [] resource = "air" -> one(c, {"uba"}, CityFetch("uba", "fetch_air_uba", c.slug))

(* The handler of the route itself, with the exceptions it raises.         *)
one_delegated(c, resource) ==
  Degraded(
    CASE resource = "indicators" -> city_indicators(c)
      [] resource = "demographics" -> city_demographics(c)
      [] resource = "unemployment" -> city_unemployment(c)
      [] resource = "tourism" -> city_tourism(c)
      [] resource = "charging-status" -> city_charging_status(c)
      [] resource = "weather-warnings" -> city_weather_warnings(c))

snapshot_one(c, name) == compare_one(c, name)

(* The board, found as the route finds it, and put in the same entry.      *)
snapshot_departures(c) ==
  LET board == CityFetch("db_timetables", "fetch_station_departures", c.slug)
      shown(request) == Degraded(Upstream(request, board, "ok"))
  IN  Toggled(c, {"db_timetables", "db_credentials"},
        CASE HasEvas(c) -> shown(c)
          [] ~HasEvas(c) /\ c.got = <<>> -> StationCatalog
          [] ~HasEvas(c) /\ c.got # <<>> ->
               CASE c.got[1] = "Other" -> Say("error")
                 [] c.got[1] # "Other" /\ ~resolve_city_station_evas(c) -> Say("no_data")
                 [] c.got[1] # "Other" /\ resolve_city_station_evas(c) ->
                      shown([c EXCEPT !.got = Tail(@)]))
=============================================================================
