------------------------------- MODULE Fetchers -------------------------------
(***************************************************************************)
(* The adapters by name, as the routes and the batch jobs call them.       *)
(***************************************************************************)
EXTENDS AdaptersEnvironment, AdaptersPlaces, AdaptersTransport, AdaptersCity

(* One adapter under several names: features of the map, tables of         *)
(* GENESIS, series of SMARD, publications of DATEX II, formats of BORIS.   *)
OsmFeatures == {"playgrounds", "drinking-water", "public-toilets", "markets",
  "parcel-lockers", "post-offices", "post-boxes", "public-wifi",
  "recycling-centres", "government-offices", "education"}
GenesisTables == {"unemployment", "tourism", "construction"}
SmardSeries == {"load", "price"}
Publications == {"situation", "measured", "parking"}
LandValueFormats == {"geojson", "gml"}

Fetchers == OsmFeatures \cup GenesisTables \cup SmardSeries \cup Publications
  \cup LandValueFormats \cup {
  "fetch_weather", "fetch_fire_danger", "fetch_pollen_uv",
  "fetch_dwd_warnings_all", "fetch_air_uba", "fetch_water_level",
  "fetch_flood", "fetch_bathing_water", "fetch_for_ags", "fetch_solar",
  "fetch_population_density", "fetch_pois", "fetch_trees", "fetch_heritage",
  "fetch_city_base", "fetch_hospitals_wikidata", "fetch_demographics",
  "fetch_hospitals", "fetch_hospital_atlas", "fetch_icu_live",
  "fetch_destination_one", "fetch_koeln_events", "fetch_koeln_wartezeiten",
  "fetch_notice_export", "fetch_traffic", "fetch_webcams",
  "fetch_station_facilities", "fetch_station_departures",
  "fetch_station_arrivals", "fetch_all_stations", "fetch_hvv_departures",
  "fetch_vgn_departures", "fetch_sharing", "fetch_parkendd",
  "fetch_fuel_prices", "fetch_mobidata_road_events",
  "fetch_sperrinfosys_road_events", "fetch_wuppertal_parking",
  "fetch_magdeburg_parking", "fetch_frankfurt_parking", "fetch_afir",
  "fetch_gtfs_rt_feed", "fetch_berlin_road_events",
  "fetch_hamburg_road_events", "fetch_dortmund_road_events",
  "fetch_koeln_road_events", "fetch_muenchen_road_events",
  "fetch_muenchen_parking", "fetch_hamburg_verkehrslage",
  "fetch_dortmund_parking", "fetch_berlin_radzaehl", "fetch_essen_radzaehl",
  "fetch_koeln_radzaehl", "fetch_stuttgart_radzaehl",
  "fetch_hamburg_radzaehl", "fetch_duesseldorf_radzaehl",
  "fetch_leipzig_radzaehl", "fetch_muenchen_radzaehl"}

(* Feeds that have entries of one city only, so none of elsewhere.         *)
OneCityFeeds == {
  "fetch_koeln_events", "fetch_koeln_wartezeiten", "fetch_trees",
  "fetch_berlin_road_events", "fetch_hamburg_road_events",
  "fetch_dortmund_road_events", "fetch_koeln_road_events",
  "fetch_muenchen_road_events", "fetch_muenchen_parking",
  "fetch_hamburg_verkehrslage", "fetch_dortmund_parking",
  "fetch_berlin_radzaehl", "fetch_essen_radzaehl", "fetch_koeln_radzaehl",
  "fetch_stuttgart_radzaehl", "fetch_hamburg_radzaehl",
  "fetch_duesseldorf_radzaehl", "fetch_leipzig_radzaehl",
  "fetch_muenchen_radzaehl"}

OutcomeOf(fn, r) ==
  CASE fn \in OsmFeatures -> fetch_osm_feature(r)
    [] fn \in GenesisTables -> fetch_genesis_table(r)
    [] fn \in SmardSeries -> fetch_smard(r)
    [] fn \in Publications -> fetch_datex2(r, fn)
    [] fn \in LandValueFormats -> fetch_city_land_values(r, fn)
    [] fn = "fetch_weather" -> fetch_weather(r)
    [] fn = "fetch_fire_danger" -> fetch_fire_danger(r)
    [] fn = "fetch_pollen_uv" -> fetch_pollen_uv(r)
    [] fn = "fetch_dwd_warnings_all" -> fetch_dwd_warnings_all(r)
    [] fn = "fetch_air_uba" -> fetch_air_uba(r)
    [] fn = "fetch_water_level" -> fetch_water_level(r)
    [] fn = "fetch_flood" -> fetch_flood(r)
    [] fn = "fetch_bathing_water" -> fetch_bathing_water(r)
    [] fn = "fetch_for_ags" -> fetch_for_ags(r)
    [] fn = "fetch_solar" -> fetch_solar(r)
    [] fn = "fetch_population_density" -> fetch_population_density(r)
    [] fn = "fetch_pois" -> fetch_pois(r)
    [] fn = "fetch_trees" -> fetch_trees(r)
    [] fn = "fetch_heritage" -> fetch_heritage(r)
    [] fn = "fetch_city_base" -> fetch_city_base(r)
    [] fn = "fetch_hospitals_wikidata" -> fetch_hospitals_wikidata(r)
    [] fn = "fetch_demographics" -> fetch_demographics(r)
    [] fn = "fetch_hospitals" -> fetch_hospitals(r)
    [] fn = "fetch_hospital_atlas" -> fetch_hospital_atlas(r)
    [] fn = "fetch_icu_live" -> fetch_icu_live(r)
    [] fn = "fetch_destination_one" -> fetch_destination_one(r)
    [] fn = "fetch_koeln_events" -> fetch_koeln_events(r)
    [] fn = "fetch_koeln_wartezeiten" -> fetch_koeln_wartezeiten(r)
    [] fn = "fetch_notice_export" -> fetch_notice_export(r)
    [] fn = "fetch_traffic" -> fetch_traffic(r)
    [] fn = "fetch_webcams" -> fetch_webcams(r)
    [] fn = "fetch_station_facilities" -> fetch_station_facilities(r)
    [] fn = "fetch_station_departures" -> fetch_station_departures(r)
    [] fn = "fetch_station_arrivals" -> fetch_station_arrivals(r)
    [] fn = "fetch_all_stations" -> fetch_all_stations(r)
    [] fn = "fetch_hvv_departures" -> fetch_hvv_departures(r)
    [] fn = "fetch_vgn_departures" -> fetch_vgn_departures(r)
    [] fn = "fetch_sharing" -> fetch_sharing(r)
    [] fn = "fetch_parkendd" -> fetch_parkendd(r)
    [] fn = "fetch_fuel_prices" -> fetch_fuel_prices(r)
    [] fn = "fetch_mobidata_road_events" -> fetch_mobidata_road_events(r)
    [] fn = "fetch_sperrinfosys_road_events" -> fetch_sperrinfosys_road_events(r)
    [] fn = "fetch_wuppertal_parking" -> fetch_wuppertal_parking(r)
    [] fn = "fetch_magdeburg_parking" -> fetch_magdeburg_parking(r)
    [] fn = "fetch_frankfurt_parking" -> fetch_frankfurt_parking(r)
    [] fn = "fetch_afir" -> fetch_afir(r)
    [] fn = "fetch_gtfs_rt_feed" -> fetch_gtfs_rt_feed(r)
    [] fn = "fetch_berlin_road_events" -> fetch_berlin_road_events(r)
    [] fn = "fetch_hamburg_road_events" -> fetch_hamburg_road_events(r)
    [] fn = "fetch_dortmund_road_events" -> fetch_dortmund_road_events(r)
    [] fn = "fetch_koeln_road_events" -> fetch_koeln_road_events(r)
    [] fn = "fetch_muenchen_road_events" -> fetch_muenchen_road_events(r)
    [] fn = "fetch_muenchen_parking" -> fetch_muenchen_parking(r)
    [] fn = "fetch_hamburg_verkehrslage" -> fetch_hamburg_verkehrslage(r)
    [] fn = "fetch_dortmund_parking" -> fetch_dortmund_parking(r)
    [] fn = "fetch_berlin_radzaehl" -> fetch_berlin_radzaehl(r)
    [] fn = "fetch_essen_radzaehl" -> fetch_essen_radzaehl(r)
    [] fn = "fetch_koeln_radzaehl" -> fetch_koeln_radzaehl(r)
    [] fn = "fetch_stuttgart_radzaehl" -> fetch_stuttgart_radzaehl(r)
    [] fn = "fetch_hamburg_radzaehl" -> fetch_hamburg_radzaehl(r)
    [] fn = "fetch_duesseldorf_radzaehl" -> fetch_duesseldorf_radzaehl(r)
    [] fn = "fetch_leipzig_radzaehl" -> fetch_leipzig_radzaehl(r)
    [] fn = "fetch_muenchen_radzaehl" -> fetch_muenchen_radzaehl(r)
=============================================================================
