------------------------------- MODULE MCService -------------------------------
(***************************************************************************)
(* Service with all routes and one city for each special case of them.     *)
(***************************************************************************)
EXTENDS Service

Sources(table) == {table[key] : key \in DOMAIN table}

MCCities == Registered \cup {"nowhere"}

MCRepeated == {"kiel", "bremen"}

MCOverviewCities == {"koeln", "kiel", "nowhere"}

MCCompareCities == <<"koeln", "kiel", "nowhere">>

MCHandlers == CityRoutes \cup LiveRoutes

MCResources == RESOURCE_MAP \cup delegated_resources

MCCredentials == {"db_credentials", "tankerkoenig_key", "mobilithek_cert",
  "genesis_credentials", "hvv_credentials", "regio_credentials", "bremen_abo",
  "parking_abo", "koeln_abo", "berlin_abo", "hannover_abo", "kiel_abo", "eround_abo"}

MCToggles == {"wikidata", "dwd", "solar", "uba", "pegelonline", "dwd_pollen",
  "dwd_fire", "eea_bathing", "klinik_atlas", "zensus_grid", "lhp", "denkmal",
  "baumkataster", "autobahn", "autobahn_webcam", "koeln_wartezeiten", "gbfs",
  "db_fasta", "tankerkoenig", "overpass", "parkendd", "muenchen_parkhaeuser",
  "destination_one", "koeln_events", "genesis", "genesis_regio", "smard",
  "dwd_warnings", "bbk_nina", "stada", "db_timetables", "divi", "hvv_geofox",
  "vgn", "dortmund_parking", "hamburg_verkehrslage", "solar_cadastre", "bnetza",
  "district_heating", "eround_charging", "delfi", "hvv", "bkg", "bundeswahl",
  "feiertage", "mastr", "kba", "unfallatlas", "bka_pks", "inkar", "boris",
  "regionalstatistik", "oeffentlichevergabe", "gtfs_rt"}
  \cup DOMAIN Home \cup (Sources(CONNECTOR_MAP) \ {"bremen_baustellen"})
  \cup Sources(BikeCountsSource)

MCContents == {"seed", "records", "population", "statuses", "delta", "updates"}

(* Everything off, or no credentials; one of several sources off; nothing  *)
(* off, and nothing found.                                                 *)
MCSettings ==
  {<<off_, MCContents>> : off_ \in {{}, MCToggles, MCCredentials, {"destination_one"},
     {"koeln_events"}, {"genesis"}, {"genesis", "wikidata"}, {"stada"}, {"dwd"}}}
  \cup {<<off_, {}>> : off_ \in {{}, {"genesis"}, {"genesis", "wikidata"}}}

MCParametrised == {"city_pois", "city_playgrounds", "city_events", "city_charging",
  "city_energy", "city_public_tenders", "live_hamburg_departures",
  "live_nuernberg_departures", "live_transit_departures", "live_transit_trip",
  "live_transit_route_status", "station_departures_by_eva", "station_arrivals_by_eva"}
=============================================================================
