-------------------------------- MODULE Registry --------------------------------
(***************************************************************************)
(* The cities of the service and the tables that say which of them an      *)
(* endpoint covers (registry, and the maps at the head of cities.py and of *)
(* the adapters), for a part of the 84 cities: at least one for each       *)
(* special case of the routes, and kiel, of which only nationwide sources  *)
(* know anything.  A table lists the modelled cities among its keys;       *)
(* frankfurt is frankfurt-am-main.                                         *)
(***************************************************************************)

(* The federal state of each city. *)
CITY_REGISTRY == [berlin |-> "BE", hamburg |-> "HH", bremen |-> "HB",
  muenchen |-> "BY", nuernberg |-> "BY", koeln |-> "NW", dortmund |-> "NW",
  duesseldorf |-> "NW", essen |-> "NW", wuppertal |-> "NW", frankfurt |-> "HE",
  stuttgart |-> "BW", dresden |-> "SN", leipzig |-> "SN", magdeburg |-> "ST",
  hannover |-> "NI", kiel |-> "SH"]

Registered == DOMAIN CITY_REGISTRY
InStates(states) == {slug \in Registered : CITY_REGISTRY[slug] \in states}

(* Every registered city has roads and an AGS. *)
CITY_ROADS == Registered

CITY_PEGEL == {"berlin", "hamburg", "muenchen", "koeln", "frankfurt",
  "duesseldorf", "essen", "leipzig", "dresden", "nuernberg", "bremen"}

PARKENDD_CITIES == {"dortmund", "dresden", "hamburg", "koeln"}

MOBILITHEK_PARKING == {"frankfurt", "wuppertal", "magdeburg"}

CONNECTOR_MAP == [berlin |-> "berlin_viz", koeln |-> "koeln_verkehr",
  hamburg |-> "hamburg_baustellen", muenchen |-> "muenchen_baustellen",
  stuttgart |-> "mobidata_bw", dortmund |-> "dortmund_baustellen",
  dresden |-> "sperrinfosys", leipzig |-> "sperrinfosys",
  bremen |-> "bremen_baustellen"]

GBFS_SYSTEMS == {"berlin", "muenchen", "koeln", "frankfurt", "duesseldorf",
  "dresden", "leipzig", "nuernberg", "bremen", "hannover"}

STATION_EVAS == {"berlin", "hamburg", "muenchen", "koeln", "frankfurt",
  "stuttgart", "duesseldorf", "nuernberg", "leipzig", "dresden", "bremen",
  "dortmund", "essen", "hannover"}

BIKE_COUNTS_CITIES == {"muenchen", "leipzig", "hamburg", "berlin", "stuttgart",
  "koeln", "essen", "duesseldorf"}

PARTIAL_COVERAGE == [
  flood |-> CITY_PEGEL, webcams |-> CITY_ROADS, traffic |-> CITY_ROADS,
  road_events |-> DOMAIN CONNECTOR_MAP, sharing |-> GBFS_SYSTEMS,
  land_values |-> InStates({"BE", "HE", "NI", "HB", "BB", "TH", "MV", "HH", "NW", "ST"}),
  solar_roofs |-> InStates({"NW", "BY", "BE", "HH", "BB"}),
  parking |-> PARKENDD_CITIES \cup {"muenchen"} \cup MOBILITHEK_PARKING,
  bike_counts |-> BIKE_COUNTS_CITIES,
  heritage |-> InStates({"BE", "HH", "BW", "HE"}),
  tree_cadastre |-> {"berlin"},
  district_heating |-> {"berlin", "hamburg"},
  office_wait_times |-> {"koeln"}]

is_covered(endpoint, slug) ==
  endpoint \in DOMAIN PARTIAL_COVERAGE => slug \in PARTIAL_COVERAGE[endpoint]

SMARD_STATE_TO_ZONE(slug) ==
  CASE CITY_REGISTRY[slug] = "BW" -> "TransnetBW"
    [] CITY_REGISTRY[slug] \in {"BY", "HB", "HE", "NI", "SH"} -> "TenneT"
    [] CITY_REGISTRY[slug] \in {"BE", "BB", "HH", "MV", "SN", "ST", "TH"} -> "50Hertz"
    [] CITY_REGISTRY[slug] \in {"NW", "RP", "SL"} -> "Amprion"
=============================================================================
