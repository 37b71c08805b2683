-------------------------------- MODULE Routes --------------------------------
(***************************************************************************)
(* The handlers by name, as the routers of api/v1 register them.  The rows *)
(* of /compare are named by their resource, the highlights of the overview *)
(* by what they show.                                                      *)
(***************************************************************************)
EXTENDS RoutesLive

CityRoutes == {
  "city_base", "city_weather", "city_solar", "city_air", "city_air_uba",
  "city_water_level", "city_pollen_uv", "city_fire_danger",
  "city_bathing_water", "city_hospitals_atlas", "city_population_density",
  "city_flood", "city_heritage", "city_tree_cadastre", "city_traffic",
  "city_webcams", "city_office_wait_times", "city_sharing",
  "city_station_facilities", "city_fuel_prices", "city_pois",
  "city_playgrounds", "city_drinking_water", "city_public_toilets",
  "city_markets", "city_parcel_lockers", "city_post_offices",
  "city_post_boxes", "city_public_wifi", "city_recycling_centres",
  "city_government_offices", "city_education", "city_road_events",
  "city_parking", "city_bike_counts", "city_events", "city_demographics",
  "city_health", "city_unemployment", "city_tourism", "city_construction",
  "city_power_load", "city_power_price", "city_weather_warnings",
  "city_civil_protection_warnings", "city_stations",
  "city_station_departures", "city_station_arrivals", "city_icu_live",
  "city_solar_roofs", "city_charging", "city_district_heating",
  "city_charging_status", "city_transit", "city_geo", "city_election",
  "city_holidays", "city_energy", "city_vehicle_registrations",
  "city_accidents", "city_crime_stats", "city_indicators", "city_land_values",
  "city_tax_rates", "city_business_registrations", "city_insolvencies",
  "city_public_tenders", "cities", "city"}

LiveRoutes == {
  "live_traffic_flow", "live_baustellen", "live_ereignisse",
  "live_berlin_verkehrsmeldungen", "live_hannover_verkehrsmeldungen",
  "live_koeln_umweltzone", "live_kiel_zaehlstellen", "live_frankfurt_parking",
  "live_wuppertal_parking", "live_magdeburg_parking", "live_eround_charging",
  "live_dortmund_parking", "live_hamburg_verkehrslage",
  "live_hamburg_departures", "live_nuernberg_departures",
  "live_transit_departures", "live_transit_trip", "live_transit_route_status",
  "station_departures_by_eva", "station_arrivals_by_eva", "live_air",
  "live_air_uba", "live_water_level", "live_traffic", "live_webcams",
  "live_flood"}

(* Paths that name their city, or a station in its place.                  *)
PathCity == [live_berlin_verkehrsmeldungen |-> "berlin",
  live_hannover_verkehrsmeldungen |-> "hannover", live_koeln_umweltzone |-> "koeln",
  live_kiel_zaehlstellen |-> "kiel", live_frankfurt_parking |-> "frankfurt",
  live_wuppertal_parking |-> "wuppertal", live_magdeburg_parking |-> "magdeburg",
  live_eround_charging |-> "koeln", live_dortmund_parking |-> "dortmund",
  live_hamburg_verkehrslage |-> "hamburg", live_hamburg_departures |-> "hamburg",
  live_nuernberg_departures |-> "nuernberg", station_departures_by_eva |-> "eva",
  station_arrivals_by_eva |-> "eva"]

RESOURCE_MAP == {"weather", "air"}
delegated_resources == {"indicators", "demographics", "unemployment", "tourism",
  "charging-status", "weather-warnings"}
Highlights == <<"highlight-weather", "highlight-air", "highlight-departures">>

Handle(handler, c) ==
  CASE handler \in RESOURCE_MAP -> compare_one(c, handler)
    [] handler \in delegated_resources -> one_delegated(c, handler)
    [] handler = "highlight-weather" -> snapshot_one(c, "weather")
    [] handler = "highlight-air" -> snapshot_one(c, "air")
    [] handler = "highlight-departures" -> snapshot_departures(c)
    [] handler = "city_base" -> city_base(c)
    [] handler = "city_weather" -> city_weather(c)
    [] handler = "city_solar" -> city_solar(c)
    [] handler = "city_air" -> city_air(c)
    [] handler = "city_air_uba" -> city_air_uba(c)
    [] handler = "city_water_level" -> city_water_level(c)
    [] handler = "city_pollen_uv" -> city_pollen_uv(c)
    [] handler = "city_fire_danger" -> city_fire_danger(c)
    [] handler = "city_bathing_water" -> city_bathing_water(c)
    [] handler = "city_hospitals_atlas" -> city_hospitals_atlas(c)
    [] handler = "city_population_density" -> city_population_density(c)
    [] handler = "city_flood" -> city_flood(c)
    [] handler = "city_heritage" -> city_heritage(c)
    [] handler = "city_tree_cadastre" -> city_tree_cadastre(c)
    [] handler = "city_traffic" -> city_traffic(c)
    [] handler = "city_webcams" -> city_webcams(c)
    [] handler = "city_office_wait_times" -> city_office_wait_times(c)
    [] handler = "city_sharing" -> city_sharing(c)
    [] handler = "city_station_facilities" -> city_station_facilities(c)
    [] handler = "city_fuel_prices" -> city_fuel_prices(c)
    [] handler = "city_pois" -> city_pois(c)
    [] handler = "city_playgrounds" -> city_playgrounds(c)
    [] handler = "city_drinking_water" -> city_drinking_water(c)
    [] handler = "city_public_toilets" -> city_public_toilets(c)
    [] handler = "city_markets" -> city_markets(c)
    [] handler = "city_parcel_lockers" -> city_parcel_lockers(c)
    [] handler = "city_post_offices" -> city_post_offices(c)
    [] handler = "city_post_boxes" -> city_post_boxes(c)
    [] handler = "city_public_wifi" -> city_public_wifi(c)
    [] handler = "city_recycling_centres" -> city_recycling_centres(c)
    [] handler = "city_government_offices" -> city_government_offices(c)
    [] handler = "city_education" -> city_education(c)
    [] handler = "city_road_events" -> city_road_events(c)
    [] handler = "city_parking" -> city_parking(c)
    [] handler = "city_bike_counts" -> city_bike_counts(c)
    [] handler = "city_events" -> city_events(c)
    [] handler = "city_demographics" -> city_demographics(c)
    [] handler = "city_health" -> city_health(c)
    [] handler = "city_unemployment" -> city_unemployment(c)
    [] handler = "city_tourism" -> city_tourism(c)
    [] handler = "city_construction" -> city_construction(c)
    [] handler = "city_power_load" -> city_power_load(c)
    [] handler = "city_power_price" -> city_power_price(c)
    [] handler = "city_weather_warnings" -> city_weather_warnings(c)
    [] handler = "city_civil_protection_warnings" -> city_civil_protection_warnings(c)
    [] handler = "city_stations" -> city_stations(c)
    [] handler = "city_station_departures" -> city_station_departures(c)
    [] handler = "city_station_arrivals" -> city_station_arrivals(c)
    [] handler = "city_icu_live" -> city_icu_live(c)
    [] handler = "city_solar_roofs" -> city_solar_roofs(c)
    [] handler = "city_charging" -> city_charging(c)
    [] handler = "city_district_heating" -> city_district_heating(c)
    [] handler = "city_charging_status" -> city_charging_status(c)
    [] handler = "city_transit" -> city_transit(c)
    [] handler = "city_geo" -> city_geo(c)
    [] handler = "city_election" -> city_election(c)
    [] handler = "city_holidays" -> city_holidays(c)
    [] handler = "city_energy" -> city_energy(c)
    [] handler = "city_vehicle_registrations" -> city_vehicle_registrations(c)
    [] handler = "city_accidents" -> city_accidents(c)
    [] handler = "city_crime_stats" -> city_crime_stats(c)
    [] handler = "city_indicators" -> city_indicators(c)
    [] handler = "city_land_values" -> city_land_values(c)
    [] handler = "city_tax_rates" -> city_tax_rates(c)
    [] handler = "city_business_registrations" -> city_business_registrations(c)
    [] handler = "city_insolvencies" -> city_insolvencies(c)
    [] handler = "city_public_tenders" -> city_public_tenders(c)
    [] handler = "cities" -> cities(c)
    [] handler = "city" -> city(c)
    [] handler = "live_traffic_flow" -> live_traffic_flow(c)
    [] handler = "live_baustellen" -> live_baustellen(c)
    [] handler = "live_ereignisse" -> live_ereignisse(c)
    [] handler = "live_berlin_verkehrsmeldungen" -> live_berlin_verkehrsmeldungen(c)
    [] handler = "live_hannover_verkehrsmeldungen" -> live_hannover_verkehrsmeldungen(c)
    [] handler = "live_koeln_umweltzone" -> live_koeln_umweltzone(c)
    [] handler = "live_kiel_zaehlstellen" -> live_kiel_zaehlstellen(c)
    [] handler = "live_frankfurt_parking" -> live_frankfurt_parking(c)
    [] handler = "live_wuppertal_parking" -> live_wuppertal_parking(c)
    [] handler = "live_magdeburg_parking" -> live_magdeburg_parking(c)
    [] handler = "live_eround_charging" -> live_eround_charging(c)
    [] handler = "live_dortmund_parking" -> live_dortmund_parking(c)
    [] handler = "live_hamburg_verkehrslage" -> live_hamburg_verkehrslage(c)
    [] handler = "live_hamburg_departures" -> live_hamburg_departures(c)
    [] handler = "live_nuernberg_departures" -> live_nuernberg_departures(c)
    [] handler = "live_transit_departures" -> live_transit_departures(c)
    [] handler = "live_transit_trip" -> live_transit_trip(c)
    [] handler = "live_transit_route_status" -> live_transit_route_status(c)
    [] handler = "station_departures_by_eva" -> station_departures_by_eva(c)
    [] handler = "station_arrivals_by_eva" -> station_arrivals_by_eva(c)
    [] handler = "live_air" -> live_air(c)
    [] handler = "live_air_uba" -> live_air_uba(c)
    [] handler = "live_water_level" -> live_water_level(c)
    [] handler = "live_traffic" -> live_traffic(c)
    [] handler = "live_webcams" -> live_webcams(c)
    [] handler = "live_flood" -> live_flood(c)
=============================================================================
