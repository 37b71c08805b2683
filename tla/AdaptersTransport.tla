--------------------------- MODULE AdaptersTransport ---------------------------
(***************************************************************************)
(* Adapters for roads, trains, buses, parking, sharing and charging.  r[i] *)
(* is the reply to the i-th request; a loop over requests of one kind is   *)
(* represented by its first two.                                           *)
(***************************************************************************)
EXTENDS Replies

(***************************************************************************)
(* Autobahn: roads and services in parallel, each filtered by distance.    *)
(***************************************************************************)
get_service_items(k) == Tolerant[k]
bbox_items(payload) == IF payload = "foreign" THEN "empty" ELSE payload
FilteredItems(k) == bbox_items(get_service_items(k))

(* Mutant: one request that is answered hides that the others failed, and  *)
(* so does none: nothing is raised.                                        *)
raise_if_all_failed_Never(results) ==
  Merge((ToSet(results) \ Raised) \cup {"blank"})

raise_if_all_failed(results) == Gathered(results)

fetch_traffic(r) == raise_if_all_failed([i \in DOMAIN r |-> FilteredItems(r[i])])
fetch_webcams(r) == raise_if_all_failed([i \in DOMAIN r |-> FilteredItems(r[i])])

fetch_station_facilities(r) == Scoped(Tolerant)[r[1]]

(***************************************************************************)
(* DB timetables: the changes of a station, then its plan hour by hour.  A *)
(* plan that cannot be parsed is skipped, changes that cannot be parsed    *)
(* leave every train on time.                                              *)
(***************************************************************************)
guarded_parse == Lenient(Guarded(Tolerant))
get_board == GoneIsEmpty(Scoped(guarded_parse))
parse_board(r) == InTurn(<<get_board[r[2]], get_board[r[3]]>>)
parse_changes(k) == get_board[k]

fetch_board(r) ==
  CASE parse_changes(r[1]) \in Raised -> parse_changes(r[1])
    [] parse_changes(r[1]) = "blank" -> Optional(parse_board(r), "blank")
    [] parse_changes(r[1]) \in {"full", "empty"} -> parse_board(r)

fetch_station_departures(r) == fetch_board(r)
fetch_station_arrivals(r) == fetch_board(r)

(* The register of all stations of Germany. *)
fetch_all_stations(r) == Tolerant[r[1]]

(* A refused signature comes as an object with status 200. *)
geofox(k) == Scoped(Tolerant)[k]
fetch_hvv_departures(r) == Then(geofox(r[1]), geofox(r[2]))

fetch_vgn_departures(r) == Scoped(Tolerant)[r[1]]

(***************************************************************************)
(* GBFS: discovery, system information with the licence, then the feeds.   *)
(* Without a licence of tier A the system is left out, and so it is if     *)
(* either document has another shape.                                      *)
(***************************************************************************)
tier_a_license(k) == [Scoped(Tolerant) EXCEPT !["none"] = "empty"][k]
gbfs_feeds(k) == [Scoped(Tolerant) EXCEPT !["none"] = "blank"][k]
gbfs_stations(k) == [Tolerant EXCEPT !["far"] = "full", !["none"] = "full"][k]
fetch_system(r) ==
  Then(gbfs_feeds(r[1]), Detail(tier_a_license(r[2]), gbfs_stations(r[3])))
fetch_sharing(r) == fetch_system(r)

fetch_parkendd(r) == Scoped(Tolerant)[r[1]]

(* A refused key comes as ok = false with status 200. *)
fetch_fuel_prices(r) == Scoped(Tolerant)[r[1]]

(* The parser's exception is no ValueError. *)
parse_mobidata_datex2 == Guarded(Scoped(Tolerant))
fetch_mobidata_road_events(r) == parse_mobidata_datex2[r[1]]

(* Read as text, then as JSON, with both failures swallowed. *)
read_sperrungen_features == Lenient(Guarded(Scoped(Tolerant)))
fetch_sperrinfosys_road_events(r) == read_sperrungen_features[r[1]]

(***************************************************************************)
(* Mobilithek: DATEX II by subscription.  422 means that the publisher has *)
(* not delivered anything.                                                 *)
(***************************************************************************)
pull_subscription == GoneIsEmpty(Guarded(Tolerant))
parse_datex2_situations(k) == Scoped(pull_subscription)[k]
parse_datex2_measured(k) == pull_subscription[k]
parse_datex2_parking(k) == pull_subscription[k]

fetch_datex2(r, kind) ==
  CASE kind = "situation" -> parse_datex2_situations(r[1])
    [] kind = "measured" -> parse_datex2_measured(r[1])
    [] kind = "parking" -> parse_datex2_parking(r[1])

(* The occupancy and, by a second subscription, name and capacity, which   *)
(* is asked unless the first had nothing or was refused: what it raises is *)
(* raised, even if there is no facility to name.                           *)
parse_facility_status_v2(k) == pull_subscription[k]
parse_facility_static_v2(k) == pull_subscription[k]

join_facilities(asked, status, static) ==
  IF asked /\ status \notin Raised /\ static \in Raised THEN static
                                                    ELSE Optional(status, static)

fetch_facility_parking_v2(r) ==
  join_facilities(r[1] \notin {"gone", "barred"},
                  parse_facility_status_v2(r[1]), parse_facility_static_v2(r[2]))
fetch_wuppertal_parking(r) == fetch_facility_parking_v2(r)
fetch_magdeburg_parking(r) == fetch_facility_parking_v2(r)

parse_parking_status_v3(k) == pull_subscription[k]
parse_parking_static_v3(k) == pull_subscription[k]
fetch_frankfurt_parking(r) ==
  join_facilities(r[1] \notin {"gone", "barred"},
                  parse_parking_status_v3(r[1]), parse_parking_static_v3(r[2]))

(* JSON, not XML: a body that is none reads as no charging points. *)
parse_afir_v3 == Lenient(pull_subscription)
fetch_afir(r) == parse_afir_v3[r[1]]

(* GTFS-RT, in binary: whatever is no feed raises, and a feed too large.   *)
(* The poller turns to gtfs.de when DELFI fails or has nothing.            *)
parse_trip_updates == [Plain EXCEPT !["barred"] = "Other"]
fetch_gtfs_rt_feed(r) ==
  parse_trip_updates[IF r[1] \in {"gone", "down"} THEN r[2] ELSE r[1]]
=============================================================================
