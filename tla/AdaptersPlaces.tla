---------------------------- MODULE AdaptersPlaces ----------------------------
(***************************************************************************)
(* Adapters for what stands in a city and what is on there: objects of the *)
(* map, trees, monuments, land values, statistics, hospitals, events,      *)
(* tenders.  r[i] is the reply to the i-th request.                        *)
(***************************************************************************)
EXTENDS Replies

(* OpenStreetMap: the area is named in the query.  A remark about a query  *)
(* that ran out of time comes as an object without elements.               *)
split_count_element(k) == Scoped(Tolerant)[k]
fetch_pois(r) == split_count_element(r[1])
fetch_osm_feature(r) == split_count_element(r[1])

(* Each city has a register of trees of its own. *)
fetch_trees(r) == Scoped(Tolerant)[r[1]]

(* The layer of a city state, or a bounding box in the others. *)
fetch_heritage(r) == Scoped(Tolerant)[r[1]]

(***************************************************************************)
(* Land values, read page by page; a page is full as long as the reply is  *)
(* rows.  A page that cannot be parsed has no features and so looks like   *)
(* the last one; a page that is refused likewise.                          *)
(***************************************************************************)
LastPage(r) == CHOOSE i \in 1 .. Len(r) :
                 /\ r[i] # "rows" \/ i = Len(r)
                 /\ \A j \in 1 .. i - 1 : r[j] = "rows"

Pages(r, parse_page) ==
  LET last == LastPage(r)
      truncated == r[last] = "rows"
  IN  InTurn([i \in 1 .. last + (IF truncated THEN 1 ELSE 0) |->
                IF i > last THEN "blank" ELSE parse_page[r[i]]])

fetch_geojson_values(r) == Pages(r, Scoped(Tolerant))

parse_gml_page == Guarded(Lenient(Scoped(Tolerant)))
paginate_gml(r) == Pages(r, parse_gml_page)
fetch_brw_values(r, output_format) ==
  IF output_format = "geojson" THEN fetch_geojson_values(r) ELSE paginate_gml(r)

NullIfNone(payload) == IF payload \in {"empty", "blank"} THEN "null" ELSE payload

fetch_city_land_values(r, output_format) ==
  NullIfNone(fetch_brw_values(r, output_format))

(* Statements are looked up by property: d["mainsnak"]["datavalue"]. *)
choose_quantity(k) == Scoped(Plain)[k]
fetch_city_base(r) == choose_quantity(r[1])
fetch_hospitals_wikidata(r) == Scoped(Tolerant)[r[1]]

(* GENESIS reports a missing right or table as an object with status 200.  *)
fetch_demographics(r) == Scoped(Tolerant)[r[1]]
fetch_hospitals(r) == Scoped(Tolerant)[r[1]]
parse_datencsv_latest == Lenient(Scoped(Tolerant))
fetch_genesis_table(r) ==
  IF r[1] = "junk" THEN "Other" ELSE parse_datencsv_latest[r[1]]

fetch_hospital_atlas(r) == Scoped(Tolerant)[r[1]]

(* Pages of the register of all of Germany, until one is empty or odd. *)
fetch_icu_live(r) ==
  LET page(k) == Scoped(Tolerant)[k]
  IN  CASE r[1] \in {"none", "odd"} -> page(r[1])
        [] r[1] \notin {"none", "odd"} -> InTurn(<<page(r[1]), page(r[2])>>)

(* Without coordinates an event passes the filter by distance. *)
fetch_destination_one(r) == Scoped(Tolerant)[r[1]]
fetch_koeln_events(r) == Tolerant[r[1]]
fetch_koeln_wartezeiten(r) == Lenient(Guarded(Tolerant))[r[1]]

(* The archive of notices: too large, no archive, entries that are no JSON. *)
parse_ocds_release == Tolerant
parse_zip == Lenient(parse_ocds_release)
fetch_notice_export(r) == Guarded(parse_zip)[r[1]]
=============================================================================
