------------------------------ MODULE AdaptersCity ------------------------------
(***************************************************************************)
(* Adapters for feeds of one city: construction sites, parking, bicycle    *)
(* counters.  r[i] is the reply to the i-th request; a loop over requests  *)
(* of one kind is represented by its first ones.                           *)
(***************************************************************************)
EXTENDS Replies

(* A file of another shape, or no file at all, has no row that counts. *)
Csv == Lenient(Tolerant)

(***************************************************************************)
(* Construction sites and traffic.                                         *)
(***************************************************************************)
fetch_berlin_road_events(r) == Tolerant[r[1]]
fetch_hamburg_road_events(r) == Tolerant[r[1]]
fetch_dortmund_road_events(r) == Tolerant[r[1]]

(* Two layers, one after the other. *)
fetch_koeln_road_events(r) ==
  LET layer(k) == Scoped(Tolerant)[k] IN InTurn(<<layer(r[1]), layer(r[2])>>)

(* The catalogue names the file; a file on a host that is not allowed is   *)
(* an error, no file is no entry.                                          *)
package_show(k) == [Tolerant EXCEPT !["far"] = "Other", !["none"] = "blank"][k]
fetch_muenchen_road_events(r) == Then(package_show(r[1]), Tolerant[r[2]])
fetch_muenchen_parking(r) == Then(package_show(r[1]), Tolerant[r[2]])

(* One request per state of the traffic; the numbers are added up. *)
fetch_state(k) == Tolerant[k]
fetch_hamburg_verkehrslage(r) == InTurn([i \in DOMAIN r |-> fetch_state(r[i])])

(***************************************************************************)
(* Parking.                                                                *)
(***************************************************************************)
fetch_dortmund_parking(r) == Tolerant[r[1]]

(***************************************************************************)
(* Bicycle counters.                                                       *)
(***************************************************************************)
fetch_berlin_radzaehl(r) == Tolerant[r[1]]
fetch_essen_radzaehl(r) == Csv[r[1]]
fetch_koeln_radzaehl(r) == Csv[r[1]]
fetch_stuttgart_radzaehl(r) == Csv[r[1]]
fetch_hamburg_radzaehl(r) == Csv[r[1]]

(* A file per station, in parallel; the sum of its columns. *)
sum_station_csv(k) == Csv[k]
fetch_duesseldorf_radzaehl(r) == Gathered([i \in DOMAIN r |-> sum_station_csv(r[i])])

(* The stations, then their counts. *)
fetch_standorte(k) == Tolerant[k]
latest_counts(k) == Csv[k]
fetch_leipzig_radzaehl(r) == Detail(fetch_standorte(r[1]), latest_counts(r[2]))

(* Stations, the catalogue of this year, of the year before if there is no *)
(* file for this one yet, and the file.  After the catalogue of the year   *)
(* before the file is taken to be well-formed.                             *)
fetch_stations(k) == Tolerant[k]
latest_daily_csv_url(k) ==
  [Tolerant EXCEPT !["far"] = "Other", !["none"] = "null", !["odd"] = "null",
                   !["gone"] = "null"][k]
parse_latest_day(k) == Csv[k]
fetch_muenchen_radzaehl(r) ==
  LET this_year == latest_daily_csv_url(r[2])
      daily == IF this_year = "null" THEN latest_daily_csv_url(r[3])
                                     ELSE Then(this_year, parse_latest_day(r[3]))
  IN  Detail(fetch_stations(r[1]), daily)
=============================================================================
