------------------------- MODULE AdaptersEnvironment -------------------------
(***************************************************************************)
(* Adapters for weather, air, water, warnings, energy, land and            *)
(* population.  r[i] is the reply to the i-th request; a loop over         *)
(* requests of one kind is represented by its first two.                   *)
(***************************************************************************)
EXTENDS Replies

(* body["weather"] must be there. *)
fetch_weather(r) == Scoped(Plain)[r[1]]

(* Mutant: only a number that is none is caught, not a failed request for  *)
(* the index for grassland.                                                *)
fetch_fire_danger_ValueErrorOnly(r) ==
  LET query_layer(k) == Nearest(Tolerant)[k]
  IN  Detail(query_layer(r[1]), query_layer(r[2]))

(* The nearest station with a fire index, at any distance; the index for   *)
(* grassland is left out when its request or its number fails.             *)
fetch_fire_danger(r) ==
  LET query_layer(k) == Nearest(Tolerant)[k]
  IN  Optional(query_layer(r[1]), query_layer(r[2]))

(* Both documents are requested before either is parsed. *)
fetch_pollen_uv(r) ==
  LET pick_region == Scoped(Tolerant)[r[1]]
      pick_uv == Scoped(Tolerant)[r[2]]
  IN  IF {r[1], r[2]} \cap {"down", "gone"} # {} THEN "HTTPError"
      ELSE InTurn(<<pick_region, pick_uv>>)

(* One document for all of Germany. *)
fetch_dwd_warnings_all(r) == Tolerant[r[1]]

(* The warnings of one city in that document. *)
extract_warncell(all) == IF all = "foreign" THEN "empty" ELSE all

(* Missing columns and a list without coordinates are reported as an error *)
(* of the source.                                                          *)
nearest_stations(k) ==
  [Nearest(Plain) EXCEPT !["odd"] = "HTTPError", !["none"] = "HTTPError"][k]

(* Each component of the air: the nearest station that measures it. *)
latest_value(k) == Scoped(Tolerant)[k]

fetch_air_uba(r) ==
  LET first == latest_value(r[2])
      fetch_component == IF first \in {"empty", "blank"}
                         THEN InTurn(<<first, latest_value(r[3])>>)
                         ELSE first
  IN  Then(nearest_stations(r[1]), fetch_component)

(* No station within half a degree is an answer, and so is a station list  *)
(* of another shape.  The unit falls back to centimetres.                  *)
fetch_water_level(r) ==
  LET nearest == Scoped(Tolerant)[r[1]]
      currentmeasurement == Tolerant[r[2]]
      fetch_unit == Tolerant[r[3]]
  IN  Optional(Detail(nearest, currentmeasurement), fetch_unit)

(* A home page without the token reads as no gauge, a gauge that cannot be *)
(* read is skipped.                                                        *)
fetch_flood(r) ==
  LET home == [Lenient(Tolerant) EXCEPT !["far"] = "blank", !["none"] = "blank"][r[1]]
      pegel(k) == Lenient(Scoped(Tolerant))[k]
  IN  Then(home, InTurn(<<pegel(r[2]), pegel(r[3])>>))

fetch_bathing_water(r) == Scoped(Tolerant)[r[1]]

(* Too large, not JSON, not a list: each reads as "no warnings". *)
fetch_for_ags(r) == Lenient(Guarded(Scoped(Tolerant)))[r[1]]

fetch_solar(r) == Scoped(Tolerant)[r[1]]

(* The index names the bucket that is requested next. *)
fetch_smard(r) ==
  LET index == Scoped(Tolerant)[r[1]]
      series == Scoped(Tolerant)[r[2]]
  IN  Then(index, series)

fetch_population_density(r) == Scoped(Tolerant)[r[1]]
=============================================================================
