-------------------------------- MODULE Answers --------------------------------
(***************************************************************************)
(* The form all routes share.  A handler is a function of a request c:     *)
(*   c.slug   the city, or the station or other thing in its place         *)
(*   c.valid  whether the query parameters are acceptable                  *)
(*   c.off    toggles that are off and credentials that are missing        *)
(*   c.has    what is found in the archive, in seeds and in Redis          *)
(*   c.got    what the facade returned so far: a payload of the adapter,   *)
(*            "nothing" (None) or "Other" (it raised)                      *)
(* Its value is the next step: a fetch through the facade, or the answer.  *)
(***************************************************************************)
EXTENDS Naturals, Sequences, FiniteSets, Registry

(* The answer: source_status of a 200, or the status code of an error. *)
Say(status) == [do |-> "say", status |-> status]

(* build_cache_key and ResilientSourceClient.fetch: the breaker of source, *)
(* the entry <<prefix, scope, parameter>>, the adapter and the city it is  *)
(* called for.                                                             *)
Fetch(source, key, fn, slug) ==
  [do |-> "fetch", source |-> source, key |-> key, fn |-> fn, slug |-> slug,
   store |-> TRUE]

(* Texts in a key: a query parameter, and two names joined to one.         *)
Param(name, value) == name \o "=" \o value
Scope(what, where) == what \o "-" \o where

(* store=False. *)
OnDemand(call) == [call EXCEPT !.store = FALSE]

(* The usual key: the source and the city. *)
CityFetch(source, fn, slug) == Fetch(source, <<source, slug, "">>, fn, slug)

On(c, switches) == c.off \cap switches = {}

Nothing(raw) == raw = "nothing"
Empty(raw) == raw \in {"empty", "blank"}

(***************************************************************************)
(* The end of a handler.  An exception that fetch passes on is answered    *)
(* with 500, None with 503, no entries with the given status.              *)
(***************************************************************************)
(* Mutant: None is taken for "no entries".                                 *)
Settle_NoneIsEmpty(raw, empty) ==
  CASE raw = "Other" -> Say("500")
    [] Nothing(raw) \/ Empty(raw) -> Say(empty)
    [] raw # "Other" /\ ~Nothing(raw) /\ ~Empty(raw) -> Say("ok")

Settle(raw, empty) ==
  CASE raw = "Other" -> Say("500")
    [] Nothing(raw) -> Say("503")
    [] Empty(raw) -> Say(empty)
    [] raw # "Other" /\ ~Nothing(raw) /\ ~Empty(raw) -> Say("ok")

(* A handler with one fetch. *)
Upstream(c, call, empty) ==
  IF c.got = <<>> THEN call ELSE Settle(c.got[1], empty)

(* Mutant: a route forgets its toggle.                                     *)
Toggled_Never(c, switches, answer) == answer

Toggled(c, switches, answer) == IF On(c, switches) THEN answer ELSE Say("disabled")

Covered(c, endpoint, answer) ==
  IF is_covered(endpoint, c.slug) THEN answer ELSE Say("not_covered")

Valid(c, code, answer) == IF c.valid THEN answer ELSE Say(code)

(* parse_page_params, when there is a list to cut. *)
Paged(c, answer) == IF answer.do = "say" /\ answer.status = "ok" /\ ~c.valid
                    THEN Say("400") ELSE answer

(* The most frequent route: a toggle named like the source, one fetch. *)
OneSource(c, source, fn) ==
  Toggled(c, {source}, Upstream(c, CityFetch(source, fn, c.slug), "ok"))
OneSourceOrNoData(c, source, fn) ==
  Toggled(c, {source}, Upstream(c, CityFetch(source, fn, c.slug), "no_data"))

(* Routes that read what a batch job has put into the archive. *)
Archived(c, switches, what, missing) ==
  Toggled(c, switches, Say(IF what \in c.has THEN "ok" ELSE missing))
=============================================================================
