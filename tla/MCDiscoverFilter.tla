--------------------------- MODULE MCDiscoverFilter ---------------------------
(***************************************************************************)
(* DiscoverFilter for TLC: two capabilities, one of which may be described *)
(* anew.                                                                   *)
(***************************************************************************)
EXTENDS DiscoverFilter, TLC

weather == [id |-> "weather-forecast", desc |-> "of a town"]
news    == [id |-> "news", desc |-> "of today"]
renewed == [id |-> "news", desc |-> "of today, with the weather"]

Capabilities == {weather, news, renewed}

Matches(query, c) ==
    CASE query = "today" /\ c.id = "news"  -> "is in its description"
      [] query = "weather" /\ c = weather  -> "is in its id"
      [] query = "weather" /\ c = renewed  -> "is in its description"
      [] OTHER -> "words"

Words(query, c) ==
    CASE query = "weather forecast" /\ c = weather -> 100
      [] query = "weather forecast" /\ c = renewed -> 50
      [] OTHER -> 0

Similar(query, c) ==
    CASE c = weather -> IF query = "today" THEN 20 ELSE 80
      [] c = news    -> IF query = "today" THEN 80 ELSE 20
      [] c = renewed -> 90

Plain == [top_k |-> None, threshold |-> None]
Best  == [top_k |-> 1, threshold |-> None]

Requests ==
    {[query |-> "weather", id |-> AnyId, opts |-> Plain],
     [query |-> "today", id |-> AnyId, opts |-> Plain],
     [query |-> "weather", id |-> AnyId, opts |-> Best],
     [query |-> "weather", id |-> "news", opts |-> Plain]}

Symmetry == Permutations(Call)
================================================================================
