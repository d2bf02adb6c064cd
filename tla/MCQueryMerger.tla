---------------------------- MODULE MCQueryMerger ----------------------------
(* Two nodes and two clients of pskquery, which has one slot. *)
EXTENDS QueryMerger

Is(label, text) == [label |-> label, op |-> "=", text |-> text, matches |-> {text}]

Over(fn, filters) ==
  [kind |-> "func", aggr |-> FALSE, fn |-> fn, args |-> <<>>, inner |-> "metric",
   window |-> 2, offset |-> 0, filters |-> {Is("__name__", "m")} \cup filters]

Instant(expr) ==
  [endpoint |-> "instant", expr |-> expr, valid |-> TRUE, start |-> 4, end |-> 4,
   step |-> 0]
Range(expr) == [Instant(expr) EXCEPT !.endpoint = "range", !.end = 5, !.step = 1]

MCSeries == {{<<"__name__", "m">>, <<"job", "a">>},
             {<<"__name__", "m">>, <<"job", "a">>, <<"zone", "z">>},
             {<<"__name__", "m">>, <<"job", "b">>}}
MCOwnerOf == [name \in {"", "m"} |-> CHOOSE n \in Nodes : TRUE]

MCRequests ==
  { Instant(Over("sum_over_time", {Is("job", "a")})), Range(Over("sum_over_time", {})),
    Instant(Over("rate", {})),
    Instant([Over("sum_over_time", {}) EXCEPT !.kind = "invalid"]),
    [Range(Over("rate", {})) EXCEPT !.valid = FALSE] }
=============================================================================
