---------------------------- MODULE MCQueryRouter ----------------------------
(* One sampled series and a client of the drop-in. *)
EXTENDS QueryRouter

Is(label, text) == [label |-> label, op |-> "=", text |-> text, matches |-> {text}]

Over(fn, window) ==
  [kind |-> "func", aggr |-> FALSE, fn |-> fn, args |-> <<>>, inner |-> "metric",
   window |-> window, offset |-> 0, filters |-> {Is("__name__", "m"), Is("job", "")}]

Instant(expr, ts) ==
  [endpoint |-> "instant", expr |-> expr, valid |-> TRUE, start |-> ts, end |-> ts,
   step |-> 0]
RangeQuery(expr, start, end) ==
  [Instant(expr, start) EXCEPT !.endpoint = "range", !.end = end, !.step = 2]

MCSeriesLabels == {<<"__name__", "m">>}

MCRequests ==
  { Instant(Over("sum_over_time", 2), 5), Instant(Over("count_over_time", 3), 6),
    RangeQuery(Over("avg_over_time", 1), 3, 6), RangeQuery(Over("stdvar_over_time", 3), 6, 5),
    Instant([Over("sum_over_time", 2) EXCEPT !.aggr = TRUE], 5),
    Instant([Over("sum_over_time", 2) EXCEPT !.kind = "invalid"], 5),
    [RangeQuery(Over("rate", 2), 3, 6) EXCEPT !.valid = FALSE] }
=============================================================================
