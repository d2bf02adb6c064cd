------------------------------ MODULE QueryPlan ------------------------------
(***************************************************************************)
(* What the query path makes of an expression before it asks anybody:      *)
(* internal/query/parser/parser.go, internal/query/capabilities/registry.go*)
(* and buildLabelsFromQuery, which the drop-in router and the merger each  *)
(* have a copy of.                                                         *)
(*                                                                         *)
(* An expression is what metricsql.Parse returns, cut down to what the     *)
(* parser looks at: a record with                                          *)
(*   kind     "func", "rollup", "metric", "other", or "invalid" when       *)
(*            metricsql.Parse fails                                        *)
(*   aggr     whether it is the argument of an aggregate                   *)
(*   fn, args the function and its numeric arguments                       *)
(*   inner    what the (rollup) argument wraps: "metric", "other" (a       *)
(*            subquery), or "none" if no argument is a rollup              *)
(*   window, offset                                                        *)
(*   filters  a set of [label, op, text, matches], of the first group;     *)
(*            matches holds the values an "=~" pattern text matches        *)
(* A label set is a set of pairs <<label, value>>.                         *)
(***************************************************************************)
EXTENDS Integers, Sequences, FiniteSets

MetricNameLabel == "__name__"

LabelMatches(lset, label) == {p[2] : p \in {q \in lset : q[1] = label}}

-----------------------------------------------------------------------------
(* Parser *)

ParseFails(e) == e.kind = "invalid"

\* The window is read from a rollup; an offset and an @ modifier are not looked at.
RangeOf(e) == IF e.kind \in {"func", "rollup"} /\ e.inner # "none" THEN e.window ELSE 0

\* extractMetricInfo runs for a metric and for a rollup of a metric, not for a subquery.
FiltersOf(e) ==
  IF e.kind = "metric" \/ (e.kind \in {"func", "rollup"} /\ e.inner = "metric")
  THEN e.filters ELSE {}

\* The name is taken from any filter on __name__, whatever its operator.
MetricNameOf(filters) == {f.text : f \in {g \in filters : g.label = MetricNameLabel}}

\* extractInfo: an aggregate is looked into, and marked.
Parse(e) ==
  [FunctionName  |-> IF e.kind = "func" THEN e.fn ELSE "",
   FuncArgs      |-> IF e.kind = "func" THEN e.args ELSE <<>>,
   MetricName    |-> MetricNameOf(FiltersOf(e)),
   LabelMatchers |-> FiltersOf(e),
   Range         |-> RangeOf(e),
   IsAggregate   |-> e.aggr]

IsRangeQuery(info) == info.Range > 0

-----------------------------------------------------------------------------
(* Capability registry *)

supportedFunctions ==
  {"avg_over_time", "sum_over_time", "sum2_over_time", "count_over_time",
   "stddev_over_time", "stdvar_over_time", "quantile_over_time", "min_over_time",
   "max_over_time", "entropy_over_time", "distinct_over_time", "l1_over_time",
   "l2_over_time"}

CanHandle(info) ==
  /\ ~info.IsAggregate
  /\ info.FunctionName \in supportedFunctions
  /\ IsRangeQuery(info)

-----------------------------------------------------------------------------
(* Labels to look for *)

\* Filters other than "=" are left out.  Setting a label to "" removes it.
buildLabelsFromQuery(info) ==
  {<<MetricNameLabel, n>> : n \in info.MetricName} \cup
  {<<f.label, f.text>> : f \in {g \in info.LabelMatchers : g.op = "=" /\ g.text # ""}}

\* The merger's copy of it, with promLabelsToPBLabels.
mergerLabels(info) ==
  {<<MetricNameLabel, n>> : n \in info.MetricName} \cup
  {<<f.label, f.text>> : f \in {g \in info.LabelMatchers : g.op = "=" /\ g.text # ""}}

\* [minTime, maxTime] of an evaluation at ts.
WindowStart(info, ts) == IF ts - info.Range >= ts THEN ts ELSE ts - info.Range

-----------------------------------------------------------------------------
(* What the selector means to a Prometheus backend *)

Satisfies(lset, f) ==
  LET vals == LabelMatches(lset, f.label)
      value == IF vals = {} THEN "" ELSE CHOOSE v \in vals : TRUE
  IN CASE f.op = "="  -> value = f.text
       [] f.op = "!=" -> value # f.text
       [] f.op = "=~" -> value \in f.matches
       [] f.op = "!~" -> value \notin f.matches

Selects(filters, lset) == \A f \in filters : Satisfies(lset, f)
=============================================================================
