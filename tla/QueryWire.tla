----------------------------- MODULE QueryWire -----------------------------
(***************************************************************************)
(* A typed query on its way to the engine: the Go struct, the JSON with    *)
(* its zero fields left out, the Rust struct with the missing fields set   *)
(* to their defaults, and the calls on the engine's query builder. Both    *)
(* sides ignore a field the other does not have. The value of a text, map  *)
(* or flag is 0 (its zero value) or 1; a text that is parsed may also be   *)
(* Other (the second thing it can name) or Malformed. A number is itself.  *)
(***************************************************************************)
EXTENDS Integers, FiniteSets, Functions

CONSTANTS
    Numbers,    \* the numbers a query may hold
    MaxSet      \* bound on the fields a query sets

ASSUME WireAssumption == Numbers \subseteq Int /\ MaxSet \in Nat

Other     == 2
Malformed == 3
Kinds == {"logs", "metrics", "spans", "points", "traces"}

VARIABLES
    kind,   \* the type of the query
    asked,  \* the Go struct, by the names of its JSON tags
    stage,  \* "fill", "sent", "built" or "rejected"
    json,   \* the request on the wire
    built   \* the builder calls made, name -> argument, and the range set, if any

wireVars == <<kind, asked, stage, json, built>>

-----------------------------------------------------------------------------
(* The Go structs *)

AttrPredicates ==
    {"attr_eq", "attr_exists", "attr_matches", "attr_in", "attr_not_in",
     "attr_gt", "attr_ge", "attr_lt", "attr_le", "attr_regex"}

LogQuery == AttrPredicates \union
    {"service", "match", "start", "end", "limit", "backward", "trace_id", "span_id",
     "severity_at_least", "observed_after", "order_by"}
MetricQuery == {"metric", "sum", "step", "start", "end", "group_by"}
SpanMetricsQuery == {"service", "name", "kind", "status", "group_by", "step", "start", "end"}
MetricPointsQuery == {"metric", "kind", "filters", "start", "end", "limit"}
TraceQuery == AttrPredicates \union
    {"service", "name", "status", "kind", "min_duration_ns", "max_duration_ns",
     "start", "end", "limit"}

Fields(k) ==
    CASE k = "logs" -> LogQuery
      [] k = "metrics" -> MetricQuery
      [] k = "spans" -> SpanMetricsQuery
      [] k = "points" -> MetricPointsQuery
      [] k = "traces" -> TraceQuery

Numeric == {"start", "end", "limit", "step", "severity_at_least", "observed_after",
            "min_duration_ns", "max_duration_ns"}

\* The texts the handler parses: ids, and names of one of two or three things.
HexIds == {"trace_id", "span_id"}
Parsed(k) == HexIds \union {"order_by"} \union (IF k = "points" THEN {"kind"} ELSE {})

FieldValues(k, f) ==
    IF f \in Numeric THEN Numbers ELSE IF f \in Parsed(k) THEN 1..Malformed ELSE {1}

Nonzero(q) == {f \in DOMAIN q : q[f] # 0}

WireInit ==
    /\ kind \in Kinds
    /\ asked = [f \in Fields(kind) |-> 0]
    /\ stage = "fill"
    /\ json = <<>>
    /\ built = [calls |-> <<>>, ranges |-> {}]

SetField(f) ==
    /\ stage = "fill" /\ asked[f] = 0 /\ Cardinality(Nonzero(asked)) < MaxSet
    /\ \E v \in FieldValues(kind, f) : asked' = [asked EXCEPT ![f] = v]
    /\ UNCHANGED <<kind, stage, json, built>>

\* json.Marshal: omitempty, except for the metric's name.
Send ==
    /\ stage = "fill"
    /\ json' = Restrict(asked, Nonzero(asked) \union ({"metric"} \intersect Fields(kind)))
    /\ stage' = "sent"
    /\ UNCHANGED <<kind, asked, built>>

-----------------------------------------------------------------------------
(* The Rust structs and the builders *)

UntaggedLogQueryWire == (LogQuery \ {"match"}) \union {"text"}      \* mutant

LogQueryWire ==
    {"service", "match", "attr_eq", "start", "end", "limit", "backward", "trace_id", "span_id",
     "severity_at_least", "attr_exists", "attr_matches", "attr_in", "attr_not_in", "attr_gt",
     "attr_ge", "attr_lt", "attr_le", "attr_regex", "observed_after", "order_by"}
MetricQueryWire == {"metric", "sum", "step", "start", "end", "group_by"}
SpanMetricsQueryWire == {"service", "name", "kind", "status", "group_by", "step", "start", "end"}
MetricPointsWire == {"metric", "kind", "filters", "start", "end", "limit"}
TraceQueryWire ==
    {"service", "name", "status", "kind", "min_duration_ns", "max_duration_ns", "attr_eq",
     "attr_exists", "attr_matches", "attr_in", "attr_not_in", "attr_gt", "attr_ge", "attr_lt",
     "attr_le", "attr_regex", "start", "end", "limit"}

Wire ==
    CASE kind = "logs" -> LogQueryWire
      [] kind = "metrics" -> MetricQueryWire
      [] kind = "spans" -> SpanMetricsQueryWire
      [] kind = "points" -> MetricPointsWire
      [] kind = "traces" -> TraceQueryWire

\* serde: a field without a value takes its default.
Deserialize == [f \in Wire |-> IF f \in DOMAIN json THEN json[f] ELSE 0]

SwappedTimeRange(w) ==                                               \* mutant
    {r \in {<<w["end"], w["start"]>>} : w["start"] # 0 \/ w["end"] # 0}

\* The range is set as a whole, if either end is given.
TimeRange(w) == {r \in {<<w["start"], w["end"]>>} : w["start"] # 0 \/ w["end"] # 0}

\* The fields with a `> 0` guard; the others are passed on when they are not
\* empty or 0. An id that is no hex is skipped.
Positive == {"limit", "step", "severity_at_least", "min_duration_ns", "max_duration_ns"}

Given(w, fields) ==
    {f \in fields : IF f \in Positive THEN w[f] > 0
                    ELSE w[f] # 0 /\ (f \in HexIds => w[f] # Malformed)}

\* One call for each of the `fields` given and, whatever their value, one for
\* each of `always`; the arguments are `args`.
Built(w, always, fields, args) ==
    [calls |-> Restrict(args, always \union Given(w, fields)), ranges |-> TimeRange(w)]

\* A match with a default arm.
OrDefault(v) == IF v = Other THEN Other ELSE 1

\* severity_at_least as u8.
BuildLogQuery(w) ==
    Built(w, {"order_by", "backward"}, LogQueryWire \ {"start", "end"},
          [w EXCEPT !["severity_at_least"] = @ % 256, !["order_by"] = OrDefault(@)])
BuildMetricQuery(w) == Built(w, {"metric", "sum"}, {"step", "group_by"}, w)
BuildSpanMetricsQuery(w) == Built(w, {}, {"service", "name", "kind", "status", "group_by", "step"}, w)

\* A kind that is neither "sum" nor "histogram" is a gauge.
BuildPointsQuery(w) ==
    Built(w, {"metric", "kind"}, {"filters", "limit"}, [w EXCEPT !["kind"] = OrDefault(@)])
BuildTraceQuery(w) == Built(w, {}, TraceQueryWire \ {"start", "end"}, w)

Build(w) ==
    CASE kind = "logs" -> BuildLogQuery(w)
      [] kind = "metrics" -> BuildMetricQuery(w)
      [] kind = "spans" -> BuildSpanMetricsQuery(w)
      [] kind = "points" -> BuildPointsQuery(w)
      [] kind = "traces" -> BuildTraceQuery(w)

\* An unknown axis is rejected, in a log query only.
UnknownAxis(w) == kind = "logs" /\ w["order_by"] = Malformed

Receive ==
    /\ stage = "sent"
    /\ LET w == Deserialize
       IN  IF UnknownAxis(w) THEN stage' = "rejected" /\ UNCHANGED built
           ELSE stage' = "built" /\ built' = Build(w)
    /\ UNCHANGED <<kind, asked, json>>

WireDone == stage \in {"built", "rejected"} /\ UNCHANGED wireVars

WireNext == (\E f \in Fields(kind) : SetField(f)) \/ Send \/ Receive \/ WireDone

WireSpec == WireInit /\ [][WireNext]_wireVars

-----------------------------------------------------------------------------
(* Properties *)

\* What a field that is not set does: the two flags, the metric's name and the
\* fields that name one of several things are part of every query.
Constructor(k, f) == \/ f \in {"metric", "sum", "backward", "order_by"}
                     \/ k = "points" /\ f = "kind"

\* A field says nothing: it is unset, a number that must be positive is not, an
\* id is no hex.
Void(f) == \/ asked[f] = 0
           \/ asked[f] < 0 /\ f # "observed_after"
           \/ asked[f] = Malformed /\ f \in HexIds

\* Every field that says something reaches the engine's builder once and a field
\* that says nothing does not, whatever else is set; it arrives with the value it
\* was given, but for a severity outside 0..255, which wraps, and for a points
\* kind that names none, which silently becomes a gauge. A log query is rejected
\* exactly when its axis is unknown: it never falls back to the other clock.
SetFieldsAreApplied ==
    /\ stage = "built" =>
         /\ DOMAIN built.calls =
                {f \in Fields(kind) \ {"start", "end"} : Constructor(kind, f) \/ ~Void(f)}
         /\ \A f \in DOMAIN built.calls :
              \/ built.calls[f] = asked[f]
              \/ f = "severity_at_least" /\ asked[f] \notin 0..255
                    /\ built.calls[f] \in 0..255 /\ (asked[f] - built.calls[f]) % 256 = 0
              \/ f = "order_by" /\ asked[f] = 0 /\ built.calls[f] = 1
              \/ kind = "points" /\ f = "kind" /\ asked[f] \in {0, Malformed} /\ built.calls[f] = 1
    /\ stage = "built" /\ kind = "logs" => asked["order_by"] # Malformed
    /\ stage = "rejected" => asked["order_by"] = Malformed

\* The engine's reading of a range: the start is in it, the end is not.
InRange(t) == \A r \in built.ranges : t >= r[1] /\ t < r[2]

\* The rows in the time range are those that the ends that are set allow.
AsAsked == \A t \in Numbers : InRange(t) <=> /\ asked["start"] # 0 => t >= asked["start"]
                                             /\ asked["end"] # 0 => t < asked["end"]

\* A query that sets both ends of its time range, or none, gets the rows of that
\* range, its start included and its end not.
WindowIsAsAsked ==
    stage = "built" /\ (asked["start"] = 0 <=> asked["end"] = 0) => AsAsked

\* "Times are Unix nanoseconds; 0 means unset" (LogQuery, query.go): so also when
\* only one end is set.
UnsetEndIsOpen == stage = "built" /\ kind = "logs" => AsAsked
=============================================================================
