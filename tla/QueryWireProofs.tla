--------------------------- MODULE QueryWireProofs ---------------------------
(***************************************************************************)
(* What becomes of the fields of a typed query, proved for queries of all  *)
(* five kinds that set any number of fields to any numbers.                *)
(***************************************************************************)
EXTENDS QueryWire, TLAPS

-----------------------------------------------------------------------------
(***************************************************************************)
(* The two sides of the wire have the same fields.                         *)
(***************************************************************************)

\* The fields that are passed on one by one.
Single(k) == Fields(k) \ {"start", "end"}

\* Each Rust struct has the fields of its Go struct.
LEMMA WireIsFields == ASSUME kind \in Kinds PROVE Wire = Fields(kind)
<1>1. CASE kind = "logs"
  BY <1>1 DEF Wire, Fields, LogQuery, LogQueryWire, AttrPredicates
<1>2. CASE kind = "metrics"
  BY <1>2 DEF Wire, Fields, MetricQuery, MetricQueryWire
<1>3. CASE kind = "spans"
  BY <1>3 DEF Wire, Fields, SpanMetricsQuery, SpanMetricsQueryWire
<1>4. CASE kind = "points"
  BY <1>4 DEF Wire, Fields, MetricPointsQuery, MetricPointsWire
<1>5. CASE kind = "traces"
  BY <1>5 DEF Wire, Fields, TraceQuery, TraceQueryWire, AttrPredicates
<1> QED
  BY <1>1, <1>2, <1>3, <1>4, <1>5 DEF Kinds

\* Every kind of query has a range, and a log query has an order.
LEMMA FieldFacts ==
    ASSUME kind \in Kinds
    PROVE  {"start", "end"} \subseteq Fields(kind) /\ (kind = "logs" => "order_by" \in Fields(kind))
BY DEF Kinds, Fields, LogQuery, MetricQuery, SpanMetricsQuery, MetricPointsQuery, TraceQuery

\* The values a query may hold.
QueryValues(k, f) == {0} \union FieldValues(k, f)

IsQuery(k, q) == q \in [Fields(k) -> Int] /\ \A f \in Fields(k) : q[f] \in QueryValues(k, f)

\* What a builder does with the fields passed on one by one.
IsBuilt(k, q, b) ==
    /\ DOMAIN b.calls = {f \in Single(k) : Constructor(k, f) \/ f \in Given(q, Single(k))}
    /\ \A f \in DOMAIN b.calls :
         b.calls[f] = IF k = "logs" /\ f = "severity_at_least" THEN q[f] % 256
                      ELSE IF (k = "logs" /\ f = "order_by") \/ (k = "points" /\ f = "kind")
                           THEN OrDefault(q[f]) ELSE q[f]
    /\ b.ranges = TimeRange(q)

\* `Built` makes the calls it is told to.
LEMMA BuiltFacts ==
    ASSUME NEW w, NEW always, NEW fields, NEW args, NEW S,
           always \subseteq S, fields \subseteq S, DOMAIN args = S
    PROVE  LET b == Built(w, always, fields, args)
           IN  /\ DOMAIN b.calls = always \union Given(w, fields)
               /\ \A f \in DOMAIN b.calls : b.calls[f] = args[f]
               /\ b.ranges = TimeRange(w)
<1> DEFINE D == always \union Given(w, fields)
<1>1. Built(w, always, fields, args) = [calls |-> Restrict(args, D), ranges |-> TimeRange(w)]
  BY DEF Built
<1>2. DOMAIN Restrict(args, D) = D /\ \A f \in D : Restrict(args, D)[f] = args[f]
  BY DEF Restrict
<1> HIDE DEF D
<1>3. Built(w, always, fields, args).calls = Restrict(args, D)
  BY <1>1
<1>4. Built(w, always, fields, args).ranges = TimeRange(w)
  BY <1>1
<1> QED
  BY <1>2, <1>3, <1>4 DEF D

\* Every builder is given the fields that say something, and those that are part
\* of every query of its kind.
LEMMA BuildFacts ==
    ASSUME kind \in Kinds, NEW w, IsQuery(kind, w)
    PROVE  IsBuilt(kind, w, Build(w))
<1>0. Wire = Fields(kind) /\ DOMAIN w = Fields(kind)
  BY WireIsFields DEF IsQuery
<1>1. CASE kind = "logs"
  <2> DEFINE args == [w EXCEPT !["severity_at_least"] = @ % 256, !["order_by"] = OrDefault(@)]
  <2>1. Fields(kind) = LogQueryWire /\ Single(kind) = LogQueryWire \ {"start", "end"}
    BY <1>0, <1>1 DEF Wire, Single
  <2>2. Build(w) = Built(w, {"order_by", "backward"}, Single(kind), args)
    BY <1>1, <2>1 DEF Build, BuildLogQuery
  <2>3. {"order_by", "backward", "severity_at_least"} \subseteq Single(kind)
    BY <2>1 DEF LogQueryWire
  <2>4. \A f \in Single(kind) : Constructor(kind, f) <=> f \in {"order_by", "backward"}
    BY <1>1, <2>1 DEF Constructor, LogQueryWire
  <2>5. DOMAIN args = Fields(kind)
    BY <1>0
  <2>6. \A f \in Fields(kind) :
          args[f] = IF f = "severity_at_least" THEN w[f] % 256
                    ELSE IF f = "order_by" THEN OrDefault(w[f]) ELSE w[f]
    BY <1>0
  <2> HIDE DEF args
  <2>7. PICK b : b = Built(w, {"order_by", "backward"}, Single(kind), args)
    OBVIOUS
  <2>8. /\ DOMAIN b.calls = {"order_by", "backward"} \union Given(w, Single(kind))
        /\ \A f \in DOMAIN b.calls : b.calls[f] = args[f]
        /\ b.ranges = TimeRange(w)
    <3>1. {"order_by", "backward"} \subseteq Fields(kind) /\ Single(kind) \subseteq Fields(kind)
      BY <2>3 DEF Single
    <3> QED
      BY <2>5, <2>7, <3>1, BuiltFacts
  <2>9. DOMAIN b.calls = {f \in Single(kind) : Constructor(kind, f) \/ f \in Given(w, Single(kind))}
    BY <2>3, <2>4, <2>8 DEF Given
  <2>10. DOMAIN b.calls \subseteq Fields(kind)
    BY <2>9 DEF Single
  <2> QED
    BY <1>1, <2>2, <2>6, <2>7, <2>8, <2>9, <2>10 DEF IsBuilt
<1>2. CASE kind = "metrics"
  <2>1. /\ Single(kind) = {"metric", "sum", "step", "group_by"}
        /\ Single(kind) \subseteq Fields(kind)
    BY <1>2 DEF Single, Fields, MetricQuery
  <2>2. Build(w) = Built(w, {"metric", "sum"}, {"step", "group_by"}, w)
    BY <1>2 DEF Build, BuildMetricQuery
  <2>3. \A f \in Single(kind) : Constructor(kind, f) <=> f \in {"metric", "sum"}
    BY <1>2, <2>1 DEF Constructor
  <2>4. PICK b : b = Built(w, {"metric", "sum"}, {"step", "group_by"}, w)
    OBVIOUS
  <2>5. /\ DOMAIN b.calls = {"metric", "sum"} \union Given(w, {"step", "group_by"})
        /\ \A f \in DOMAIN b.calls : b.calls[f] = w[f]
        /\ b.ranges = TimeRange(w)
    BY <1>0, <2>1, <2>4, BuiltFacts
  <2>6. DOMAIN b.calls = {f \in Single(kind) : Constructor(kind, f) \/ f \in Given(w, Single(kind))}
    BY <2>1, <2>3, <2>5 DEF Given
  <2> QED
    BY <1>2, <2>2, <2>4, <2>5, <2>6 DEF IsBuilt
<1>3. CASE kind = "spans"
  <2> DEFINE fields == {"service", "name", "kind", "status", "group_by", "step"}
  <2>1. Single(kind) = fields /\ Single(kind) \subseteq Fields(kind)
    BY <1>3 DEF Single, Fields, SpanMetricsQuery
  <2>2. Build(w) = Built(w, {}, fields, w)
    BY <1>3 DEF Build, BuildSpanMetricsQuery
  <2>3. \A f \in Single(kind) : ~Constructor(kind, f)
    BY <1>3, <2>1 DEF Constructor
  <2>4. PICK b : b = Built(w, {}, fields, w)
    OBVIOUS
  <2> HIDE DEF fields
  <2>5. /\ DOMAIN b.calls = {} \union Given(w, fields)
        /\ \A f \in DOMAIN b.calls : b.calls[f] = w[f]
        /\ b.ranges = TimeRange(w)
    BY <1>0, <2>1, <2>4, BuiltFacts
  <2>6. DOMAIN b.calls = {f \in Single(kind) : Constructor(kind, f) \/ f \in Given(w, Single(kind))}
    BY <2>1, <2>3, <2>5 DEF Given
  <2> QED
    BY <1>3, <2>2, <2>4, <2>5, <2>6 DEF IsBuilt
<1>4. CASE kind = "points"
  <2> DEFINE args == [w EXCEPT !["kind"] = OrDefault(@)]
  <2>1. /\ Single(kind) = {"metric", "kind", "filters", "limit"}
        /\ Single(kind) \subseteq Fields(kind)
    BY <1>4 DEF Single, Fields, MetricPointsQuery
  <2>2. Build(w) = Built(w, {"metric", "kind"}, {"filters", "limit"}, args)
    BY <1>4 DEF Build, BuildPointsQuery
  <2>3. \A f \in Single(kind) : Constructor(kind, f) <=> f \in {"metric", "kind"}
    BY <1>4, <2>1 DEF Constructor
  <2>4. DOMAIN args = Fields(kind)
    BY <1>0
  <2>5. \A f \in Fields(kind) : args[f] = IF f = "kind" THEN OrDefault(w[f]) ELSE w[f]
    BY <1>0
  <2> HIDE DEF args
  <2>6. PICK b : b = Built(w, {"metric", "kind"}, {"filters", "limit"}, args)
    OBVIOUS
  <2>7. /\ DOMAIN b.calls = {"metric", "kind"} \union Given(w, {"filters", "limit"})
        /\ \A f \in DOMAIN b.calls : b.calls[f] = args[f]
        /\ b.ranges = TimeRange(w)
    BY <2>1, <2>4, <2>6, BuiltFacts
  <2>8. DOMAIN b.calls = {f \in Single(kind) : Constructor(kind, f) \/ f \in Given(w, Single(kind))}
    BY <2>1, <2>3, <2>7 DEF Given
  <2>9. DOMAIN b.calls \subseteq Fields(kind)
    BY <2>1, <2>8
  <2> QED
    BY <1>4, <2>2, <2>5, <2>6, <2>7, <2>8, <2>9 DEF IsBuilt
<1>5. CASE kind = "traces"
  <2>1. Fields(kind) = TraceQueryWire /\ Single(kind) = TraceQueryWire \ {"start", "end"}
    BY <1>0, <1>5 DEF Wire, Single
  <2>2. Build(w) = Built(w, {}, Single(kind), w)
    BY <1>5, <2>1 DEF Build, BuildTraceQuery
  <2>3. \A f \in Single(kind) : ~Constructor(kind, f)
    BY <1>5, <2>1 DEF Constructor, TraceQueryWire
  <2>4. PICK b : b = Built(w, {}, Single(kind), w)
    OBVIOUS
  <2>5. /\ DOMAIN b.calls = {} \union Given(w, Single(kind))
        /\ \A f \in DOMAIN b.calls : b.calls[f] = w[f]
        /\ b.ranges = TimeRange(w)
    <3>1. Single(kind) \subseteq Fields(kind)
      BY DEF Single
    <3> QED
      BY <1>0, <2>4, <3>1, BuiltFacts
  <2>6. DOMAIN b.calls = {f \in Single(kind) : Constructor(kind, f) \/ f \in Given(w, Single(kind))}
    BY <2>3, <2>5 DEF Given
  <2> QED
    BY <1>5, <2>2, <2>4, <2>5, <2>6 DEF IsBuilt
<1> QED
  BY <1>1, <1>2, <1>3, <1>4, <1>5 DEF Kinds

-----------------------------------------------------------------------------
(***************************************************************************)
(* The inductive invariant.                                                *)
(***************************************************************************)

TypeOK ==
    /\ kind \in Kinds
    /\ IsQuery(kind, asked)
    /\ stage \in {"fill", "sent", "built", "rejected"}

\* What is on the wire is the query without its zero fields.
SentInv ==
    stage = "sent" =>
        json = Restrict(asked, Nonzero(asked) \union ({"metric"} \intersect Fields(kind)))

\* What the builder was told is what the Go struct says.
BuiltInv ==
    /\ stage = "built" => IsBuilt(kind, asked, built) /\ ~UnknownAxis(asked)
    /\ stage = "rejected" => UnknownAxis(asked)

IInv == TypeOK /\ SentInv /\ BuiltInv

\* The query arrives as it was: the fields left out take the value they had.
LEMMA RoundTrip == ASSUME TypeOK, SentInv, stage = "sent" PROVE Deserialize = asked
<1>0. asked \in [Fields(kind) -> Int]
  BY DEF TypeOK, IsQuery
<1>1. Wire = Fields(kind) /\ DOMAIN asked = Fields(kind)
  BY <1>0, WireIsFields DEF TypeOK
<1>2. DOMAIN json = Nonzero(asked) \union ({"metric"} \intersect Fields(kind))
  BY DEF SentInv, Restrict
<1>3. \A f \in DOMAIN json : json[f] = asked[f]
  BY DEF SentInv, Restrict
<1>4. \A f \in Fields(kind) : f \notin DOMAIN json => asked[f] = 0
  BY <1>1, <1>2 DEF Nonzero
<1>5. \A f \in Fields(kind) : (IF f \in DOMAIN json THEN json[f] ELSE 0) = asked[f]
  BY <1>3, <1>4
<1> QED
  BY <1>0, <1>1, <1>5 DEF Deserialize

\* The values a field may be given are numbers.
LEMMA ValuesAreNumbers ==
    ASSUME NEW k, NEW f PROVE FieldValues(k, f) \subseteq Int
BY WireAssumption DEF FieldValues, Malformed

\* A query starts with nothing set.
LEMMA InitInv == WireInit => IInv
BY DEF WireInit, IInv, TypeOK, SentInv, BuiltInv, IsQuery, QueryValues

\* Every step keeps the invariant.
LEMMA NextInv == IInv /\ [WireNext]_wireVars => IInv'
<1> SUFFICES ASSUME IInv, [WireNext]_wireVars PROVE IInv'
  OBVIOUS
<1>t. TypeOK /\ SentInv /\ BuiltInv
  BY DEF IInv
<1>1. ASSUME NEW f \in Fields(kind), SetField(f) PROVE IInv'
  <2>1. PICK v \in FieldValues(kind, f) : asked' = [asked EXCEPT ![f] = v]
    BY <1>1 DEF SetField
  <2>2. stage = "fill" /\ stage' = "fill" /\ kind' = kind
    BY <1>1 DEF SetField
  <2>3. v \in Int
    BY <2>1, ValuesAreNumbers
  <2>4. IsQuery(kind, asked')
    BY <1>1, <1>t, <2>1, <2>3 DEF TypeOK, IsQuery, QueryValues
  <2>5. TypeOK'
    BY <1>t, <2>2, <2>4 DEF TypeOK
  <2> QED
    BY <2>2, <2>5 DEF IInv, SentInv, BuiltInv
<1>2. CASE Send
  <2>1. /\ stage' = "sent" /\ kind' = kind /\ asked' = asked
        /\ json' = Restrict(asked, Nonzero(asked) \union ({"metric"} \intersect Fields(kind)))
    BY <1>2 DEF Send
  <2>2. SentInv'
    BY <2>1 DEF SentInv
  <2> QED
    BY <1>t, <2>1, <2>2 DEF IInv, TypeOK, BuiltInv
<1>3. CASE Receive
  <2>0. stage = "sent" /\ kind' = kind /\ asked' = asked /\ Deserialize = asked
    BY <1>t, <1>3, RoundTrip DEF Receive
  <2>1. \/ UnknownAxis(asked) /\ stage' = "rejected"
        \/ ~UnknownAxis(asked) /\ stage' = "built" /\ built' = Build(asked)
    BY <1>3, <2>0 DEF Receive
  <2>2. IsBuilt(kind, asked, Build(asked))
    BY <1>t, BuildFacts DEF TypeOK
  <2>3. TypeOK' /\ SentInv'
    BY <1>t, <2>0, <2>1 DEF TypeOK, SentInv
  <2>4. BuiltInv'
    BY <2>0, <2>1, <2>2 DEF BuiltInv, UnknownAxis
  <2> QED
    BY <2>3, <2>4 DEF IInv
<1>4. CASE UNCHANGED wireVars
  <2>1. TypeOK' /\ SentInv'
    BY <1>t, <1>4 DEF wireVars, TypeOK, SentInv
  <2>2. BuiltInv'
    BY <1>t, <1>4 DEF wireVars, BuiltInv, UnknownAxis
  <2> QED
    BY <2>1, <2>2 DEF IInv
<1> QED
  BY <1>1, <1>2, <1>3, <1>4 DEF WireNext, WireDone

\* It holds of the specification.
LEMMA Inductive == WireSpec => []IInv
BY InitInv, NextInv, PTL DEF WireSpec

-----------------------------------------------------------------------------
(***************************************************************************)
(* The theorems.                                                           *)
(***************************************************************************)

\* A field that the builder is given by its value is one that is not void.
LEMMA GivenIsNotVoid ==
    ASSUME TypeOK, NEW f \in Single(kind)
    PROVE  f \in Given(asked, Single(kind)) <=> ~Void(f)
<1>1. asked[f] \in Int /\ asked[f] \in QueryValues(kind, f) /\ f \in Fields(kind)
  BY DEF TypeOK, IsQuery, Single
<1>2. f \in Numeric => f \in Positive \union {"observed_after"}
  BY DEF Numeric, Positive, Single
<1>3. f \in Positive \union {"observed_after"} => f \notin HexIds
  BY DEF Positive, HexIds
<1>4. f \notin Numeric => asked[f] >= 0 /\ f \notin Positive /\ f # "observed_after"
  BY <1>1 DEF QueryValues, FieldValues, Malformed, Numeric, Positive
<1> QED
  BY <1>1, <1>2, <1>3, <1>4 DEF Given, Void, Positive

\* Whatever fields a query of any kind sets, the builder of its handler is given
\* exactly those that say something; a severity is taken modulo 256 and a points
\* kind that names none is a gauge, every other value arrives as it was; a log
\* query is rejected exactly when its axis is unknown.
THEOREM SetFieldsAreAppliedHolds == WireSpec => []SetFieldsAreApplied
<1>1. ASSUME IInv PROVE SetFieldsAreApplied
  <2>t. TypeOK /\ BuiltInv
    BY <1>1 DEF IInv
  <2>1. ASSUME stage = "built"
        PROVE  DOMAIN built.calls = {f \in Single(kind) : Constructor(kind, f) \/ ~Void(f)}
    <3>1. DOMAIN built.calls = {f \in Single(kind) : Constructor(kind, f) \/ f \in Given(asked, Single(kind))}
      BY <2>1, <2>t DEF BuiltInv, IsBuilt
    <3> QED
      BY <2>t, <3>1, GivenIsNotVoid
  <2>2. ASSUME stage = "built", NEW f \in DOMAIN built.calls
        PROVE  \/ built.calls[f] = asked[f]
               \/ f = "severity_at_least" /\ asked[f] \notin 0..255
                     /\ built.calls[f] \in 0..255 /\ (asked[f] - built.calls[f]) % 256 = 0
               \/ f = "order_by" /\ asked[f] = 0 /\ built.calls[f] = 1
               \/ kind = "points" /\ f = "kind" /\ asked[f] \in {0, Malformed} /\ built.calls[f] = 1
    <3>1. built.calls[f] = IF kind = "logs" /\ f = "severity_at_least" THEN asked[f] % 256
                           ELSE IF (kind = "logs" /\ f = "order_by") \/ (kind = "points" /\ f = "kind")
                                THEN OrDefault(asked[f]) ELSE asked[f]
      BY <2>2, <2>t DEF BuiltInv, IsBuilt
    <3>2. f \in Single(kind)
      BY <2>1, <2>2
    <3>3. asked[f] \in Int /\ asked[f] \in QueryValues(kind, f)
      BY <2>t, <3>2 DEF TypeOK, IsQuery, Single
    <3>4. CASE kind = "logs" /\ f = "severity_at_least"
      <4>1. PICK v \in Int : v = asked[f]
        BY <3>3
      <4>2. v % 256 \in 0..255
        OBVIOUS
      <4>3. v \in 0..255 => v % 256 = v
        OBVIOUS
      <4>4. (v - (v % 256)) % 256 = 0
        OBVIOUS
      <4> QED
        BY <3>1, <3>4, <4>1, <4>2, <4>3, <4>4
    <3>5. CASE kind = "logs" /\ f = "order_by"
      <4>1. asked[f] \in 0..Malformed /\ asked[f] # Malformed
        BY <2>2, <2>t, <3>3, <3>5
        DEF QueryValues, FieldValues, Numeric, Parsed, Malformed, BuiltInv, UnknownAxis
      <4> QED
        BY <3>1, <3>5, <4>1 DEF OrDefault, Other, Malformed
    <3>6. CASE kind = "points" /\ f = "kind"
      <4>1. asked[f] \in 0..Malformed
        BY <3>3, <3>6 DEF QueryValues, FieldValues, Numeric, Parsed, Malformed
      <4> QED
        BY <3>1, <3>6, <4>1 DEF OrDefault, Other, Malformed
    <3> QED
      BY <3>1, <3>4, <3>5, <3>6
  <2>3. /\ stage = "built" /\ kind = "logs" => asked["order_by"] # Malformed
        /\ stage = "rejected" => asked["order_by"] = Malformed
    BY <2>t DEF BuiltInv, UnknownAxis
  <2> QED
    BY <2>1, <2>2, <2>3 DEF SetFieldsAreApplied, Single
<1> QED
  BY <1>1, Inductive, PTL

\* When both ends of the range are set, or none, the rows of the range are those
\* the ends allow. (With one end set they are not: the run query_open_end.)
THEOREM WindowIsAsAskedHolds == WireSpec => []WindowIsAsAsked
<1>1. ASSUME IInv PROVE WindowIsAsAsked
  <2> SUFFICES ASSUME stage = "built", asked["start"] = 0 <=> asked["end"] = 0, NEW t \in Numbers
               PROVE  InRange(t) <=> /\ asked["start"] # 0 => t >= asked["start"]
                                     /\ asked["end"] # 0 => t < asked["end"]
    BY DEF WindowIsAsAsked, AsAsked
  <2>1. built.ranges = TimeRange(asked)
    BY <1>1 DEF IInv, BuiltInv, IsBuilt
  <2>2. CASE asked["start"] = 0
    BY <2>1, <2>2 DEF TimeRange, InRange
  <2>3. CASE asked["start"] # 0
    <3>1. built.ranges = {<<asked["start"], asked["end"]>>}
      BY <2>1, <2>3 DEF TimeRange
    <3> QED
      BY <2>3, <3>1 DEF InRange
  <2> QED
    BY <2>2, <2>3
<1> QED
  BY <1>1, Inductive, PTL
=============================================================================
