------------------------- MODULE TypedResultsProofs -------------------------
(***************************************************************************)
(* What becomes of a result, proved for any number of batches, rows,       *)
(* samples and spans: the decoders (ResultDecoding), the grouping of       *)
(* labelled samples (SeriesGrouping) and the assembly of a trace           *)
(* (TraceTree).                                                            *)
(***************************************************************************)
EXTENDS ResultDecoding, SeriesGrouping, TraceTree, FiniteSetTheorems, TLAPS

-----------------------------------------------------------------------------
(***************************************************************************)
(* Slices and numbers.                                                     *)
(***************************************************************************)

\* The entries of `s`, whatever they are.
IsSequence(s) == Len(s) \in Nat /\ s = [k \in 1..Len(s) |-> s[k]]

\* Appending to a sequence.
LEMMA AppendFacts ==
    ASSUME NEW s, NEW x, IsSequence(s)
    PROVE  /\ IsSequence(Append(s, x)) /\ Len(Append(s, x)) = Len(s) + 1
           /\ \A k \in 1..Len(s) : Append(s, x)[k] = s[k]
           /\ Append(s, x)[Len(s) + 1] = x
<1> DEFINE S == {s[k] : k \in 1..Len(s)} \union {x}
<1>1. s \in Seq(S) /\ x \in S
  BY DEF IsSequence
<1> HIDE DEF S
<1>2. Append(s, x) \in Seq(S) /\ Len(Append(s, x)) = Len(s) + 1 /\ Len(s) \in Nat
  BY <1>1
<1>3. /\ \A k \in 1..Len(s) : Append(s, x)[k] = s[k]
      /\ Append(s, x)[Len(s) + 1] = x
  BY <1>1
<1>4. IsSequence(Append(s, x))
  <2>1. \A t \in Seq(S) : Len(t) \in Nat /\ t = [k \in 1..Len(t) |-> t[k]]
    OBVIOUS
  <2> QED
    BY <1>2, <2>1 DEF IsSequence
<1> QED
  BY <1>2, <1>3, <1>4

\* The empty sequence is one.
LEMMA EmptySequence == IsSequence(<<>>) /\ Len(<<>>) = 0
BY DEF IsSequence

\* A non-empty set of numbers has a least one.
LEMMA LeastNumber ==
    ASSUME NEW N \in SUBSET Nat, N # {}
    PROVE  \E n \in N : \A m \in N : n <= m
<1> DEFINE Less == {pair \in Nat \X Nat : pair[1] < pair[2]}
<1>1. IsWellFoundedOn(Less, Nat)
  BY NatLessThanWellFounded DEF OpToRel
<1>2. PICK n \in N : \A m \in N : ~(<<m, n>> \in Less)
  <2> HIDE DEF Less
  <2> QED
    BY <1>1, WFMin
<1>3. ASSUME NEW m \in N PROVE n <= m
  <2>1. n \in Nat /\ m \in Nat
    OBVIOUS
  <2>2. m < n => <<m, n>> \in Less
    BY <2>1
  <2> QED
    BY <1>2, <2>1, <2>2
<1> QED
  BY <1>3

\* A proof by induction on the numbers up to n, with a set for a predicate.
LEMMA Upto ==
    ASSUME NEW n \in Nat, NEW S, \A m \in 0..n : (\A l \in 0..n : l < m => l \in S) => m \in S
    PROVE  \A m \in 0..n : m \in S
<1> DEFINE N == {m \in 0..n : m \notin S}
<1> SUFFICES ASSUME N # {} PROVE FALSE
  OBVIOUS
<1>1. N \in SUBSET Nat
  OBVIOUS
<1>2. PICK m \in N : \A l \in N : m <= l
  <2> HIDE DEF N
  <2> QED
    BY <1>1, LeastNumber
<1> QED
  BY <1>2

-----------------------------------------------------------------------------
(***************************************************************************)
(* ResultDecoding: the readers, and what the decoders make of a row.       *)
(***************************************************************************)

\* The column types that a reader's type switch knows.
Knows == [string  |-> {"Utf8", "LargeUtf8", "Utf8View", "Dictionary"},
          strings |-> {"List"},
          int64   |-> {"Int64", "Timestamp", "UInt8", "UInt32", "UInt64"},
          bool    |-> {"Boolean"},
          bytes   |-> {"FixedSizeBinary", "Binary"},
          float64 |-> {"Float64", "Float32", "Int64", "UInt64"}]

\* A reader copies the value of a cell whose type it knows, and gives the zero
\* value for a null.
LEMMA ReadersCopy ==
    ASSUME NEW reader \in DOMAIN Knows, NEW cell, cell.type \in Knows[reader]
    PROVE  ReadAs(reader, cell) = Copied(IF cell.null THEN Zero ELSE cell.token)
BY DEF Knows, ReadAs, StringAt, StringListAt, Int64At, BoolAt, BytesAt, Float64At, Read

\* A decoder reads the columns of its schema, all of them, each with a reader
\* that knows its type.
Matches(d) ==
    /\ {f[1] : f \in d.reads} = DOMAIN d.schema
    /\ \A f \in d.reads : f[2] \in DOMAIN Knows /\ d.schema[f[1]].type \in Knows[f[2]]

\* The columns read with one reader, by type.
LEMMA DecoderMatches ==
    ASSUME NEW schema, NEW int64s, NEW strings, NEW bytes, NEW floats,
           int64s \union strings \union bytes \union floats = DOMAIN schema,
           \A c \in int64s : schema[c].type \in {"Int64", "Timestamp", "UInt8"},
           \A c \in strings : schema[c].type \in {"Utf8", "Utf8View", "Dictionary"},
           \A c \in bytes : schema[c].type = "FixedSizeBinary",
           \A c \in floats : schema[c].type = "Float64"
    PROVE  Matches(Decoder(schema, int64s, strings, bytes, floats))
<1> DEFINE d == Decoder(schema, int64s, strings, bytes, floats)
<1>1. d.schema = schema
  BY DEF Decoder
<1>2. \A f \in d.reads : \/ f[2] = "int64" /\ f[1] \in int64s
                         \/ f[2] = "string" /\ f[1] \in strings
                         \/ f[2] = "bytes" /\ f[1] \in bytes
                         \/ f[2] = "float64" /\ f[1] \in floats
  BY DEF Decoder
<1>3. /\ \A c \in int64s : <<c, "int64">> \in d.reads
      /\ \A c \in strings : <<c, "string">> \in d.reads
      /\ \A c \in bytes : <<c, "bytes">> \in d.reads
      /\ \A c \in floats : <<c, "float64">> \in d.reads
  BY DEF Decoder
<1> HIDE DEF d
<1>4. {f[1] : f \in d.reads} = DOMAIN d.schema
  <2>1. \A f \in d.reads : f[1] \in DOMAIN schema
    BY <1>2
  <2>2. \A c \in DOMAIN schema : \E f \in d.reads : f[1] = c
    <3> SUFFICES ASSUME NEW c \in DOMAIN schema PROVE \E f \in d.reads : f[1] = c
      OBVIOUS
    <3>1. \E r : <<c, r>> \in d.reads
      BY <1>3
    <3> QED
      BY <3>1
  <2> QED
    BY <1>1, <2>1, <2>2
<1>5. \A f \in d.reads : f[2] \in DOMAIN Knows /\ d.schema[f[1]].type \in Knows[f[2]]
  BY <1>1, <1>2 DEF Knows
<1> QED
  BY <1>4, <1>5 DEF Matches, d

\* The reads of the decoders fit what the handlers send.
LEMMA EveryDecoderMatches ==
    ASSUME NEW q \in DOMAIN Decoders
    PROVE  Matches(Decoders[q])
<1>1. Matches(decodeLogEntries)
  BY DecoderMatches DEF decodeLogEntries, LogsSchema, Col, Null
<1>2. Matches(QuerySpanMetricsTyped)
  BY DecoderMatches DEF QuerySpanMetricsTyped, RedSchema, Col, Null
<1>3. Matches(GetTraceSpans)
  BY DecoderMatches DEF GetTraceSpans, SpansSchema, Col, Null
<1>4. Matches(QueryMetricPointsTyped)
  BY DecoderMatches DEF QueryMetricPointsTyped, PointsSchema, Col, Null
<1>5. Matches(QueryMetricInstant)
  BY DecoderMatches DEF QueryMetricInstant, series_batch, Col, Null
<1>6. Matches(AttrNames) /\ Matches(AttrValues) /\ Matches(MetricSeries)
  <2>1. ASSUME NEW c PROVE Matches(Decoder(utf8_batch(c), {}, {c}, {}, {}))
    BY DecoderMatches DEF utf8_batch, Col
  <2> QED
    BY <2>1 DEF AttrNames, AttrValues, MetricSeries
<1>7. Matches(MetricCatalog)
  BY DecoderMatches DEF MetricCatalog, catalog_batch, Col, Null
<1>8. Matches(MetricExemplars)
  BY DecoderMatches DEF MetricExemplars, exemplar_batch, Col, Null
<1>9. Matches(LogVolumeBy)
  BY DecoderMatches DEF LogVolumeBy, volume_batch, Col, Null
<1>10. Matches(decodeTraceMatches)
  BY DEF decodeTraceMatches, TraceQLSchema, Col, Null, Matches, Knows
<1>11. Matches(SearchTraces)
  <2> DEFINE strings == {"trace_id", "root_service", "root_name"}
             int64s  == {"start_time", "duration_ns", "span_count"}
             reads   == {<<"error", "bool">>} \union {<<c, "string">> : c \in strings}
                           \union {<<c, "int64">> : c \in int64s}
  <2>1. SearchTraces.reads = reads /\ SearchTraces.schema = search_batch
    BY DEF SearchTraces
  <2>2. DOMAIN search_batch = {"error"} \union strings \union int64s
    BY DEF search_batch
  <2>3. /\ search_batch["error"].type = "Boolean"
        /\ \A c \in strings : search_batch[c].type = "Utf8"
        /\ \A c \in int64s : search_batch[c].type = "Int64"
    BY DEF search_batch, Col, Null
  <2> HIDE DEF strings, int64s
  <2>4. {f[1] : f \in reads} = {"error"} \union strings \union int64s
    <3>1. \A f \in reads : f[1] \in {"error"} \union strings \union int64s
      OBVIOUS
    <3>2. ASSUME NEW c \in {"error"} \union strings \union int64s PROVE \E f \in reads : f[1] = c
      <4>1. \E r : <<c, r>> \in reads
        OBVIOUS
      <4> QED
        BY <4>1
    <3> QED
      BY <3>1, <3>2
  <2>5. \A f \in reads : f[2] \in DOMAIN Knows /\ search_batch[f[1]].type \in Knows[f[2]]
    BY <2>3 DEF Knows
  <2> QED
    BY <2>1, <2>2, <2>4, <2>5 DEF Matches
<1> QED
  BY <1>1, <1>2, <1>3, <1>4, <1>5, <1>6, <1>7, <1>8, <1>9, <1>10, <1>11 DEF Decoders

\* The row that query `q` owes its caller for row i of batch b.
RowOf(R, q, b, i) ==
    [c \in DOMAIN Decoders[q].schema |->
        Copied(IF Decoders[q].schema[c].nullable /\ R[b][i].nulls THEN Zero ELSE <<b, i, c>>)]

\* Every decoder makes that row.
LEMMA RowIsDecoded ==
    ASSUME NEW q \in DOMAIN Decoders, NEW b, NEW i
    PROVE  DecodedRow(Decoders[q], b, i) = RowOf(result, q, b, i)
<1> DEFINE d == Decoders[q]
<1>1. Matches(d)
  BY EveryDecoderMatches
<1> HIDE DEF d
<1>2. ASSUME NEW c \in DOMAIN d.schema
      PROVE  ReadAs((CHOOSE f \in d.reads : f[1] = c)[2], Cell(d.schema, c, b, i))
                = Copied(IF d.schema[c].nullable /\ result[b][i].nulls THEN Zero ELSE <<b, i, c>>)
  <2> DEFINE g == CHOOSE f \in d.reads : f[1] = c
  <2>1. g \in d.reads /\ g[1] = c
    <3>1. \E f \in d.reads : f[1] = c
      BY <1>1 DEF Matches
    <3> QED
      BY <3>1
  <2> HIDE DEF g
  <2>2. g[2] \in DOMAIN Knows /\ d.schema[c].type \in Knows[g[2]]
    BY <1>1, <2>1 DEF Matches
  <2> DEFINE x == Cell(d.schema, c, b, i)
  <2>3. /\ x.type = d.schema[c].type /\ x.token = <<b, i, c>>
        /\ x.null = (d.schema[c].nullable /\ result[b][i].nulls)
    BY DEF Cell
  <2> HIDE DEF x
  <2>4. ReadAs(g[2], x) = Copied(IF x.null THEN Zero ELSE x.token)
    BY <2>2, <2>3, ReadersCopy
  <2> QED
    BY <2>3, <2>4 DEF g, x
<1>3. {f[1] : f \in d.reads} = DOMAIN d.schema
  BY <1>1 DEF Matches
<1>4. DecodedRow(d, b, i) = [c \in DOMAIN d.schema |->
         Copied(IF d.schema[c].nullable /\ result[b][i].nulls THEN Zero ELSE <<b, i, c>>)]
  BY <1>2, <1>3 DEF DecodedRow
<1> QED
  BY <1>4 DEF d, RowOf

\* A decoded row points into no batch.
LEMMA RowsAreCopies ==
    ASSUME NEW q \in DOMAIN Decoders, NEW b, NEW i
    PROVE  \A c \in DOMAIN DecodedRow(Decoders[q], b, i) :
              DecodedRow(Decoders[q], b, i)[c].alias = 0
BY RowIsDecoded DEF RowOf, Copied

-----------------------------------------------------------------------------
(***************************************************************************)
(* ResultDecoding: the inductive invariant.                                *)
(***************************************************************************)

TypeOK ==
    /\ query \in DOMAIN Decoders \union {"export"}
    /\ Len(result) \in Nat /\ Len(result) <= MaxBatches
    /\ next \in 0..Len(result) /\ rec \in {0, next}
    /\ IsSequence(out)
    /\ refs \in [1..MaxBatches -> Int]
    /\ verdict \in {"none", "ok", "error"}
    /\ returned \in BOOLEAN /\ (returned => ~Running)

\* A decoding loop owns the batch in hand and nothing else, and what it decoded
\* is copied.
TypedInv ==
    Typed =>
        /\ ~Running => rec = 0
        /\ \A b \in 1..MaxBatches : refs[b] = IF b = rec THEN 1 ELSE 0
        /\ \A k \in 1..Len(out) : \A f \in DOMAIN out[k] : out[k][f].alias = 0

\* An export holds a reference for each batch in `out`, and its reader one for
\* the batch it stands on until it is released.
ExportInv ==
    ~Typed =>
        /\ rec = next
        /\ verdict = "ok" => next = Len(result)
        /\ Len(out) = IF verdict = "error" THEN 0 ELSE next
        /\ \A k \in 1..Len(out) : out[k] = [batch |-> [value |-> k, alias |-> k]]
        /\ \A b \in 1..MaxBatches :
              refs[b] = (IF b <= Len(out) THEN 1 ELSE 0) + (IF b = rec /\ ~returned THEN 1 ELSE 0)

IInv == TypeOK /\ TypedInv /\ ExportInv

-----------------------------------------------------------------------------
(***************************************************************************)
(* ResultDecoding: the steps.                                              *)
(***************************************************************************)

\* An entry point is called.
LEMMA InitInv == Init => IInv
<1> SUFFICES ASSUME Init PROVE IInv
  OBVIOUS
<1>1. PICK n \in 0..MaxBatches : result \in [1..n -> Rows]
  BY DEF Init
<1>2. Len(result) = n /\ n \in Nat
  BY <1>1, DecodingAssumption
<1>3. TypeOK
  <2>1. refs \in [1..MaxBatches -> Int] /\ IsSequence(out)
    BY EmptySequence DEF Init
  <2>2. Len(result) \in Nat /\ Len(result) <= MaxBatches /\ next \in 0..Len(result)
    BY <1>1, <1>2, DecodingAssumption DEF Init
  <2> QED
    BY <2>1, <2>2 DEF Init, TypeOK
<1>4. TypedInv /\ ExportInv
  <2>1. \A b \in 1..MaxBatches : refs[b] = 0 /\ b # 0 /\ ~(b <= 0)
    BY DecodingAssumption DEF Init
  <2> QED
    BY <2>1, EmptySequence DEF Init, TypedInv, ExportInv
<1> QED
  BY <1>3, <1>4 DEF IInv

\* The next batch comes into hand.
LEMMA NextBatchKeeps == ASSUME IInv, NextBatch PROVE IInv'
<1>t. TypeOK /\ TypedInv
  BY DEF IInv
<1>1. /\ Typed /\ Running /\ rec = 0 /\ next < Len(result)
      /\ next' = next + 1 /\ rec' = next + 1
      /\ refs' = [refs EXCEPT ![next + 1] = 1]
      /\ UNCHANGED <<query, result, out, verdict, returned>>
  BY DEF NextBatch
<1>2. next + 1 \in 1..MaxBatches /\ next + 1 # 0
  BY <1>t, <1>1, DecodingAssumption DEF TypeOK
<1>3. TypeOK'
  BY <1>t, <1>1, <1>2 DEF TypeOK, Running
<1>4. TypedInv'
  BY <1>t, <1>1, <1>2 DEF TypeOK, TypedInv, Typed, Running
<1> QED
  BY <1>1, <1>3, <1>4 DEF IInv, ExportInv, Typed

\* A row of it is decoded.
LEMMA DecodeRowKeeps == ASSUME IInv, DecodeRow PROVE IInv'
<1>t. TypeOK /\ TypedInv
  BY DEF IInv
<1> DEFINE x == DecodedRow(Decoders[query], rec, row')
<1>1. /\ Typed /\ out' = Append(out, x)
      /\ UNCHANGED <<query, result, next, rec, refs, verdict, returned>>
  BY DEF DecodeRow
<1>2. query \in DOMAIN Decoders
  BY <1>t, <1>1 DEF TypeOK, Typed
<1>3. \A f \in DOMAIN x : x[f].alias = 0
  BY <1>2, RowsAreCopies
<1>4. /\ IsSequence(out') /\ Len(out') = Len(out) + 1 /\ Len(out) \in Nat
      /\ \A k \in 1..Len(out) : out'[k] = out[k]
      /\ out'[Len(out) + 1] = x
  BY <1>t, <1>1, AppendFacts DEF TypeOK, IsSequence
<1> HIDE DEF x
<1>5. TypeOK'
  BY <1>t, <1>1, <1>4 DEF TypeOK, Running
<1>6. \A k \in 1..Len(out') : \A f \in DOMAIN out'[k] : out'[k][f].alias = 0
  <2> SUFFICES ASSUME NEW k \in 1..Len(out'), NEW f \in DOMAIN out'[k] PROVE out'[k][f].alias = 0
    OBVIOUS
  <2>1. k \in 1..Len(out) \/ k = Len(out) + 1
    BY <1>4
  <2> QED
    BY <1>t, <1>1, <1>3, <1>4, <2>1 DEF TypedInv
<1>7. TypedInv'
  BY <1>t, <1>1, <1>6 DEF TypedInv, Typed, Running
<1> QED
  BY <1>1, <1>5, <1>7 DEF IInv, ExportInv, Typed

\* The batch is released.
LEMMA ReleaseKeeps == ASSUME IInv, Release PROVE IInv'
<1>t. TypeOK /\ TypedInv
  BY DEF IInv
<1>1. /\ Typed /\ rec # 0 /\ rec' = 0 /\ refs' = [refs EXCEPT ![rec] = refs[rec] - 1]
      /\ UNCHANGED <<query, result, next, row, out, verdict, returned>>
  BY DEF Release
<1>2. rec \in 1..MaxBatches
  BY <1>t, <1>1, DecodingAssumption DEF TypeOK
<1>3. TypeOK'
  BY <1>t, <1>1, <1>2 DEF TypeOK, Running
<1>4. \A b \in 1..MaxBatches : refs'[b] = IF b = rec THEN 0 ELSE refs[b]
  BY <1>t, <1>1, <1>2 DEF TypeOK, TypedInv
<1>5. TypedInv'
  BY <1>t, <1>1, <1>4, DecodingAssumption DEF TypedInv, Typed, Running
<1> QED
  BY <1>1, <1>3, <1>5 DEF IInv, ExportInv, Typed

\* The loop ends, well or badly.
LEMMA EndOfRowsKeeps == ASSUME IInv, EndOfRows PROVE IInv'
<1>t. TypeOK /\ TypedInv
  BY DEF IInv
<1>1. /\ Typed /\ Running /\ rec = 0 /\ out' \in {out, <<>>} /\ verdict' \in {"ok", "error"}
      /\ UNCHANGED <<query, result, next, rec, row, refs, returned>>
  BY DEF EndOfRows
<1>2. IsSequence(out') /\ (out' = <<>> => Len(out') = 0)
  BY <1>t, <1>1, EmptySequence DEF TypeOK
<1>3. TypeOK'
  BY <1>t, <1>1, <1>2 DEF TypeOK, Running
<1>4. TypedInv'
  BY <1>t, <1>1, <1>2 DEF TypedInv, Typed, Running
<1> QED
  BY <1>1, <1>3, <1>4 DEF IInv, ExportInv, Typed

\* The reader gives up the batch it stands on, moves on, and its new batch is
\* retained.
LEMMA ReaderNextKeeps == ASSUME IInv, ReaderNext PROVE IInv'
<1>t. TypeOK /\ ExportInv
  BY DEF IInv
<1> DEFINE x == [batch |-> [value |-> next + 1, alias |-> next + 1]]
<1>1. /\ ~Typed /\ verdict = "none" /\ next < Len(result)
      /\ next' = next + 1 /\ rec' = next + 1 /\ out' = Append(out, x)
      /\ refs' = [GiveUp(refs, rec) EXCEPT ![next + 1] = 2]
      /\ UNCHANGED <<query, result, row, verdict, returned>>
  BY DEF ReaderNext, Running
<1>2. next + 1 \in 1..MaxBatches /\ rec = next /\ Len(out) = next /\ next \in Nat /\ returned = FALSE
  BY <1>t, <1>1, DecodingAssumption DEF TypeOK, ExportInv, Running
<1>3. \A b \in 1..MaxBatches :
         refs'[b] = IF b = next + 1 THEN 2 ELSE IF b = next THEN refs[b] - 1 ELSE refs[b]
  BY <1>t, <1>1, <1>2 DEF TypeOK, GiveUp
<1>4. refs' \in [1..MaxBatches -> Int]
  BY <1>t, <1>1, <1>2 DEF TypeOK, GiveUp
<1>5. /\ IsSequence(out') /\ Len(out') = next + 1
      /\ \A k \in 1..next : out'[k] = out[k]
      /\ out'[next + 1] = x
  BY <1>t, <1>1, <1>2, AppendFacts DEF TypeOK
<1>6. TypeOK'
  BY <1>t, <1>1, <1>2, <1>4, <1>5 DEF TypeOK, Running
<1>7. \A k \in 1..Len(out') : out'[k] = [batch |-> [value |-> k, alias |-> k]]
  <2> SUFFICES ASSUME NEW k \in 1..(next + 1)
               PROVE  out'[k] = [batch |-> [value |-> k, alias |-> k]]
    BY <1>5
  <2>1. CASE k = next + 1
    BY <1>5, <2>1
  <2>2. CASE k # next + 1
    <3>1. k \in 1..next
      BY <1>2, <2>2
    <3> QED
      BY <1>t, <1>1, <1>2, <1>5, <3>1 DEF ExportInv
  <2> QED
    BY <2>1, <2>2
<1>8. \A b \in 1..MaxBatches :
         refs'[b] = (IF b <= next + 1 THEN 1 ELSE 0) + (IF b = next + 1 THEN 1 ELSE 0)
  <2> SUFFICES ASSUME NEW b \in 1..MaxBatches
               PROVE  refs'[b] = (IF b <= next + 1 THEN 1 ELSE 0) + (IF b = next + 1 THEN 1 ELSE 0)
    OBVIOUS
  <2>1. refs[b] = (IF b <= next THEN 1 ELSE 0) + (IF b = next THEN 1 ELSE 0)
    BY <1>t, <1>1, <1>2 DEF ExportInv
  <2> QED
    BY <1>2, <1>3, <2>1, DecodingAssumption
<1>9. ExportInv'
  BY <1>1, <1>2, <1>5, <1>7, <1>8 DEF ExportInv, Typed
<1> QED
  BY <1>1, <1>6, <1>9 DEF IInv, TypedInv, Typed

\* The reader has ended; an error releases what was collected.
LEMMA ReaderEndKeeps == ASSUME IInv, ReaderEnd PROVE IInv'
<1>t. TypeOK /\ ExportInv
  BY DEF IInv
<1>1. /\ ~Typed /\ verdict = "none" /\ UNCHANGED <<query, result, next, rec, row, returned>>
      /\ returned = FALSE /\ rec = next /\ Len(out) = next
  BY <1>t DEF ReaderEnd, Running, TypeOK, ExportInv
<1>2. CASE next = Len(result) /\ verdict' = "ok" /\ UNCHANGED <<out, refs>>
  <2>1. TypeOK'
    BY <1>t, <1>1, <1>2 DEF TypeOK, Running
  <2>2. ExportInv'
    BY <1>t, <1>1, <1>2 DEF ExportInv, Typed
  <2> QED
    BY <1>1, <2>1, <2>2 DEF IInv, TypedInv, Typed
<1>3. CASE /\ verdict' = "error" /\ out' = <<>>
           /\ refs' = [b \in DOMAIN refs |-> IF b <= Len(out) THEN refs[b] - 1 ELSE refs[b]]
  <2>1. TypeOK'
    BY <1>t, <1>1, <1>3, EmptySequence DEF TypeOK, Running
  <2>2. \A b \in 1..MaxBatches : refs'[b] = IF b = next THEN 1 ELSE 0
    <3> SUFFICES ASSUME NEW b \in 1..MaxBatches PROVE refs'[b] = IF b = next THEN 1 ELSE 0
      OBVIOUS
    <3>1. refs'[b] = IF b <= next THEN refs[b] - 1 ELSE refs[b]
      BY <1>t, <1>1, <1>3 DEF TypeOK
    <3>2. refs[b] = (IF b <= next THEN 1 ELSE 0) + (IF b = next THEN 1 ELSE 0)
      BY <1>t, <1>1 DEF ExportInv
    <3>3. next \in Nat
      BY <1>t DEF TypeOK
    <3> QED
      BY <3>1, <3>2, <3>3, DecodingAssumption
  <2>3. ExportInv'
    <3>0. verdict' = "error" /\ verdict' # "ok"
      BY <1>3
    <3>1. Len(out') = 0 /\ \A b \in 1..MaxBatches : ~(b <= 0)
      BY <1>3, EmptySequence, DecodingAssumption
    <3>2. \A b \in 1..MaxBatches :
             refs'[b] = (IF b <= Len(out') THEN 1 ELSE 0) + (IF b = rec /\ ~returned THEN 1 ELSE 0)
      BY <1>1, <2>2, <3>1
    <3>3. 1..Len(out') = {}
      BY <3>1
    <3> QED
      BY <1>1, <3>0, <3>1, <3>2, <3>3 DEF ExportInv, Typed
  <2> QED
    BY <1>1, <2>1, <2>3 DEF IInv, TypedInv, Typed
<1> QED
  BY <1>2, <1>3 DEF ReaderEnd

\* The deferred Close has nothing left to release; the reader's Release gives up
\* the batch it stood on.
LEMMA DeferredKeeps == ASSUME IInv, Deferred PROVE IInv'
<1>t. TypeOK /\ TypedInv /\ ExportInv
  BY DEF IInv
<1>1. /\ ~Running /\ returned = FALSE /\ returned' = TRUE
      /\ refs' = IF Typed THEN refs ELSE GiveUp(refs, rec)
      /\ UNCHANGED <<query, result, next, rec, row, out, verdict>>
  BY <1>t DEF Deferred, TypeOK
<1>2. CASE Typed
  <2>1. TypeOK'
    BY <1>t, <1>1, <1>2 DEF TypeOK, Running
  <2> QED
    BY <1>t, <1>1, <1>2, <2>1 DEF IInv, TypedInv, ExportInv, Typed, Running
<1>3. CASE ~Typed
  <2>1. rec = next /\ next \in Nat /\ next <= MaxBatches
    BY <1>t, <1>3, DecodingAssumption DEF TypeOK, ExportInv
  <2>2. /\ refs' \in [1..MaxBatches -> Int]
        /\ \A b \in 1..MaxBatches : refs'[b] = IF b = rec THEN refs[b] - 1 ELSE refs[b]
    BY <1>t, <1>1, <1>3, <2>1, DecodingAssumption DEF TypeOK, GiveUp
  <2>3. TypeOK'
    BY <1>t, <1>1, <2>2 DEF TypeOK, Running
  <2>4. \A b \in 1..MaxBatches : refs'[b] = IF b <= Len(out) THEN 1 ELSE 0
    <3> SUFFICES ASSUME NEW b \in 1..MaxBatches PROVE refs'[b] = IF b <= Len(out) THEN 1 ELSE 0
      OBVIOUS
    <3>1. refs[b] = (IF b <= Len(out) THEN 1 ELSE 0) + (IF b = rec THEN 1 ELSE 0)
      BY <1>t, <1>1, <1>3 DEF ExportInv
    <3> QED
      BY <2>2, <3>1
  <2>5. ExportInv'
    BY <1>t, <1>1, <1>3, <2>4 DEF ExportInv, Typed
  <2> QED
    BY <1>1, <1>3, <2>3, <2>5 DEF IInv, TypedInv, Typed
<1> QED
  BY <1>2, <1>3

\* Every step keeps the invariant.
LEMMA NextInv == IInv /\ [Next]_vars => IInv'
<1> SUFFICES ASSUME IInv, [Next]_vars PROVE IInv'
  OBVIOUS
<1>1. CASE UNCHANGED vars
  <2>1. TypeOK'
    BY <1>1 DEF vars, IInv, TypeOK, Running
  <2>2. TypedInv' /\ ExportInv'
    BY <1>1 DEF vars, IInv, TypedInv, ExportInv, Typed, Running
  <2> QED
    BY <2>1, <2>2 DEF IInv
<1> QED
  BY <1>1, NextBatchKeeps, DecodeRowKeeps, ReleaseKeeps, EndOfRowsKeeps, ReaderNextKeeps,
     ReaderEndKeeps, DeferredKeeps DEF Next, Done

\* It holds of the specification.
LEMMA Inductive == Spec => []IInv
BY InitInv, NextInv, PTL DEF Spec

-----------------------------------------------------------------------------
(***************************************************************************)
(* What has been decoded. The place of a row in `out` is the number of     *)
(* rows of the batches before its own, and its position in that one.       *)
(***************************************************************************)

Firsts(R, n) == {p \in (1..n) \X (1..MaxRows) : p[2] <= Len(R[p[1]])}
Count(R, n) == Cardinality(Firsts(R, n))

\* Row i of batch b has been decoded.
Decoded(b, i) == IF b = rec THEN i <= row ELSE b <= next

RowsInv ==
    /\ \A b \in 1..Len(result) : Len(result[b]) \in 0..MaxRows
    /\ Typed =>
        /\ rec # 0 => row \in 0..Len(result[rec])
        /\ verdict = "ok" => next = Len(result)
        /\ verdict # "error" =>
            /\ Len(out) = IF rec = 0 THEN Count(result, next) ELSE Count(result, next - 1) + row
            /\ \A b \in 1..Len(result) : \A i \in 1..Len(result[b]) :
                 Decoded(b, i) => /\ Count(result, b - 1) + i <= Len(out)
                                  /\ out[Count(result, b - 1) + i] = RowOf(result, query, b, i)

\* Each batch adds its rows to the count.
LEMMA CountStep ==
    ASSUME IInv, RowsInv, NEW b \in 1..Len(result)
    PROVE  /\ Count(result, b - 1) \in Nat
           /\ Count(result, b) = Count(result, b - 1) + Len(result[b])
<1> DEFINE S == Firsts(result, b - 1)
           m == Len(result[b])
           T == {b} \X (1..m)
<1>1. Len(result) \in Nat /\ b \in Nat /\ b - 1 \in Nat /\ m \in 0..MaxRows
  BY DEF IInv, TypeOK, RowsInv
<1>2. IsFiniteSet(S)
  <2>1. IsFiniteSet(1..(b - 1)) /\ IsFiniteSet(1..MaxRows)
    <3>1. 1 \in Int /\ b - 1 \in Int /\ MaxRows \in Int
      BY <1>1, DecodingAssumption
    <3> QED
      BY <3>1, FS_Interval
  <2>2. IsFiniteSet((1..(b - 1)) \X (1..MaxRows))
    BY <2>1, FS_Product
  <2> QED
    BY <2>2, FS_Subset DEF Firsts
<1>3. IsFiniteSet(T) /\ Cardinality(T) = m
  <2>1. IsFiniteSet(1..m) /\ Cardinality(1..m) = m
    <3>1. 1 \in Int /\ m \in Int
      BY <1>1, DecodingAssumption
    <3> HIDE DEF m
    <3>2. IsFiniteSet(1..m) /\ Cardinality(1..m) = IF 1 > m THEN 0 ELSE m - 1 + 1
      BY <3>1, FS_Interval
    <3> QED
      BY <1>1, <3>2, DecodingAssumption
  <2>2. IsFiniteSet({b}) /\ Cardinality({b}) = 1
    BY FS_Singleton
  <2>3. IsFiniteSet(T) /\ Cardinality(T) = 1 * m
    BY <2>1, <2>2, FS_Product
  <2> QED
    BY <1>1, <2>3, DecodingAssumption
<1>4. S \cap T = {}
  BY <1>1 DEF Firsts
<1>5. Firsts(result, b) = S \union T
  <2>1. \A p \in Firsts(result, b) : p \in S \union T
    <3> SUFFICES ASSUME NEW p \in Firsts(result, b) PROVE p \in S \union T
      OBVIOUS
    <3>1. /\ p = <<p[1], p[2]>> /\ p[1] \in 1..b /\ p[2] \in 1..MaxRows
          /\ p[2] <= Len(result[p[1]])
      BY DEF Firsts
    <3>2. CASE p[1] = b
      <4>1. p[2] \in 1..m
        BY <1>1, <3>1, <3>2, DecodingAssumption
      <4> QED
        BY <3>1, <3>2, <4>1
    <3>3. CASE p[1] # b
      <4>1. p[1] \in 1..(b - 1)
        BY <1>1, <3>1, <3>3
      <4> QED
        BY <3>1, <4>1 DEF Firsts
    <3> QED
      BY <3>2, <3>3
  <2>2. \A p \in S : p \in Firsts(result, b)
    BY <1>1 DEF Firsts
  <2>3. \A p \in T : p \in Firsts(result, b)
    <3> SUFFICES ASSUME NEW i \in 1..m PROVE <<b, i>> \in Firsts(result, b)
      OBVIOUS
    <3>1. i \in 1..MaxRows /\ b \in 1..b /\ i <= Len(result[b])
      BY <1>1, DecodingAssumption
    <3> QED
      BY <3>1 DEF Firsts
  <2> QED
    BY <2>1, <2>2, <2>3
<1>6. Cardinality(S) \in Nat
  BY <1>2, FS_CardinalityType
<1> HIDE DEF S, T
<1>7. Cardinality(S \union T) = Cardinality(S) + Cardinality(T)
  <2>1. Cardinality(S \union T) = Cardinality(S) + Cardinality(T) - Cardinality(S \cap T)
    BY <1>2, <1>3, FS_Union
  <2>2. Cardinality(S \cap T) = 0
    BY <1>4, FS_EmptySet
  <2> QED
    BY <1>1, <1>3, <1>6, <2>1, <2>2, DecodingAssumption
<1>8. Count(result, b - 1) = Cardinality(S) /\ Count(result, b) = Cardinality(S \union T)
  BY <1>5 DEF Count, S
<1> QED
  BY <1>3, <1>6, <1>7, <1>8

\* No batches, no rows.
LEMMA CountNone == Count(result, 0) = 0
<1>1. Firsts(result, 0) = {}
  BY DEF Firsts
<1> QED
  BY <1>1, FS_EmptySet DEF Count

\* An entry point is called.
LEMMA InitRows == Init => RowsInv
<1> SUFFICES ASSUME Init PROVE RowsInv
  OBVIOUS
<1>1. PICK n \in 0..MaxBatches : result \in [1..n -> Rows]
  BY DEF Init
<1>2. Len(result) = n /\ n \in Nat
  BY <1>1, DecodingAssumption
<1>3. \A b \in 1..Len(result) : Len(result[b]) \in 0..MaxRows
  <2> SUFFICES ASSUME NEW b \in 1..n PROVE Len(result[b]) \in 0..MaxRows
    BY <1>2
  <2>1. PICK m \in 0..MaxRows : result[b] \in [1..m -> [nulls : BOOLEAN]]
    <3>1. result[b] \in Rows
      BY <1>1
    <3> QED
      BY <3>1 DEF Rows
  <2>2. Len(result[b]) = m
    BY <2>1, DecodingAssumption
  <2> QED
    BY <2>2
<1>4. \A b \in 1..Len(result) : ~(b <= 0) /\ b # 0
  BY <1>2
<1> QED
  BY <1>3, <1>4, CountNone, EmptySequence DEF Init, RowsInv, Decoded

\* The next batch comes into hand, none of its rows decoded.
LEMMA NextBatchRows == ASSUME IInv, RowsInv, NextBatch PROVE RowsInv'
<1>1. /\ Typed /\ Running /\ rec = 0 /\ next < Len(result) /\ next \in Nat /\ Len(result) \in Nat
      /\ next' = next + 1 /\ rec' = next + 1 /\ row' = 0
      /\ UNCHANGED <<query, result, out, verdict, returned>>
  BY DEF NextBatch, IInv, TypeOK
<1>2. Typed' /\ verdict' = "none" /\ verdict = "none"
  BY <1>1 DEF Typed, Running
<1>3. Len(result[next + 1]) \in 0..MaxRows /\ next + 1 \in 1..Len(result) /\ next + 1 # 0
  BY <1>1 DEF RowsInv
<1>4. Len(out') = Count(result', next' - 1) + row'
  <2>1. Len(out) = Count(result, next) /\ Count(result, next) \in Nat
    BY <1>1, <1>2, <1>3, CountStep DEF RowsInv
  <2> QED
    BY <1>1, <2>1
<1>5. ASSUME NEW b \in 1..Len(result), NEW i \in 1..Len(result[b]), Decoded(b, i)'
      PROVE  Decoded(b, i)
  BY <1>1, <1>5 DEF Decoded
<1>6. \A b \in 1..Len(result') : \A i \in 1..Len(result'[b]) :
         Decoded(b, i)' => /\ Count(result', b - 1) + i <= Len(out')
                           /\ out'[Count(result', b - 1) + i] = RowOf(result', query', b, i)
  BY <1>1, <1>2, <1>5 DEF RowsInv
<1> QED
  BY <1>1, <1>2, <1>3, <1>4, <1>6 DEF RowsInv

\* A row is decoded, into the place after those before it.
LEMMA DecodeRowRows == ASSUME IInv, RowsInv, DecodeRow PROVE RowsInv'
<1>1. /\ Typed /\ rec # 0 /\ row < Len(result[rec]) /\ row' = row + 1
      /\ out' = Append(out, DecodedRow(Decoders[query], rec, row + 1))
      /\ UNCHANGED <<query, result, next, rec, refs, verdict, returned>>
  BY DEF DecodeRow
<1>2. /\ Typed' /\ verdict' = "none" /\ verdict = "none" /\ query \in DOMAIN Decoders
      /\ rec = next /\ next \in 1..Len(result) /\ Len(result) \in Nat
  BY <1>1 DEF Typed, Running, IInv, TypedInv, TypeOK
<1>3. row \in Nat /\ row + 1 \in 0..Len(result[rec]) /\ Len(result[rec]) \in Nat
  <2>1. row \in 0..Len(result[rec]) /\ Len(result[rec]) \in 0..MaxRows
    BY <1>1, <1>2 DEF RowsInv
  <2> QED
    BY <1>1, <2>1, DecodingAssumption
<1>4. /\ Len(out') = Len(out) + 1 /\ Len(out) \in Nat
      /\ \A k \in 1..Len(out) : out'[k] = out[k]
      /\ out'[Len(out) + 1] = RowOf(result, query, rec, row + 1)
  BY <1>1, <1>2, AppendFacts, RowIsDecoded DEF IInv, TypeOK, IsSequence
<1>5. Len(out) = Count(result, rec - 1) + row /\ Count(result, rec - 1) \in Nat
  BY <1>1, <1>2, CountStep DEF RowsInv
<1>6. ASSUME NEW b \in 1..Len(result), NEW i \in 1..Len(result[b]), Decoded(b, i)'
      PROVE  /\ Count(result, b - 1) + i <= Len(out')
             /\ out'[Count(result, b - 1) + i] = RowOf(result, query, b, i)
  <2>1. i \in Nat /\ i > 0 /\ Count(result, b - 1) \in Nat
    <3>1. Len(result[b]) \in 0..MaxRows
      BY DEF RowsInv
    <3> QED
      BY <3>1, CountStep, DecodingAssumption
  <2>2. CASE Decoded(b, i)
    <3>1. Count(result, b - 1) + i <= Len(out) /\ out[Count(result, b - 1) + i] = RowOf(result, query, b, i)
      BY <1>1, <1>2, <2>2 DEF RowsInv
    <3>2. Count(result, b - 1) + i \in 1..Len(out)
      BY <1>4, <2>1, <3>1
    <3> QED
      BY <1>4, <3>1, <3>2, <2>1
  <2>3. CASE ~Decoded(b, i)
    <3>1. b = rec /\ i = row + 1
      BY <1>1, <1>3, <1>6, <2>1, <2>3 DEF Decoded
    <3>2. Count(result, b - 1) + i = Len(out) + 1
      BY <1>3, <1>5, <3>1
    <3> QED
      BY <1>4, <3>1, <3>2
  <2> QED
    BY <2>2, <2>3
<1>7. \A b \in 1..Len(result') : \A i \in 1..Len(result'[b]) :
         Decoded(b, i)' => /\ Count(result', b - 1) + i <= Len(out')
                           /\ out'[Count(result', b - 1) + i] = RowOf(result', query', b, i)
  BY <1>1, <1>6
<1>8. Len(out') = Count(result', next' - 1) + row'
  BY <1>1, <1>2, <1>3, <1>4, <1>5
<1> QED
  BY <1>1, <1>2, <1>3, <1>7, <1>8 DEF RowsInv

\* A batch is released when its last row has been decoded.
LEMMA ReleaseRows == ASSUME IInv, RowsInv, Release PROVE RowsInv'
<1>1. /\ Typed /\ rec # 0 /\ row = Len(result[rec]) /\ rec' = 0
      /\ UNCHANGED <<query, result, next, row, out, verdict, returned>>
  BY DEF Release
<1>2. /\ Typed' /\ verdict' = "none" /\ verdict = "none"
      /\ rec = next /\ next \in 1..Len(result) /\ Len(result) \in Nat
  BY <1>1 DEF Typed, Running, IInv, TypedInv, TypeOK
<1>3. Len(out') = Count(result', next')
  <2>1. Len(out) = Count(result, next - 1) + Len(result[next])
    BY <1>1, <1>2 DEF RowsInv
  <2>2. Count(result, next) = Count(result, next - 1) + Len(result[next])
    BY <1>2, CountStep
  <2> QED
    BY <1>1, <2>1, <2>2
<1>4. ASSUME NEW b \in 1..Len(result), NEW i \in 1..Len(result[b]), Decoded(b, i)'
      PROVE  Decoded(b, i)
  <2>1. b <= next /\ b # 0
    BY <1>1, <1>2, <1>4 DEF Decoded
  <2> QED
    BY <1>1, <1>2, <2>1 DEF Decoded
<1>5. \A b \in 1..Len(result') : \A i \in 1..Len(result'[b]) :
         Decoded(b, i)' => /\ Count(result', b - 1) + i <= Len(out')
                           /\ out'[Count(result', b - 1) + i] = RowOf(result', query', b, i)
  BY <1>1, <1>2, <1>4 DEF RowsInv
<1> QED
  BY <1>1, <1>2, <1>3, <1>5 DEF RowsInv

\* The loop ends well when every batch was taken.
LEMMA EndOfRowsRows == ASSUME IInv, RowsInv, EndOfRows PROVE RowsInv'
<1>1. /\ Typed /\ verdict = "none" /\ rec = 0
      /\ UNCHANGED <<query, result, next, rec, row, refs, returned>>
  BY DEF EndOfRows, Running
<1>2. \A b, i : Decoded(b, i)' = Decoded(b, i)
  BY <1>1 DEF Decoded
<1>3. CASE next = Len(result) /\ verdict' = "ok" /\ UNCHANGED out
  BY <1>1, <1>2, <1>3 DEF RowsInv, Typed
<1>4. CASE verdict' = "error" /\ out' = <<>>
  BY <1>1, <1>4 DEF RowsInv, Typed
<1> QED
  BY <1>3, <1>4 DEF EndOfRows

\* Every step keeps what is said of the rows.
LEMMA NextRows == IInv /\ RowsInv /\ [Next]_vars => RowsInv'
<1> SUFFICES ASSUME IInv, RowsInv, [Next]_vars PROVE RowsInv'
  OBVIOUS
<1>1. ASSUME ~Typed, UNCHANGED <<query, result>> PROVE RowsInv'
  BY <1>1 DEF RowsInv, Typed
<1>2. ASSUME UNCHANGED <<query, result, next, rec, row, out, verdict>> PROVE RowsInv'
  <2>1. \A b, i : Decoded(b, i)' = Decoded(b, i)
    BY <1>2 DEF Decoded
  <2> QED
    BY <1>2, <2>1 DEF RowsInv, Typed
<1> QED
  BY <1>1, <1>2, NextBatchRows, DecodeRowRows, ReleaseRows, EndOfRowsRows
     DEF Next, Done, vars, ReaderNext, ReaderEnd, Deferred

\* It holds of the specification.
LEMMA RowsInductive == Spec => []RowsInv
BY InitRows, NextRows, Inductive, PTL DEF Spec

-----------------------------------------------------------------------------
(***************************************************************************)
(* ResultDecoding: the theorems.                                           *)
(***************************************************************************)

\* Nothing a decoding loop or ExportRecords hands out points into a batch that
\* was released: stringAt and bytesAt copy, exported batches are retained.
THEOREM NothingDanglesHolds == Spec => []NothingDangles
<1>1. ASSUME IInv PROVE NothingDangles
  <2> SUFFICES ASSUME NEW k \in 1..Len(out), NEW f \in DOMAIN out[k], out[k][f].alias # 0
               PROVE  refs[out[k][f].alias] > 0
    BY DEF NothingDangles
  <2>1. ~Typed
    BY <1>1 DEF IInv, TypedInv
  <2>2. out[k][f].alias = k
    <3>1. out[k] = [batch |-> [value |-> k, alias |-> k]]
      BY <1>1, <2>1 DEF IInv, ExportInv
    <3>2. f = "batch"
      BY <3>1
    <3> QED
      BY <3>1, <3>2
  <2>3. k \in 1..MaxBatches /\ k <= Len(out)
    BY <1>1, <2>1, DecodingAssumption DEF IInv, TypeOK, ExportInv
  <2>4. refs[k] = 1 + (IF k = rec /\ ~returned THEN 1 ELSE 0)
    BY <1>1, <2>1, <2>3 DEF IInv, ExportInv
  <2> QED
    BY <2>2, <2>4
<1> QED
  BY <1>1, Inductive, PTL

\* When an entry point returns, every batch it took has been released once, on
\* the error paths of the decoding loops and of ExportRecords too; an export
\* keeps one reference for each batch it returns.
THEOREM ReferencesBalanceHolds == Spec => []ReferencesBalance
<1>1. ASSUME IInv PROVE ReferencesBalance
  <2> SUFFICES ASSUME returned, NEW b \in 1..MaxBatches
               PROVE  refs[b] = IF ~Typed /\ verdict = "ok" /\ b <= Len(result) THEN 1 ELSE 0
    BY <1>1 DEF ReferencesBalance, IInv, TypeOK
  <2>1. CASE Typed
    <3>1. rec = 0 /\ b # 0
      BY <1>1, <2>1, DecodingAssumption DEF IInv, TypeOK, TypedInv
    <3> QED
      BY <1>1, <2>1, <3>1 DEF IInv, TypedInv
  <2>2. CASE ~Typed
    <3>1. refs[b] = (IF b <= Len(out) THEN 1 ELSE 0) + 0
      BY <1>1, <2>2 DEF IInv, ExportInv
    <3>2. Len(out) = IF verdict = "ok" THEN Len(result) ELSE 0
      BY <1>1, <2>2 DEF IInv, TypeOK, ExportInv, Running
    <3> QED
      BY <2>2, <3>1, <3>2, DecodingAssumption
  <2> QED
    BY <2>1, <2>2
<1> QED
  BY <1>1, Inductive, PTL

\* A typed entry point that returns without an error returns every row of every
\* batch in order, each column read under the name and by a reader of the type
\* that the Rust side gives it: a column that the readers miss or misread would
\* be a zero value without an error.
THEOREM DecodesEveryCellHolds == Spec => []DecodesEveryCell
<1>1. ASSUME IInv, RowsInv PROVE DecodesEveryCell
  <2> SUFFICES ASSUME Typed, verdict = "ok"
               PROVE  /\ Len(out) = Count(result, Len(result))
                      /\ \A b \in 1..Len(result) : \A i \in 1..Len(result[b]) :
                           out[Count(result, b - 1) + i] = RowOf(result, query, b, i)
    BY DEF DecodesEveryCell, Count, Firsts, RowsOfFirst, RowOf
  <2>1. rec = 0 /\ next = Len(result) /\ Len(result) \in Nat /\ verdict # "error"
    BY <1>1 DEF IInv, TypedInv, TypeOK, RowsInv, Running
  <2>2. \A b \in 1..Len(result) : \A i : Decoded(b, i)
    BY <2>1 DEF Decoded
  <2> QED
    BY <1>1, <2>1, <2>2 DEF RowsInv
<1> QED
  BY <1>1, Inductive, RowsInductive, PTL

-----------------------------------------------------------------------------
(***************************************************************************)
(* SeriesGrouping: the key strings.                                        *)
(***************************************************************************)

\* The parts, written one after another.
Writes(b, parts) ==
    /\ b[0] = <<>>
    /\ \A i \in 1..Len(parts) : b[i] = b[i - 1] \o parts[i]

\* The loop's builder exists, so that Written is what it holds in the end.
LEMMA WrittenIsWritten ==
    ASSUME NEW parts, Len(parts) \in Nat
    PROVE  \E b : Writes(b, parts) /\ Written(parts) = b[Len(parts)]
<1> DEFINE n == Len(parts)
           Rec(g, m) == g = [i \in 0..m |-> IF i = 0 THEN <<>> ELSE g[i - 1] \o parts[i]]
           S == {m \in 0..n : \E g : Rec(g, m)}
<1>1. \A m \in 0..n : m \in S
  <2>1. ASSUME NEW m \in 0..n, \A l \in 0..n : l < m => l \in S PROVE m \in S
    <3>1. CASE m = 0
      <4> DEFINE h == [i \in 0..0 |-> <<>>]
      <4>1. Rec(h, 0)
        OBVIOUS
      <4> HIDE DEF h, Rec
      <4> QED
        BY <3>1, <4>1
    <3>2. CASE m # 0
      <4>1. m - 1 \in 0..n /\ m - 1 < m
        BY <3>2
      <4>2. PICK g : Rec(g, m - 1)
        <5> HIDE DEF Rec
        <5> QED
          BY <2>1, <4>1
      <4> DEFINE h == [i \in 0..m |-> IF i = m THEN g[m - 1] \o parts[m] ELSE g[i]]
      <4>3. ASSUME NEW i \in 0..m
            PROVE  h[i] = IF i = 0 THEN <<>> ELSE h[i - 1] \o parts[i]
        <5>1. CASE i = m
          <6>1. m - 1 \in 0..m /\ m - 1 # m /\ m \in 0..m
            BY <3>2
          <6>2. h[m] = g[m - 1] \o parts[m] /\ h[m - 1] = g[m - 1]
            BY <6>1
          <6> HIDE DEF h
          <6> QED
            BY <3>2, <5>1, <6>2
        <5>2. CASE i # m
          <6>1. i \in 0..(m - 1) /\ h[i] = g[i]
            BY <5>2
          <6>2. g[i] = IF i = 0 THEN <<>> ELSE g[i - 1] \o parts[i]
            BY <4>2, <6>1
          <6>3. i # 0 => i - 1 \in 0..m /\ i - 1 # m /\ h[i - 1] = g[i - 1]
            BY <6>1
          <6> HIDE DEF h
          <6> QED
            BY <6>1, <6>2, <6>3
        <5> QED
          BY <5>1, <5>2
      <4>4. DOMAIN h = 0..m /\ h = [i \in 0..m |-> h[i]]
        OBVIOUS
      <4> HIDE DEF h
      <4>5. Rec(h, m)
        BY <4>3, <4>4
      <4> HIDE DEF Rec
      <4> QED
        BY <4>5
    <3> QED
      BY <3>1, <3>2
  <2> HIDE DEF S
  <2> QED
    BY <2>1, Upto
<1> DEFINE B == CHOOSE g : Rec(g, n)
<1>2. Rec(B, n)
  <2>1. n \in S
    <3> HIDE DEF S
    <3> QED
      BY <1>1
  <2> HIDE DEF Rec
  <2> QED
    BY <2>1
<1>3. Written(parts) = B[n]
  BY DEF Written
<1> HIDE DEF B
<1>4. Writes(B, parts)
  BY <1>2 DEF Writes
<1> QED
  BY <1>3, <1>4

Strings == Seq(Letters)
Chars   == Letters \union {Nul}

\* A label is written, and a NUL.
Word(a, v) == a \o v \o <<Nul>>

\* Empty, or ended by a NUL.
Ended(a) == a \in Seq(Chars) /\ (a = <<>> \/ a[Len(a)] = Nul)

\* A label is a string.
LEMMA LabelFacts ==
    ASSUME NEW v \in Strings
    PROVE  v \in Seq(Chars) /\ Len(v) \in Nat
<1>1. Len(v) \in Nat /\ v = [i \in 1..Len(v) |-> v[i]] /\ \A i \in 1..Len(v) : v[i] \in Letters
  BY DEF Strings
<1>2. Letters \subseteq Chars
  BY DEF Chars
<1> QED
  BY <1>1, <1>2

\* Two strings that are the same, each a part that is empty or ended, a label
\* without a NUL and a NUL, are the same in both: the label with the other ending
\* would hold a NUL.
LEMMA LastWord ==
    ASSUME NEW a, NEW b, Ended(a), Ended(b), NEW v \in Strings, NEW w \in Strings,
           NulFree(v), NulFree(w), Word(a, v) = Word(b, w)
    PROVE  a = b /\ v = w
<1>1. /\ a \in Seq(Chars) /\ b \in Seq(Chars) /\ v \in Seq(Chars) /\ w \in Seq(Chars)
      /\ Nul \in Chars
  BY LabelFacts DEF Ended, Chars
<1>2. /\ Len(a) \in Nat /\ Len(b) \in Nat /\ Len(v) \in Nat /\ Len(w) \in Nat
      /\ \A i \in 1..Len(v) : v[i] # Nul
      /\ \A i \in 1..Len(w) : w[i] # Nul
  <2>1. Len(a) \in Nat /\ Len(b) \in Nat
    BY <1>1
  <2>2. /\ Len(v) \in Nat /\ \A i \in 1..Len(v) : v[i] # Nul
        /\ Len(w) \in Nat /\ \A i \in 1..Len(w) : w[i] # Nul
    BY LabelFacts DEF NulFree
  <2> QED
    BY <2>1, <2>2
<1> DEFINE s == a \o v \o <<Nul>>
           t == b \o w \o <<Nul>>
<1>3. /\ Len(s) = Len(a) + Len(v) + 1 /\ \A i \in 1..Len(a) : s[i] = a[i]
      /\ \A i \in 1..Len(v) : s[Len(a) + i] = v[i]
  BY <1>1
<1>4. /\ Len(t) = Len(b) + Len(w) + 1 /\ \A i \in 1..Len(b) : t[i] = b[i]
      /\ \A i \in 1..Len(w) : t[Len(b) + i] = w[i]
  BY <1>1
<1>5. s = t
  BY DEF Word
<1> HIDE DEF s, t
<1>6. ~(Len(a) < Len(b))
  <2> SUFFICES ASSUME Len(a) < Len(b) PROVE FALSE
    OBVIOUS
  <2> DEFINE i == Len(b) - Len(a)
  <2>1. b[Len(b)] = Nul /\ Len(b) \in 1..Len(b)
    BY <1>2 DEF Ended
  <2>2. t[Len(b)] = Nul
    BY <1>4, <2>1
  <2>3. i \in 1..Len(v) /\ Len(a) + i = Len(b)
    BY <1>2, <1>3, <1>4, <1>5
  <2> HIDE DEF i
  <2> QED
    BY <1>2, <1>3, <1>5, <2>2, <2>3
<1>7. ~(Len(b) < Len(a))
  <2> SUFFICES ASSUME Len(b) < Len(a) PROVE FALSE
    OBVIOUS
  <2> DEFINE i == Len(a) - Len(b)
  <2>1. a[Len(a)] = Nul /\ Len(a) \in 1..Len(a)
    BY <1>2 DEF Ended
  <2>2. s[Len(a)] = Nul
    BY <1>3, <2>1
  <2>3. i \in 1..Len(w) /\ Len(b) + i = Len(a)
    BY <1>2, <1>3, <1>4, <1>5
  <2> HIDE DEF i
  <2> QED
    BY <1>2, <1>4, <1>5, <2>2, <2>3
<1>8. Len(a) = Len(b) /\ Len(v) = Len(w)
  BY <1>2, <1>3, <1>4, <1>5, <1>6, <1>7
<1>9. \A x, y \in Seq(Chars) : Len(x) = Len(y) /\ (\A i \in 1..Len(x) : x[i] = y[i]) => x = y
  OBVIOUS
<1>10. a = b
  <2>1. \A i \in 1..Len(a) : a[i] = b[i]
    BY <1>3, <1>4, <1>5, <1>8
  <2> QED
    BY <1>1, <1>8, <1>9, <2>1
<1>11. v = w
  <2>1. \A i \in 1..Len(v) : v[i] = w[i]
    <3> SUFFICES ASSUME NEW i \in 1..Len(v) PROVE v[i] = w[i]
      OBVIOUS
    <3>1. s[Len(a) + i] = v[i]
      BY <1>3
    <3>2. t[Len(b) + i] = w[i]
      BY <1>4, <1>8
    <3> QED
      BY <1>5, <1>8, <3>1, <3>2
  <2> QED
    BY <1>1, <1>8, <1>9, <2>1
<1> QED
  BY <1>10, <1>11

\* So is the empty string.
LEMMA EmptyIsEnded == <<>> \in Seq(Chars) /\ Ended(<<>>)
<1>1. <<>> \in Seq(Chars)
  OBVIOUS
<1> QED
  BY <1>1 DEF Ended

\* A label and a NUL make an ended string of an ended one.
LEMMA StaysEnded ==
    ASSUME NEW a, Ended(a), NEW v \in Strings
    PROVE  Ended(Word(a, v)) /\ Word(a, v) # <<>>
<1>1. a \in Seq(Chars) /\ v \in Seq(Chars) /\ Nul \in Chars
  BY LabelFacts DEF Ended, Chars
<1>2. ASSUME NEW A, a \in Seq(A), v \in Seq(A), NEW x \in A
      PROVE  /\ a \o v \o <<x>> \in Seq(A) /\ Len(a \o v \o <<x>>) = Len(a) + Len(v) + 1
             /\ Len(a) \in Nat /\ Len(v) \in Nat
             /\ (a \o v \o <<x>>)[Len(a) + Len(v) + 1] = x
  BY <1>2
<1>3. Len(<<>>) = 0
  OBVIOUS
<1> QED
  BY <1>1, <1>2, <1>3 DEF Ended, Word

\* Writing a string in two goes.
LEMMA InTwoGoes ==
    ASSUME NEW a \in Seq(Chars), NEW b \in Seq(Chars), NEW c \in Seq(Chars)
    PROVE  a \o (b \o c) = a \o b \o c
<1>1. ASSUME NEW A, a \in Seq(A), b \in Seq(A), c \in Seq(A) PROVE a \o (b \o c) = a \o b \o c
  BY <1>1
<1> QED
  BY <1>1

\* Writing a pair of labels part by part.
LEMMA PairInFiveGoes ==
    ASSUME NEW a \in Seq(Chars), NEW k \in Seq(Chars), NEW v \in Seq(Chars)
    PROVE  /\ a \o (k \o <<Nul>> \o v \o <<Nul>>) = Word(Word(a, k), v)
           /\ Word(Word(a, k), v) \in Seq(Chars)
<1> DEFINE Cat(s, t) == s \o t
           S == Seq(Chars)
<1>1. \A s, t \in S : Cat(s, t) \in S
  OBVIOUS
<1>2. \A r, s, t \in S : Cat(r, Cat(s, t)) = Cat(Cat(r, s), t)
  BY InTwoGoes
<1>3. PICK z : z = <<Nul>>
  OBVIOUS
<1>4. z \in S /\ a \in S /\ k \in S /\ v \in S
  BY <1>3 DEF Chars
<1>5. /\ a \o (k \o <<Nul>> \o v \o <<Nul>>) = Cat(a, Cat(Cat(Cat(k, z), v), z))
      /\ Word(Word(a, k), v) = Cat(Cat(Cat(Cat(a, k), z), v), z)
  BY <1>3 DEF Word
<1> HIDE DEF Cat, S
<1>6. /\ Cat(a, Cat(Cat(Cat(k, z), v), z)) = Cat(Cat(Cat(Cat(a, k), z), v), z)
      /\ Cat(Cat(Cat(Cat(a, k), z), v), z) \in S
  <2>1. PICK x, y : x = Cat(k, z) /\ y = Cat(x, v)
    OBVIOUS
  <2>2. x \in S /\ y \in S
    BY <1>1, <1>4, <2>1
  <2>3. Cat(a, Cat(y, z)) = Cat(Cat(a, y), z) /\ Cat(Cat(a, y), z) \in S
    BY <1>1, <1>2, <1>4, <2>2
  <2>4. Cat(a, y) = Cat(Cat(a, x), v)
    BY <1>2, <1>4, <2>1, <2>2
  <2>5. Cat(a, x) = Cat(Cat(a, k), z)
    BY <1>2, <1>4, <2>1
  <2> QED
    BY <2>1, <2>3, <2>4, <2>5
<1> QED
  BY <1>5, <1>6 DEF S

\* The group-by keys are labels, and Keys is the set of them.
LEMMA KeyFacts ==
    /\ Len(GroupBy) \in Nat
    /\ \A i \in 1..Len(GroupBy) : GroupBy[i] \in Strings /\ GroupBy[i] \in Keys
    /\ \A k \in Keys : \E i \in 1..Len(GroupBy) : GroupBy[i] = k
BY LabelAssumption DEF Keys, Strings

\* What labelsAt has written after each key.
ValuesWritten(b, labels) ==
    /\ b[0] = <<>>
    /\ \A i \in 1..Len(GroupBy) : b[i] = Word(b[i - 1], labels[GroupBy[i]])

\* Every prefix is ended.
LEMMA ValuesEnded ==
    ASSUME NEW b, NEW L \in [Keys -> Strings], ValuesWritten(b, L)
    PROVE  \A i \in 0..Len(GroupBy) : Ended(b[i])
<1> DEFINE n == Len(GroupBy)
           S == {i \in 0..n : Ended(b[i])}
<1>1. n \in Nat
  BY KeyFacts
<1>2. ASSUME NEW m \in 0..n, \A l \in 0..n : l < m => l \in S PROVE m \in S
  <2>1. CASE m = 0
    BY <2>1, EmptyIsEnded DEF ValuesWritten
  <2>2. CASE m # 0
    <3>1. m \in 1..n /\ m - 1 \in 0..n /\ m - 1 < m
      BY <1>1, <2>2
    <3>2. Ended(b[m - 1])
      BY <1>2, <3>1
    <3>3. L[GroupBy[m]] \in Strings
      BY <3>1, KeyFacts
    <3>4. Ended(Word(b[m - 1], L[GroupBy[m]]))
      BY <3>2, <3>3, StaysEnded
    <3> QED
      BY <3>1, <3>4 DEF ValuesWritten
  <2> QED
    BY <2>1, <2>2
<1>3. \A i \in 0..n : i \in S
  <2> HIDE DEF S
  <2> QED
    BY <1>1, <1>2, Upto
<1> QED
  BY <1>3

\* labelsAt's key is what is written after the last group-by key.
LEMMA KeyOfIsWritten ==
    ASSUME NEW L \in [Keys -> Strings]
    PROVE  \E b : ValuesWritten(b, L) /\ KeyOf(L) = b[Len(GroupBy)]
<1> DEFINE n == Len(GroupBy)
           parts == [i \in 1..n |-> L[GroupBy[i]] \o <<Nul>>]
<1>1. n \in Nat /\ Len(parts) = n /\ \A i \in 1..n : parts[i] = L[GroupBy[i]] \o <<Nul>>
  BY KeyFacts
<1>2. KeyOf(L) = Written(parts)
  BY DEF KeyOf
<1> HIDE DEF parts
<1>3. PICK b : Writes(b, parts) /\ Written(parts) = b[n]
  BY <1>1, WrittenIsWritten
<1> DEFINE S == {i \in 0..n : b[i] \in Seq(Chars)}
<1>4. <<Nul>> \in Seq(Chars) /\ \A i \in 1..n : L[GroupBy[i]] \in Seq(Chars)
  <2>1. \A i \in 1..n : L[GroupBy[i]] \in Strings
    BY KeyFacts
  <2> QED
    BY <2>1, LabelFacts DEF Chars
<1>5. ASSUME NEW m \in 0..n, \A l \in 0..n : l < m => l \in S PROVE m \in S
  <2>1. CASE m = 0
    BY <1>3, <2>1, EmptyIsEnded DEF Writes
  <2>2. CASE m # 0
    <3>1. m \in 1..n /\ m - 1 \in 0..n /\ m - 1 < m
      BY <1>1, <2>2
    <3>2. b[m - 1] \in Seq(Chars) /\ L[GroupBy[m]] \in Seq(Chars)
      BY <1>4, <1>5, <3>1
    <3>3. b[m] = b[m - 1] \o (L[GroupBy[m]] \o <<Nul>>)
      BY <1>1, <1>3, <3>1 DEF Writes
    <3>4. \A x, y \in Seq(Chars) : x \o (y \o <<Nul>>) \in Seq(Chars)
      BY <1>4
    <3> QED
      BY <3>2, <3>3, <3>4
  <2> QED
    BY <2>1, <2>2
<1>6. \A i \in 0..n : b[i] \in Seq(Chars)
  <2>1. \A i \in 0..n : i \in S
    <3> HIDE DEF S
    <3> QED
      BY <1>1, <1>5, Upto
  <2> QED
    BY <2>1
<1>7. ASSUME NEW i \in 1..n PROVE b[i] = Word(b[i - 1], L[GroupBy[i]])
  <2>1. i - 1 \in 0..n
    BY <1>1
  <2>2. b[i] = b[i - 1] \o (L[GroupBy[i]] \o <<Nul>>)
    BY <1>1, <1>3 DEF Writes
  <2> QED
    BY <1>4, <1>6, <2>1, <2>2, InTwoGoes DEF Word
<1> QED
  BY <1>2, <1>3, <1>7 DEF ValuesWritten, Writes

\* labelsAt keeps plain label sets apart.
LEMMA KeyOfInjective ==
    ASSUME NEW L \in [Keys -> Strings], NEW M \in [Keys -> Strings], Plain(L), Plain(M),
           KeyOf(L) = KeyOf(M)
    PROVE  L = M
<1> DEFINE n == Len(GroupBy)
<1>1. n \in Nat
  BY KeyFacts
<1>2. PICK b : ValuesWritten(b, L) /\ KeyOf(L) = b[n]
  BY KeyOfIsWritten
<1>3. PICK c : ValuesWritten(c, M) /\ KeyOf(M) = c[n]
  BY KeyOfIsWritten
<1>4. \A i \in 0..n : Ended(b[i]) /\ Ended(c[i])
  BY <1>2, <1>3, ValuesEnded
<1> DEFINE Agree(i) == \A m \in 1..i : L[GroupBy[m]] = M[GroupBy[m]]
           S == {i \in 0..n : b[i] = c[i] => Agree(i)}
<1>5. ASSUME NEW i \in 0..n, \A l \in 0..n : l < i => l \in S PROVE i \in S
  <2> SUFFICES ASSUME b[i] = c[i] PROVE Agree(i)
    OBVIOUS
  <2>1. CASE i = 0
    BY <2>1
  <2>2. CASE i # 0
    <3>1. i \in 1..n /\ i - 1 \in 0..n /\ i - 1 < i
      BY <1>1, <2>2
    <3>2. /\ L[GroupBy[i]] \in Strings /\ M[GroupBy[i]] \in Strings
          /\ NulFree(L[GroupBy[i]]) /\ NulFree(M[GroupBy[i]])
      BY <3>1, KeyFacts DEF Plain
    <3>3. Word(b[i - 1], L[GroupBy[i]]) = Word(c[i - 1], M[GroupBy[i]])
      BY <1>2, <1>3, <3>1 DEF ValuesWritten
    <3>4. b[i - 1] = c[i - 1] /\ L[GroupBy[i]] = M[GroupBy[i]]
      BY <1>4, <3>1, <3>2, <3>3, LastWord
    <3>5. Agree(i - 1)
      BY <1>5, <3>1, <3>4
    <3>6. \A m \in 1..i : m \in 1..(i - 1) \/ m = i
      BY <1>1
    <3> QED
      BY <3>4, <3>5, <3>6
  <2> QED
    BY <2>1, <2>2
<1>6. n \in S
  <2> HIDE DEF S
  <2>1. \A i \in 0..n : i \in S
    BY <1>1, <1>5, Upto
  <2> QED
    BY <1>1, <2>1
<1>7. Agree(n)
  BY <1>2, <1>3, <1>6
<1>8. \A k \in Keys : L[k] = M[k]
  BY <1>7, KeyFacts
<1> QED
  BY <1>8

\* What seriesKey has written after each key: a pair for the keys the row has.
PairsWritten(b, labels) ==
    /\ b[0] = <<>>
    /\ \A i \in 1..Len(GroupBy) :
          b[i] = IF GroupBy[i] \in DOMAIN labels
                 THEN Word(Word(b[i - 1], GroupBy[i]), labels[GroupBy[i]]) ELSE b[i - 1]

\* The label sets of the second path.
SomeLabels == UNION {[ks -> Strings] : ks \in SUBSET Keys}

\* A label of such a set.
LEMMA SomeLabelsFacts ==
    ASSUME NEW L \in SomeLabels
    PROVE  /\ DOMAIN L \subseteq Keys /\ L = [k \in DOMAIN L |-> L[k]]
           /\ \A k \in DOMAIN L : L[k] \in Strings
BY DEF SomeLabels

\* Every prefix is ended.
LEMMA PairsEnded ==
    ASSUME NEW b, NEW L \in SomeLabels, PairsWritten(b, L)
    PROVE  \A i \in 0..Len(GroupBy) : Ended(b[i])
<1> DEFINE n == Len(GroupBy)
           S == {i \in 0..n : Ended(b[i])}
<1>1. n \in Nat
  BY KeyFacts
<1>2. ASSUME NEW m \in 0..n, \A l \in 0..n : l < m => l \in S PROVE m \in S
  <2>1. CASE m = 0
    BY <2>1, EmptyIsEnded DEF PairsWritten
  <2>2. CASE m # 0
    <3>1. m \in 1..n /\ m - 1 \in 0..n /\ m - 1 < m
      BY <1>1, <2>2
    <3>2. Ended(b[m - 1]) /\ GroupBy[m] \in Strings
      BY <1>2, <3>1, KeyFacts
    <3>3. CASE GroupBy[m] \in DOMAIN L
      <4>1. L[GroupBy[m]] \in Strings
        BY <3>3, SomeLabelsFacts
      <4>2. Ended(Word(b[m - 1], GroupBy[m]))
        BY <3>2, StaysEnded
      <4>3. Ended(Word(Word(b[m - 1], GroupBy[m]), L[GroupBy[m]]))
        BY <4>1, <4>2, StaysEnded
      <4> QED
        BY <3>1, <3>3, <4>3 DEF PairsWritten
    <3>4. CASE GroupBy[m] \notin DOMAIN L
      BY <3>1, <3>2, <3>4 DEF PairsWritten
    <3> QED
      BY <3>3, <3>4
  <2> QED
    BY <2>1, <2>2
<1>3. \A i \in 0..n : i \in S
  <2> HIDE DEF S
  <2> QED
    BY <1>1, <1>2, Upto
<1> QED
  BY <1>3

\* seriesKey's key is what is written after the last key.
LEMMA SeriesKeyIsWritten ==
    ASSUME NEW L \in SomeLabels
    PROVE  \E b : PairsWritten(b, L) /\ SeriesKey(L) = b[Len(GroupBy)]
<1> DEFINE n == Len(GroupBy)
           pair(i) == GroupBy[i] \o <<Nul>> \o L[GroupBy[i]] \o <<Nul>>
           parts == [i \in 1..n |-> IF GroupBy[i] \in DOMAIN L THEN pair(i) ELSE <<>>]
<1>1. /\ n \in Nat /\ Len(parts) = n
      /\ \A i \in 1..n : parts[i] = IF GroupBy[i] \in DOMAIN L THEN pair(i) ELSE <<>>
  BY KeyFacts
<1>2. SeriesKey(L) = Written(parts)
  BY DEF SeriesKey
<1> HIDE DEF parts
<1>3. PICK b : Writes(b, parts) /\ Written(parts) = b[n]
  BY <1>1, WrittenIsWritten
<1>4. /\ <<Nul>> \in Seq(Chars) /\ \A i \in 1..n : GroupBy[i] \in Seq(Chars)
      /\ \A i \in 1..n : GroupBy[i] \in DOMAIN L => L[GroupBy[i]] \in Seq(Chars)
  <2>1. <<Nul>> \in Seq(Chars)
    BY DEF Chars
  <2>2. \A i \in 1..n : GroupBy[i] \in Strings
    BY KeyFacts
  <2>3. \A i \in 1..n : GroupBy[i] \in DOMAIN L => L[GroupBy[i]] \in Strings
    BY SomeLabelsFacts
  <2> QED
    BY <2>1, <2>2, <2>3, LabelFacts
\* One step of the loop, once what was written is known to be a string.
<1>5. ASSUME NEW i \in 1..n, b[i - 1] \in Seq(Chars)
      PROVE  /\ b[i] \in Seq(Chars)
             /\ b[i] = IF GroupBy[i] \in DOMAIN L
                       THEN Word(Word(b[i - 1], GroupBy[i]), L[GroupBy[i]]) ELSE b[i - 1]
  <2>1. b[i] = b[i - 1] \o parts[i]
    BY <1>1, <1>3 DEF Writes
  <2>2. CASE GroupBy[i] \in DOMAIN L
    <3>1. parts[i] = GroupBy[i] \o <<Nul>> \o L[GroupBy[i]] \o <<Nul>>
      BY <1>1, <2>2
    <3>2. /\ b[i] = Word(Word(b[i - 1], GroupBy[i]), L[GroupBy[i]])
          /\ Word(Word(b[i - 1], GroupBy[i]), L[GroupBy[i]]) \in Seq(Chars)
      <4>1. GroupBy[i] \in Seq(Chars) /\ L[GroupBy[i]] \in Seq(Chars)
        BY <1>4, <2>2
      <4>2. PICK a, k, v : a = b[i - 1] /\ k = GroupBy[i] /\ v = L[GroupBy[i]]
        OBVIOUS
      <4>3. a \in Seq(Chars) /\ k \in Seq(Chars) /\ v \in Seq(Chars)
        BY <1>5, <4>1, <4>2
      <4>4. /\ a \o (k \o <<Nul>> \o v \o <<Nul>>) = Word(Word(a, k), v)
            /\ Word(Word(a, k), v) \in Seq(Chars)
        BY <4>3, PairInFiveGoes
      <4>5. b[i] = a \o (k \o <<Nul>> \o v \o <<Nul>>)
        BY <2>1, <3>1, <4>2
      <4> QED
        BY <4>2, <4>4, <4>5
    <3> QED
      BY <2>2, <3>2
  <2>3. CASE GroupBy[i] \notin DOMAIN L
    <3>1. parts[i] = <<>>
      BY <1>1, <2>3
    <3>2. \A a \in Seq(Chars) : a \o <<>> = a
      OBVIOUS
    <3> QED
      BY <1>5, <2>1, <2>3, <3>1, <3>2
  <2> QED
    BY <2>2, <2>3
<1> DEFINE S == {i \in 0..n : b[i] \in Seq(Chars)}
<1>6. ASSUME NEW m \in 0..n, \A l \in 0..n : l < m => l \in S PROVE m \in S
  <2>1. CASE m = 0
    BY <1>3, <2>1, EmptyIsEnded DEF Writes
  <2>2. CASE m # 0
    <3>1. m \in 1..n /\ m - 1 \in 0..n /\ m - 1 < m
      BY <1>1, <2>2
    <3>2. b[m - 1] \in Seq(Chars)
      BY <1>6, <3>1
    <3> QED
      BY <1>5, <3>1, <3>2
  <2> QED
    BY <2>1, <2>2
<1>7. \A i \in 0..n : b[i] \in Seq(Chars)
  <2>1. \A i \in 0..n : i \in S
    <3> HIDE DEF S
    <3> QED
      BY <1>1, <1>6, Upto
  <2> QED
    BY <2>1
<1>8. \A i \in 1..n : i - 1 \in 0..n
  BY <1>1
<1>9. PairsWritten(b, L)
  BY <1>3, <1>5, <1>7, <1>8 DEF PairsWritten, Writes
<1> QED
  BY <1>2, <1>3, <1>9

\* The last pair written, if there is one.
LEMMA LastPair ==
    ASSUME NEW b, NEW L \in SomeLabels, PairsWritten(b, L)
    PROVE  \A i \in 0..Len(GroupBy) :
              \/ b[i] = <<>> /\ \A m \in 1..i : GroupBy[m] \notin DOMAIN L
              \/ \E j \in 1..i :
                    /\ GroupBy[j] \in DOMAIN L
                    /\ \A m \in (j + 1)..i : GroupBy[m] \notin DOMAIN L
                    /\ b[i] = Word(Word(b[j - 1], GroupBy[j]), L[GroupBy[j]])
<1> DEFINE n == Len(GroupBy)
           None(i) == b[i] = <<>> /\ \A m \in 1..i : GroupBy[m] \notin DOMAIN L
           Last(i, j) == /\ GroupBy[j] \in DOMAIN L
                         /\ \A m \in (j + 1)..i : GroupBy[m] \notin DOMAIN L
                         /\ b[i] = Word(Word(b[j - 1], GroupBy[j]), L[GroupBy[j]])
           S == {i \in 0..n : None(i) \/ \E j \in 1..i : Last(i, j)}
<1>1. n \in Nat
  BY KeyFacts
<1>2. ASSUME NEW i \in 0..n, \A l \in 0..n : l < i => l \in S PROVE i \in S
  <2>1. CASE i = 0
    BY <2>1 DEF PairsWritten
  <2>2. CASE i # 0
    <3>1. i \in 1..n /\ i - 1 \in 0..n /\ i - 1 < i
      BY <1>1, <2>2
    <3>2. CASE GroupBy[i] \in DOMAIN L
      <4>1. Last(i, i)
        BY <1>1, <3>1, <3>2 DEF PairsWritten
      <4> QED
        BY <3>1, <4>1
    <3>3. CASE GroupBy[i] \notin DOMAIN L
      <4>1. b[i] = b[i - 1]
        BY <3>1, <3>3 DEF PairsWritten
      <4>2. i - 1 \in S
        BY <1>2, <3>1
      <4>3. CASE None(i - 1)
        <5>1. \A m \in 1..i : m \in 1..(i - 1) \/ m = i
          BY <1>1
        <5>2. None(i)
          BY <3>3, <4>1, <4>3, <5>1
        <5> QED
          BY <5>2
      <4>4. CASE \E j \in 1..(i - 1) : Last(i - 1, j)
        <5>1. PICK j \in 1..(i - 1) : Last(i - 1, j)
          BY <4>4
        <5>2. j \in 1..i /\ \A m \in (j + 1)..i : m \in (j + 1)..(i - 1) \/ m = i
          BY <1>1
        <5>3. Last(i, j)
          BY <3>3, <4>1, <5>1, <5>2
        <5> HIDE DEF Last, None
        <5> QED
          BY <5>2, <5>3
      <4> HIDE DEF Last, None
      <4> QED
        BY <4>2, <4>3, <4>4
    <3> QED
      BY <3>2, <3>3
  <2> QED
    BY <2>1, <2>2
<1>3. \A i \in 0..n : i \in S
  <2> HIDE DEF S
  <2> QED
    BY <1>1, <1>2, Upto
<1> QED
  BY <1>3

\* seriesKey keeps plain label sets apart, whatever keys they have.
LEMMA SeriesKeyInjective ==
    ASSUME NEW L \in SomeLabels, NEW M \in SomeLabels, Plain(L), Plain(M), SeriesKey(L) = SeriesKey(M)
    PROVE  L = M
<1> DEFINE n == Len(GroupBy)
<1>1. n \in Nat /\ \A i, j \in 1..n : GroupBy[i] = GroupBy[j] => i = j
  BY KeyFacts, LabelAssumption
<1>2. PICK b : PairsWritten(b, L) /\ SeriesKey(L) = b[n]
  BY SeriesKeyIsWritten
<1>3. PICK c : PairsWritten(c, M) /\ SeriesKey(M) = c[n]
  BY SeriesKeyIsWritten
<1>4. \A i \in 0..n : Ended(b[i]) /\ Ended(c[i])
  BY <1>2, <1>3, PairsEnded
<1>5. /\ \A i \in 1..n : GroupBy[i] \in Strings
      /\ \A i \in 1..n : GroupBy[i] \in DOMAIN L => L[GroupBy[i]] \in Strings
      /\ \A i \in 1..n : GroupBy[i] \in DOMAIN M => M[GroupBy[i]] \in Strings
  BY KeyFacts, SomeLabelsFacts
<1> DEFINE Same(m) == /\ GroupBy[m] \in DOMAIN L <=> GroupBy[m] \in DOMAIN M
                      /\ GroupBy[m] \in DOMAIN L => L[GroupBy[m]] = M[GroupBy[m]]
           Agree(i) == \A m \in 1..i : Same(m)
           S == {i \in 0..n : b[i] = c[i] => Agree(i)}
           PairB(j) == Word(Word(b[j - 1], GroupBy[j]), L[GroupBy[j]])
           PairC(j) == Word(Word(c[j - 1], GroupBy[j]), M[GroupBy[j]])
\* A pair is not the empty string.
<1>6. ASSUME NEW j \in 1..n
      PROVE  /\ GroupBy[j] \in DOMAIN L => PairB(j) # <<>>
             /\ GroupBy[j] \in DOMAIN M => PairC(j) # <<>>
  <2>1. j - 1 \in 0..n
    BY <1>1
  <2>2. Ended(Word(b[j - 1], GroupBy[j])) /\ Ended(Word(c[j - 1], GroupBy[j]))
    BY <1>4, <1>5, <2>1, StaysEnded
  <2> QED
    BY <1>5, <2>2, StaysEnded
<1>7. ASSUME NEW i \in 0..n, \A l \in 0..n : l < i => l \in S PROVE i \in S
  <2> SUFFICES ASSUME b[i] = c[i] PROVE Agree(i)
    OBVIOUS
  <2>i. \A j \in 1..i : j \in 1..n
    BY <1>1
  <2>1. \/ b[i] = <<>> /\ \A m \in 1..i : GroupBy[m] \notin DOMAIN L
        \/ \E j \in 1..i : /\ GroupBy[j] \in DOMAIN L
                           /\ \A m \in (j + 1)..i : GroupBy[m] \notin DOMAIN L
                           /\ b[i] = PairB(j)
    BY <1>2, LastPair
  <2>2. \/ c[i] = <<>> /\ \A m \in 1..i : GroupBy[m] \notin DOMAIN M
        \/ \E j \in 1..i : /\ GroupBy[j] \in DOMAIN M
                           /\ \A m \in (j + 1)..i : GroupBy[m] \notin DOMAIN M
                           /\ c[i] = PairC(j)
    BY <1>3, LastPair
  <2> HIDE DEF PairB, PairC
  <2>3. CASE b[i] = <<>>
    <3>1. (\A m \in 1..i : GroupBy[m] \notin DOMAIN L) /\ \A m \in 1..i : GroupBy[m] \notin DOMAIN M
      BY <1>6, <2>i, <2>1, <2>2, <2>3
    <3> QED
      BY <3>1
  <2>4. CASE b[i] # <<>>
    <3>1. PICK j \in 1..i : /\ GroupBy[j] \in DOMAIN L
                            /\ \A m \in (j + 1)..i : GroupBy[m] \notin DOMAIN L
                            /\ b[i] = PairB(j)
      BY <2>1, <2>4
    <3>2. PICK l \in 1..i : /\ GroupBy[l] \in DOMAIN M
                            /\ \A m \in (l + 1)..i : GroupBy[m] \notin DOMAIN M
                            /\ c[i] = PairC(l)
      BY <2>2, <2>4
    <3>3. j \in 1..n /\ l \in 1..n /\ j - 1 \in 0..n /\ l - 1 \in 0..n /\ j - 1 < i
      BY <1>1
    <3>4. /\ Ended(b[j - 1]) /\ Ended(c[l - 1]) /\ GroupBy[j] \in Strings /\ GroupBy[l] \in Strings
          /\ L[GroupBy[j]] \in Strings /\ M[GroupBy[l]] \in Strings
      BY <1>4, <1>5, <3>1, <3>2, <3>3
    <3>p. /\ NulFree(GroupBy[j]) /\ NulFree(L[GroupBy[j]])
          /\ NulFree(GroupBy[l]) /\ NulFree(M[GroupBy[l]])
      BY <3>1, <3>2 DEF Plain
    <3>5. Ended(Word(b[j - 1], GroupBy[j])) /\ Ended(Word(c[l - 1], GroupBy[l]))
      BY <3>4, StaysEnded
    <3>6. Word(b[j - 1], GroupBy[j]) = Word(c[l - 1], GroupBy[l]) /\ L[GroupBy[j]] = M[GroupBy[l]]
      <4>1. Word(Word(b[j - 1], GroupBy[j]), L[GroupBy[j]])
              = Word(Word(c[l - 1], GroupBy[l]), M[GroupBy[l]])
        BY <3>1, <3>2 DEF PairB, PairC
      <4> QED
        BY <3>4, <3>p, <3>5, <4>1, LastWord
    <3>7. b[j - 1] = c[l - 1] /\ GroupBy[j] = GroupBy[l]
      BY <3>4, <3>p, <3>6, LastWord
    <3>8. j = l
      BY <1>1, <3>3, <3>7
    <3>9. Agree(j - 1)
      BY <1>7, <3>3, <3>7, <3>8
    <3>10. Same(j)
      BY <3>1, <3>2, <3>6, <3>8
    <3>11. \A m \in (j + 1)..i : Same(m)
      BY <3>1, <3>2, <3>8
    <3>12. \A m \in 1..i : m \in 1..(j - 1) \/ m = j \/ m \in (j + 1)..i
      BY <1>1
    <3> HIDE DEF Same
    <3> QED
      BY <3>9, <3>10, <3>11, <3>12
  <2> QED
    BY <2>3, <2>4
<1>8. n \in S
  <2> HIDE DEF S
  <2>1. \A i \in 0..n : i \in S
    BY <1>1, <1>7, Upto
  <2> QED
    BY <1>1, <2>1
<1>9. Agree(n)
  BY <1>2, <1>3, <1>8
<1>10. DOMAIN L = DOMAIN M /\ \A k \in DOMAIN L : L[k] = M[k]
  <2>1. DOMAIN L \subseteq Keys /\ DOMAIN M \subseteq Keys
    BY SomeLabelsFacts
  <2> QED
    BY <1>9, <2>1, KeyFacts
<1> QED
  BY <1>10, SomeLabelsFacts

-----------------------------------------------------------------------------
(***************************************************************************)
(* The series. The index finds a series by the key of its labels, and only *)
(* by that.                                                                *)
(***************************************************************************)

\* The label sets of each path: every key, or some keys.
LabelSets(p) == IF p = "groupBy" THEN [Keys -> Strings] ELSE SomeLabels

\* A row's labels are such a set.
LEMMA LabelsOfType ==
    ASSUME NEW p, NEW r \in RowsOf(p)
    PROVE  LabelsOf(r) \in LabelSets(p)
<1>1. /\ <<>> \in Strings
      /\ \A v \in Values : v \in Strings
  BY LabelAssumption DEF Strings
<1>2. CASE p = "groupBy"
  <2>1. r \in [Keys -> Values \union {NullLabel}]
    BY <1>2 DEF RowsOf
  <2> QED
    BY <1>1, <1>2, <2>1 DEF LabelSets, LabelsOf
<1>3. CASE p # "groupBy"
  <2>1. PICK ks \in SUBSET Keys : r \in [ks -> Values]
    BY <1>3 DEF RowsOf
  <2>2. LabelsOf(r) \in [ks -> Strings]
    BY <1>1, <2>1 DEF LabelsOf
  <2> QED
    BY <1>3, <2>1, <2>2 DEF LabelSets, SomeLabels
<1> QED
  BY <1>2, <1>3

\* Either path's key keeps plain label sets apart.
LEMMA RowKeyInjective ==
    ASSUME NEW p, NEW L \in LabelSets(p), NEW M \in LabelSets(p), Plain(L), Plain(M), RowKey(p, L) = RowKey(p, M)
    PROVE  L = M
<1>1. CASE p = "groupBy"
  <2>1. L \in [Keys -> Strings] /\ M \in [Keys -> Strings] /\ KeyOf(L) = KeyOf(M)
    BY <1>1 DEF LabelSets, RowKey
  <2> QED
    BY <2>1, KeyOfInjective
<1>2. CASE p # "groupBy"
  <2>1. L \in SomeLabels /\ M \in SomeLabels /\ SeriesKey(L) = SeriesKey(M)
    BY <1>2 DEF LabelSets, RowKey
  <2> QED
    BY <2>1, SeriesKeyInjective
<1> QED
  BY <1>1, <1>2

\* Rows, and the series made of them.
SeriesTypeOK ==
    /\ IsSequence(rows) /\ \A i \in 1..Len(rows) : rows[i] \in RowsOf(path)
    /\ IsSequence(series)
    /\ \A s \in 1..Len(series) :
         /\ series[s] = [labels |-> series[s].labels, points |-> series[s].points]
         /\ series[s].labels \in LabelSets(path)
         /\ IsSequence(series[s].points)

\* The index and the series name each other.
KeysInv ==
    /\ \A s \in 1..Len(series) :
         /\ RowKey(path, series[s].labels) \in DOMAIN index
         /\ index[RowKey(path, series[s].labels)] = s
    /\ \A k \in DOMAIN index :
         /\ index[k] \in 1..Len(series)
         /\ RowKey(path, series[index[k]].labels) = k

\* The key of a row.
KeyFor(p, r) == RowKey(p, LabelsOf(r))

\* The points of a series are the rows with its key, in order, and its labels are
\* those of the first.
PointsAre(p, points, labels, R) ==
    /\ Len(points) >= 1
    /\ {points[k] : k \in 1..Len(points)} = {i \in 1..Len(R) : KeyFor(p, R[i]) = RowKey(p, labels)}
    /\ labels = LabelsOf(R[points[1]])
    /\ \A k \in 1..(Len(points) - 1) : points[k] < points[k + 1]

\* There is one series per key, in the order of first arrival.
GroupedByKey(p, S, R) ==
    /\ \A i \in 1..Len(R) : \E s \in 1..Len(S) : RowKey(p, S[s].labels) = KeyFor(p, R[i])
    /\ \A s \in 1..Len(S) : PointsAre(p, S[s].points, S[s].labels, R)
    /\ \A s, t \in 1..Len(S) : s < t => S[s].points[1] < S[t].points[1]

OneSeriesPerKey == GroupedByKey(path, series, rows)

SeriesInv == SeriesTypeOK /\ KeysInv /\ OneSeriesPerKey

\* Nothing has been read.
LEMMA SeriesInitInv == SeriesInit => SeriesInv
<1> SUFFICES ASSUME SeriesInit PROVE SeriesInv
  OBVIOUS
<1>1. rows = <<>> /\ index = <<>> /\ series = <<>>
  BY DEF SeriesInit
<1>2. DOMAIN index = {}
  BY <1>1
<1>3. SeriesTypeOK
  BY <1>1, EmptySequence DEF SeriesTypeOK
<1>4. KeysInv
  BY <1>1, <1>2, EmptySequence DEF KeysInv
<1>5. OneSeriesPerKey
  BY <1>1, EmptySequence DEF OneSeriesPerKey, GroupedByKey
<1> QED
  BY <1>3, <1>4, <1>5 DEF SeriesInv

\* A row with a key that no series has starts one.
LEMMA FreshRow ==
    ASSUME SeriesInv, NEW r \in RowsOf(path), NEW L, NEW K, NEW n,
           L = LabelsOf(r), K = RowKey(path, L), K \notin DOMAIN index, n = Len(rows) + 1,
           rows' = Append(rows, r), path' = path,
           index' = [k \in DOMAIN index \union {K} |-> IF k = K THEN Len(series) + 1 ELSE index[k]],
           series' = Append(series, [labels |-> L, points |-> <<n>>])
    PROVE  SeriesInv'
<1> USE DEF SeriesInv
<1> DEFINE m == Len(series) + 1
           new == [labels |-> L, points |-> <<n>>]
<1>1. /\ L \in LabelSets(path) /\ Len(rows) \in Nat /\ n \in Nat
      /\ IsSequence(rows) /\ IsSequence(series) /\ Len(series) \in Nat /\ m \in Nat
  BY LabelsOfType DEF SeriesTypeOK, IsSequence
<1>2. /\ IsSequence(rows') /\ Len(rows') = n /\ rows'[n] = r
      /\ \A i \in 1..Len(rows) : rows'[i] = rows[i]
  BY <1>1, AppendFacts
<1>3. /\ IsSequence(series') /\ Len(series') = m /\ series'[m] = new
      /\ \A s \in 1..Len(series) : series'[s] = series[s]
  BY <1>1, AppendFacts
<1>4. new.labels = L /\ new.points = <<n>> /\ IsSequence(<<n>>) /\ Len(<<n>>) = 1
      /\ <<n>>[1] = n
  BY DEF IsSequence
<1>5. /\ \A i \in 1..Len(rows') : i \in 1..Len(rows) \/ i = n
      /\ \A s \in 1..Len(series') : s \in 1..Len(series) \/ s = m
      /\ n \in 1..Len(rows') /\ n \notin 1..Len(rows) /\ 1..Len(rows) \subseteq 1..Len(rows')
      /\ m \in 1..Len(series') /\ m \notin 1..Len(series) /\ 1..Len(series) \subseteq 1..Len(series')
  BY <1>1, <1>2, <1>3
<1>6. \A s \in 1..Len(series) : RowKey(path, series[s].labels) # K
  BY DEF KeysInv
<1>7. \A i \in 1..Len(rows) : KeyFor(path, rows[i]) # K
  BY <1>6 DEF OneSeriesPerKey, GroupedByKey
<1>8. SeriesTypeOK'
  <2>1. \A i \in 1..Len(rows') : rows'[i] \in RowsOf(path')
    BY <1>2, <1>5 DEF SeriesTypeOK
  <2>2. ASSUME NEW s \in 1..Len(series')
        PROVE  /\ series'[s] = [labels |-> series'[s].labels, points |-> series'[s].points]
               /\ series'[s].labels \in LabelSets(path')
               /\ IsSequence(series'[s].points)
    <3>1. CASE s \in 1..Len(series)
      BY <1>3, <3>1 DEF SeriesTypeOK
    <3>2. CASE s = m
      BY <1>1, <1>3, <1>4, <3>2
    <3> QED
      BY <1>5, <3>1, <3>2
  <2> QED
    BY <1>2, <1>3, <2>1, <2>2 DEF SeriesTypeOK
<1>9. KeysInv'
  <2>1. /\ DOMAIN index' = DOMAIN index \union {K} /\ index'[K] = m
        /\ \A k \in DOMAIN index : index'[k] = index[k]
    OBVIOUS
  <2>2. ASSUME NEW s \in 1..Len(series')
        PROVE  /\ RowKey(path', series'[s].labels) \in DOMAIN index'
               /\ index'[RowKey(path', series'[s].labels)] = s
    <3>1. CASE s \in 1..Len(series)
      BY <1>3, <2>1, <3>1 DEF KeysInv
    <3>2. CASE s = m
      BY <1>3, <1>4, <2>1, <3>2
    <3> QED
      BY <1>5, <3>1, <3>2
  <2>3. ASSUME NEW k \in DOMAIN index'
        PROVE  /\ index'[k] \in 1..Len(series')
               /\ RowKey(path', series'[index'[k]].labels) = k
    <3>1. CASE k \in DOMAIN index
      <4>1. index[k] \in 1..Len(series) /\ RowKey(path, series[index[k]].labels) = k
        BY <3>1 DEF KeysInv
      <4> QED
        BY <1>3, <1>5, <2>1, <3>1, <4>1
    <3>2. CASE k = K
      BY <1>3, <1>4, <1>5, <2>1, <3>2
    <3> QED
      BY <2>1, <3>1, <3>2
  <2> QED
    BY <2>2, <2>3 DEF KeysInv
<1>10. OneSeriesPerKey'
  <2>0. KeyFor(path, r) = K
    BY DEF KeyFor
  <2>1. ASSUME NEW i \in 1..Len(rows')
        PROVE  \E s \in 1..Len(series') : RowKey(path, series'[s].labels) = KeyFor(path, rows'[i])
    <3>1. CASE i \in 1..Len(rows)
      <4>1. PICK s \in 1..Len(series) : RowKey(path, series[s].labels) = KeyFor(path, rows[i])
        BY <3>1 DEF OneSeriesPerKey, GroupedByKey
      <4> QED
        BY <1>2, <1>3, <1>5, <3>1, <4>1
    <3>2. CASE i = n
      BY <1>2, <1>3, <1>4, <1>5, <2>0, <3>2
    <3> QED
      BY <1>5, <3>1, <3>2
  <2>2. ASSUME NEW s \in 1..Len(series')
        PROVE  PointsAre(path, series'[s].points, series'[s].labels, rows')
    <3>1. CASE s \in 1..Len(series)
      <4>1. PICK P, N : P = series[s].points /\ N = series[s].labels
        OBVIOUS
      <4>2. PointsAre(path, P, N, rows) /\ RowKey(path, N) # K /\ Len(P) \in Nat
        BY <1>6, <3>1, <4>1 DEF OneSeriesPerKey, GroupedByKey, SeriesTypeOK, IsSequence
      <4>3. {i \in 1..Len(rows') : KeyFor(path, rows'[i]) = RowKey(path, N)}
               = {i \in 1..Len(rows) : KeyFor(path, rows[i]) = RowKey(path, N)}
        BY <1>2, <1>5, <2>0, <4>2
      <4>4. P[1] \in 1..Len(rows)
        BY <4>2 DEF PointsAre
      <4>5. rows'[P[1]] = rows[P[1]]
        BY <1>2, <4>4
      <4>6. PointsAre(path, P, N, rows')
        BY <4>2, <4>3, <4>5 DEF PointsAre
      <4> QED
        BY <1>3, <3>1, <4>1, <4>6
    <3>2. CASE s = m
      <4>1. {i \in 1..Len(rows') : KeyFor(path, rows'[i]) = K} = {n}
        BY <1>2, <1>5, <1>7, <2>0
      <4>2. series'[s].labels = L /\ series'[s].points = <<n>>
        BY <1>3, <1>4, <3>2
      <4>3. {<<n>>[k] : k \in 1..Len(<<n>>)} = {n}
        BY <1>4
      <4>4. PointsAre(path, <<n>>, L, rows')
        <5>1. \A k \in 1..(Len(<<n>>) - 1) : FALSE
          BY <1>4
        <5>2. Len(<<n>>) >= 1 /\ L = LabelsOf(rows'[<<n>>[1]])
          BY <1>2, <1>4
        <5> QED
          BY <4>1, <4>3, <5>1, <5>2 DEF PointsAre
      <4> QED
        BY <4>2, <4>4
    <3> QED
      BY <1>5, <3>1, <3>2
  <2>3. ASSUME NEW s \in 1..Len(series'), NEW t \in 1..Len(series'), s < t
        PROVE  series'[s].points[1] < series'[t].points[1]
    <3>1. s \in 1..Len(series)
      BY <1>1, <1>3, <2>3
    <3>2. CASE t \in 1..Len(series)
      BY <1>3, <2>3, <3>1, <3>2 DEF OneSeriesPerKey, GroupedByKey
    <3>3. CASE t = m
      <4>1. Len(series[s].points) \in Nat /\ Len(series[s].points) >= 1
        BY <3>1 DEF SeriesTypeOK, IsSequence, OneSeriesPerKey, GroupedByKey, PointsAre
      <4>2. series[s].points[1] \in 1..Len(rows)
        BY <3>1, <4>1 DEF OneSeriesPerKey, GroupedByKey, PointsAre
      <4>3. series[s].points[1] < n
        BY <1>1, <4>2
      <4> QED
        BY <1>3, <1>4, <3>1, <3>3, <4>3
    <3> QED
      BY <1>5, <3>2, <3>3
  <2>4. PICK T, U : T = series' /\ U = rows'
    OBVIOUS
  <2>5. GroupedByKey(path, T, U)
    <3>1. \A i \in 1..Len(U) : \E s \in 1..Len(T) : RowKey(path, T[s].labels) = KeyFor(path, U[i])
      BY <2>1, <2>4
    <3>2. \A s \in 1..Len(T) : PointsAre(path, T[s].points, T[s].labels, U)
      BY <2>2, <2>4
    <3>3. \A s, t \in 1..Len(T) : s < t => T[s].points[1] < T[t].points[1]
      <4> SUFFICES ASSUME NEW s \in 1..Len(T), NEW t \in 1..Len(T), s < t
                   PROVE  T[s].points[1] < T[t].points[1]
        OBVIOUS
      <4>1. s \in 1..Len(series') /\ t \in 1..Len(series')
        BY <2>4
      <4>2. series'[s].points[1] < series'[t].points[1]
        BY <2>3, <4>1
      <4> QED
        BY <2>4, <4>2
    <3> QED
      BY <3>1, <3>2, <3>3 DEF GroupedByKey
  <2> QED
    BY <2>4, <2>5 DEF OneSeriesPerKey
<1> QED
  BY <1>8, <1>9, <1>10

\* A row whose key is indexed joins that series.
LEMMA KnownRow ==
    ASSUME SeriesInv, NEW r \in RowsOf(path), NEW L, NEW K, NEW n, NEW q,
           L = LabelsOf(r), K = RowKey(path, L), K \in DOMAIN index, n = Len(rows) + 1, q = index[K],
           rows' = Append(rows, r), path' = path,
           index' = [k \in DOMAIN index \union {K} |-> IF k = K THEN q ELSE index[k]],
           series' = [series EXCEPT ![q].points = Append(@, n)]
    PROVE  SeriesInv'
<1> USE DEF SeriesInv
<1>1. /\ L \in LabelSets(path) /\ Len(rows) \in Nat /\ n \in Nat
      /\ IsSequence(rows) /\ IsSequence(series) /\ Len(series) \in Nat
  BY LabelsOfType DEF SeriesTypeOK, IsSequence
<1>2. /\ IsSequence(rows') /\ Len(rows') = n /\ rows'[n] = r
      /\ \A i \in 1..Len(rows) : rows'[i] = rows[i]
  BY <1>1, AppendFacts
<1>3. q \in 1..Len(series) /\ RowKey(path, series[q].labels) = K
  BY DEF KeysInv
<1>4. PICK N : N = series[q].labels
  OBVIOUS
<1>n. N \in LabelSets(path) /\ RowKey(path, N) = K
  BY <1>3, <1>4 DEF SeriesTypeOK
<1> DEFINE P == series[q].points
           R == Append(P, n)
<1>5. /\ IsSequence(P) /\ Len(P) \in Nat /\ IsSequence(R) /\ Len(R) = Len(P) + 1
      /\ R[Len(P) + 1] = n /\ \A k \in 1..Len(P) : R[k] = P[k]
  <2>1. IsSequence(P)
    BY <1>3 DEF SeriesTypeOK
  <2> HIDE DEF P
  <2> QED
    BY <2>1, AppendFacts DEF IsSequence
<1>6. /\ IsSequence(series') /\ Len(series') = Len(series)
      /\ series'[q] = [labels |-> N, points |-> R]
      /\ \A s \in 1..Len(series) : s # q => series'[s] = series[s]
  <2>1. DOMAIN series = 1..Len(series) /\ series[q] = [labels |-> N, points |-> P]
    BY <1>1, <1>3, <1>4 DEF IsSequence, SeriesTypeOK
  <2>2. series' = [s \in 1..Len(series) |-> IF s = q THEN [series[q] EXCEPT !.points = R] ELSE series[s]]
    BY <1>3, <2>1
  <2>3. [series[q] EXCEPT !.points = R] = [labels |-> N, points |-> R]
    <3> HIDE DEF P, R
    <3> QED
      BY <2>1
  <2> HIDE DEF P, R
  <2>4. Len(series') = Len(series)
    BY <1>1, <2>2
  <2> QED
    BY <1>1, <1>3, <2>2, <2>3, <2>4 DEF IsSequence
<1> HIDE DEF R
<1>7. /\ \A s \in 1..Len(series) : series'[s].labels = series[s].labels
      /\ series'[q].points = R
      /\ \A s \in 1..Len(series) : s # q => series'[s].points = series[s].points
  <2>1. series'[q].labels = N /\ series'[q].points = R
    BY <1>6
  <2> QED
    BY <1>3, <1>4, <1>6, <2>1
<1>8. /\ \A i \in 1..Len(rows') : i \in 1..Len(rows) \/ i = n
      /\ n \in 1..Len(rows') /\ n \notin 1..Len(rows) /\ 1..Len(rows) \subseteq 1..Len(rows')
  BY <1>1, <1>2
<1>9. SeriesTypeOK'
  <2>1. \A i \in 1..Len(rows') : rows'[i] \in RowsOf(path')
    BY <1>2, <1>8 DEF SeriesTypeOK
  <2>2. ASSUME NEW s \in 1..Len(series')
        PROVE  /\ series'[s] = [labels |-> series'[s].labels, points |-> series'[s].points]
               /\ series'[s].labels \in LabelSets(path')
               /\ IsSequence(series'[s].points)
    <3>1. CASE s = q
      <4>1. series'[s] = [labels |-> N, points |-> R]
        BY <1>6, <3>1
      <4>2. series'[s].labels = N /\ series'[s].points = R
        BY <4>1
      <4> QED
        BY <1>5, <1>n, <4>1, <4>2
    <3>2. CASE s # q
      BY <1>6, <3>2 DEF SeriesTypeOK
    <3> QED
      BY <3>1, <3>2
  <2> QED
    BY <1>2, <1>6, <2>1, <2>2 DEF SeriesTypeOK
<1>10. KeysInv'
  <2>1. DOMAIN index' = DOMAIN index /\ \A k \in DOMAIN index : index'[k] = index[k]
    OBVIOUS
  <2> QED
    BY <1>6, <1>7, <2>1 DEF KeysInv
<1>11. OneSeriesPerKey'
  <2>r. KeyFor(path, r) = K
    BY DEF KeyFor
  <2>p. PointsAre(path, P, N, rows)
    BY <1>3, <1>4 DEF OneSeriesPerKey, GroupedByKey
  <2> HIDE DEF P
  <2>0. {P[k] : k \in 1..Len(P)} = {i \in 1..Len(rows) : KeyFor(path, rows[i]) = K}
    BY <1>n, <2>p DEF PointsAre
  <2>1. \A k \in 1..Len(P) : P[k] \in 1..Len(rows) /\ P[k] \in Nat
    <3>1. ASSUME NEW k \in 1..Len(P) PROVE P[k] \in 1..Len(rows)
      <4>1. P[k] \in {P[j] : j \in 1..Len(P)}
        OBVIOUS
      <4> QED
        BY <2>0, <4>1
    <3> QED
      BY <1>1, <3>1
  <2>2. Len(P) >= 1 /\ 1 \in 1..Len(P)
    BY <1>5, <2>p DEF PointsAre
  <2>3. ASSUME NEW i \in 1..Len(rows')
        PROVE  \E s \in 1..Len(series') : RowKey(path, series'[s].labels) = KeyFor(path, rows'[i])
    <3>1. CASE i \in 1..Len(rows)
      <4>1. PICK s \in 1..Len(series) : RowKey(path, series[s].labels) = KeyFor(path, rows[i])
        BY <3>1 DEF OneSeriesPerKey, GroupedByKey
      <4> QED
        BY <1>2, <1>6, <1>7, <3>1, <4>1
    <3>2. CASE i = n
      BY <1>2, <1>3, <1>6, <1>7, <2>r, <3>2
    <3> QED
      BY <1>8, <3>1, <3>2
  <2>4. ASSUME NEW s \in 1..Len(series')
        PROVE  PointsAre(path, series'[s].points, series'[s].labels, rows')
    <3>1. CASE s # q
      <4>0. s \in 1..Len(series)
        BY <1>6
      <4>1. PICK Q, O : Q = series[s].points /\ O = series[s].labels
        OBVIOUS
      <4>2. PointsAre(path, Q, O, rows) /\ Len(Q) \in Nat
        BY <4>0, <4>1 DEF OneSeriesPerKey, GroupedByKey, SeriesTypeOK, IsSequence
      <4>3. RowKey(path, O) # K
        BY <3>1, <4>0, <4>1 DEF KeysInv
      <4>4. {i \in 1..Len(rows') : KeyFor(path, rows'[i]) = RowKey(path, O)}
               = {i \in 1..Len(rows) : KeyFor(path, rows[i]) = RowKey(path, O)}
        BY <1>2, <1>8, <2>r, <4>3
      <4>5. Q[1] \in 1..Len(rows)
        BY <4>2 DEF PointsAre
      <4>6. rows'[Q[1]] = rows[Q[1]]
        BY <1>2, <4>5
      <4>7. PointsAre(path, Q, O, rows')
        BY <4>2, <4>4, <4>6 DEF PointsAre
      <4> QED
        BY <1>6, <3>1, <4>0, <4>1, <4>7
    <3>2. CASE s = q
      <4>1. series'[s].labels = N /\ series'[s].points = R
        BY <1>6, <3>2
      <4>3. \A k \in 1..(Len(P) - 1) : P[k] < P[k + 1]
        BY <2>p DEF PointsAre
      <4>4. {i \in 1..Len(rows') : KeyFor(path, rows'[i]) = K}
               = {i \in 1..Len(rows) : KeyFor(path, rows[i]) = K} \union {n}
        BY <1>2, <1>8, <2>r
      <4>5. {R[k] : k \in 1..Len(R)} = {P[k] : k \in 1..Len(P)} \union {n}
        <5>1. \A k \in 1..Len(R) : k \in 1..Len(P) \/ k = Len(P) + 1
          BY <1>5
        <5>2. 1..Len(P) \subseteq 1..Len(R) /\ Len(P) + 1 \in 1..Len(R)
          BY <1>5
        <5> QED
          BY <1>5, <5>1, <5>2
      <4>6. ASSUME NEW k \in 1..(Len(R) - 1) PROVE R[k] < R[k + 1]
        <5>1. k \in 1..Len(P) /\ R[k] = P[k]
          BY <1>5
        <5>2. CASE k = Len(P)
          <6>1. R[k + 1] = n /\ P[k] < n
            BY <1>1, <1>5, <2>1, <5>1, <5>2
          <6> QED
            BY <5>1, <6>1
        <5>3. CASE k # Len(P)
          <6>1. k \in 1..(Len(P) - 1) /\ k + 1 \in 1..Len(P)
            BY <1>5, <5>1, <5>3
          <6> QED
            BY <1>5, <4>3, <5>1, <6>1
        <5> QED
          BY <5>2, <5>3
      <4>7. Len(R) >= 1
        BY <1>5
      <4>8. {R[k] : k \in 1..Len(R)} = {i \in 1..Len(rows') : KeyFor(path, rows'[i]) = RowKey(path, N)}
        BY <1>n, <2>0, <4>4, <4>5
      <4>9. N = LabelsOf(rows'[R[1]])
        <5>1. R[1] = P[1] /\ P[1] \in 1..Len(rows)
          BY <1>5, <2>1, <2>2
        <5>2. N = LabelsOf(rows[P[1]])
          BY <2>p DEF PointsAre
        <5> QED
          BY <1>2, <5>1, <5>2
      <4>10. PointsAre(path, R, N, rows')
        BY <4>6, <4>7, <4>8, <4>9 DEF PointsAre
      <4> QED
        BY <4>1, <4>10
    <3> QED
      BY <3>1, <3>2
  <2>5. ASSUME NEW s \in 1..Len(series'), NEW t \in 1..Len(series'), s < t
        PROVE  series'[s].points[1] < series'[t].points[1]
    <3>1. \A u \in 1..Len(series) : series'[u].points[1] = series[u].points[1]
      <4>1. R[1] = P[1]
        BY <1>5, <2>2
      <4> QED
        BY <1>7, <4>1 DEF P
    <3>2. s \in 1..Len(series) /\ t \in 1..Len(series)
      BY <1>6
    <3> QED
      BY <2>5, <3>1, <3>2 DEF OneSeriesPerKey, GroupedByKey
  <2>6. PICK T, U : T = series' /\ U = rows'
    OBVIOUS
  <2>7. GroupedByKey(path, T, U)
    BY <2>3, <2>4, <2>5, <2>6 DEF GroupedByKey
  <2> QED
    BY <2>6, <2>7 DEF OneSeriesPerKey
<1> QED
  BY <1>9, <1>10, <1>11

\* Every row is the one or the other.
LEMMA AddRowKeeps == ASSUME SeriesInv, AddRow PROVE SeriesInv'
<1>1. PICK r \in RowsOf(path) :
        LET labels == LabelsOf(r)
            key    == RowKey(path, labels)
            n      == Len(rows) + 1
            fresh  == key \notin DOMAIN index
            si     == IF fresh THEN Len(series) + 1 ELSE index[key]
        IN  /\ rows' = Append(rows, r)
            /\ index' = [k \in DOMAIN index \union {key} |-> IF k = key THEN si ELSE index[k]]
            /\ series' = IF fresh THEN Append(series, [labels |-> labels, points |-> <<n>>])
                         ELSE [series EXCEPT ![si].points = Append(@, n)]
  BY DEF AddRow
<1>2. path' = path
  BY DEF AddRow
<1>3. PICK L, K, n : L = LabelsOf(r) /\ K = RowKey(path, L) /\ n = Len(rows) + 1
  OBVIOUS
<1>4. CASE K \notin DOMAIN index
  <2>1. /\ rows' = Append(rows, r)
        /\ index' = [k \in DOMAIN index \union {K} |-> IF k = K THEN Len(series) + 1 ELSE index[k]]
        /\ series' = Append(series, [labels |-> L, points |-> <<n>>])
    BY <1>1, <1>3, <1>4
  <2> QED
    BY <1>2, <1>3, <1>4, <2>1, FreshRow
<1>5. CASE K \in DOMAIN index
  <2>1. PICK q : q = index[K]
    OBVIOUS
  <2>2. /\ rows' = Append(rows, r)
        /\ index' = [k \in DOMAIN index \union {K} |-> IF k = K THEN q ELSE index[k]]
        /\ series' = [series EXCEPT ![q].points = Append(@, n)]
    BY <1>1, <1>3, <1>5, <2>1
  <2> QED
    BY <1>2, <1>3, <1>5, <2>1, <2>2, KnownRow
<1> QED
  BY <1>4, <1>5

\* So the invariant is inductive.
LEMMA SeriesNextInv == SeriesInv /\ [SeriesNext]_seriesVars => SeriesInv'
<1> SUFFICES ASSUME SeriesInv, [SeriesNext]_seriesVars PROVE SeriesInv'
  OBVIOUS
<1>1. CASE AddRow
  BY <1>1, AddRowKeeps
<1>2. CASE UNCHANGED seriesVars
  BY <1>2 DEF seriesVars, SeriesInv, SeriesTypeOK, KeysInv, OneSeriesPerKey
<1> QED
  BY <1>1, <1>2 DEF SeriesNext, SeriesDone

\* Both decoders group samples as their labels are, for labels of any characters:
\* no key string splits a label set, and one that joins two of them holds a NUL in
\* the labels of the one or the other.
THEOREM OneSeriesPerLabelSetHolds == SeriesSpec => []OneSeriesPerLabelSet
<1>1. SeriesSpec => []SeriesInv
  BY SeriesInitInv, SeriesNextInv, PTL DEF SeriesSpec
<1>2. ASSUME SeriesInv PROVE OneSeriesPerLabelSet
  <2>t. SeriesTypeOK /\ KeysInv /\ OneSeriesPerKey
    BY <1>2 DEF SeriesInv
  <2>1. ASSUME NEW s \in 1..Len(series)
        PROVE  /\ Len(series[s].points) >= 1
               /\ Samples(s) = {i \in 1..Len(rows) :
                                  KeyFor(path, rows[i]) = RowKey(path, series[s].labels)}
               /\ series[s].labels = LabelsOf(rows[series[s].points[1]])
               /\ \A k \in 1..(Len(series[s].points) - 1) :
                     series[s].points[k] < series[s].points[k + 1]
    BY <2>t DEF OneSeriesPerKey, GroupedByKey, PointsAre, Samples
  <2>2. \A i \in 1..Len(rows) : \E s \in 1..Len(series) : i \in Samples(s)
    BY <2>t, <2>1 DEF OneSeriesPerKey, GroupedByKey
  <2>3. \A s, t \in 1..Len(series) : s < t => series[s].points[1] < series[t].points[1]
    BY <2>t DEF OneSeriesPerKey, GroupedByKey
  <2>4. ASSUME NEW s \in 1..Len(series), NEW t \in 1..Len(series),
               NEW i \in Samples(s), NEW j \in Samples(t), NEW a, NEW b,
               a = LabelsOf(rows[i]), b = LabelsOf(rows[j])
        PROVE  (a = b => s = t) /\ (s = t /\ Plain(a) /\ Plain(b) => a = b)
    <3>1. /\ i \in 1..Len(rows) /\ RowKey(path, a) = RowKey(path, series[s].labels)
          /\ j \in 1..Len(rows) /\ RowKey(path, b) = RowKey(path, series[t].labels)
      BY <2>1, <2>4 DEF KeyFor
    <3>2. a \in LabelSets(path) /\ b \in LabelSets(path)
      BY <2>t, <2>4, <3>1, LabelsOfType DEF SeriesTypeOK
    <3>3. ASSUME a = b PROVE s = t
      BY <2>t, <3>1, <3>3 DEF KeysInv
    <3>4. ASSUME s = t, Plain(a), Plain(b) PROVE a = b
      BY <3>1, <3>2, <3>4, RowKeyInjective
    <3> QED
      BY <3>3, <3>4
  <2>5. ASSUME NEW s \in 1..Len(series), NEW t \in 1..Len(series),
               NEW i \in Samples(s), NEW j \in Samples(t)
        PROVE  LET a == LabelsOf(rows[i])
                   b == LabelsOf(rows[j])
               IN  (a = b => s = t) /\ (s = t /\ Plain(a) /\ Plain(b) => a = b)
    BY <2>4
  <2>6. \A s \in 1..Len(series) : Samples(s) \subseteq 1..Len(rows)
    BY <2>1
  <2> QED
    BY <2>1, <2>2, <2>3, <2>5, <2>6, ZenonT(30) DEF OneSeriesPerLabelSet
<1> QED
  BY <1>1, <1>2, PTL

-----------------------------------------------------------------------------
(***************************************************************************)
(* TraceTree: lists, sequences that hold each member of a set once.        *)
(***************************************************************************)

ListOf(s, S) ==
    /\ IsSequence(s)
    /\ \A j, k \in 1..Len(s) : s[j] = s[k] => j = k
    /\ \A k \in 1..Len(s) : s[k] \in S
    /\ \A x \in S : \E k \in 1..Len(s) : s[k] = x

\* A new member is appended.
LEMMA ListAppend ==
    ASSUME NEW s, NEW S, NEW x, NEW T, ListOf(s, S), x \notin S, T = S \union {x}
    PROVE  ListOf(Append(s, x), T)
<1> DEFINE t == Append(s, x)
<1>1. /\ IsSequence(t) /\ Len(t) = Len(s) + 1 /\ Len(s) \in Nat
      /\ \A k \in 1..Len(s) : t[k] = s[k]
      /\ t[Len(s) + 1] = x
  BY AppendFacts DEF ListOf, IsSequence
<1> HIDE DEF t
<1>2. \A k \in 1..Len(t) : k \in 1..Len(s) \/ k = Len(s) + 1
  BY <1>1
<1>3. \A k \in 1..Len(s) : s[k] \in S /\ s[k] # x
  BY DEF ListOf
<1>4. \A j, k \in 1..Len(t) : t[j] = t[k] => j = k
  BY <1>1, <1>2, <1>3 DEF ListOf
<1>5. \A k \in 1..Len(t) : t[k] \in T
  BY <1>1, <1>2, <1>3
<1>6. \A y \in T : \E k \in 1..Len(t) : t[k] = y
  <2> SUFFICES ASSUME NEW y \in T PROVE \E k \in 1..Len(t) : t[k] = y
    OBVIOUS
  <2>1. CASE y = x
    <3>1. Len(s) + 1 \in 1..Len(t)
      BY <1>1
    <3> QED
      BY <1>1, <2>1, <3>1
  <2>2. CASE y \in S
    <3>1. PICK k \in 1..Len(s) : s[k] = y
      BY <2>2 DEF ListOf
    <3>2. k \in 1..Len(t)
      BY <1>1
    <3> QED
      BY <1>1, <3>1, <3>2
  <2> QED
    BY <2>1, <2>2
<1>7. ListOf(t, T)
  BY <1>1, <1>4, <1>5, <1>6 DEF ListOf
<1> QED
  BY <1>7 DEF t

\* The empty list.
LEMMA ListEmpty == ASSUME NEW S, S = {} PROVE ListOf(<<>>, S)
BY DEF ListOf, IsSequence

\* The members can be arranged otherwise.
LEMMA ListArranged ==
    ASSUME NEW s, NEW S, ListOf(s, S), NEW f \in Bijection(DOMAIN s, DOMAIN s)
    PROVE  LET t == [k \in DOMAIN s |-> s[f[k]]] IN ListOf(t, S) /\ Len(t) = Len(s)
<1> DEFINE n == Len(s)
           t == [k \in DOMAIN s |-> s[f[k]]]
<1>1. n \in Nat /\ DOMAIN s = 1..n
  BY DEF ListOf, IsSequence
<1>2. /\ f \in [1..n -> 1..n]
      /\ \A j, k \in 1..n : f[j] = f[k] => j = k
      /\ \A k \in 1..n : \E j \in 1..n : f[j] = k
  BY <1>1 DEF Bijection, Injection, Surjection, IsInjective
<1>3. t = [k \in 1..n |-> s[f[k]]] /\ Len(t) = n
  BY <1>1
<1>4. \A k \in 1..n : f[k] \in 1..n /\ t[k] = s[f[k]]
  BY <1>2, <1>3
<1> HIDE DEF t
<1>5. IsSequence(t)
  <2>1. t = [k \in 1..n |-> t[k]]
    BY <1>3
  <2> QED
    BY <1>1, <1>3, <2>1 DEF IsSequence
<1>6. ASSUME NEW j \in 1..n, NEW k \in 1..n, t[j] = t[k] PROVE j = k
  <2>1. f[j] \in 1..n /\ f[k] \in 1..n /\ s[f[j]] = s[f[k]]
    BY <1>4, <1>6
  <2>2. f[j] = f[k]
    BY <2>1 DEF ListOf
  <2> QED
    BY <1>2, <2>2
<1>7. \A k \in 1..n : t[k] \in S
  BY <1>4 DEF ListOf
<1>8. \A x \in S : \E k \in 1..n : t[k] = x
  <2> SUFFICES ASSUME NEW x \in S PROVE \E k \in 1..n : t[k] = x
    OBVIOUS
  <2>1. PICK j \in 1..n : s[j] = x
    BY DEF ListOf
  <2>2. PICK k \in 1..n : f[k] = j
    BY <1>2
  <2> QED
    BY <1>4, <2>1, <2>2
<1>9. ListOf(t, S) /\ Len(t) = n
  BY <1>3, <1>5, <1>6, <1>7, <1>8 DEF ListOf
<1> QED
  BY <1>9 DEF t

\* A list is as long as its set is large.
LEMMA ListLength ==
    ASSUME NEW s, NEW S, ListOf(s, S)
    PROVE  Len(s) = Cardinality(S)
<1> DEFINE n == Len(s)
<1>1. n \in Nat /\ s = [k \in 1..n |-> s[k]]
  BY DEF ListOf, IsSequence
<1>2. s \in [1..n -> S]
  BY <1>1 DEF ListOf
<1>3. s \in Bijection(1..n, S)
  BY <1>2 DEF ListOf, Bijection, Injection, Surjection, IsInjective
<1>4. ExistsBijection(1..n, S)
  BY <1>3 DEF ExistsBijection
<1> QED
  BY <1>1, <1>4, FS_CountingElements

-----------------------------------------------------------------------------
(***************************************************************************)
(* TraceTree: the inductive invariant, what is indexed and linked so far.  *)
(***************************************************************************)

\* The input, and which loop runs.
InputInv ==
    /\ Len(spans) \in Nat /\ \A k \in 1..Len(spans) : spans[k] \in Span
    /\ phase \in {"index", "link", "done"}
    /\ pos \in Nat /\ pos >= 1

\* The spans looked at for the index, and the ids linked.
Looked == IF phase = "index" THEN pos - 1 ELSE Len(spans)
Linked == IF phase = "index" THEN 0 ELSE IF phase = "link" THEN pos - 1 ELSE Len(order)

\* The index holds the first span of every id that was looked at.
IndexInv ==
    /\ ListOf(order, DOMAIN byID)
    /\ \A k \in 1..Len(spans) : k <= Looked => spans[k].id \in DOMAIN byID
    /\ \A id \in DOMAIN byID :
          id \in Ids /\ byID[id] = First(id) /\ First(id) \in Span /\ First(id).id = id

LinkedIds == {order[k] : k \in {j \in 1..Len(order) : j <= Linked}}

\* Every id linked is in the one list that it belongs to, once.
LinkInv ==
    /\ ListOf(roots, {id \in LinkedIds : ~HasParent(id)})
    /\ DOMAIN children = 0..MaxId
    /\ \A p \in 0..MaxId :
          ListOf(children[p], {id \in LinkedIds : HasParent(id) /\ First(id).parent = p})

\* In the end, no id follows one that comes after it.
SortInv ==
    phase = "done" =>
        /\ \A k \in 1..(Len(roots) - 1) : ~Before(roots[k + 1], roots[k])
        /\ \A p \in 0..MaxId : \A k \in 1..(Len(children[p]) - 1) :
              ~Before(children[p][k + 1], children[p][k])

TreeInv == InputInv /\ IndexInv /\ LinkInv /\ SortInv

-----------------------------------------------------------------------------
(***************************************************************************)
(* TraceTree: the steps.                                                   *)
(***************************************************************************)

\* The first span of an id.
LEMMA FirstOf ==
    ASSUME Len(spans) \in Nat, NEW k \in 1..Len(spans),
           \A j \in 1..(k - 1) : spans[j].id # spans[k].id
    PROVE  First(spans[k].id) = spans[k]
<1> DEFINE P(m) == /\ spans[m].id = spans[k].id
                   /\ \A j \in 1..(m - 1) : spans[j].id # spans[k].id
<1>1. P(k)
  OBVIOUS
<1>2. ASSUME NEW m \in 1..Len(spans), P(m) PROVE m = k
  <2>1. CASE m < k
    BY <1>2, <2>1
  <2>2. CASE k < m
    BY <1>2, <2>2
  <2> QED
    BY <2>1, <2>2
<1> HIDE DEF P
<1>3. (CHOOSE m \in 1..Len(spans) : P(m)) = k
  BY <1>1, <1>2
<1> QED
  BY <1>3 DEF First, FirstIn, P

\* The reference depends on the input only.
LEMMA SpansKept ==
    ASSUME spans' = spans
    PROVE  /\ Ids' = Ids
           /\ \A id : First(id)' = First(id) /\ HasParent(id)' = HasParent(id)
BY DEF Ids, First, FirstIn, HasParent

\* When the index is done it holds every id.
LEMMA IndexComplete ==
    ASSUME TreeInv, phase # "index"
    PROVE  DOMAIN byID = Ids
<1>1. \A k \in 1..Len(spans) : spans[k].id \in DOMAIN byID
  BY DEF TreeInv, InputInv, IndexInv, Looked
<1> QED
  BY <1>1 DEF TreeInv, IndexInv, Ids

\* AssembleTrace is called.
LEMMA TreeInitInv == TreeInit => TreeInv
<1> SUFFICES ASSUME TreeInit PROVE TreeInv
  OBVIOUS
<1>1. PICK n \in 0..MaxSpans : spans \in [1..n -> Span]
  BY DEF TreeInit
<1>2. Len(spans) = n /\ n \in Nat
  BY <1>1, TreeAssumption
<1>3. InputInv
  BY <1>1, <1>2 DEF TreeInit, InputInv
<1>4. /\ byID = <<>> /\ order = <<>> /\ roots = <<>> /\ pos = 1
      /\ children = [id \in 0..MaxId |-> <<>>]
  BY DEF TreeInit
<1>5. DOMAIN byID = {} /\ Len(order) = 0 /\ LinkedIds = {}
  <2>1. DOMAIN byID = {} /\ Len(order) = 0
    BY <1>4
  <2> QED
    BY <2>1 DEF LinkedIds
<1>6. IndexInv
  <2>1. ListOf(order, DOMAIN byID)
    BY <1>4, <1>5, ListEmpty
  <2>2. \A k \in 1..Len(spans) : ~(k <= Looked)
    <3>1. CASE spans = <<>>
      BY <3>1
    <3>2. CASE spans # <<>>
      BY <1>2, <1>4, <3>2 DEF TreeInit, Looked
    <3> QED
      BY <3>1, <3>2
  <2> QED
    BY <1>5, <2>1, <2>2 DEF IndexInv
<1>7. LinkInv
  <2>1. \A S : S = {} => ListOf(<<>>, S)
    BY ListEmpty
  <2>2. ListOf(roots, {id \in LinkedIds : ~HasParent(id)})
    BY <1>4, <1>5, <2>1
  <2>3. ASSUME NEW p \in 0..MaxId
        PROVE  ListOf(children[p], {id \in LinkedIds : HasParent(id) /\ First(id).parent = p})
    <3>1. {id \in LinkedIds : HasParent(id) /\ First(id).parent = p} = {}
      BY <1>5
    <3> QED
      BY <1>4, <2>1, <3>1
  <2> QED
    BY <1>4, <2>2, <2>3 DEF LinkInv
<1>8. SortInv
  <2>1. Len(roots) = 0 /\ \A p \in 0..MaxId : Len(children[p]) = 0
    BY <1>4
  <2> QED
    BY <2>1 DEF SortInv
<1> QED
  BY <1>3, <1>6, <1>7, <1>8 DEF TreeInv

\* A span is indexed, or skipped as a duplicate.
LEMMA IndexSpanKeeps == ASSUME TreeInv, IndexSpan PROVE TreeInv'
<1>t. InputInv /\ IndexInv /\ LinkInv /\ SortInv
  BY DEF TreeInv
<1> DEFINE s == spans[pos]
<1>1. /\ phase = "index" /\ pos <= Len(spans) /\ pos' = pos + 1
      /\ UNCHANGED <<spans, phase, children, roots>>
  BY DEF IndexSpan
<1>2. /\ pos \in 1..Len(spans) /\ s \in Span /\ Len(spans) \in Nat
      /\ Looked = pos - 1 /\ Looked' = pos
  BY <1>t, <1>1 DEF InputInv, Looked
<1>3. InputInv'
  BY <1>t, <1>1 DEF InputInv
<1>4. /\ Ids' = Ids
      /\ \A id : First(id)' = First(id) /\ HasParent(id)' = HasParent(id)
  BY <1>1, SpansKept
<1>5. LinkInv' /\ SortInv'
  <2>1. LinkedIds = {} /\ LinkedIds' = {}
    BY <1>1 DEF LinkedIds, Linked
  <2>2. /\ {id \in LinkedIds : ~HasParent(id)}' = {id \in LinkedIds : ~HasParent(id)}
        /\ \A p : {id \in LinkedIds : HasParent(id) /\ First(id).parent = p}'
                    = {id \in LinkedIds : HasParent(id) /\ First(id).parent = p}
    BY <2>1
  <2> QED
    BY <1>t, <1>1, <2>2 DEF LinkInv, SortInv
<1>6. CASE s.id \in DOMAIN byID
  <2>1. UNCHANGED <<byID, order>>
    BY <1>6 DEF IndexSpan
  <2>2. \A k \in 1..Len(spans) : k <= pos => spans[k].id \in DOMAIN byID
    <3> SUFFICES ASSUME NEW k \in 1..Len(spans), k <= pos PROVE spans[k].id \in DOMAIN byID
      OBVIOUS
    <3>1. CASE k = pos
      BY <1>6, <3>1
    <3>2. CASE k # pos
      BY <1>t, <1>2, <3>2 DEF IndexInv
    <3> QED
      BY <3>1, <3>2
  <2>3. IndexInv'
    BY <1>t, <1>1, <1>2, <1>4, <2>1, <2>2 DEF IndexInv
  <2> QED
    BY <1>3, <1>5, <2>3 DEF TreeInv
<1>7. CASE s.id \notin DOMAIN byID
  <2>1. /\ byID' = [id \in DOMAIN byID \union {s.id} |-> IF id = s.id THEN s ELSE byID[id]]
        /\ order' = Append(order, s.id)
    BY <1>7 DEF IndexSpan
  <2>2. DOMAIN byID' = DOMAIN byID \union {s.id}
    BY <2>1
  <2>3. ListOf(order', DOMAIN byID')
    BY <1>t, <1>7, <2>1, <2>2, ListAppend DEF IndexInv
  <2>4. \A k \in 1..Len(spans) : k <= pos => spans[k].id \in DOMAIN byID'
    <3> SUFFICES ASSUME NEW k \in 1..Len(spans), k <= pos PROVE spans[k].id \in DOMAIN byID'
      OBVIOUS
    <3>1. CASE k = pos
      BY <2>2, <3>1
    <3>2. CASE k # pos
      BY <1>t, <1>2, <2>2, <3>2 DEF IndexInv
    <3> QED
      BY <3>1, <3>2
  <2>5. First(s.id) = s
    <3>1. \A j \in 1..(pos - 1) : spans[j].id # s.id
      BY <1>t, <1>2, <1>7 DEF IndexInv
    <3> QED
      BY <1>2, <3>1, FirstOf
  <2>6. ASSUME NEW id \in DOMAIN byID'
        PROVE  id \in Ids /\ byID'[id] = First(id) /\ First(id) \in Span /\ First(id).id = id
    <3>1. CASE id = s.id
      <4>1. id \in Ids
        BY <1>2, <3>1 DEF Ids
      <4> QED
        BY <1>2, <2>1, <2>5, <3>1, <4>1
    <3>2. CASE id # s.id
      BY <1>t, <2>1, <2>2, <3>2 DEF IndexInv
    <3> QED
      BY <3>1, <3>2
  <2>7. IndexInv'
    BY <1>1, <1>2, <1>4, <2>3, <2>4, <2>6 DEF IndexInv
  <2> QED
    BY <1>3, <1>5, <2>7 DEF TreeInv
<1> QED
  BY <1>6, <1>7

\* The loop over the input ends.
LEMMA IndexedKeeps == ASSUME TreeInv, Indexed PROVE TreeInv'
<1>t. InputInv /\ IndexInv /\ LinkInv /\ SortInv
  BY DEF TreeInv
<1>1. /\ phase = "index" /\ pos > Len(spans) /\ phase' = "link" /\ pos' = 1
      /\ UNCHANGED <<spans, byID, order, children, roots>>
  BY DEF Indexed
<1>2. InputInv'
  BY <1>t, <1>1 DEF InputInv
<1>3. /\ Ids' = Ids
      /\ \A id : First(id)' = First(id) /\ HasParent(id)' = HasParent(id)
  BY <1>1, SpansKept
<1>4. \A k \in 1..Len(spans) : k <= Looked /\ k <= Looked'
  BY <1>t, <1>1 DEF InputInv, Looked
<1>5. IndexInv'
  BY <1>t, <1>1, <1>3, <1>4 DEF IndexInv
<1>6. LinkInv'
  <2>1. LinkedIds = {} /\ LinkedIds' = {}
    BY <1>1 DEF LinkedIds, Linked
  <2>2. /\ {id \in LinkedIds : ~HasParent(id)}' = {id \in LinkedIds : ~HasParent(id)}
        /\ \A p : {id \in LinkedIds : HasParent(id) /\ First(id).parent = p}'
                    = {id \in LinkedIds : HasParent(id) /\ First(id).parent = p}
    BY <2>1
  <2> QED
    BY <1>t, <1>1, <2>2 DEF LinkInv
<1>7. SortInv'
  BY <1>1 DEF SortInv
<1> QED
  BY <1>2, <1>5, <1>6, <1>7 DEF TreeInv

\* A span is linked: to its parent, or among the roots.
LEMMA LinkSpanKeeps == ASSUME TreeInv, LinkSpan PROVE TreeInv'
<1>t. InputInv /\ IndexInv /\ LinkInv /\ SortInv
  BY DEF TreeInv
<1> DEFINE x == order[pos]
<1>1. /\ phase = "link" /\ pos <= Len(order) /\ pos' = pos + 1
      /\ UNCHANGED <<spans, phase, byID, order>>
  BY DEF LinkSpan
<1>2. /\ pos \in 1..Len(order) /\ Len(order) \in Nat /\ x \in DOMAIN byID
      /\ \A j, k \in 1..Len(order) : order[j] = order[k] => j = k
  BY <1>t, <1>1 DEF InputInv, IndexInv, ListOf, IsSequence
<1>3. byID[x] = First(x) /\ First(x) \in Span /\ First(x).id = x /\ x \in Ids
  BY <1>t, <1>2 DEF IndexInv
<1>4. DOMAIN byID = Ids
  BY <1>1, IndexComplete
<1>5. InputInv'
  BY <1>t, <1>1 DEF InputInv
<1>6. /\ Ids' = Ids
      /\ \A id : First(id)' = First(id) /\ HasParent(id)' = HasParent(id)
  BY <1>1, SpansKept
<1>7. IndexInv' /\ SortInv'
  <2>1. Looked' = Looked
    BY <1>1 DEF Looked
  <2> QED
    BY <1>t, <1>1, <1>6, <2>1 DEF IndexInv, SortInv
<1>8. LinkedIds' = LinkedIds \union {x} /\ x \notin LinkedIds
  <2>1. Linked = pos - 1 /\ Linked' = pos
    BY <1>t, <1>1 DEF Linked, InputInv
  <2>2. x \notin LinkedIds
    BY <1>2, <2>1 DEF LinkedIds
  <2>3. \A j \in 1..Len(order) : j <= pos <=> j <= pos - 1 \/ j = pos
    BY <1>2
  <2>4. LinkedIds' = {order[k] : k \in {j \in 1..Len(order) : j <= pos}}
    BY <1>1, <2>1 DEF LinkedIds
  <2>5. LinkedIds = {order[k] : k \in {j \in 1..Len(order) : j <= pos - 1}}
    BY <2>1 DEF LinkedIds
  <2> QED
    BY <1>2, <2>2, <2>3, <2>4, <2>5
<1> DEFINE R == {id \in LinkedIds : ~HasParent(id)}
           K(p) == {id \in LinkedIds : HasParent(id) /\ First(id).parent = p}
<1>9. /\ R' = {id \in LinkedIds \union {x} : ~HasParent(id)}
      /\ \A p \in 0..MaxId :
            K(p)' = {id \in LinkedIds \union {x} : HasParent(id) /\ First(id).parent = p}
  BY <1>6, <1>8
<1>10. /\ ListOf(roots, R) /\ DOMAIN children = 0..MaxId
       /\ \A p \in 0..MaxId : ListOf(children[p], K(p))
  BY <1>t DEF LinkInv
<1>11. CASE HasParent(x)
  <2> DEFINE q == First(x).parent
  <2>1. q \in 0..MaxId
    BY <1>3 DEF Span
  <2>2. children' = [children EXCEPT ![q] = Append(children[q], x)] /\ roots' = roots
    BY <1>3, <1>4, <1>11 DEF LinkSpan, HasParent
  <2>3. R' = R
    BY <1>9, <1>11
  <2>4. ASSUME NEW p \in 0..MaxId PROVE ListOf(children'[p], K(p)')
    <3>1. CASE p = q
      <4>1. K(p)' = K(p) \union {x} /\ x \notin K(p)
        BY <1>8, <1>9, <1>11, <3>1
      <4>2. children'[p] = Append(children[p], x)
        BY <1>10, <2>1, <2>2, <3>1
      <4>3. \A T : T = K(p) \union {x} => ListOf(Append(children[p], x), T)
        BY <1>10, <4>1, ListAppend
      <4> QED
        BY <4>1, <4>2, <4>3
    <3>2. CASE p # q
      <4>1. K(p)' = K(p)
        BY <1>9, <3>2
      <4>2. children'[p] = children[p]
        BY <1>10, <2>2, <3>2
      <4> QED
        BY <1>10, <4>1, <4>2
    <3> QED
      BY <3>1, <3>2
  <2>5. DOMAIN children' = 0..MaxId
    BY <1>10, <2>2
  <2>6. LinkInv'
    BY <1>10, <2>2, <2>3, <2>4, <2>5 DEF LinkInv
  <2> QED
    BY <1>5, <1>7, <2>6 DEF TreeInv
<1>12. CASE ~HasParent(x)
  <2>1. roots' = Append(roots, x) /\ children' = children
    BY <1>3, <1>4, <1>12 DEF LinkSpan, HasParent
  <2>2. R' = R \union {x} /\ x \notin R
    BY <1>8, <1>9, <1>12
  <2>3. \A p \in 0..MaxId : K(p)' = K(p)
    BY <1>9, <1>12
  <2>4. ListOf(roots', R')
    <3>1. \A T : T = R \union {x} => ListOf(Append(roots, x), T)
      BY <1>10, <2>2, ListAppend
    <3> QED
      BY <2>1, <2>2, <3>1
  <2>5. LinkInv'
    BY <1>10, <2>1, <2>3, <2>4 DEF LinkInv
  <2> QED
    BY <1>5, <1>7, <2>5 DEF TreeInv
<1> QED
  BY <1>11, <1>12

\* What sortNodes may return for a list.
LEMMA SortedNodes ==
    ASSUME NEW s, NEW S, ListOf(s, S), NEW t \in SortNodes(s)
    PROVE  /\ ListOf(t, S) /\ Len(t) = Len(s)
           /\ \A k \in 1..(Len(t) - 1) : ~Before(t[k + 1], t[k])
<1>1. PICK f \in Bijection(DOMAIN s, DOMAIN s) : t = [k \in DOMAIN s |-> s[f[k]]]
  BY DEF SortNodes
<1>2. ListOf(t, S) /\ Len(t) = Len(s)
  BY <1>1, ListArranged
<1>3. \A k \in 1..(Len(s) - 1) : ~Before(t[k + 1], t[k])
  BY DEF SortNodes
<1> QED
  BY <1>2, <1>3

\* Everything is sorted.
LEMMA SortAllKeeps == ASSUME TreeInv, SortAll PROVE TreeInv'
<1>t. InputInv /\ IndexInv /\ LinkInv /\ SortInv
  BY DEF TreeInv
<1>1. /\ phase = "link" /\ pos > Len(order) /\ phase' = "done"
      /\ roots' \in SortNodes(roots)
      /\ children' \in [0..MaxId -> UNION {SortNodes(children[id]) : id \in 0..MaxId}]
      /\ \A id \in 0..MaxId : children'[id] \in SortNodes(children[id])
      /\ UNCHANGED <<spans, pos, byID, order>>
  BY DEF SortAll
<1>2. InputInv'
  BY <1>t, <1>1 DEF InputInv
<1>3. /\ Ids' = Ids
      /\ \A id : First(id)' = First(id) /\ HasParent(id)' = HasParent(id)
  BY <1>1, SpansKept
<1>4. IndexInv'
  <2>1. Looked' = Looked
    BY <1>1 DEF Looked
  <2> QED
    BY <1>t, <1>1, <1>3, <2>1 DEF IndexInv
<1>5. LinkedIds' = LinkedIds
  <2>1. \A j \in 1..Len(order) : j <= Linked /\ j <= Linked'
    BY <1>t, <1>1 DEF Linked, InputInv, IndexInv, ListOf, IsSequence
  <2>2. LinkedIds = {order[k] : k \in 1..Len(order)}
    BY <2>1 DEF LinkedIds
  <2>3. LinkedIds' = {order[k] : k \in 1..Len(order)}
    BY <1>1, <2>1 DEF LinkedIds
  <2> QED
    BY <2>2, <2>3
<1> DEFINE R == {id \in LinkedIds : ~HasParent(id)}
           K(p) == {id \in LinkedIds : HasParent(id) /\ First(id).parent = p}
<1>6. R' = R /\ \A p \in 0..MaxId : K(p)' = K(p)
  BY <1>3, <1>5
<1>7. ListOf(roots, R) /\ \A p \in 0..MaxId : ListOf(children[p], K(p))
  BY <1>t DEF LinkInv
<1>8. PICK r, c : r = roots' /\ c = children'
  OBVIOUS
<1>9. /\ ListOf(r, R)
      /\ \A k \in 1..(Len(r) - 1) : ~Before(r[k + 1], r[k])
  <2> HIDE DEF R
  <2> QED
    BY <1>1, <1>7, <1>8, SortedNodes
<1>10. ASSUME NEW p \in 0..MaxId
       PROVE  /\ ListOf(c[p], K(p))
              /\ \A k \in 1..(Len(c[p]) - 1) : ~Before(c[p][k + 1], c[p][k])
  <2> HIDE DEF K
  <2> QED
    BY <1>1, <1>7, <1>8, SortedNodes
<1>11. LinkInv'
  <2>1. DOMAIN children' = 0..MaxId
    BY <1>1
  <2>2. ListOf(roots', R')
    BY <1>6, <1>8, <1>9
  <2>3. \A p \in 0..MaxId : ListOf(children'[p], K(p)')
    BY <1>6, <1>8, <1>10
  <2> QED
    BY <2>1, <2>2, <2>3 DEF LinkInv
<1>12. SortInv'
  <2>1. \A k \in 1..(Len(roots') - 1) : ~Before(roots[k + 1], roots[k])'
    BY <1>1, <1>8, <1>9 DEF Before
  <2>2. \A p \in 0..MaxId : \A k \in 1..(Len(children'[p]) - 1) :
           ~Before(children[p][k + 1], children[p][k])'
    BY <1>1, <1>8, <1>10 DEF Before
  <2> QED
    BY <2>1, <2>2 DEF SortInv
<1> QED
  BY <1>2, <1>4, <1>11, <1>12 DEF TreeInv

\* Every step keeps the invariant.
LEMMA TreeNextInv == TreeInv /\ [TreeNext]_treeVars => TreeInv'
<1> SUFFICES ASSUME TreeInv, [TreeNext]_treeVars PROVE TreeInv'
  OBVIOUS
<1>1. CASE UNCHANGED treeVars
  <2>1. InputInv'
    BY <1>1 DEF treeVars, TreeInv, InputInv
  <2>2. /\ Ids' = Ids
        /\ \A id : First(id)' = First(id) /\ HasParent(id)' = HasParent(id)
        /\ Looked' = Looked /\ LinkedIds' = LinkedIds
    BY <1>1, SpansKept DEF treeVars, Looked, LinkedIds, Linked
  <2>3. IndexInv' /\ LinkInv'
    BY <1>1, <2>2 DEF treeVars, TreeInv, IndexInv, LinkInv
  <2>4. SortInv'
    BY <1>1 DEF treeVars, TreeInv, SortInv, Before
  <2> QED
    BY <2>1, <2>2, <2>3, <2>4 DEF TreeInv
<1> QED
  BY <1>1, IndexSpanKeeps, IndexedKeeps, LinkSpanKeeps, SortAllKeeps DEF TreeNext, TreeDone

\* It holds of the specification.
LEMMA TreeInductive == TreeSpec => []TreeInv
BY TreeInitInv, TreeNextInv, PTL DEF TreeSpec

-----------------------------------------------------------------------------
(***************************************************************************)
(* TraceTree: the order of the forest.                                     *)
(***************************************************************************)

\* A list that is sorted by what the index holds is sorted by the first spans.
LEMMA SortedIsCanonical ==
    ASSUME TreeInv, NEW s, NEW S \in SUBSET Ids, DOMAIN byID = Ids, ListOf(s, S),
           \A k \in 1..(Len(s) - 1) : ~Before(s[k + 1], s[k])
    PROVE  SortedListOf(s, S)
<1>1. Len(s) = Cardinality(S) /\ Len(s) \in Nat
  BY ListLength DEF ListOf, IsSequence
<1>2. ASSUME NEW k \in 1..(Len(s) - 1)
      PROVE  \/ First(s[k]).start < First(s[k + 1]).start
             \/ First(s[k]).start = First(s[k + 1]).start /\ First(s[k]).id < First(s[k + 1]).id
  <2> DEFINE a == s[k]
             b == s[k + 1]
  <2>1. k \in 1..Len(s) /\ k + 1 \in 1..Len(s) /\ k # k + 1
    BY <1>1
  <2>2. a \in S /\ b \in S /\ a # b
    BY <2>1 DEF ListOf
  <2>3. /\ byID[a] = First(a) /\ First(a) \in Span /\ First(a).id = a
        /\ byID[b] = First(b) /\ First(b) \in Span /\ First(b).id = b
    BY <2>2 DEF TreeInv, IndexInv
  <2>4. ~(First(b).start < First(a).start \/ (First(b).start = First(a).start /\ b < a))
    BY <2>3 DEF Before
  <2>5. First(a).start \in Int /\ First(b).start \in Int /\ a \in Int /\ b \in Int
    BY <2>3 DEF Span
  <2> HIDE DEF a, b
  <2>6. First(a).start < First(b).start \/ (First(a).start = First(b).start /\ a < b)
    BY <2>2, <2>4, <2>5
  <2>7. \/ First(a).start < First(b).start
        \/ First(a).start = First(b).start /\ First(a).id < First(b).id
    BY <2>3, <2>6
  <2> QED
    BY <2>7 DEF a, b
<1> QED
  BY <1>1, <1>2 DEF SortedListOf, ListOf

\* In the end every id of the input is linked.
LEMMA AllLinked ==
    ASSUME TreeInv, phase = "done"
    PROVE  LinkedIds = Ids /\ DOMAIN byID = Ids
<1>1. DOMAIN byID = Ids
  BY IndexComplete
<1>2. LinkedIds = {order[k] : k \in 1..Len(order)}
  BY DEF LinkedIds, Linked, TreeInv, IndexInv, ListOf, IsSequence
<1> QED
  BY <1>1, <1>2 DEF TreeInv, IndexInv, ListOf

\* AssembleTrace returns the one forest that the first span of each id describes:
\* every id in one list, that of its parent or the roots, and every list sorted by
\* start time and id.
THEOREM ForestIsCanonicalHolds == TreeSpec => []ForestIsCanonical
<1>1. ASSUME TreeInv PROVE ForestIsCanonical
  <2> SUFFICES ASSUME phase = "done"
               PROVE  /\ \A id \in Ids : byID[id] = First(id)
                      /\ SortedListOf(roots, {id \in Ids : ~HasParent(id)})
                      /\ \A p \in 0..MaxId :
                           SortedListOf(children[p], {id \in Ids : HasParent(id) /\ First(id).parent = p})
    BY DEF ForestIsCanonical
  <2>1. LinkedIds = Ids /\ DOMAIN byID = Ids
    BY <1>1, AllLinked
  <2>2. \A s, S : /\ S \in SUBSET Ids /\ ListOf(s, S)
                  /\ \A k \in 1..(Len(s) - 1) : ~Before(s[k + 1], s[k])
                  => SortedListOf(s, S)
    BY <1>1, <2>1, SortedIsCanonical
  <2>3. SortedListOf(roots, {id \in Ids : ~HasParent(id)})
    BY <1>1, <2>1, <2>2 DEF TreeInv, LinkInv, SortInv
  <2>4. ASSUME NEW p \in 0..MaxId
        PROVE  SortedListOf(children[p], {id \in Ids : HasParent(id) /\ First(id).parent = p})
    <3> DEFINE K == {id \in Ids : HasParent(id) /\ First(id).parent = p}
    <3>1. K \in SUBSET Ids /\ ListOf(children[p], K)
      BY <1>1, <2>1 DEF TreeInv, LinkInv
    <3>2. \A k \in 1..(Len(children[p]) - 1) : ~Before(children[p][k + 1], children[p][k])
      BY <1>1 DEF TreeInv, SortInv
    <3> HIDE DEF K
    <3>3. SortedListOf(children[p], K)
      BY <2>2, <3>1, <3>2
    <3> QED
      BY <3>3 DEF K
  <2>5. \A id \in Ids : byID[id] = First(id)
    BY <1>1, <2>1 DEF TreeInv, IndexInv
  <2> QED
    BY <2>3, <2>4, <2>5
<1> QED
  BY <1>1, TreeInductive, PTL

-----------------------------------------------------------------------------
(***************************************************************************)
(* TraceTree: what is found below the roots.                               *)
(***************************************************************************)

\* A set that holds the spans without a parent and, with a span, those it is the
\* parent of.
Downward(S) ==
    /\ \A id \in Ids : ~HasParent(id) => id \in S
    /\ \A id \in Ids : HasParent(id) /\ First(id).parent \in S => id \in S

\* The ids are ids.
LEMMA IdsType == ASSUME TreeInv PROVE Ids \subseteq 0..MaxId /\ IsFiniteSet(Ids)
<1>1. Ids \subseteq 0..MaxId
  BY DEF TreeInv, InputInv, Ids, Span
<1>2. IsFiniteSet(0..MaxId)
  BY FS_Interval, TreeAssumption
<1> QED
  BY <1>1, <1>2, FS_Subset

\* Those are the sets that Reached intersects.
LEMMA DownwardSets ==
    ASSUME TreeInv, phase = "done", NEW S \in SUBSET (0..MaxId)
    PROVE  Downward(S) <=>
              /\ \A k \in 1..Len(roots) : roots[k] \in S
              /\ \A p \in S : \A k \in 1..Len(children[p]) : children[p][k] \in S
<1> DEFINE R == {id \in Ids : ~HasParent(id)}
           K(p) == {id \in Ids : HasParent(id) /\ First(id).parent = p}
<1>1. ListOf(roots, R) /\ \A p \in 0..MaxId : ListOf(children[p], K(p))
  BY AllLinked DEF TreeInv, LinkInv
<1>2. (\A k \in 1..Len(roots) : roots[k] \in S) <=> \A id \in Ids : ~HasParent(id) => id \in S
  BY <1>1 DEF ListOf
<1>3. ASSUME NEW p \in S
      PROVE  (\A k \in 1..Len(children[p]) : children[p][k] \in S) <=> \A id \in K(p) : id \in S
  BY <1>1 DEF ListOf
<1>4. (\A p \in S : \A id \in K(p) : id \in S)
         <=> \A id \in Ids : HasParent(id) /\ First(id).parent \in S => id \in S
  OBVIOUS
<1> HIDE DEF K
<1> QED
  BY <1>2, <1>3, <1>4 DEF Downward

\* Reached is the least of them.
LEMMA ReachedIsLeast ==
    ASSUME TreeInv, phase = "done"
    PROVE  /\ Reached \subseteq Ids /\ Downward(Reached)
           /\ \A S \in SUBSET Ids : Downward(S) => Reached \subseteq S
<1>1. Reached = {id \in 0..MaxId : \A S \in SUBSET (0..MaxId) : Downward(S) => id \in S}
  BY DownwardSets DEF Reached
<1>2. \A S \in SUBSET (0..MaxId) : Downward(S) => Reached \subseteq S
  BY <1>1
<1>3. Downward(Ids)
  BY DEF Downward
<1>4. Reached \subseteq Ids
  BY <1>2, <1>3, IdsType
<1>5. ASSUME NEW id \in Ids, ~HasParent(id) PROVE id \in Reached
  BY <1>1, <1>5, IdsType DEF Downward
<1>6. ASSUME NEW id \in Ids, HasParent(id), First(id).parent \in Reached PROVE id \in Reached
  <2>1. ASSUME NEW S \in SUBSET (0..MaxId), Downward(S) PROVE id \in S
    <3>1. First(id).parent \in S
      BY <1>2, <1>6, <2>1
    <3> QED
      BY <1>6, <2>1, <3>1 DEF Downward
  <2>2. id \in 0..MaxId
    BY IdsType
  <2> QED
    BY <1>1, <2>1, <2>2
<1>7. Downward(Reached)
  BY <1>5, <1>6 DEF Downward
<1> QED
  BY <1>2, <1>4, <1>7, IdsType

\* A span's lineage holds it and the parents of what it holds, and nothing else.
LEMMA LineageFacts ==
    ASSUME NEW id \in Ids
    PROVE  /\ id \in Lineage(id) /\ Lineage(id) \subseteq Ids /\ ParentsIn(Lineage(id))
           /\ \A S \in SUBSET Ids : id \in S /\ ParentsIn(S) => Lineage(id) \subseteq S
<1>1. id \in Lineage(id) /\ Lineage(id) \subseteq Ids
  BY DEF Lineage
<1>2. \A S \in SUBSET Ids : id \in S /\ ParentsIn(S) => Lineage(id) \subseteq S
  BY DEF Lineage
<1>3. ASSUME NEW a \in Lineage(id), HasParent(a) PROVE First(a).parent \in Lineage(id)
  <2>1. First(a).parent \in Ids
    BY <1>3 DEF HasParent
  <2>2. ASSUME NEW S \in SUBSET Ids, id \in S, ParentsIn(S) PROVE First(a).parent \in S
    <3>1. a \in S
      BY <1>2, <2>2
    <3> QED
      BY <1>3, <2>2, <3>1 DEF ParentsIn
  <2> QED
    BY <2>1, <2>2 DEF Lineage
<1> QED
  BY <1>1, <1>2, <1>3 DEF ParentsIn

\* What has a cycle above it is not found.
LEMMA BelowCycleIsLost ==
    ASSUME TreeInv, phase = "done", NEW id \in Ids, NEW a \in Lineage(id), Cyclic(a)
    PROVE  id \notin Reached
<1>1. PICK C \in SUBSET Ids : /\ a \in C /\ \A c \in C : HasParent(c)
                              /\ {First(c).parent : c \in C} = C
  BY DEF Cyclic
<1> DEFINE S == {x \in Ids : Lineage(x) \cap C = {}}
<1>2. ASSUME NEW x \in Ids, ~HasParent(x) PROVE x \in S
  <2>1. {x} \in SUBSET Ids /\ ParentsIn({x})
    BY <1>2 DEF ParentsIn
  <2>2. Lineage(x) \subseteq {x}
    BY <2>1, LineageFacts
  <2> QED
    BY <1>1, <1>2, <2>2
<1>3. ASSUME NEW x \in Ids, HasParent(x), First(x).parent \in S PROVE x \in S
  <2> DEFINE p == First(x).parent
             T == {x} \union Lineage(p)
  <2>1. p \in Ids
    BY <1>3 DEF HasParent
  <2>2. p \in Lineage(p) /\ Lineage(p) \subseteq Ids /\ ParentsIn(Lineage(p))
    BY <2>1, LineageFacts
  <2>3. T \in SUBSET Ids /\ x \in T /\ ParentsIn(T)
    BY <2>2 DEF ParentsIn
  <2>4. Lineage(x) \subseteq T
    BY <2>3, LineageFacts
  <2>5. Lineage(p) \cap C = {}
    BY <1>3
  <2>6. x \notin C
    BY <1>1, <2>2, <2>5
  <2> QED
    BY <2>4, <2>5, <2>6
<1>4. Downward(S)
  BY <1>2, <1>3 DEF Downward
<1>5. Reached \subseteq S
  <2>1. S \in SUBSET Ids
    OBVIOUS
  <2> HIDE DEF S
  <2> QED
    BY <1>4, <2>1, ReachedIsLeast
<1> QED
  BY <1>1, <1>5

\* A finite set of spans that all have their parents in it holds a cycle: the
\* smallest such set is one.
LEMMA EndlessLineageIsCyclic ==
    ASSUME IsFiniteSet(Ids), NEW D \in SUBSET Ids, D # {}, ParentsIn(D), \A d \in D : HasParent(d)
    PROVE  \E a \in D : Cyclic(a)
<1> DEFINE F == {X \in SUBSET D : X # {} /\ ParentsIn(X)}
           N == {Cardinality(X) : X \in F}
<1>1. \A X \in F : IsFiniteSet(X) /\ Cardinality(X) \in Nat
  BY FS_Subset, FS_CardinalityType
<1>2. N \in SUBSET Nat /\ N # {}
  <2>1. D \in F
    OBVIOUS
  <2> HIDE DEF F
  <2> QED
    BY <1>1, <2>1
<1>3. PICK n \in N : \A m \in N : n <= m
  <2> HIDE DEF N
  <2> QED
    BY <1>2, LeastNumber
<1>4. PICK C \in F : Cardinality(C) = n
  BY <1>3
<1> DEFINE P == {First(c).parent : c \in C}
<1>5. C \in SUBSET D /\ C # {} /\ ParentsIn(C) /\ \A c \in C : HasParent(c)
  OBVIOUS
<1>6. P \subseteq C /\ P # {}
  BY <1>5 DEF ParentsIn
<1>7. P \in F
  <2>1. ASSUME NEW x \in P PROVE First(x).parent \in P
    BY <1>6
  <2>2. ParentsIn(P)
    BY <2>1 DEF ParentsIn
  <2> QED
    BY <1>5, <1>6, <2>2
<1>8. Cardinality(C) <= Cardinality(P) /\ Cardinality(P) <= Cardinality(C)
  <2>1. Cardinality(P) \in N
    <3> HIDE DEF F, P
    <3> QED
      BY <1>7
  <2>2. IsFiniteSet(C)
    BY <1>1
  <2>3. Cardinality(P) <= Cardinality(C)
    <3> HIDE DEF P
    <3> QED
      BY <1>6, <2>2, FS_Subset
  <2> QED
    BY <1>3, <1>4, <2>1, <2>3
<1>9. P = C
  <2>1. Cardinality(C) \in Nat /\ Cardinality(P) \in Nat /\ IsFiniteSet(C)
    <3> HIDE DEF F, P
    <3> QED
      BY <1>1, <1>7
  <2> HIDE DEF P
  <2>2. Cardinality(C) = Cardinality(P)
    BY <1>8, <2>1
  <2> QED
    BY <1>6, <2>1, <2>2, FS_Subset
<1>10. \A c \in C : Cyclic(c)
  BY <1>5, <1>9 DEF Cyclic
<1> QED
  BY <1>5, <1>10

\* What is not found has a cycle above it.
LEMMA LostIsBelowCycle ==
    ASSUME TreeInv, phase = "done", NEW id \in Ids, id \notin Reached
    PROVE  \E a \in Lineage(id) : Cyclic(a)
<1> DEFINE U == Ids \ Reached
<1>1. \A u \in U : HasParent(u) /\ First(u).parent \in U
  <2>1. ASSUME NEW u \in U PROVE HasParent(u) /\ First(u).parent \in U
    <3>1. HasParent(u)
      BY ReachedIsLeast DEF Downward
    <3>2. First(u).parent \in Ids
      BY <3>1 DEF HasParent
    <3>3. First(u).parent \notin Reached
      BY <3>1, ReachedIsLeast DEF Downward
    <3> QED
      BY <3>1, <3>2, <3>3
  <2> QED
    BY <2>1
<1>2. U \in SUBSET Ids /\ id \in U /\ ParentsIn(U)
  BY <1>1 DEF ParentsIn
<1>3. /\ Lineage(id) \subseteq U /\ id \in Lineage(id) /\ Lineage(id) \subseteq Ids
      /\ ParentsIn(Lineage(id))
  <2> HIDE DEF U
  <2> QED
    BY <1>2, LineageFacts
<1>4. \A d \in Lineage(id) : HasParent(d)
  BY <1>1, <1>3
<1> HIDE DEF U
<1> QED
  BY <1>3, <1>4, IdsType, EndlessLineageIsCyclic

\* AssembleTrace loses a span only when its chain of parents runs into a cycle,
\* and it loses every such span: orphans, duplicates and a trace without a root
\* span cost nothing else.
THEOREM OnlyCyclesAreDroppedHolds == TreeSpec => []OnlyCyclesAreDropped
<1>1. ASSUME TreeInv PROVE OnlyCyclesAreDropped
  <2> SUFFICES ASSUME phase = "done"
               PROVE  Reached = {id \in Ids : ~\E a \in Lineage(id) : Cyclic(a)}
    BY DEF OnlyCyclesAreDropped
  <2>1. Reached \subseteq Ids
    BY <1>1, ReachedIsLeast
  <2>2. \A id \in Ids : id \in Reached <=> ~\E a \in Lineage(id) : Cyclic(a)
    BY <1>1, BelowCycleIsLost, LostIsBelowCycle
  <2> QED
    BY <2>1, <2>2
<1> QED
  BY <1>1, TreeInductive, PTL
=============================================================================
