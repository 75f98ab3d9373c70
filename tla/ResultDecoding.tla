--------------------------- MODULE ResultDecoding ---------------------------
(***************************************************************************)
(* The typed entry points: a result stream is drained batch by batch into  *)
(* Go values (results.go, discovery.go, lgtm.go, query.go,                 *)
(* traces_search.go), and an Arrow-IPC export into retained batches        *)
(* (ops.go). What Rows itself does is StreamQuery's subject; here a stream *)
(* brings some batches and then ends well or badly.                        *)
(*                                                                         *)
(* A cell holds a token that says where it comes from, so that a decoded   *)
(* value shows which cell was read. A decoded value also says which batch  *)
(* its bytes belong to, 0 if it is a copy.                                 *)
(***************************************************************************)
EXTENDS Integers, Sequences, FiniteSets

CONSTANTS
    MaxBatches,   \* bound on the batches of a result
    MaxRows       \* bound on the rows of a batch

ASSUME DecodingAssumption == MaxBatches \in Nat /\ MaxRows \in Nat

VARIABLES
    query,     \* the entry point called
    result,    \* the batches: sequences of rows, a row being [nulls |-> BOOLEAN]
    next,      \* batches taken so far
    rec,       \* the batch in hand, 0 if none
    row,       \* rows of it decoded
    out,       \* the decoded rows, or the exported batches
    refs,      \* batch -> reference count
    verdict,   \* how the loop ended
    returned   \* the deferred Close or Release has run

vars == <<query, result, next, rec, row, out, refs, verdict, returned>>

-----------------------------------------------------------------------------
(* What the Rust side sends: column -> [type, nullable]. *)

Col(type)  == [type |-> type, nullable |-> FALSE]
Null(type) == [type |-> type, nullable |-> TRUE]

\* imbh's own projections (external).
LogsSchema == [time |-> Col("Timestamp"), observed_time |-> Null("Timestamp"),
    service |-> Null("Dictionary"), severity_number |-> Null("UInt8"),
    severity_text |-> Null("Utf8"), body |-> Null("Utf8"), attributes |-> Col("Utf8"),
    trace_id |-> Null("FixedSizeBinary"), span_id |-> Null("FixedSizeBinary")]
SpansSchema == [trace_id |-> Col("FixedSizeBinary"), span_id |-> Col("FixedSizeBinary"),
    parent_span_id |-> Null("FixedSizeBinary"), name |-> Col("Utf8"), kind |-> Null("Dictionary"),
    start_time |-> Col("Timestamp"), duration_ns |-> Col("Int64"),
    status_code |-> Null("Dictionary"), status_message |-> Null("Utf8"),
    service |-> Null("Dictionary"), attributes |-> Col("Utf8")]
PointsSchema == [point_time |-> Col("Timestamp"), metric |-> Col("Dictionary"),
    service |-> Null("Dictionary"), attributes |-> Col("Utf8"), value |-> Null("Float64")]
RedSchema == [bucket |-> Col("Timestamp"), g0 |-> Null("Utf8"), calls |-> Col("Int64"),
    errors |-> Col("Int64"), p50 |-> Null("Float64"), p95 |-> Null("Float64"), p99 |-> Null("Float64")]
TraceQLSchema == [trace_id |-> Col("Utf8View"), span_ids |-> Null("List")]

\* Batches the handlers build (rust/src/lib.rs).
series_batch   == [labels |-> Col("Utf8"), timestamp |-> Col("Int64"), value |-> Col("Float64")]
utf8_batch(c)  == [x \in {c} |-> Col("Utf8")]
catalog_batch  == [metric |-> Col("Utf8"), unit |-> Col("Utf8"), temporality |-> Null("Utf8"),
    kind |-> Col("Utf8")]
exemplar_batch == [time |-> Col("Int64"), value |-> Col("Float64"), trace_id |-> Null("Utf8"),
    span_id |-> Null("Utf8"), attributes |-> Col("Utf8")]
volume_batch   == [bucket_time |-> Col("Int64"), labels |-> Col("Utf8"), count |-> Col("Int64")]
search_batch   == [trace_id |-> Col("Utf8"), root_service |-> Null("Utf8"), root_name |-> Null("Utf8"),
    start_time |-> Col("Int64"), duration_ns |-> Col("Int64"), span_count |-> Col("Int64"),
    error |-> Col("Boolean")]

-----------------------------------------------------------------------------
(* Readers. A cell is [type, null, token, batch]; a column that is not in   *)
(* the batch gives Missing. *)

Zero       == <<"zero">>
Missing    == [type |-> "none", null |-> TRUE, token |-> Zero, batch |-> 0]
Copied(v)  == [value |-> v, alias |-> 0]
Shared(cell) == [value |-> cell.token, alias |-> cell.batch]

\* A cell of a type the reader's type switch has a case for, or the zero value.
Read(cell, types) == Copied(IF cell.null \/ cell.type \notin types THEN Zero ELSE cell.token)

AliasingStringAt(cell) ==                                   \* mutant
    IF cell.null \/ cell.type \notin {"Utf8", "LargeUtf8", "Utf8View", "Dictionary"}
    THEN Copied(Zero) ELSE Shared(cell)

\* strings.Clone: what arrow-go returns is a view of the batch's buffer.
StringAt(cell)     == Read(cell, {"Utf8", "LargeUtf8", "Utf8View", "Dictionary"})
StringListAt(cell) == Read(cell, {"List"})     \* elements by stringFromArray, cloned too
Int64At(cell)      == Read(cell, {"Int64", "Timestamp", "UInt8", "UInt32", "UInt64"})
BoolAt(cell)       == Read(cell, {"Boolean"})
BytesAt(cell)      == Read(cell, {"FixedSizeBinary", "Binary"})
Float64At(cell)    == Read(cell, {"Float64", "Float32", "Int64", "UInt64"})

ReadAs(reader, cell) ==
    CASE reader = "string"  -> StringAt(cell)
      [] reader = "strings" -> StringListAt(cell)
      [] reader = "int64"   -> Int64At(cell)
      [] reader = "bool"    -> BoolAt(cell)
      [] reader = "bytes"   -> BytesAt(cell)
      [] reader = "float64" -> Float64At(cell)

-----------------------------------------------------------------------------
(* Decoders: what each reads of a row. *)

Decoder(schema, int64s, strings, bytes, floats) ==
    [schema |-> schema,
     reads  |-> {<<c, "int64">> : c \in int64s} \union {<<c, "string">> : c \in strings}
                \union {<<c, "bytes">> : c \in bytes} \union {<<c, "float64">> : c \in floats}]

decodeLogEntries == Decoder(LogsSchema, {"time", "observed_time", "severity_number"},
    {"service", "severity_text", "body", "attributes"}, {"trace_id", "span_id"}, {})
QuerySpanMetricsTyped == Decoder(RedSchema, {"bucket", "calls", "errors"}, {"g0"}, {},
    {"p50", "p95", "p99"})
GetTraceSpans == Decoder(SpansSchema, {"start_time", "duration_ns"},
    {"name", "kind", "status_code", "status_message", "service", "attributes"},
    {"trace_id", "span_id", "parent_span_id"}, {})
QueryMetricPointsTyped == Decoder(PointsSchema, {"point_time"},
    {"metric", "service", "attributes"}, {}, {"value"})
MisnamedMetricInstant == Decoder(series_batch, {"ts"}, {"labels"}, {}, {"value"})  \* mutant
QueryMetricInstant == Decoder(series_batch, {"timestamp"}, {"labels"}, {}, {"value"})
AttrNames       == Decoder(utf8_batch("name"), {}, {"name"}, {}, {})
AttrValues      == Decoder(utf8_batch("value"), {}, {"value"}, {}, {})
MetricSeries    == Decoder(utf8_batch("labels"), {}, {"labels"}, {}, {})
MetricCatalog   == Decoder(catalog_batch, {}, {"metric", "unit", "temporality", "kind"}, {}, {})
MetricExemplars == Decoder(exemplar_batch, {"time"}, {"trace_id", "span_id", "attributes"}, {}, {"value"})
LogVolumeBy     == Decoder(volume_batch, {"bucket_time", "count"}, {"labels"}, {}, {})
decodeTraceMatches ==
    [schema |-> TraceQLSchema, reads |-> {<<"trace_id", "string">>, <<"span_ids", "strings">>}]
SearchTraces ==
    [schema |-> search_batch,
     reads  |-> {<<"error", "bool">>}
                \union {<<c, "string">> : c \in {"trace_id", "root_service", "root_name"}}
                \union {<<c, "int64">> : c \in {"start_time", "duration_ns", "span_count"}}]

Decoders == [logs |-> decodeLogEntries, red |-> QuerySpanMetricsTyped, trace |-> GetTraceSpans,
    points |-> QueryMetricPointsTyped, instant |-> QueryMetricInstant, names |-> AttrNames,
    values |-> AttrValues, series |-> MetricSeries, catalog |-> MetricCatalog,
    exemplars |-> MetricExemplars, volume |-> LogVolumeBy, matches |-> decodeTraceMatches,
    search |-> SearchTraces]

\* columnsByName, and a column's cell: null where the row has nulls and the
\* schema allows one.
Cell(schema, c, b, i) ==
    IF c \notin DOMAIN schema THEN Missing
    ELSE [type |-> schema[c].type, null |-> schema[c].nullable /\ result[b][i].nulls,
          token |-> <<b, i, c>>, batch |-> b]

DecodedRow(d, b, i) ==
    [c \in {f[1] : f \in d.reads} |->
        ReadAs((CHOOSE f \in d.reads : f[1] = c)[2], Cell(d.schema, c, b, i))]

-----------------------------------------------------------------------------
Rows == UNION {[1..n -> [nulls : BOOLEAN]] : n \in 0..MaxRows}

Init ==
    /\ query \in DOMAIN Decoders \union {"export"}
    /\ result \in UNION {[1..n -> Rows] : n \in 0..MaxBatches}
    /\ next = 0 /\ rec = 0 /\ row = 0
    /\ out = <<>>
    /\ refs = [b \in 1..MaxBatches |-> 0]
    /\ verdict = "none"
    /\ returned = FALSE

Typed == query # "export"
Running == verdict = "none"

\* rows.Next brings a batch, which the loop owns.
NextBatch ==
    /\ Typed /\ Running /\ rec = 0 /\ next < Len(result)
    /\ next' = next + 1 /\ rec' = next' /\ row' = 0
    /\ refs' = [refs EXCEPT ![next'] = 1]
    /\ UNCHANGED <<query, result, out, verdict, returned>>

DecodeRow ==
    /\ Typed /\ rec # 0 /\ row < Len(result[rec])
    /\ row' = row + 1
    /\ out' = Append(out, DecodedRow(Decoders[query], rec, row'))
    /\ UNCHANGED <<query, result, next, rec, refs, verdict, returned>>

SkippedRelease ==                                           \* mutant
    /\ Typed /\ rec # 0 /\ row = Len(result[rec])
    /\ rec' = 0
    /\ UNCHANGED <<query, result, next, row, out, refs, verdict, returned>>

Release ==
    /\ Typed /\ rec # 0 /\ row = Len(result[rec])
    /\ refs' = [refs EXCEPT ![rec] = @ - 1]
    /\ rec' = 0
    /\ UNCHANGED <<query, result, next, row, out, verdict, returned>>

\* rows.Next ends the loop: an error drops what was decoded.
EndOfRows ==
    /\ Typed /\ Running /\ rec = 0
    /\ \/ next = Len(result) /\ verdict' = "ok" /\ UNCHANGED out
       \/ verdict' = "error" /\ out' = <<>>
    /\ UNCHANGED <<query, result, next, rec, row, refs, returned>>

-----------------------------------------------------------------------------
(* ExportRecords. The IPC reader (external) owns the record it stands on   *)
(* and gives it up when it moves on or is released. *)

GiveUp(counts, b) == IF b = 0 THEN counts ELSE [counts EXCEPT ![b] = @ - 1]

\* r.Next, then Record and Retain.
ReaderNext ==
    /\ ~Typed /\ Running /\ next < Len(result)
    /\ next' = next + 1 /\ rec' = next'
    /\ refs' = [GiveUp(refs, rec) EXCEPT ![next'] = 2]
    /\ out' = Append(out, [batch |-> [value |-> next', alias |-> next']])
    /\ UNCHANGED <<query, result, row, verdict, returned>>

\* r.Err: an error releases what was collected.
ReaderEnd ==
    /\ ~Typed /\ Running
    /\ \/ next = Len(result) /\ verdict' = "ok" /\ UNCHANGED <<out, refs>>
       \/ /\ verdict' = "error" /\ out' = <<>>
          /\ refs' = [b \in DOMAIN refs |-> IF b <= Len(out) THEN refs[b] - 1 ELSE refs[b]]
    /\ UNCHANGED <<query, result, next, rec, row, returned>>

\* The deferred rows.Close, or r.Release.
Deferred ==
    /\ ~Running /\ ~returned
    /\ returned' = TRUE
    /\ refs' = IF Typed THEN refs ELSE GiveUp(refs, rec)
    /\ UNCHANGED <<query, result, next, rec, row, out, verdict>>

Done == returned /\ UNCHANGED vars

Next == NextBatch \/ DecodeRow \/ Release \/ EndOfRows \/ ReaderNext \/ ReaderEnd \/ Deferred \/ Done

Spec == Init /\ [][Next]_vars

-----------------------------------------------------------------------------
(* Properties *)

\* Whatever the caller has been given, or is about to be, does not point into
\* the buffers of a batch that is gone: strings and ids are copied out before
\* Release (stringAt, bytesAt), exported batches are retained.
NothingDangles ==
    \A i \in 1..Len(out) : \A f \in DOMAIN out[i] :
        out[i][f].alias # 0 => refs[out[i][f].alias] > 0

\* When an entry point returns, the batches it took are released, once each and
\* on the error paths too; an export keeps one reference for each batch that it
\* returns.
ReferencesBalance ==
    returned => \A b \in DOMAIN refs :
        refs[b] = IF ~Typed /\ verdict = "ok" /\ b <= Len(result) THEN 1 ELSE 0

\* The rows of the first n batches.
RowsOfFirst(n) == {p \in (1..n) \X (1..MaxRows) : p[2] <= Len(result[p[1]])}

\* A typed result that ended well holds every row of every batch in order, and
\* in every field the value of the column that the Rust side put it in, or the
\* zero value where that was null: the readers know the column names and types
\* that the handlers send.
DecodesEveryCell ==
    Typed /\ verdict = "ok" =>
        LET schema == Decoders[query].schema
        IN  /\ Len(out) = Cardinality(RowsOfFirst(Len(result)))
            /\ \A b \in 1..Len(result) : \A i \in 1..Len(result[b]) :
                 out[Cardinality(RowsOfFirst(b - 1)) + i] = [c \in DOMAIN schema |->
                     Copied(IF schema[c].nullable /\ result[b][i].nulls THEN Zero ELSE <<b, i, c>>)]
=============================================================================
