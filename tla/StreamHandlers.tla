--------------------------- MODULE StreamHandlers ---------------------------
(***************************************************************************)
(* The control of the stream handlers of rust/src/lib.rs: for every stream *)
(* op the ordered stages its async handler runs through.  What a handler   *)
(* computes (the wire struct, the query builder, the Arrow columns) is     *)
(* abstracted to the stage that can fail because of it; the order of the   *)
(* stages is what StreamQuery's properties depend on.                      *)
(*                                                                         *)
(*   decode     from_utf8 / serde_json::from_slice of the payload          *)
(*   lookup     lookup_db: clone the Arc of the addressed Db               *)
(*   build      a fallible builder: build_log_query, a translator, a hex   *)
(*              id, fetch bounds, a page cursor                            *)
(*   run        an awaited engine call that may fail                       *)
(*   pack       RecordBatch::try_new over the collected columns            *)
(*   meta       store_page_meta                                            *)
(*   scan       pull the engine's lazy stream, export and send each item   *)
(*   stream     stream_batches over a collected Vec of any length          *)
(*   streamOne  stream_batches over vec![batch]                            *)
(*                                                                         *)
(* Consecutive builders touch no shared state, so they are one stage.      *)
(* `split_stream_req` cannot fail here: openStream always frames 16 bytes. *)
(***************************************************************************)
EXTENDS Sequences

sql_stream_handler == <<"decode", "lookup", "run", "scan">>

query_logs_handler == <<"decode", "lookup", "build", "run", "stream">>

\* Mutant: the page's metadata is not stored.
PageWithoutMeta == <<"decode", "lookup", "build", "run", "stream">>

\* "build" covers the query and the resume cursor; the metadata is stored
\* before the first row is streamed.
query_log_page_handler ==
    <<"decode", "lookup", "build", "run", "meta", "stream">>

query_metrics_handler == <<"decode", "lookup", "run", "stream">>

query_span_metrics_handler == <<"decode", "lookup", "run", "stream">>

metric_instant_handler == <<"decode", "lookup", "run", "pack", "streamOne">>

\* The first "run" is promql_context, which reads the metric catalog.
promql_handler == <<"decode", "lookup", "run", "build", "run", "streamOne">>

\* LogQL has two result shapes; the query text decides which one runs.
logql_lines_handler == <<"decode", "lookup", "build", "run", "stream">>

logql_series_handler == <<"decode", "lookup", "build", "run", "streamOne">>

traceql_handler == <<"decode", "lookup", "build", "run", "streamOne">>

get_trace_handler == <<"decode", "lookup", "build", "run", "stream">>

metric_points_handler == <<"decode", "lookup", "run", "stream">>

attr_names_handler == <<"lookup", "run", "pack", "streamOne">>

attr_values_handler == <<"decode", "lookup", "run", "pack", "streamOne">>

metric_catalog_handler == <<"lookup", "run", "pack", "streamOne">>

metric_series_handler == <<"decode", "lookup", "run", "pack", "streamOne">>

metric_exemplars_handler == <<"decode", "lookup", "run", "pack", "streamOne">>

log_volume_handler ==
    <<"decode", "lookup", "build", "run", "pack", "streamOne">>

trace_search_handler == <<"decode", "lookup", "run", "pack", "streamOne">>

-----------------------------------------------------------------------------

\* The op table that imbhgo_init registers with sable (LogQL appears once per
\* result shape).
Program ==
    [ OP_SQL                |-> sql_stream_handler,
      OP_QUERY_LOGS         |-> query_logs_handler,
      OP_LOG_PAGE           |-> query_log_page_handler,
      OP_QUERY_METRICS      |-> query_metrics_handler,
      OP_QUERY_SPAN_METRICS |-> query_span_metrics_handler,
      OP_METRIC_INSTANT     |-> metric_instant_handler,
      OP_PROMQL             |-> promql_handler,
      OP_LOGQL_LINES        |-> logql_lines_handler,
      OP_LOGQL_SERIES       |-> logql_series_handler,
      OP_TRACEQL            |-> traceql_handler,
      OP_GET_TRACE          |-> get_trace_handler,
      OP_METRIC_POINTS      |-> metric_points_handler,
      OP_ATTR_NAMES         |-> attr_names_handler,
      OP_ATTR_VALUES        |-> attr_values_handler,
      OP_METRIC_CATALOG     |-> metric_catalog_handler,
      OP_METRIC_SERIES      |-> metric_series_handler,
      OP_METRIC_EXEMPLARS   |-> metric_exemplars_handler,
      OP_LOG_VOLUME         |-> log_volume_handler,
      OP_TRACE_SEARCH       |-> trace_search_handler ]

StreamOps == DOMAIN Program

\* Stages at which the handler may give up with an error of its own.
FallibleStages == {"decode", "build", "run", "pack"}

\* Stages that deliver batches: always the last one of a program.
EagerLoops == {"stream", "streamOne"}
LoopStages == EagerLoops \cup {"scan"}

Stages == FallibleStages \cup LoopStages \cup {"lookup", "meta"}
=============================================================================
