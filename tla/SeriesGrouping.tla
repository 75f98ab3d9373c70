--------------------------- MODULE SeriesGrouping ---------------------------
(***************************************************************************)
(* How labelled samples become series. Rows come one sample each, with the *)
(* labels repeated; a string key made of the labels decides which series a *)
(* row joins. Two paths: QueryMetricsTyped (results.go) keys by the values *)
(* of the group-by columns, decodeLabeledSeries (lgtm.go) by the sorted    *)
(* key/value pairs of a label map. A string is a sequence of characters.   *)
(***************************************************************************)
EXTENDS Integers, Sequences

CONSTANTS
    Letters,      \* the characters labels are made of
    GroupBy,      \* the label keys, in order; the order in which they sort too
    Values,       \* label values: strings
    MaxSamples    \* bound on the samples of a result

Nul       == "NUL"
NullLabel == <<"null">>     \* a group column's null

ASSUME LabelAssumption ==
    /\ NullLabel \notin Values
    /\ GroupBy \in Seq(Seq(Letters))
    /\ \A i, j \in 1..Len(GroupBy) : GroupBy[i] = GroupBy[j] => i = j
    /\ Values \subseteq Seq(Letters)
    /\ MaxSamples \in Nat

VARIABLES
    path,     \* which of the two decoders
    rows,     \* the labels of each row so far (a function from keys to values)
    index,    \* key string -> position of its series
    series    \* [labels, points]: points are the rows' positions

seriesVars == <<path, rows, index, series>>

Keys == {GroupBy[i] : i \in 1..Len(GroupBy)}

\* mapStringAt gives a map of the row's pairs; stringAt reads a null as "".
LabelsOf(row) == [k \in DOMAIN row |-> IF row[k] = NullLabel THEN <<>> ELSE row[k]]

\* What a strings.Builder holds after these writes.
Written(parts) ==
    LET b[i \in 0..Len(parts)] == IF i = 0 THEN <<>> ELSE b[i - 1] \o parts[i]
    IN  b[Len(parts)]

UnterminatedKeyOf(labels) ==                                \* mutant
    Written([i \in 1..Len(GroupBy) |-> labels[GroupBy[i]]])

\* labelsAt: v NUL, for every group-by key.
KeyOf(labels) == Written([i \in 1..Len(GroupBy) |-> labels[GroupBy[i]] \o <<Nul>>])

\* seriesKey: k NUL v NUL, for the keys that the row has, sorted.
SeriesKey(labels) ==
    Written([i \in 1..Len(GroupBy) |->
        IF GroupBy[i] \in DOMAIN labels
        THEN GroupBy[i] \o <<Nul>> \o labels[GroupBy[i]] \o <<Nul>> ELSE <<>>])

RowKey(p, labels) == IF p = "groupBy" THEN KeyOf(labels) ELSE SeriesKey(labels)

\* The rows a path can be sent: every key or some of them.
RowsOf(p) ==
    IF p = "groupBy" THEN [Keys -> Values \union {NullLabel}]
    ELSE UNION {[ks -> Values] : ks \in SUBSET Keys}

SeriesInit ==
    /\ path \in {"groupBy", "labels"}
    /\ rows = <<>>
    /\ index = <<>>
    /\ series = <<>>

\* The loop body of both decoders.
AddRow ==
    /\ Len(rows) < MaxSamples
    /\ \E row \in RowsOf(path) :
         LET labels == LabelsOf(row)
             key    == RowKey(path, labels)
             n      == Len(rows) + 1
             fresh  == key \notin DOMAIN index
             si     == IF fresh THEN Len(series) + 1 ELSE index[key]
         IN  /\ rows' = Append(rows, row)
             /\ index' = [k \in DOMAIN index \union {key} |-> IF k = key THEN si ELSE index[k]]
             /\ series' = IF fresh THEN Append(series, [labels |-> labels, points |-> <<n>>])
                          ELSE [series EXCEPT ![si].points = Append(@, n)]
    /\ UNCHANGED path

\* The rows are drained: a result may end after any row.
SeriesDone == UNCHANGED seriesVars

SeriesNext == AddRow \/ SeriesDone

SeriesSpec == SeriesInit /\ [][SeriesNext]_seriesVars

-----------------------------------------------------------------------------
(* Properties *)

Samples(s) == {series[s].points[k] : k \in 1..Len(series[s].points)}

NulFree(string) == \A i \in 1..Len(string) : string[i] # Nul

\* Labels without the NUL that ends a part of a key. Neither path escapes it.
Plain(labels) == \A k \in DOMAIN labels : NulFree(k) /\ NulFree(labels[k])

\* Every row is in one series, at its place, and the series come in the order of
\* their first rows, whose labels they have. Rows with the same labels are in the
\* same series, and rows with different labels are not, unless the labels of one
\* of them hold a NUL: such labels may be lost in another series.
OneSeriesPerLabelSet ==
    /\ \A i \in 1..Len(rows) : \E s \in 1..Len(series) : i \in Samples(s)
    /\ \A s \in 1..Len(series) :
         /\ Len(series[s].points) >= 1 /\ Samples(s) \subseteq 1..Len(rows)
         /\ series[s].labels = LabelsOf(rows[series[s].points[1]])
         /\ \A k \in 1..(Len(series[s].points) - 1) : series[s].points[k] < series[s].points[k + 1]
    /\ \A s, t \in 1..Len(series) : s < t => series[s].points[1] < series[t].points[1]
    /\ \A s, t \in 1..Len(series) : \A i \in Samples(s), j \in Samples(t) :
         LET a == LabelsOf(rows[i])
             b == LabelsOf(rows[j])
         IN  /\ a = b => s = t
             /\ s = t /\ Plain(a) /\ Plain(b) => a = b
=============================================================================
