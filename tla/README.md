# A TLA+ verification of imbh-go

imbh-go embeds the Rust telemetry database IMBH in a Go process. A Go call
crosses into Rust through *sable*, a library that runs a tokio runtime on Go's
scheduler; results come back as Arrow record batches whose buffers are not
copied. This directory models that crossing, what is built on top of it (typed
queries and results, paging, following a log, traces) and the tool that fetches
the native library; it model-checks them with TLC and proves with TLAPS, for
every value of the constants, all of the safety properties that TLC checks on
small instances. Paths below are relative to the repository.

## 1. Inventory

| component | state | operations | with whom |
|---|---|---|---|
| Result streams, `db.go` | `Rows`: cursor, query id, ctx, `ended`, `err`; `queryCtr` | `openStream`, `Next`, `finish`, `Close`, `Err` | channel, slots, import |
| Stream handlers, `rust/src/lib.rs` | one task per stream: request, `Arc<Db>`, engine stream or collected `Vec`, sender | the 18 handlers that `imbhgo_init` registers as stream ops | registry, engine, slots, channel |
| Batch handoff, `rust/src/lib.rs`, `db.go` | `FfiBatch` shells, `LIVE_BATCHES`, owner of the Arrow buffers | `export_batch`, `imbhgo_shell_free`, `imbhgo_batch_release`, import, `Release` | handler, channel, `Rows` |
| Out-of-band slots | `QUERY_ERRORS`, `PAGE_META` (id -> bytes) | `store_query_error`, `store_page_meta`, `store_open_error`, and the two take ops | handler stores, Go takes |
| Paged log query, `logpage.go` | opaque cursor, page metadata | `QueryLogPage`, `fetchLogPageMeta`, `HasMore` | a stream and `PAGE_META` |
| Log following, `query.go`, `README.md` | the caller's watermark | the poll loop over `ObservedAfter` and `OrderBy` | `QueryLogs` |
| Admission, `ingest.go` | in-flight gauge, cap | `SetMaxInFlight`, refusals of `openStream` and `TryIngest*` | sable |
| Db registry, `db.go`, `admin.go`, `rust/src/lib.rs` | `DBS` (id -> `Arc<Db>`), `DB_CTR` | `Open*`, `build_db`, `lookup_db`, `imbhgo_close` | every handler |
| Byte-call ops, `ingest.go`, `ops.go`, `admin.go` | none of their own | ingest, flush, stats, maintain, compact, snapshot, segments, export, count | registry, engine |
| Query wire, `query.go` and the builders of `lib.rs` | none | Go struct -> JSON -> engine query; time ranges, limits, severities | handlers |
| Decoders, `results.go`, `lgtm.go`, `discovery.go`, `traces_search.go` | none | batches -> typed Go slices; series grouping | `Rows` |
| Trace tree, `trace_tree.go` | none | `AssembleTrace` | decoded spans |
| Fetch tool, `cmd/imbhgo-fetch` | cache directory: library and checksum sidecar | download, verify, decompress, rename, sidecar, emit | file system |

What is hard here:

* **Two runtimes, one batch.** A shell is owned in turn by the handler, the
  channel and `Next`, and freed by one of two functions. `Close` may run at any
  point of the handler's send. Correct means: each shell is freed exactly once,
  and the buffers reach an owner that releases them.
* **No error channel.** The stream carries batches only. A failure goes into
  `QUERY_ERRORS` while the end of the stream goes through the channel. Correct
  means: the end never overtakes the error or a batch.
* **Readers that leave.** Cancellation stops the reader, not the handler. It
  keeps its `Arc<Db>` and may store into a slot that was already taken.
* **One gauge.** Streams are admission-controlled, slot calls are not, both
  count.
* **Handles that are closed under running calls.** Opens, queries and byte
  calls share one id counter, one error map and one registry. Correct means: an
  error reaches the call it belongs to, a handle never means another database,
  an engine lives exactly as long as something uses it.
* **Cursors and watermarks over a store that moves.** Rows arrive, expire and
  share instants between two pages or polls, and a page may fail half-way.
* **Names that two sides must spell alike.** JSON tags and column names are
  matched at run time and an unknown one is silently ignored.
* **Memory behind decoded values.** Strings read from a batch are views of it.
* **A cache of two files.** The fetch tool renames the archive and then writes
  its checksum; runs overlap, fail and die in between.

PROJECT.json lists each of these as a hazard at its line, with the property
that covers it or the reason none does.

## 2. Modules

    StreamHandlers      the stages of each stream handler (pure)
         |
    StreamQuery         Rows + channel + handler + slots + registry + memory
         |        \
         |         ResultStream      what a stream promises its caller
         |
    StreamQueryProofs   what the caller is told, shells, errors, the refinement
         |
    StreamResourceProofs    the gauge, LIVE_BATCHES, buffers, page metadata

| module | models | TLC | TLAPS |
|---|---|---|---|
| StreamQuery | see above | MCStreamQuery | StreamQueryProofs, StreamResourceProofs |
| DbCalls | opens, queries, byte calls, closes | MCDbCalls | DbCallsProofs |
| QueryWire | typed query -> engine query | MCClient, itself | QueryWireProofs |
| LogPaging | a walk through the pages | MCClient, itself | LogPagingProofs |
| LogFollow | the follow loop | MCClient | LogFollowProofs |
| ResultDecoding | batches -> Go values | MCClient | TypedResultsProofs |
| SeriesGrouping, TraceTree | label series, `AssembleTrace` | MCClient, TraceTree itself | TypedResultsProofs |
| LibraryFetch | the fetch tool's files | MCFetchTool, MCLibraryFetch | FetchToolProofs |
| EnvLine | the fetch tool's output | MCFetchTool | FetchToolProofs |

**StreamHandlers** gives every stream op the ordered list of the stages of its
async handler: `decode`, `lookup`, `build`, `run`, `pack`, `meta`, and a last
stage that delivers batches (`scan` for SQL's lazy stream, `stream` for a
collected `Vec`, `streamOne` for a single batch). `Program` is the table that
`imbhgo_init` registers; LogQL has one entry per result shape. What a stage
computes is abstracted to "succeeds or fails".

**StreamQuery** is the composition. Its variables and what they stand for:

| variables | code |
|---|---|
| `go`, `ptr`, `importErr`, `outcome`, `got` | a goroutine inside `Next`, `finish`, `Close`; the handle it works on; `r.err`/`r.ended`; the batches returned so far |
| `ctx`, `page` | the query's context; what `fetchLogPageMeta` returned |
| `op`, `db` | the request frame |
| `chan`, `rx`, `inflight` | sable: the bounded channel, its receiver, the gauge (external) |
| `task`, `stage`, `size`, `produced`, `verdict` | the handler's future: state, stage, batches it has, batches exported, how its body ended |
| `errs`, `metas` | keys of `QUERY_ERRORS`, `PAGE_META` |
| `dbs`, `pins` | keys of `DBS`; handlers holding an `Arc` |
| `frees`, `bufs`, `live` | `Box::from_raw` calls per shell; owner of its buffers; `LIVE_BATCHES` |

An action ends where another thread can see or change something: at a channel
operation, a lock of a slot map, a cgo call, or the issue and the return of a
byte call. `finish` is therefore three steps (issue the take, take, close the
cursor), as is `Close` (close the cursor, issue the take, take). A handler
drops its locals (the `Arc`, the engine stream) before its parameter `tx`, which
is why `HandlerUnpin` precedes `HandlerDropTx`. `Next` and `Close` after the
end return at once; they are stuttering steps.

From sable the model takes what the code in this repository relies on: opening
a stream is refused at the cap and holds a slot until `Close`; a byte call is
never refused but is counted; `NextCtx` gives up its pull when the context is
cancelled and leaves the channel alone; `Close` drops the receiver and every
buffered handle, whose drop runs `imbhgo_batch_release`; the handler is not
aborted and notices at its next send (`db.go`, comment at `Close`). From
arrow-go: an import moves the buffers into the record, or fails before or after
taking them.

**ResultStream** is the promise: the engine makes batches and ends; the caller
is given a growing prefix and then one verdict. `clean` and `query` need the
whole of what was made; `ctx`, `import` and `abandoned` allow any prefix.

**DbCalls** is everything else that crosses: each member of `Calls` is one
goroutine's call, which is an open, a query, an ingest, a flush, an admin op, a
count or a close. `go` and `task` are its Go side and its Rust task; `errId`,
`queryCtr`, `errs` the ids and `QUERY_ERRORS`; `failed` the calls whose cause
was stored; `dbCtr`, `dbs` are `DB_CTR` and the keys of `DBS`; `pin` the `Arc` a
task holds, so that `live`, the engines not yet dropped, changes with the last
reference (`Drop`), as does the writer `lock` of its path (external).

A query is there with all that it shares with the others, without its batches:
`BeginQuery` draws an id, also when the cursor is refused; the handler looks its
handle up, holds its `Arc`, may store an error at any time (`QueryFails`), whether
or not it still has a reader, and gives the `Arc` up before its sender goes
(`HandlerReturns`). The reader sees the end (`QueryEnds`), gives up before it
(`QueryGivesUp`: cancelled, or an import failed) or closes early
(`AbandonQuery`); the call that takes the slot is a step of its own, counted by
the gauge while it runs (`Claim`, `TakeStoredError`). Byte ops are grouped by
shape; `TryIngest` is refused at the cap, the others never. `Replies` has the
reply that `decodeReceipt` rejects. `CtxDone` is `CountLogs` whose context ends:
the caller leaves, the task stays.

**QueryWire** carries a typed query through its four forms: the Go struct
(`SetField`), the JSON with `omitempty` (`Send`), the Rust struct with defaults,
the builder calls (`Receive`). The field names of both sides are written out
from their sources, since that they agree is the point. Numbers are themselves,
for the guards (`> 0` for some fields, `!= 0` for others) and the casts
(`severity_at_least as u8`) tell them apart; the value of a text is whether it is
empty or, where it is parsed, which of its names it is or none. `built` records
the calls of one argument and the range apart.

**LogPaging** walks: `QueryPage` evaluates the query at the cursor and decides
the next cursor, `PageReturns` and `PageFails` are the two ends of
`QueryLogPage`, between which rows arrive (`IngestRow`) and the oldest expire. Rows
are distinct event times; the place of a row in the result is its `Rank`, the
number of rows before it. **LogFollow** is the documented loop: `Poll` asks for
rows above the watermark in arrival order (what a first page is, is said by
`IsFirstPage`, not computed), `Handle` takes one entry and raises the watermark.
Rows may share an instant and may have none (0, which is also the watermark's
start).

**ResultDecoding** has the schema that each handler sends and the columns, with
their readers, that each of the thirteen decoders asks for. A cell is a token
that says where it is from; a decoded value says which batch its bytes belong
to, if it is not a copy. `ExportRecords` is the same loop over the IPC reader.
**SeriesGrouping** is the loop that both `QueryMetricsTyped` and
`decodeLabeledSeries` run, with the key strings spelt as sequences of
characters; `Written` is what a `strings.Builder` holds after some writes.
**TraceTree** is `AssembleTrace` as its loops: index, link, sort. `sort.Slice` is
not stable, so `SortNodes` is the set of the arrangements it may leave. A span is
`Reached` when it is in every set that holds the roots and the children of its
members; its `Lineage` is the least set with it and the parents of its members.

**LibraryFetch** interleaves runs of the tool at every file operation, with
damaged downloads, a failure of every operation, and `Kill`. The names of
`internal/release` and the manifest parser are operators. **EnvLine** renders
the environment line for a directory, and then the shell and cmd/go (external)
read it back character by character: one step operator each (`PosixStep`,
`PowerShellStep`, `FieldStep`), run over a text by `Scan`.

**MCClient** and **MCFetchTool** put modules that share no state into one
instance: a behaviour is one of theirs, the others rest.

## 3. What TLC checks

| run | instance | shows |
|---|---|---|
| `one_stream` | 1 stream, 6 ops that cover all handler shapes, up to 3 batches, channel of 2, cap 1, 1 Db, `FairSpec` | the safety properties of StreamQuery, `EndIsFinal`, `KeepsPromise` (refinement), `ParkedNextReturns`, `StreamsComeToRest` |
| `stream_pair` | 2 symmetric SQL streams, 1 batch, cap 1 | `AdmissionGauge` |
| `db_calls` | 3 symmetric calls, a database open at the start or none, 1 path, cap 1 | `CauseReachesItsCaller`, `OnlyEarlyLeaversStrandCauses`, `HandlesAreNotReused`, `EngineLivesWhileUsed`, `OneWriterPerPath`, `CapBoundsAdmitted` |
| `db_calls_progress` | 2 calls, every op, no cap, `FairSpec` | `ClosedEngineIsDropped` |
| `client`: decoding | 2 batches of 2 rows for every decoder | `NothingDangles`, `ReferencesBalance`, `DecodesEveryCell` |
| `client`: series | 3 samples, 2 label keys, values "", "a", "aa" and NUL | `OneSeriesPerLabelSet` |
| `client`: trace tree | all traces of up to 3 spans | `OnlyCyclesAreDropped`, `ForestIsCanonical` |
| `client`: wire | every query with up to 3 fields set, numbers -1, 1, 2, 3, 257 | `SetFieldsAreApplied`, `WindowIsAsAsked` |
| `client`: walk | limits 0 to 3, 4 rows, 2 expire, 1 failure | `WalkIsExact`, `ShiftsAreBounded`, `WalkEnds` |
| `client`: follow | 4 rows, 3 instants, polls of 2 | `OnlyTiesAreMissed`, `TimedRowsAreNotReplayed`, `FollowCatchesUp` |
| `fetch` | 3 symmetric runs, 4 kinds of request; all directory names of up to 3 characters | `InstalledIsVerified`, `EmitsAskedArchive`, `SidecarComesLast`, `NoTempLeftBehind`, `DirectoryIsOneArgument` |
| `page_meta_leak`, `fetch_shared_dest`, `query_open_end`, `trace_cycle`, `trace_order`, `page_no_limit` | | expected violations, section 5 |

*Bounds.* Streams share only the gauge and the handle registry, so one stream
suffices for everything but admission; there two streams and a cap of one make
an open stream, a refused one and a slot call meet. Three batches with a channel
of two let the channel be full while the handler holds one more batch and `Next`
another. `MaxBatches` also ends the lazy SQL scan. Query ids are interchangeable,
hence the symmetry set, which is not used for liveness.

Three calls beside a database that is already open let a path be closed and
opened again while a call or a query still runs on the old engine; a cap of one
makes `TryIngest` and a query meet a full gauge, and each other's slot calls.
`db_calls` has one byte op of each kind that matters to its properties (blocking,
refusable, cancellable); `db_calls_progress` has all. Three runs of the fetch tool are one that died, one that overlaps with a
third, and the third; requests differ in libc, `-dest` and `-force`. Four rows
and limits up to three give walks of one to five pages, full and short last
ones. Three characters are the least that hold a blank and two quotes. Three
spans have every shape of duplicate, orphan, self-parent and 2- or 3-cycle.
`MaxFailures`, `MaxExpired`, `MaxRows`, `MaxClock` and the other `Max...`
constants only bound the exploration. 257 is the least number that a byte takes
for another positive one. Deadlock is checked in every run.

*Properties.* `NoDoubleFree`, `NothingLeaksAtRest` and `BuffersAccountedFor` are
about memory (the last one states the one exception the code has: buffers of a
batch whose import fails before the importer took them). `DeliveredInOrder`,
`EndOfStreamIsTruthful` and `EndIsFinal` are about what the caller is told.
`OnlyAbandonedStrandErrors` and `CleanPageHasMeta` are about the slots: it is
the window documented at `Rows.Close` and no wider. `DrainedHoldsNoDb` is about
the handle.

`CauseReachesItsCaller` and `OnlyEarlyLeaversStrandCauses` are about one map that
all opens and queries share, the latter about what stays in it: the entries of
queries that were left before their end, the window documented at `Rows.Close`,
and no others. `HandlesAreNotReused`, `EngineLivesWhileUsed` and `OneWriterPerPath`
are about `Close` at any moment; `CapBoundsAdmitted` about one gauge that cursors,
byte calls and slot calls share, of which only some can be refused.

Where the code gives less than the plain wish, the property states the exact
exception: `WalkIsExact` holds while nothing moves behind the cursor and
`ShiftsAreBounded` says what moving rows cost; `OnlyTiesAreMissed` allows the loss
of a row that shares its instant with a delivered one (`ObservedAfter` is strict);
`TimedRowsAreNotReplayed` leaves out rows without an observed time, which every
poll delivers again while the watermark is 0; `DirectoryIsOneArgument` excepts
directories with both a blank and an apostrophe, which cmd/go cannot have quoted;
`OneSeriesPerLabelSet` allows that labels with a NUL, which ends each part of both
key strings and is not escaped, are joined with others; `SetFieldsAreApplied`
names the severities that wrap and the points kinds that become a gauge. Four
exceptions contradict a comment of the code and have a run of their own (section
5): walks without a limit, spans below a parent cycle, duplicate spans, and
ranges with one end.

Each property has a mutant of the code that violates it.

*Fairness.* `FairSpec` assumes that a handler that can move does (tokio runs
woken tasks and the engine answers), that a `Rows` method that was called runs
on, and that a caller who has a stream calls `Next` or `Close` again until it
ends, which is the documented contract of `Rows`. Nothing is assumed of
cancellation, `Release`, `DB.Close` or further streams. In DbCalls only the
tasks are fair (tokio runs them, the engine answers, and a handler that waits for
room is freed by its reader's `Next` or `Close`); no goroutine has to
come and call. In MCClient a walk's caller asks for the next page and a page that is
not broken off returns, failures being bounded by `MaxFailures`; and the follow
loop keeps polling and handles what it got.

## 4. What is proved

`StreamQueryProofs` proves, for every number of streams, channel capacity, cap
and number of batches (assumption: `StreamAssumption`, the capacity and the
batch bound are positive and the ops are registered ones):

* `TypeCorrect`, `NoDoubleFreeHolds`, `DeliveredInOrderHolds`,
  `EndOfStreamIsTruthfulHolds`, `OnlyAbandonedStrandErrorsHolds`,
  `DrainedHoldsNoDbHolds`: the invariants of the same names;
* `Refinement`: `Spec => KeepsPromise`.

None of these is inductive alone. `IInv` adds, per stream:

* `PhaseInv`: goroutine, receiver and task agree on how far the stream is;
* `QueueInv`: with *t* batches taken and *s* sent, an open channel is exactly
  `Span(t, s)`, so a handle is in one place only;
* `FreesInv`: the free count of each shell as a function of *t*, *s*, the handle
  in `Next` and whether the receiver is gone;
* `ErrorInv`: the slot is filled exactly between a failing body and the take;
* `EndInv`: a `Next` that ends without cancellation or import error has seen a
  handler that is gone and a drained channel.

Every action of stream *q* is shown to keep *q*'s part and to be invisible to
every other stream (`Preserved`, `Frame`), so the proof has one lemma per action
and no induction over streams. `SpanLaw` collects the sequence facts. For the
refinement, exporting a batch, the end of a handler's body, handing a record to
the caller and reporting the outcome are visible through the mapping, and the
invariant supplies the abstract guards; the rest stutter.

`FetchToolProofs` proves, for any number of runs, any set of requests and any
release (assumption: `FetchAssumption`, the manifest gives the digests of its
assets and no `-dest` points into the default cache), the type invariant and
`InstalledIsVerified`, `EmitsAskedArchive`, `SidecarComesLast` and
`NoTempLeftBehind`. Its invariant `IInv` says of each run what it has verified at
its place in `fetch` (`RunInv`); of each archive that a run asked for it in that
directory put it there (`Provenance`), which is what the later readers rely on
although they never look at the archive's bytes; and of each sidecar that there
is an archive (`SidecarInv`). Archives are replaced and never removed, so what a
run has seen of a directory stays true under the others (`OthersKeep`).
`ParseSumsIsOwn` is the lemma about the manifest parser; it rests on the
well-ordering of the positions of its lines. That default-cache directories
are never mixed is `DefaultCacheUnmixed`.

Its second half proves `DirectoryIsOneArgument` for directory names of any length.
`PosixReadsQuoted` and `PowerShellReadsQuoted` are for every text: after each
character of it the shell is inside the quotes and has read exactly the prefix so
far, and the replacement of an apostrophe (four characters, or two) leads back
there. `QuotedIsOneField` and `PlainIsOneWord` say the same of cmd/go's splitter,
and where the two need that there is no apostrophe, or no blank. The invariant
`EnvInv` only chains the three texts.

`StreamResourceProofs` continues StreamQueryProofs with what is counted over all
streams or crosses from one part of a stream to another: `AdmissionGaugeHolds`,
`NothingLeaksAtRestHolds`, `BuffersAccountedForHolds`, `CleanPageHasMetaHolds` and
the action property `EndIsFinalHolds`. Each has an invariant of its own that is
inductive together with `IInv`:

* `GaugeInv`: the gauge is the number of open receivers plus the number of slot
  calls, both finite sets;
* `LiveInv`: `LIVE_BATCHES` is the number of `Shells`, the batches exported and
  not freed. `Close` drops a whole channel at once, so `BufferedBatches` gives the
  number of shells that a step frees;
* `BufferAt`: the owner of a batch's buffers, by whether the batch was delivered, is
  in `Next`, was lost in an import, is buffered or is still with the handler;
* `PageInv`: a page's metadata is in the slot from its stage until Go fetches it.

`Queries` need not be finite: the counted sets start empty and each step changes
them by finitely many elements.

`DbCallsProofs` proves, for any finite set of calls, any paths and any cap
(`CallsAssumption`), `TypeCorrect` and the six invariants of the run `db_calls`.
`IInv` adds, per call, what its place in Go says of its request and its answer
(`PlaceInv`), what its task may still do and which engine it holds (`TaskInv`), and
what its slot holds for it (`AnswerInv`: a cause is in the slot from the time it is
stored until a caller that waits for it takes it, and otherwise only if its caller
has left); and over all calls `SlotInv` (ids are drawn once: no two calls share
one), `HandleInv` (the same for `dbCtr` and the opens that succeeded), `EngineInv`
(a live writer has its path's lock) and `GaugeInv`. Each action changes one call's
place and task, so the gauge and the admitted calls change by what that call adds to
each of their sets (`CountOther`, `GaugeKept`); that the counters stay within their
type is the counting argument that a call draws at most one id. `OneWriterPerPath`
follows from the lock, `HandlesAreNotReused` from the counter. `Calls` is finite so
that these counts are numbers.

`LogFollowProofs` proves `OnlyTiesAreMissed` and `TimedRowsAreNotReplayed` for any
limit and any bound on rows and instants. The work is in `PolledInv`: what is left
of a poll has each row once, none of them delivered before, and in front of each
entry every older row above the watermark. So when an entry raises the watermark
to its instant, every row it passes was delivered or shares that instant, also
when the page was cut at its limit or rows arrived meanwhile (`ClockInv`: they
are not older than any row that is there).

`TypedResultsProofs` is about what becomes of a result.

*ResultDecoding*, for results of any size (`DecodingAssumption`): `NothingDangles`,
`ReferencesBalance` and `DecodesEveryCell`. `TypedInv`: a decoding loop holds one
reference to the batch in hand and none to any other, and what it decoded is copied;
this goes through the readers of all thirteen decoders. `ExportInv`: an export holds
one reference per record it has appended and the IPC reader one more to the record it
stands on. `EveryDecoderMatches` goes through the thirteen tables: each column that a
handler sends is read, by a reader that knows its type. The place of a row in the
output is the number of rows in the batches before its own plus its position in that
one, counted by `CountStep`; `RowsInv` says that what was decoded so far is there.

*SeriesGrouping*, for label keys and values of any characters and any number of
samples (`LabelAssumption`): `OneSeriesPerLabelSet`. That rows are grouped by their key
needs nothing of the key string: `GroupedByKey` says that each series has exactly the
rows with the key of its labels, in order, and `SeriesInv` adds that the index and the
series name each other (`KeysInv`), so that a key which is not indexed is one that no
row had (`FreshRow`) and one which is belongs to its series (`KnownRow`). The heart is
that the key strings tell label sets without a NUL apart (`KeyOfInjective`,
`SeriesKeyInjective`). `LastWord` is the reason: of two equal strings that are each an
ended part, a label and a NUL, a shorter label would make the longer one hold a NUL;
so the last label, and what is before it, is the same in both. `seriesKey` writes only
the keys that a row has, so `LastPair` finds the last pair written before the comparison
goes one pair down.

*TraceTree*, for any spans (`TreeAssumption`): `ForestIsCanonical` and
`OnlyCyclesAreDropped`. `TreeInv` says which span the index holds of each id (`IndexInv`),
that each id linked so far is in exactly the list it belongs to, once (`LinkInv`), and that
the lists are sorted in the end (`SortInv`). Ids are distinct, so the order is total and the
sorted list unique, whatever the sort does with it. For the second: the spans that are
not below a cycle are closed under children, which gives one direction
(`BelowCycleIsLost`); for the other, a span that is lost has only ancestors that have
parents, and a finite set of spans whose parents are all in it holds a cycle
(`EndlessLineageIsCyclic`: the smallest such set is one).

`QueryWireProofs` proves `SetFieldsAreApplied` and `WindowIsAsAsked` for queries that
set any number of fields to any integers. `WireIsFields` says that the Go and the Rust
struct of each kind have the same fields, `RoundTrip` that leaving out zeros and
defaulting to zeros is the identity on queries, and `BuildFacts`, kind by kind, which
calls a builder makes and with which arguments: only the severity and the two texts
with a default arm are not passed on as they are.

`LogPagingProofs` proves `WalkIsExact` and `ShiftsAreBounded` for any number of rows,
any limits and any number of failures (`PagingAssumption`). For the first, a row
that arrives either follows everything handed out, which leaves the ranks alone, or
precedes some of it. Then `Lag` holds: some undelivered row has a rank below the
cursor, so no later page will hold it and the walk stays overtaken. Rows may go on
arriving before that row and push its rank up; then the newcomer is the witness.
`PageLag` is the same for the page under way, whose rows count only when it returns.
Otherwise `Exact` and `PageExact` give every entry its rank, and the end follows by
counting: rows of different rank are different (`RankedSequence`). It is for walks with
a limit: without one the last page may be cut (section 5). For the second,
`Shift` relates four sets for a walk that has handed out *k* entries: an arrival
raises ranks by one, so at most one row handed out comes up again, and a drop
lowers them by one, so at most one row is passed over (`ArrivalShifts`,
`DropShifts`, `PageShifts`). It is kept twice, with and without the page under way,
since that may still fail.

Every inductive invariant was checked with TLC as an invariant of a small instance
before it was proved.

*Induction.* The library's induction theorems take a predicate as a parameter, which
the provers cannot instantiate. Where a loop over data is proved for every length, the
predicate is given as a set: `Upto` says that a set which holds a number up to *n*
whenever it holds the smaller ones holds them all, and follows from the
well-foundedness of `<`. That a loop's recursive function exists at all is proved the same
way (`WrittenIsWritten`, `ScanIsScanned`, `ReplacedIsReplaced`).

Only model-checked: liveness (`ParkedNextReturns`, `StreamsComeToRest`,
`ClosedEngineIsDropped`, `WalkEnds`, `FollowCatchesUp`), since fairness is out of the
prover's reach; and the six expected violations.

## 5. Findings

*PAGE_META can leak.* `logpage.go` and `ARCHITECTURE.md` say that `PAGE_META`
never leaks because Go always fetches the slot. Run `page_meta_leak`: the
context is cancelled while the engine still works on the page; `Next` ends,
`finish` closes the cursor, `fetchLogPageMeta` finds nothing; then the engine
answers and the handler stores an entry under an id nobody will ask for again.
It is the page-metadata twin of the window that `Rows.Close` documents for
`QUERY_ERRORS`.

*One `-dest` for two versions.* Run `fetch_shared_dest`: a run that dies between
its rename and its sidecar leaves the new archive beside the old checksum. A
later run for the old version finds the checksum it expects, calls the archive
up to date and prints flags for the wrong library. The default cache has one
directory per version and cell and is not affected (`EmitsAskedArchive`).

*A range with one end.* `query.go` says that 0 means unset. Run
`query_open_end`: with only `Start` set the builders ask for `[Start, 0)`, which
is empty; with only `End` set they ask for `[0, End)`, which is what was meant.

*Spans on a cycle.* `trace_tree.go` says that no span is ever dropped. Run
`trace_cycle`: a span that names itself as its parent is attached under itself and
is no root, so it is in no tree that is returned. `OnlyCyclesAreDropped` says
that nothing else is lost.

*Duplicate spans.* `trace_tree.go` says that the output is stable regardless of
the input order. Run `trace_order`: of two different spans with one id the first
is kept, so the forest depends on which comes first. `ForestIsCanonical` says that
it depends on nothing else of the order.

*Pages without a limit.* `logpage.go` says that a page without a cursor is the
last. Run `page_no_limit`: with `Limit` 0 the page is cut at the engine's default
limit and the handler makes no cursor, so the rows behind it are never found.
`WalkIsExact` says that a walk with a limit gets them all.

The other exceptions listed under *Properties* in section 3 are smaller limits of
the same kind.

## 6. What is left

Every invariant and action property that a passing run checks is a theorem; the
liveness properties stay with TLC. Two hazards have no property: a LogQL result read by
the decoder of the other shape (`lgtm.go`), where the engine decides what is sent; and
an ingest whose reply is too short to decode, which the caller sees as failed although
the records are in the engine, whose content DbCalls does not model. The value columns
of the two series decoders are not in ResultDecoding.

## 7. Not modelled

The IMBH engine, sable and arrow-go are outside the repository and appear only
as this code uses them; so do the shells, cmd/go and the file system. Link
directives, version constants and the counters' accessors have no behaviour;
the quickstart example calls modelled operations one after the other. Of the
fetch tool, flag parsing and the HTTP client's details are left out. The LGTM
requests (PromQL, LogQL, TraceQL) pass a query text through unchanged. The
wording of errors is left out; where a conversion can fail, the failure is a
stage.
