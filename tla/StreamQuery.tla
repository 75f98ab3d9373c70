----------------------------- MODULE StreamQuery -----------------------------
(***************************************************************************)
(* One streamed query of imbh-go, end to end, and several of them at once: *)
(*                                                                         *)
(*   Go        a goroutine driving a Rows (db.go): openStream, Next,       *)
(*             finish, Close; for a log page also fetchLogPageMeta         *)
(*             (logpage.go);                                               *)
(*   sable     (external) the bounded channel between the two runtimes,    *)
(*             the admission gauge and the byte-Call used to fetch slots;  *)
(*   Rust      one handler task per stream (rust/src/lib.rs), following    *)
(*             the stages of StreamHandlers, the QUERY_ERRORS and          *)
(*             PAGE_META slot maps, the DBS registry, the FfiBatch shells  *)
(*             and the LIVE_BATCHES counter.                               *)
(*                                                                         *)
(* A batch is named by its query and its position in the query's result.   *)
(* Query ids come from one process-wide counter, so a member of Queries is *)
(* used for one stream only.                                               *)
(***************************************************************************)
EXTENDS Integers, Sequences, FiniteSets, StreamHandlers

CONSTANTS
    Queries,      \* query ids handed out by queryCtr
    Ops,          \* the stream ops that clients use
    Dbs,          \* Db handle ids that were opened
    NoDb,         \* "no request framed yet"
    MaxBatches,   \* bound on the batches one query produces
    Buffer,       \* capacity of sable's stream channel
    MaxInFlight   \* SetMaxInFlight's cap; 0 = unbounded

ASSUME StreamAssumption ==
    /\ Ops \subseteq StreamOps
    /\ NoDb \notin Dbs
    /\ MaxBatches \in Nat \ {0}
    /\ Buffer \in Nat \ {0}
    /\ MaxInFlight \in Nat

VARIABLES
    \* Go side, per query
    go,        \* where the goroutine is inside the Rows methods
    ctx,       \* the query's context has been cancelled
    ptr,       \* the batch handle NextCtx returned, while Next works on it
    importErr, \* Next is finishing because the import failed
    outcome,   \* what Next / Close told the caller: r.err and r.ended
    got,       \* the batches handed to the caller, in order
    page,      \* what fetchLogPageMeta returned
    \* the request frame
    op, db,
    \* sable
    chan,      \* batches in the stream channel
    rx,        \* the receiving half: not there yet, open, dropped
    inflight,  \* the in-flight gauge: open streams plus running calls
    \* Rust side
    task,      \* the handler task
    stage,     \* index of its current stage
    size,      \* batches the engine has for it
    produced,  \* batches it exported
    verdict,   \* how its body ended
    errs,      \* keys of QUERY_ERRORS
    metas,     \* keys of PAGE_META
    dbs,       \* keys of DBS
    pins,      \* handlers that hold an Arc of their Db
    frees,     \* how often each shell was given to Box::from_raw
    bufs,      \* who owns each batch's Arrow buffers
    live       \* LIVE_BATCHES

rowsVars  == <<ctx, ptr, importErr, outcome, got, page>>  \* goVars but go
goVars    == <<go, rowsVars>>
reqVars   == <<op, db>>
sableVars == <<chan, rx, inflight>>
taskVars  == <<task, stage, size, produced, verdict>>
slotVars  == <<errs, metas>>
dbVars    == <<dbs, pins>>
memVars   == <<frees, bufs, live>>
rustVars  == <<taskVars, slotVars, dbVars, memVars>>
vars == <<goVars, reqVars, sableVars, rustVars>>

Batches == Queries \X (1..MaxBatches)

\* The consecutive positions after `lo` up to `hi`, as a sequence.
Span(lo, hi) == [i \in 1..(hi - lo) |-> lo + i]

-----------------------------------------------------------------------------
(***************************************************************************)
(* Types                                                                   *)
(***************************************************************************)
GoPc == {"new", "refused", "rows", "pulling", "importing", "imported",
         "importFailed", "finishing", "finishCalled", "closing", "abandoning",
         "abandonCalled", "metaFetch", "metaCalled", "ended"}

Outcomes == {"none", "clean", "query", "ctx", "import", "abandoned"}

\* Where the handler of a query is.
TaskPc == {"none", "running", "sending", "returning", "unpinned", "done"}

\* How its body ended.
Verdicts == {"none", "ok", "failed", "stopped"}

\* Who has the Arrow buffers of a batch.
Owners == {"none", "ffi", "record", "freed", "lost"}

\* A byte-Call of this query is running.
InCall == {"finishCalled", "abandonCalled", "metaCalled"}

TypeOK ==
    /\ go \in [Queries -> GoPc]
    /\ ctx \in [Queries -> BOOLEAN]
    /\ ptr \in [Queries -> 0..MaxBatches]
    /\ importErr \in SUBSET Queries
    /\ outcome \in [Queries -> Outcomes]
    /\ got \in [Queries -> Seq(1..MaxBatches)]
    /\ page \in [Queries -> {"none", "found", "empty"}]
    /\ op \in [Queries -> Ops \cup {"none"}]
    /\ db \in [Queries -> Dbs \cup {NoDb}]
    /\ chan \in [Queries -> Seq(1..MaxBatches)]
    /\ rx \in [Queries -> {"none", "open", "dropped"}]
    /\ inflight \in Int
    /\ task \in [Queries -> TaskPc]
    /\ stage \in [Queries -> Nat]
    /\ size \in [Queries -> 0..MaxBatches]
    /\ produced \in [Queries -> 0..MaxBatches]
    /\ verdict \in [Queries -> Verdicts]
    /\ errs \in SUBSET Queries
    /\ metas \in SUBSET Queries
    /\ dbs \in SUBSET Dbs
    /\ pins \in SUBSET Queries
    /\ frees \in [Batches -> Nat]
    /\ bufs \in [Batches -> Owners]
    /\ live \in Int

Init ==
    /\ go = [q \in Queries |-> "new"]
    /\ ctx = [q \in Queries |-> FALSE]
    /\ ptr = [q \in Queries |-> 0]
    /\ importErr = {}
    /\ outcome = [q \in Queries |-> "none"]
    /\ got = [q \in Queries |-> <<>>]
    /\ page = [q \in Queries |-> "none"]
    /\ op = [q \in Queries |-> "none"]
    /\ db = [q \in Queries |-> NoDb]
    /\ chan = [q \in Queries |-> <<>>]
    /\ rx = [q \in Queries |-> "none"]
    /\ inflight = 0
    /\ task = [q \in Queries |-> "none"]
    /\ stage = [q \in Queries |-> 0]
    /\ size = [q \in Queries |-> 0]
    /\ produced = [q \in Queries |-> 0]
    /\ verdict = [q \in Queries |-> "none"]
    /\ errs = {}
    /\ metas = {}
    /\ dbs = Dbs
    /\ pins = {}
    /\ frees = [b \in Batches |-> 0]
    /\ bufs = [b \in Batches |-> "none"]
    /\ live = 0

-----------------------------------------------------------------------------
(***************************************************************************)
(* The two-free protocol of a batch.                                       *)
(***************************************************************************)

\* Box::from_raw on every shell in `bs`; buffers still in one become `fate`.
DropShells(bs, fate) ==
    /\ frees' = [b \in Batches |-> IF b \in bs THEN frees[b] + 1 ELSE frees[b]]
    /\ bufs' = [b \in Batches |-> IF b \in bs /\ bufs[b] = "ffi"
                                  THEN fate ELSE bufs[b]]
    /\ live' = live - Cardinality(bs)

\* Mutant: the abandoned path forgets the structs as the taken path does.
BatchReleaseForgets(bs) == DropShells(bs, "lost")

\* Batches Go never took: full drop of the FfiBatch, buffers included.
imbhgo_batch_release(bs) == DropShells(bs, "freed")

\* A batch Go took: free the shell and forget the structs in it.  Buffers that
\* the import did not move out are lost.
imbhgo_shell_free(b) == DropShells({b}, "lost")

\* sable's Stream.Close (external): drop the receiver and every buffered handle,
\* give the admission slot back.
CloseStream(q) ==
    /\ rx' = [rx EXCEPT ![q] = "dropped"]
    /\ chan' = [chan EXCEPT ![q] = <<>>]
    /\ imbhgo_batch_release({<<q, chan[q][i]>> : i \in DOMAIN chan[q]})
    /\ inflight' = inflight - 1

-----------------------------------------------------------------------------
(***************************************************************************)
(* Opening.                                                                *)
(***************************************************************************)

\* The goroutine moves on without touching anything else.
GoMoves(q, from, to) ==
    /\ go[q] = from
    /\ go' = [go EXCEPT ![q] = to]
    /\ UNCHANGED <<rowsVars, reqVars, sableVars, rustVars>>

\* sable's admission check (external).
Admits == MaxInFlight = 0 \/ inflight < MaxInFlight

\* Frame the request, open the cursor, spawn the handler task.
OpenCursor(q, o, d) ==
    /\ go[q] = "new"
    /\ go' = [go EXCEPT ![q] = "rows"]
    /\ op' = [op EXCEPT ![q] = o]
    /\ db' = [db EXCEPT ![q] = d]
    /\ rx' = [rx EXCEPT ![q] = "open"]
    /\ inflight' = inflight + 1
    /\ task' = [task EXCEPT ![q] = "running"]
    /\ stage' = [stage EXCEPT ![q] = 1]
    /\ UNCHANGED <<rowsVars, chan, size, produced, verdict, slotVars, dbVars,
                   memVars>>

\* Mutant: the cursor is opened through an entry point that is never refused.
OpenStreamUnchecked(q, o, d) == OpenCursor(q, o, d)

\* openStream on a handle `d`, which may have been closed since.
openStream(q, o, d) == Admits /\ OpenCursor(q, o, d)

\* ErrBackpressure: the id is spent, nothing was admitted.
openStreamRefused(q) == ~Admits /\ GoMoves(q, "new", "refused")

-----------------------------------------------------------------------------
(***************************************************************************)
(* The handler task.                                                       *)
(***************************************************************************)
At(q, stages) ==
    /\ task[q] = "running"
    /\ Program[op[q]][stage[q]] \in stages

Advance(q) ==
    /\ stage' = [stage EXCEPT ![q] = @ + 1]
    /\ UNCHANGED <<task, verdict, errs>>

\* The body of the handler ends; its locals and its sender are dropped
\* afterwards (HandlerUnpin, HandlerDropTx).
Return(q, v) ==
    /\ verdict' = [verdict EXCEPT ![q] = v]
    /\ task' = [task EXCEPT ![q] = "returning"]
    /\ UNCHANGED stage

\* Mutant: an error path that returns without storing.
ReturnWithoutStoring(q) == Return(q, "failed") /\ UNCHANGED errs

\* `return store_query_error(...)`.
store_query_error(q) == Return(q, "failed") /\ errs' = errs \cup {q}

\* How many batches a successful engine call leaves to deliver.  A lazy scan
\* decides as it goes, up to the bound.
ResultSizes(o) ==
    LET last == Program[o][Len(Program[o])]
    IN  {n \in 0..MaxBatches : /\ last = "streamOne" => n = 1
                               /\ last = "scan" => n = MaxBatches}

\* Decode the payload, build the query, await the engine, pack the columns.
HandlerStage(q) ==
    /\ At(q, FallibleStages)
    /\ \/ /\ Advance(q)
          /\ IF Program[op[q]][stage[q]] = "run"
             THEN \E n \in ResultSizes(op[q]) : size' = [size EXCEPT ![q] = n]
             ELSE UNCHANGED size
       \/ /\ store_query_error(q)
          /\ UNCHANGED size
    /\ UNCHANGED <<goVars, reqVars, sableVars, produced, metas, dbVars, memVars>>

\* lookup_db: clone the Arc under the registry lock, or "unknown db handle".
HandlerLookup(q) ==
    /\ At(q, {"lookup"})
    /\ \/ /\ db[q] \in dbs
          /\ pins' = pins \cup {q}
          /\ Advance(q)
       \/ /\ db[q] \notin dbs
          /\ store_query_error(q)
          /\ UNCHANGED pins
    /\ UNCHANGED <<goVars, reqVars, sableVars, size, produced, metas, dbs,
                   memVars>>

\* store_page_meta, before the first row is streamed.
HandlerMeta(q) ==
    /\ At(q, {"meta"})
    /\ metas' = metas \cup {q}
    /\ Advance(q)
    /\ UNCHANGED <<goVars, reqVars, sableVars, size, produced, dbVars, memVars>>

\* export_batch: box the FfiBatch and count it.
export_batch(q) ==
    /\ produced' = [produced EXCEPT ![q] = @ + 1]
    /\ bufs' = [bufs EXCEPT ![<<q, produced[q] + 1>>] = "ffi"]
    /\ live' = live + 1
    /\ task' = [task EXCEPT ![q] = "sending"]
    /\ UNCHANGED <<goVars, reqVars, sableVars, stage, size, verdict, slotVars,
                   dbVars, frees>>

\* Mutant: the loop does not stop at the end of the Vec.
HandlerExportPastEnd(q) == At(q, LoopStages) /\ export_batch(q)

\* The next item of the scan or of the collected Vec, exported.
HandlerExport(q) ==
    /\ At(q, LoopStages)
    /\ produced[q] < size[q]
    /\ export_batch(q)

\* to_ffi fails for the next batch, or the lazy scan yields an error.
HandlerLoopError(q) ==
    /\ At(q, LoopStages)
    /\ At(q, {"scan"}) \/ produced[q] < size[q]
    /\ store_query_error(q)
    /\ UNCHANGED <<goVars, reqVars, sableVars, size, produced, metas, dbVars,
                   memVars>>

\* The scan or the Vec is exhausted: nothing stored.
HandlerEnd(q) ==
    /\ At(q, LoopStages)
    /\ At(q, {"scan"}) \/ produced[q] = size[q]
    /\ Return(q, "ok")
    /\ UNCHANGED <<goVars, reqVars, sableVars, size, produced, slotVars, dbVars,
                   memVars>>

\* tx.send(payload).await with room in the channel.
HandlerSend(q) ==
    /\ task[q] = "sending"
    /\ rx[q] = "open"
    /\ Len(chan[q]) < Buffer
    /\ chan' = [chan EXCEPT ![q] = Append(@, produced[q])]
    /\ task' = [task EXCEPT ![q] = "running"]
    /\ UNCHANGED <<goVars, reqVars, rx, inflight, stage, size, produced,
                   verdict, slotVars, dbVars, memVars>>

\* tx.send fails because Go dropped the receiver: the payload is dropped and
\* the handler returns without storing anything.
HandlerSendFails(q) ==
    /\ task[q] = "sending"
    /\ rx[q] = "dropped"
    /\ imbhgo_batch_release({<<q, produced[q]>>})
    /\ Return(q, "stopped")
    /\ UNCHANGED <<goVars, reqVars, sableVars, size, produced, slotVars, dbVars>>

HandlerGoes(q, from, to) ==
    /\ task[q] = from
    /\ task' = [task EXCEPT ![q] = to]
    /\ UNCHANGED <<goVars, reqVars, sableVars, stage, size, produced, verdict,
                   slotVars, dbs, memVars>>

\* Mutant: the Arc of the Db outlives the handler's sender.
HandlerKeepsArc(q) == HandlerGoes(q, "returning", "unpinned") /\ UNCHANGED pins

\* The body's locals go first: the scan's snapshot and the Arc of the Db ...
HandlerUnpin(q) ==
    HandlerGoes(q, "returning", "unpinned") /\ pins' = pins \ {q}

\* Mutant: the error path keeps a clone of the sender alive.
HandlerKeepsTxOnError(q) ==
    /\ verdict[q] # "failed"
    /\ HandlerGoes(q, "unpinned", "done")
    /\ UNCHANGED pins

\* ... and the sender, a parameter, last: only now can Go see end-of-stream.
HandlerDropTx(q) == HandlerGoes(q, "unpinned", "done") /\ UNCHANGED pins

HandlerStep(q) ==
    \/ HandlerStage(q)  \/ HandlerLookup(q)    \/ HandlerMeta(q)
    \/ HandlerExport(q) \/ HandlerLoopError(q) \/ HandlerEnd(q)
    \/ HandlerSend(q)   \/ HandlerSendFails(q)
    \/ HandlerUnpin(q)  \/ HandlerDropTx(q)

-----------------------------------------------------------------------------
(***************************************************************************)
(* Rows.Next.  Once r.ended is set, Next and Close return at once and      *)
(* change nothing; those calls are stuttering steps.                       *)
(***************************************************************************)

\* Next parks in NextCtx.
NextCall(q) == GoMoves(q, "rows", "pulling")

\* NextCtx returns the handle `b` and leaves `rest` in the channel.
Take(q, b, rest) ==
    /\ go[q] = "pulling"
    /\ chan[q] # <<>>
    /\ ptr' = [ptr EXCEPT ![q] = b]
    /\ chan' = [chan EXCEPT ![q] = rest]
    /\ go' = [go EXCEPT ![q] = "importing"]
    /\ UNCHANGED <<ctx, importErr, outcome, got, page, reqVars, rx, inflight,
                   rustVars>>

\* Mutant: the handle is peeked at, and the channel still owns it.
NextTakePeeks(q) == Take(q, Head(chan[q]), chan[q])

\* Mutant: the newest batch is taken first.
NextTakeNewest(q) ==
    Take(q, chan[q][Len(chan[q])], SubSeq(chan[q], 1, Len(chan[q]) - 1))

\* NextCtx returns a batch: ownership moves from the channel to Next.
NextTake(q) == Take(q, Head(chan[q]), Tail(chan[q]))

\* NextCtx returns ok=false: the channel is drained and its sender dropped ...
NextEnd(q) ==
    /\ chan[q] = <<>>
    /\ task[q] = "done"
    /\ GoMoves(q, "pulling", "finishing")

\* ... or the context was cancelled; a batch in the channel stays there.
NextCancelled(q) == ctx[q] /\ GoMoves(q, "pulling", "finishing")

\* ImportCRecordBatch (external) moves the buffers into a Go record, or fails:
\* before taking them, or after taking and releasing them.
ImportCRecordBatch(q) ==
    /\ go[q] = "importing"
    /\ \/ /\ bufs' = [bufs EXCEPT ![<<q, ptr[q]>>] = "record"]
          /\ go' = [go EXCEPT ![q] = "imported"]
       \/ /\ bufs' \in { bufs, [bufs EXCEPT ![<<q, ptr[q]>>] = "freed"] }
          /\ go' = [go EXCEPT ![q] = "importFailed"]
    /\ UNCHANGED <<rowsVars, reqVars, sableVars, taskVars, slotVars, dbVars,
                   frees, live>>

\* What Next does with the result of the import: hand the record to its caller
\* or go to finish(err).
AfterImport(q) ==
    /\ ptr' = [ptr EXCEPT ![q] = 0]
    /\ \/ /\ go[q] = "imported"
          /\ got' = [got EXCEPT ![q] = Append(@, ptr[q])]
          /\ go' = [go EXCEPT ![q] = "rows"]
          /\ UNCHANGED importErr
       \/ /\ go[q] = "importFailed"
          /\ importErr' = importErr \cup {q}
          /\ go' = [go EXCEPT ![q] = "finishing"]
          /\ UNCHANGED got
    /\ UNCHANGED <<ctx, outcome, page, reqVars, sableVars, taskVars, slotVars,
                   dbVars>>

\* Mutant: Next returns on an import error before it frees the shell.
NextSkipsShellFree(q) ==
    /\ AfterImport(q)
    /\ IF go[q] = "imported" THEN imbhgo_shell_free(<<q, ptr[q]>>)
                             ELSE UNCHANGED memVars

\* imbhgo_shell_free runs on both results of the import.
NextShellFree(q) == AfterImport(q) /\ imbhgo_shell_free(<<q, ptr[q]>>)

(***************************************************************************)
(* finish, Close and fetchLogPageMeta: each issues a byte-Call that is     *)
(* never refused but counts in the gauge while it runs, and whose handler  *)
(* removes this query's slot.  That handler cannot fail on an 8-byte       *)
(* request, so takeStoredError's transport error does not arise.           *)
(***************************************************************************)
CallPc == [finishing  |-> "finishCalled",
           abandoning |-> "abandonCalled",
           metaFetch  |-> "metaCalled"]

SlotCall(q) ==
    /\ go[q] \in DOMAIN CallPc
    /\ go' = [go EXCEPT ![q] = CallPc[go[q]]]
    /\ inflight' = inflight + 1
    /\ UNCHANGED <<rowsVars, reqVars, chan, rx, rustVars>>

\* takeStoredError returns with the outcome `o`, leaving `es` in QUERY_ERRORS.
TakeStoredError(q, from, to, o, es) ==
    /\ go[q] = from
    /\ go' = [go EXCEPT ![q] = to]
    /\ outcome' = [outcome EXCEPT ![q] = o]
    /\ errs' = es
    /\ inflight' = inflight - 1
    /\ UNCHANGED <<ctx, ptr, importErr, got, page, reqVars, chan, rx, taskVars,
                   metas, dbVars, memVars>>

\* Mutant: a cancelled context is not looked at.
TerminalErrNoCtx(q) ==
    IF q \in importErr THEN "import"
    ELSE IF q \in errs THEN "query" ELSE "clean"

\* The terminal error of finish: import error, then the context, then the
\* stored error.
TerminalErr(q) ==
    IF q \in importErr THEN "import"
    ELSE IF ctx[q] THEN "ctx"
    ELSE IF q \in errs THEN "query" ELSE "clean"

\* Mutant: the slot is read but not cleared.
FinishLeavesSlot(q) ==
    TakeStoredError(q, "finishCalled", "closing", TerminalErr(q), errs)

finish(q) ==
    TakeStoredError(q, "finishCalled", "closing", TerminalErr(q), errs \ {q})

\* The cursor is closed and the goroutine goes on to `to`.
CloseCursor(q, to) ==
    /\ CloseStream(q)
    /\ go' = [go EXCEPT ![q] = to]
    /\ UNCHANGED <<rowsVars, reqVars, taskVars, slotVars, dbVars>>

\* QueryLogPage goes on to fetch the page metadata.
AfterFinish(q) == IF op[q] = "OP_LOG_PAGE" THEN "metaFetch" ELSE "ended"

\* Mutant: finish does not close the cursor.
FinishKeepsCursor(q) == GoMoves(q, "closing", AfterFinish(q))

\* finish ends with r.Close(), which only closes the cursor now that r.ended
\* is set.
FinishClose(q) == go[q] = "closing" /\ CloseCursor(q, AfterFinish(q))

\* Mutant: Close does not look at r.ended (closing the cursor again is a no-op).
CloseAgain(q) ==
    /\ op[q] # "OP_LOG_PAGE"
    /\ \/ go[q] = "rows" /\ CloseCursor(q, "abandoning")
       \/ GoMoves(q, "ended", "abandoning")

\* Close before the end: close the cursor, then take and discard the stored
\* error.  A page query never exposes its Rows.
Close(q) ==
    /\ go[q] = "rows"
    /\ op[q] # "OP_LOG_PAGE"
    /\ CloseCursor(q, "abandoning")

CloseTake(q) ==
    TakeStoredError(q, "abandonCalled", "ended", "abandoned", errs \ {q})

fetchLogPageMeta(q) ==
    /\ go[q] = "metaCalled"
    /\ page' = [page EXCEPT ![q] = IF q \in metas THEN "found" ELSE "empty"]
    /\ metas' = metas \ {q}
    /\ inflight' = inflight - 1
    /\ go' = [go EXCEPT ![q] = "ended"]
    /\ UNCHANGED <<ctx, ptr, importErr, outcome, got, reqVars, chan, rx,
                   taskVars, errs, dbVars, memVars>>

\* The steps of a Rows method that has been called.
RowsStep(q) ==
    \/ NextTake(q) \/ NextEnd(q) \/ NextCancelled(q)
    \/ ImportCRecordBatch(q) \/ NextShellFree(q)
    \/ SlotCall(q) \/ finish(q) \/ FinishClose(q)
    \/ CloseTake(q) \/ fetchLogPageMeta(q)

-----------------------------------------------------------------------------
(***************************************************************************)
(* The caller and the rest of the process.                                 *)
(***************************************************************************)

\* The query's context is cancelled or its deadline passes.
Cancel(q) ==
    /\ go[q] \notin {"new", "refused", "ended"}
    /\ ~ctx[q]
    /\ ctx' = [ctx EXCEPT ![q] = TRUE]
    /\ UNCHANGED <<go, ptr, importErr, outcome, got, page, reqVars, sableVars,
                   rustVars>>

\* The caller releases a record it was handed.
Release(q) ==
    \E i \in DOMAIN got[q] :
        /\ bufs[<<q, got[q][i]>>] = "record"
        /\ bufs' = [bufs EXCEPT ![<<q, got[q][i]>>] = "freed"]
        /\ UNCHANGED <<goVars, reqVars, sableVars, taskVars, slotVars, dbVars,
                       frees, live>>

\* DB.Close: drop the registry's Arc; running handlers keep theirs.
imbhgo_close(d) ==
    /\ d \in dbs
    /\ dbs' = dbs \ {d}
    /\ UNCHANGED <<goVars, reqVars, sableVars, taskVars, slotVars, pins,
                   memVars>>

\* Every stream has ended on both sides.
Quiescent ==
    \A q \in Queries : /\ go[q] \in {"new", "refused", "ended"}
                       /\ task[q] \in {"none", "done"}

\* No id is left to open a stream with.
Finished ==
    /\ Quiescent
    /\ \A q \in Queries : go[q] # "new"
    /\ UNCHANGED vars

Next ==
    \/ \E q \in Queries :
          \/ \E o \in Ops, d \in Dbs : openStream(q, o, d)
          \/ openStreamRefused(q)
          \/ HandlerStep(q)
          \/ NextCall(q)
          \/ RowsStep(q)
          \/ Close(q)
          \/ Cancel(q)
          \/ Release(q)
    \/ \E d \in Dbs : imbhgo_close(d)
    \/ Finished

Spec == Init /\ [][Next]_vars

-----------------------------------------------------------------------------
(***************************************************************************)
(* Fairness.  The tokio task of a handler keeps running and the engine     *)
(* answers; a Rows method that was called runs on; a caller goes on with   *)
(* Next or Close until the stream has ended (the documented contract of    *)
(* Rows).  Nothing is assumed about Cancel, Release, imbhgo_close and new  *)
(* streams.                                                                *)
(***************************************************************************)
FairSpec ==
    /\ Spec
    /\ \A q \in Queries :
          /\ WF_vars(HandlerStep(q))
          /\ WF_vars(RowsStep(q))
          /\ WF_vars(NextCall(q) \/ Close(q))

-----------------------------------------------------------------------------
(***************************************************************************)
(* Safety properties.                                                      *)
(***************************************************************************)

\* Every exported batch is freed exactly once: no interleaving of the handler's
\* send, Next's import and Close frees a shell twice, and Next never imports
\* from a shell that was freed (the comment at LIVE_BATCHES).
NoDoubleFree ==
    /\ \A b \in Batches : frees[b] <= 1
    /\ \A q \in Queries : ptr[q] # 0 => frees[<<q, ptr[q]>>] = 0

\* Once every stream has ended on both sides, LIVE_BATCHES and the admission
\* gauge are back at 0 and every exported shell has been freed, whatever the
\* mix of drained, cancelled, abandoned and failed streams.
NothingLeaksAtRest ==
    Quiescent => /\ live = 0
                 /\ inflight = 0
                 /\ \A q \in Queries, i \in 1..MaxBatches :
                       i <= produced[q] => frees[<<q, i>>] = 1

\* Arrow buffers reach an owner that frees them: at rest a batch's buffers
\* were freed or belong to a record the caller holds, except those of a batch
\* whose import failed before the importer took them (Next frees only the
\* shell on that path).
BuffersAccountedFor ==
    Quiescent => \A q \in Queries, i \in 1..MaxBatches :
                    i <= produced[q] =>
                        \/ bufs[<<q, i>>] = "freed"
                        \/ bufs[<<q, i>>] = "record" /\ \E k \in DOMAIN got[q] : got[q][k] = i
                        \/ bufs[<<q, i>>] = "lost" /\ q \in importErr

\* Batches that left the channel towards Go, one whose import failed included.
Taken(q) ==
    IF ptr[q] # 0 \/ q \in importErr THEN Len(got[q]) + 1 ELSE Len(got[q])

\* Batches that left the handler.
Sent(q) == IF task[q] = "sending" THEN produced[q] - 1 ELSE produced[q]

\* What the caller has been given is a prefix of the query's result, in order
\* and without gaps; the batch in hand is the next one, and as long as the
\* stream is open the channel holds exactly the rest of what was sent, in order.
DeliveredInOrder ==
    \A q \in Queries :
        /\ got[q] = Span(0, Len(got[q]))
        /\ ptr[q] # 0 => ptr[q] = Len(got[q]) + 1
        /\ Taken(q) <= Sent(q)
        /\ rx[q] = "open" => chan[q] = Span(Taken(q), Sent(q))

\* Next tells the truth about the end of a query.  A clean end means that the
\* handler ran to its own end and every batch was delivered; a failure of the
\* handler is never taken for a clean end, and is reported only after
\* everything it had sent.
EndOfStreamIsTruthful ==
    \A q \in Queries :
        /\ outcome[q] = "clean" => /\ verdict[q] = "ok"
                                   /\ got[q] = Span(0, produced[q])
        /\ outcome[q] = "query" => /\ verdict[q] = "failed"
                                   /\ got[q] = Span(0, produced[q])

\* An entry left in QUERY_ERRORS after Rows ended belongs to a stream that was
\* cancelled, abandoned or failed to import: the window documented at Close.  A
\* drained stream leaves none behind.
OnlyAbandonedStrandErrors ==
    \A q \in errs :
        go[q] = "ended" => outcome[q] \in {"ctx", "import", "abandoned"}

\* A page that ended cleanly got its cursor and statistics: the metadata is
\* stored before the first row, and Go fetches it after the last.
CleanPageHasMeta ==
    \A q \in Queries :
        (op[q] = "OP_LOG_PAGE" /\ outcome[q] = "clean" /\ go[q] = "ended")
            => page[q] = "found"

\* When Next reports end-of-stream from a drained channel, the handler no
\* longer holds the Db or its snapshot: closing the handle then frees the
\* engine at once.
DrainedHoldsNoDb ==
    \A q \in Queries : outcome[q] \in {"clean", "query"} => q \notin pins

\* The cap of SetMaxInFlight bounds the result streams that are open at once,
\* although byte-Calls pass it, and the gauge counts both exactly.
AdmissionGauge ==
    LET open  == {q \in Queries : rx[q] = "open"}
        calls == {q \in Queries : go[q] \in InCall}
    IN  /\ inflight = Cardinality(open) + Cardinality(calls)
        /\ MaxInFlight > 0 => Cardinality(open) <= MaxInFlight

\* QueryLogPage's comment: the metadata is always fetched, "so the Rust-side
\* PAGE_META slot never leaks".
PageMetaNeverLeaks == Quiescent => metas = {}

-----------------------------------------------------------------------------
(***************************************************************************)
(* Action properties.                                                      *)
(***************************************************************************)

\* Once Rows has ended, what Next and Err report does not change, no further
\* batch is delivered, and this query's error is not taken a second time.
EndIsFinal ==
    [][\A q \in Queries :
          outcome[q] # "none" => /\ outcome'[q] = outcome[q]
                                 /\ got'[q] = got[q]
                                 /\ q \in errs => q \in errs']_vars

-----------------------------------------------------------------------------
(***************************************************************************)
(* Liveness, under FairSpec.                                               *)
(***************************************************************************)

\* A Next that parked returns: a batch, an end or an error reaches it.
ParkedNextReturns ==
    \A q \in Queries : go[q] = "pulling" ~> go[q] # "pulling"

\* An opened stream comes to rest: Rows ends, the handler stops, the snapshot
\* and the admission slot are given back, and no shell stays alive.
StreamsComeToRest ==
    \A q \in Queries :
        rx[q] = "open" ~> /\ go[q] = "ended" /\ task[q] = "done"
                          /\ q \notin pins   /\ chan[q] = <<>>

-----------------------------------------------------------------------------
(***************************************************************************)
(* Refinement: the implementation keeps the promise of ResultStream.       *)
(***************************************************************************)
Promise == INSTANCE ResultStream
    WITH made   <- produced,
         ending <- verdict,
         given  <- [q \in Queries |-> Len(got[q])],
         report <- outcome

\* Every step of the Rows, of the channel and of the handler is a step of the
\* abstract result stream, or invisible to the caller.
KeepsPromise == Promise!Spec
=============================================================================
