------------------------ MODULE StreamResourceProofs ------------------------
(***************************************************************************)
(* What the streams of StreamQuery hold and give back, proved for any      *)
(* number of streams: admission slots, shells, Arrow buffers, the metadata *)
(* of a page, and the end that Rows reported. Each part is an invariant    *)
(* that is inductive relative to IInv of StreamQueryProofs.                *)
(***************************************************************************)
EXTENDS StreamQueryProofs

-----------------------------------------------------------------------------
(***************************************************************************)
(* The invariants.                                                         *)
(***************************************************************************)

\* The streams and the byte-Calls that the gauge counts.
OpenStreams  == {q \in Queries : rx[q] = "open"}
RunningCalls == {q \in Queries : go[q] \in InCall}

\* The gauge is exact, and the cap bounds the streams although calls pass it.
GaugeInv ==
    /\ IsFiniteSet(OpenStreams) /\ IsFiniteSet(RunningCalls)
    /\ inflight = Cardinality(OpenStreams) + Cardinality(RunningCalls)
    /\ MaxInFlight > 0 => Cardinality(OpenStreams) <= MaxInFlight

\* The shells that were exported and not freed.
Shells == {b \in Batches : b[2] <= produced[b[1]] /\ frees[b] = 0}

\* LIVE_BATCHES counts them.
LiveInv == IsFiniteSet(Shells) /\ live = Cardinality(Shells)

\* Where the buffers of batch i of q are, by how far the batch has come.
BufferAt(q, i) ==
    /\ i <= Len(got[q]) => bufs[<<q, i>>] \in {"record", "freed"}
    /\ i = ptr[q] => /\ go[q] = "importing" => bufs[<<q, i>>] = "ffi"
                     /\ go[q] = "imported" => bufs[<<q, i>>] = "record"
                     /\ go[q] = "importFailed" => bufs[<<q, i>>] \in {"ffi", "freed"}
    /\ i = Taken(q) /\ q \in importErr => bufs[<<q, i>>] \in {"lost", "freed"}
    /\ Taken(q) < i /\ i <= produced[q] =>
          bufs[<<q, i>>] = IF rx[q] = "dropped" /\ i <= Sent(q) THEN "freed" ELSE "ffi"

BufferInv(q) == \A i \in 1..MaxBatches : BufferAt(q, i)

\* The metadata of a page is there from the stage that stores it until Go
\* fetches it.
PageInv(q) ==
    op[q] = "OP_LOG_PAGE" =>
        /\ task[q] # "none" => stage[q] \in 1..6
        /\ verdict[q] = "ok" \/ task[q] = "sending" => stage[q] = 6
        /\ stage[q] = 6 /\ go[q] # "ended" => q \in metas
        /\ go[q] = "ended" /\ outcome[q] = "clean" => page[q] = "found"

USE DEF rowsVars, goVars, reqVars, sableVars, taskVars, slotVars, dbVars,
        memVars, rustVars

-----------------------------------------------------------------------------
(***************************************************************************)
(* The admission gauge.                                                    *)
(***************************************************************************)

\* Everything that is not an open, a close of the cursor or a byte-Call leaves
\* the gauge and what it counts alone.
LEMMA QuietSteps ==
    ASSUME IInv, NEW q \in Queries,
           \/ HandlerStep(q) \/ openStreamRefused(q) \/ NextCall(q)
           \/ NextTake(q) \/ NextEnd(q) \/ NextCancelled(q)
           \/ ImportCRecordBatch(q) \/ NextShellFree(q) \/ Cancel(q) \/ Release(q)
    PROVE  /\ OpenStreams' = OpenStreams /\ RunningCalls' = RunningCalls
           /\ inflight' = inflight
<1>t. go \in [Queries -> GoPc]
  BY DEF IInv, TypeOK
<1>1. rx' = rx /\ inflight' = inflight
  <2>1. CASE HandlerStep(q)
    BY <2>1 DEF HandlerStep, HandlerStage, HandlerLookup, HandlerMeta, HandlerExport,
       export_batch, HandlerLoopError, HandlerEnd, HandlerSend, HandlerSendFails, HandlerUnpin,
       HandlerDropTx, HandlerGoes
  <2>2. CASE \/ openStreamRefused(q) \/ NextCall(q) \/ NextTake(q) \/ NextEnd(q) \/ NextCancelled(q)
    BY <2>2 DEF openStreamRefused, NextCall, NextTake, Take, NextEnd, NextCancelled, GoMoves
  <2>3. CASE \/ ImportCRecordBatch(q) \/ NextShellFree(q) \/ Cancel(q) \/ Release(q)
    BY <2>3 DEF ImportCRecordBatch, NextShellFree, AfterImport, Cancel, Release
  <2> QED
    BY <2>1, <2>2, <2>3
<1>2. \/ go' = go
      \/ go[q] \notin InCall /\ \E to \in GoPc \ InCall : go' = [go EXCEPT ![q] = to]
  <2>1. CASE HandlerStep(q)
    BY <2>1 DEF HandlerStep, HandlerStage, HandlerLookup, HandlerMeta, HandlerExport,
       export_batch, HandlerLoopError, HandlerEnd, HandlerSend, HandlerSendFails, HandlerUnpin,
       HandlerDropTx, HandlerGoes
  <2>2. CASE \/ openStreamRefused(q) \/ NextCall(q) \/ NextTake(q) \/ NextEnd(q) \/ NextCancelled(q)
    BY <2>2 DEF openStreamRefused, NextCall, NextTake, Take, NextEnd, NextCancelled, GoMoves,
       InCall, GoPc
  <2>3. CASE \/ ImportCRecordBatch(q) \/ NextShellFree(q)
    BY <2>3 DEF ImportCRecordBatch, NextShellFree, AfterImport, InCall, GoPc
  <2>4. CASE Cancel(q) \/ Release(q)
    BY <2>4 DEF Cancel, Release
  <2> QED
    BY <2>1, <2>2, <2>3, <2>4
<1> QED
  BY <1>t, <1>1, <1>2 DEF OpenStreams, RunningCalls

\* What the gauge counts gains or loses one stream or one call.
LEMMA GaugeCounts ==
    ASSUME GaugeInv, NEW q,
           \/ /\ q \notin OpenStreams /\ OpenStreams' = OpenStreams \cup {q}
              /\ RunningCalls' = RunningCalls /\ inflight' = inflight + 1 /\ Admits
           \/ /\ q \in OpenStreams /\ OpenStreams' = OpenStreams \ {q}
              /\ RunningCalls' = RunningCalls /\ inflight' = inflight - 1
           \/ /\ q \notin RunningCalls /\ RunningCalls' = RunningCalls \cup {q}
              /\ OpenStreams' = OpenStreams /\ inflight' = inflight + 1
           \/ /\ q \in RunningCalls /\ RunningCalls' = RunningCalls \ {q}
              /\ OpenStreams' = OpenStreams /\ inflight' = inflight - 1
    PROVE  GaugeInv'
<1> DEFINE o == Cardinality(OpenStreams)
           c == Cardinality(RunningCalls)
<1>1. IsFiniteSet(OpenStreams) /\ IsFiniteSet(RunningCalls)
  BY DEF GaugeInv
<1>2. o \in Nat /\ c \in Nat /\ MaxInFlight \in Nat
  BY <1>1, FS_CardinalityType, StreamAssumption
<1>3. inflight = o + c /\ (MaxInFlight > 0 => o <= MaxInFlight)
  BY DEF GaugeInv
<1>4. /\ IsFiniteSet(OpenStreams \cup {q}) /\ IsFiniteSet(OpenStreams \ {q})
      /\ q \notin OpenStreams => Cardinality(OpenStreams \cup {q}) = o + 1
      /\ q \in OpenStreams => Cardinality(OpenStreams \ {q}) = o - 1
  BY <1>1, FS_AddElement, FS_RemoveElement
<1>5. /\ IsFiniteSet(RunningCalls \cup {q}) /\ IsFiniteSet(RunningCalls \ {q})
      /\ q \notin RunningCalls => Cardinality(RunningCalls \cup {q}) = c + 1
      /\ q \in RunningCalls => Cardinality(RunningCalls \ {q}) = c - 1
  BY <1>1, FS_AddElement, FS_RemoveElement
<1>6. /\ IsFiniteSet(OpenStreams') /\ IsFiniteSet(RunningCalls')
  BY <1>1, <1>4, <1>5
<1>7. /\ inflight' = Cardinality(OpenStreams') + Cardinality(RunningCalls')
      /\ MaxInFlight > 0 => Cardinality(OpenStreams') <= MaxInFlight
  <2>1. CASE /\ q \notin OpenStreams /\ OpenStreams' = OpenStreams \cup {q}
             /\ RunningCalls' = RunningCalls /\ inflight' = inflight + 1 /\ Admits
    <3>1. Cardinality(OpenStreams') = o + 1 /\ Cardinality(RunningCalls') = c
      BY <1>4, <2>1
    <3> QED
      BY <1>2, <1>3, <2>1, <3>1 DEF Admits
  <2>2. CASE /\ q \in OpenStreams /\ OpenStreams' = OpenStreams \ {q}
             /\ RunningCalls' = RunningCalls /\ inflight' = inflight - 1
    <3>1. Cardinality(OpenStreams') = o - 1 /\ Cardinality(RunningCalls') = c
      BY <1>4, <2>2
    <3> QED
      BY <1>2, <1>3, <2>2, <3>1
  <2>3. CASE /\ q \notin RunningCalls /\ RunningCalls' = RunningCalls \cup {q}
             /\ OpenStreams' = OpenStreams /\ inflight' = inflight + 1
    <3>1. Cardinality(OpenStreams') = o /\ Cardinality(RunningCalls') = c + 1
      BY <1>5, <2>3
    <3> QED
      BY <1>2, <1>3, <2>3, <3>1
  <2>4. CASE /\ q \in RunningCalls /\ RunningCalls' = RunningCalls \ {q}
             /\ OpenStreams' = OpenStreams /\ inflight' = inflight - 1
    <3>1. Cardinality(OpenStreams') = o /\ Cardinality(RunningCalls') = c - 1
      BY <1>5, <2>4
    <3> QED
      BY <1>2, <1>3, <2>4, <3>1
  <2> QED
    BY <2>1, <2>2, <2>3, <2>4
<1> QED
  BY <1>6, <1>7 DEF GaugeInv

\* At the start nothing is open and nothing is counted.
LEMMA InitGauge == Init => GaugeInv
<1> SUFFICES ASSUME Init PROVE GaugeInv
  OBVIOUS
<1>1. OpenStreams = {} /\ RunningCalls = {}
  BY DEF Init, OpenStreams, RunningCalls, InCall
<1> QED
  BY <1>1, FS_EmptySet, StreamAssumption DEF Init, GaugeInv

\* Each step moves the gauge with what it counts.
LEMMA NextGauge == IInv /\ GaugeInv /\ [Next]_vars => GaugeInv'
<1> SUFFICES ASSUME IInv, GaugeInv, [Next]_vars PROVE GaugeInv'
  OBVIOUS
<1>t. /\ go \in [Queries -> GoPc] /\ inflight \in Int
      /\ rx \in [Queries -> {"none", "open", "dropped"}]
  BY DEF IInv, TypeOK
<1>0. ASSUME OpenStreams' = OpenStreams, RunningCalls' = RunningCalls, inflight' = inflight
      PROVE  GaugeInv'
  BY <1>0 DEF GaugeInv
<1>1. ASSUME NEW q \in Queries, NEW o \in Ops, NEW d \in Dbs, openStream(q, o, d)
      PROVE  GaugeInv'
  <2>1. rx[q] = "none"
    BY <1>1 DEF openStream, OpenCursor, IInv, QInv, PhaseInv
  <2>2. q \notin OpenStreams /\ OpenStreams' = OpenStreams \cup {q}
    BY <1>1, <1>t, <2>1 DEF openStream, OpenCursor, OpenStreams
  <2>3. RunningCalls' = RunningCalls /\ inflight' = inflight + 1 /\ Admits
    BY <1>1, <1>t DEF openStream, OpenCursor, RunningCalls, InCall
  <2> QED
    BY <2>2, <2>3, GaugeCounts
<1>2. ASSUME NEW q \in Queries, NEW to \in {"abandoning", "metaFetch", "ended"},
             CloseCursor(q, to), go[q] \in {"rows", "closing"}
      PROVE  GaugeInv'
  <2>1. rx[q] = "open"
    BY <1>2 DEF IInv, QInv, PhaseInv, OpenPc
  <2>2. q \in OpenStreams /\ OpenStreams' = OpenStreams \ {q} /\ inflight' = inflight - 1
    BY <1>2, <1>t, <2>1 DEF CloseCursor, CloseStream, OpenStreams
  <2>3. RunningCalls' = RunningCalls
    BY <1>2, <1>t DEF CloseCursor, RunningCalls, InCall
  <2> QED
    BY <2>2, <2>3, GaugeCounts
<1>3. ASSUME NEW q \in Queries, SlotCall(q) PROVE GaugeInv'
  <2>1. go[q] \notin InCall /\ CallPc[go[q]] \in InCall
    BY <1>3 DEF SlotCall, CallPc, InCall
  <2>2. /\ q \notin RunningCalls /\ RunningCalls' = RunningCalls \cup {q}
        /\ OpenStreams' = OpenStreams /\ inflight' = inflight + 1
    BY <1>3, <1>t, <2>1 DEF SlotCall, RunningCalls, OpenStreams
  <2> QED
    BY <2>2, GaugeCounts
<1>4. ASSUME NEW q \in Queries, finish(q) \/ CloseTake(q) \/ fetchLogPageMeta(q) PROVE GaugeInv'
  <2>1. PICK to \in {"closing", "ended"} : go' = [go EXCEPT ![q] = to]
    BY <1>4 DEF finish, CloseTake, TakeStoredError, fetchLogPageMeta
  <2>2. go[q] \in InCall /\ rx' = rx /\ inflight' = inflight - 1
    BY <1>4 DEF finish, CloseTake, TakeStoredError, fetchLogPageMeta, InCall
  <2>3. /\ q \in RunningCalls /\ RunningCalls' = RunningCalls \ {q}
        /\ OpenStreams' = OpenStreams
    BY <1>t, <2>1, <2>2 DEF RunningCalls, OpenStreams, InCall
  <2> QED
    BY <2>2, <2>3, GaugeCounts
<1>5. ASSUME NEW q \in Queries, RowsStep(q) \/ Close(q) PROVE GaugeInv'
  <2>1. AfterFinish(q) \in {"metaFetch", "ended"}
    BY DEF AfterFinish
  <2>2. CASE FinishClose(q) \/ Close(q)
    BY <1>2, <2>1, <2>2 DEF FinishClose, Close
  <2> QED
    BY <1>0, <1>3, <1>4, <1>5, <2>2, QuietSteps DEF RowsStep
<1>6. ASSUME NEW d \in Dbs, imbhgo_close(d) PROVE GaugeInv'
  BY <1>0, <1>6 DEF imbhgo_close, OpenStreams, RunningCalls
<1>7. CASE UNCHANGED vars
  BY <1>0, <1>7 DEF vars, OpenStreams, RunningCalls
<1> QED
  BY <1>0, <1>1, <1>5, <1>6, <1>7, QuietSteps DEF Next, Finished

-----------------------------------------------------------------------------
(***************************************************************************)
(* The end of a stream is final.                                           *)
(***************************************************************************)

\* What Rows reported for p stands.
Final(p) ==
    outcome[p] # "none" => /\ outcome'[p] = outcome[p]
                           /\ got'[p] = got[p]
                           /\ p \in errs => p \in errs'

\* A handler neither reports nor delivers, and only adds errors.
LEMMA HandlerStepIsFinal ==
    ASSUME NEW q \in Queries, HandlerStep(q)
    PROVE  UNCHANGED <<outcome, got>> /\ errs \subseteq errs'
<1>1. CASE HandlerStage(q) \/ HandlerLookup(q) \/ HandlerMeta(q) \/ HandlerLoopError(q)
  BY <1>1 DEF HandlerStage, HandlerLookup, HandlerMeta, HandlerLoopError, Advance,
     store_query_error
<1>2. CASE \/ HandlerExport(q) \/ HandlerEnd(q) \/ HandlerSend(q) \/ HandlerSendFails(q)
           \/ HandlerUnpin(q) \/ HandlerDropTx(q)
  BY <1>2 DEF HandlerExport, export_batch, HandlerEnd, HandlerSend, HandlerSendFails,
     HandlerUnpin, HandlerDropTx, HandlerGoes
<1> QED
  BY <1>1, <1>2 DEF HandlerStep

\* The steps of Rows that report, deliver or take an error are over when
\* outcome is set.
LEMMA RowsStepIsFinal ==
    ASSUME IInv, NEW q \in Queries, RowsStep(q), NEW p \in Queries
    PROVE  Final(p)
<1>t. outcome \in [Queries -> Outcomes] /\ got \in [Queries -> Seq(1..MaxBatches)]
  BY DEF IInv, TypeOK
<1>1. outcome[q] # "none" => go[q] \in {"closing", "metaFetch", "metaCalled", "ended"}
  BY DEF IInv, QInv, PhaseInv
<1>2. CASE \/ NextTake(q) \/ NextEnd(q) \/ NextCancelled(q) \/ ImportCRecordBatch(q)
           \/ SlotCall(q) \/ FinishClose(q) \/ fetchLogPageMeta(q)
  BY <1>2 DEF NextTake, Take, NextEnd, NextCancelled, GoMoves, ImportCRecordBatch, SlotCall,
     FinishClose, CloseCursor, fetchLogPageMeta, Final
<1>3. CASE NextShellFree(q)
  BY <1>t, <1>1, <1>3 DEF NextShellFree, AfterImport, Final
<1>4. CASE finish(q) \/ CloseTake(q)
  BY <1>t, <1>1, <1>4 DEF finish, CloseTake, TakeStoredError, Final
<1> QED
  BY <1>2, <1>3, <1>4 DEF RowsStep

\* No step changes an end that was reported.
LEMMA NextIsFinal == IInv /\ [Next]_vars => \A p \in Queries : Final(p)
<1> SUFFICES ASSUME IInv, [Next]_vars, NEW p \in Queries PROVE Final(p)
  OBVIOUS
<1>1. ASSUME NEW q \in Queries, HandlerStep(q) PROVE Final(p)
  BY <1>1, HandlerStepIsFinal DEF Final
<1>2. ASSUME NEW q \in Queries,
             \/ \E o \in Ops, d \in Dbs : openStream(q, o, d)
             \/ openStreamRefused(q) \/ NextCall(q) \/ Close(q) \/ Cancel(q) \/ Release(q)
      PROVE  Final(p)
  BY <1>2 DEF openStream, OpenCursor, openStreamRefused, NextCall, GoMoves, Close, CloseCursor,
     Cancel, Release, Final
<1>3. ASSUME NEW d \in Dbs, imbhgo_close(d) PROVE Final(p)
  BY <1>3 DEF imbhgo_close, Final
<1>4. CASE UNCHANGED vars
  BY <1>4 DEF vars, Final
<1> QED
  BY <1>1, <1>2, <1>3, <1>4, RowsStepIsFinal DEF Next, Finished

-----------------------------------------------------------------------------
(***************************************************************************)
(* The metadata of a page.                                                 *)
(***************************************************************************)

\* The stages of a page query.
LEMMA PageProgram ==
    /\ Program["OP_LOG_PAGE"] = <<"decode", "lookup", "build", "run", "meta", "stream">>
    /\ Len(Program["OP_LOG_PAGE"]) = 6
BY DEF Program, query_log_page_handler

\* A step leaves what PageInv(p) looks at alone.
PageFrame(p) ==
    /\ op'[p] = op[p] /\ task'[p] = task[p] /\ stage'[p] = stage[p] /\ verdict'[p] = verdict[p]
    /\ go'[p] = go[p] /\ outcome'[p] = outcome[p] /\ page'[p] = page[p]
    /\ p \in metas' <=> p \in metas

\* What a step does not touch it does not break.
LEMMA FrameKeepsPage ==
    ASSUME NEW p \in Queries, PageInv(p), PageFrame(p)
    PROVE  PageInv(p)'
BY DEF PageInv, PageFrame

\* The handler stores the metadata at the stage before it streams.
LEMMA HandlerKeepsPage ==
    ASSUME IInv, NEW q \in Queries, PageInv(q), HandlerStep(q)
    PROVE  PageInv(q)' /\ \A p \in Queries \ {q} : PageFrame(p)
<1>t. /\ task \in [Queries -> TaskPc] /\ stage \in [Queries -> Nat]
      /\ verdict \in [Queries -> Verdicts]
  BY DEF IInv, TypeOK
<1>1. UNCHANGED <<goVars, reqVars>>
  BY DEF HandlerStep, HandlerStage, HandlerLookup, HandlerMeta, HandlerExport, export_batch,
     HandlerLoopError, HandlerEnd, HandlerSend, HandlerSendFails, HandlerUnpin, HandlerDropTx,
     HandlerGoes
<1>2. outcome[q] = "clean" => verdict[q] = "ok" /\ task[q] = "done"
  BY DEF IInv, QInv, EndInv
<1>3. task[q] # "none" /\ (verdict[q] = "ok" => task[q] \notin {"running", "sending"})
  BY <1>t DEF IInv, QInv, ErrorInv, HandlerStep, HandlerStage, HandlerLookup, HandlerMeta, HandlerExport,
     HandlerLoopError, HandlerEnd, HandlerSend, HandlerSendFails, HandlerUnpin, HandlerDropTx,
     HandlerGoes, At
<1>4. CASE HandlerStage(q) \/ HandlerLookup(q)
  <2>1. metas' = metas /\ (Advance(q) \/ store_query_error(q)) /\ task[q] = "running"
        /\ Program[op[q]][stage[q]] \in FallibleStages \cup {"lookup"}
    BY <1>4 DEF HandlerStage, HandlerLookup, At
  <2>2. op[q] = "OP_LOG_PAGE" => stage[q] \in 1..4
    BY <2>1, PageProgram DEF PageInv, FallibleStages
  <2> QED
    BY <1>t, <1>1, <1>2, <1>3, <2>1, <2>2 DEF Advance, store_query_error, Return, PageInv, PageFrame
<1>5. CASE HandlerMeta(q)
  <2>1. metas' = metas \cup {q} /\ Advance(q) /\ task[q] = "running"
        /\ Program[op[q]][stage[q]] = "meta"
    BY <1>5 DEF HandlerMeta, At
  <2>2. op[q] = "OP_LOG_PAGE" => stage[q] = 5
    BY <2>1, PageProgram DEF PageInv
  <2> QED
    BY <1>t, <1>1, <1>2, <1>3, <2>1, <2>2 DEF Advance, PageInv, PageFrame
<1>6. CASE HandlerExport(q) \/ HandlerLoopError(q) \/ HandlerEnd(q)
  <2>1. /\ metas' = metas /\ stage' = stage /\ task[q] = "running"
        /\ Program[op[q]][stage[q]] \in LoopStages
    BY <1>6 DEF HandlerExport, export_batch, HandlerLoopError, HandlerEnd, store_query_error, Return, At
  <2>2. op[q] = "OP_LOG_PAGE" => stage[q] = 6
    BY <2>1, PageProgram DEF PageInv, LoopStages, EagerLoops
  <2>3. \E t \in TaskPc \ {"none"}, v \in Verdicts :
           task' = [task EXCEPT ![q] = t] /\ verdict' = [verdict EXCEPT ![q] = v]
    BY <1>t, <1>6 DEF HandlerExport, export_batch, HandlerLoopError, HandlerEnd, store_query_error, Return,
       TaskPc, Verdicts
  <2> QED
    BY <1>t, <1>1, <1>2, <1>3, <2>1, <2>2, <2>3 DEF PageInv, PageFrame
<1>7. CASE HandlerSend(q) \/ HandlerSendFails(q) \/ HandlerUnpin(q) \/ HandlerDropTx(q)
  <2>1. metas' = metas /\ stage' = stage
    BY <1>7 DEF HandlerSend, HandlerSendFails, Return, HandlerUnpin, HandlerDropTx, HandlerGoes
  <2>2. \E t \in TaskPc \ {"none", "sending"}, v \in {verdict[q], "stopped"} :
           task' = [task EXCEPT ![q] = t] /\ verdict' = [verdict EXCEPT ![q] = v]
    BY <1>t, <1>7 DEF HandlerSend, HandlerSendFails, Return, HandlerUnpin, HandlerDropTx, HandlerGoes,
       TaskPc
  <2> QED
    BY <1>t, <1>1, <1>2, <1>3, <2>1, <2>2 DEF PageInv, PageFrame
<1> QED
  BY <1>4, <1>5, <1>6, <1>7 DEF HandlerStep

\* On the Go side only fetchLogPageMeta removes it, as the last step.
LEMMA OtherStepsKeepPage ==
    ASSUME IInv, NEW q \in Queries, PageInv(q),
           \/ \E o \in Ops, d \in Dbs : openStream(q, o, d)
           \/ openStreamRefused(q) \/ NextCall(q) \/ RowsStep(q) \/ Close(q)
    PROVE  PageInv(q)' /\ \A p \in Queries \ {q} : PageFrame(p)
<1>t. /\ go \in [Queries -> GoPc] /\ task \in [Queries -> TaskPc] /\ stage \in [Queries -> Nat]
      /\ verdict \in [Queries -> Verdicts] /\ outcome \in [Queries -> Outcomes]
      /\ op \in [Queries -> Ops \cup {"none"}] /\ page \in [Queries -> {"none", "found", "empty"}]
      /\ got \in [Queries -> Seq(1..MaxBatches)]
  BY DEF IInv, TypeOK
<1>1. outcome[q] = "clean" => verdict[q] = "ok"
  BY DEF IInv, QInv, EndInv
<1>2. CASE \E o \in Ops, d \in Dbs : openStream(q, o, d)
  <2>1. outcome[q] = "none" /\ verdict[q] = "none" /\ go[q] = "new"
    BY <1>2 DEF openStream, OpenCursor, IInv, QInv, PhaseInv, ErrorInv
  <2> QED
    BY <1>t, <1>2, <2>1 DEF openStream, OpenCursor, PageInv, PageFrame
<1>3. CASE \/ openStreamRefused(q) \/ NextCall(q) \/ NextEnd(q) \/ NextCancelled(q)
           \/ NextTake(q) \/ ImportCRecordBatch(q) \/ NextShellFree(q) \/ SlotCall(q)
  <2>1. UNCHANGED <<op, task, stage, verdict, outcome, page, metas>>
    BY <1>3 DEF openStreamRefused, NextCall, NextEnd, NextCancelled, GoMoves, NextTake, Take,
       ImportCRecordBatch, NextShellFree, AfterImport, SlotCall
  <2>2. go[q] # "ended" /\ \E to \in GoPc \ {"ended"} : go' = [go EXCEPT ![q] = to]
    BY <1>3 DEF openStreamRefused, NextCall, NextEnd, NextCancelled, GoMoves, NextTake, Take,
       ImportCRecordBatch, NextShellFree, AfterImport, SlotCall, CallPc, GoPc
  <2> QED
    BY <1>t, <2>1, <2>2 DEF PageInv, PageFrame
<1>4. CASE finish(q)
  BY <1>t, <1>4 DEF finish, TakeStoredError, PageInv, PageFrame
<1>5. CASE CloseTake(q)
  BY <1>t, <1>5 DEF CloseTake, TakeStoredError, PageInv, PageFrame
<1>6. CASE FinishClose(q) \/ Close(q)
  <2>1. UNCHANGED <<op, task, stage, verdict, outcome, page, metas>>
    BY <1>6 DEF FinishClose, Close, CloseCursor
  <2>2. /\ go[q] # "ended"
        /\ \E to \in GoPc : /\ go' = [go EXCEPT ![q] = to]
                            /\ op[q] = "OP_LOG_PAGE" => to # "ended"
    BY <1>6 DEF FinishClose, Close, CloseCursor, AfterFinish, GoPc
  <2> QED
    BY <1>t, <2>1, <2>2 DEF PageInv, PageFrame
<1>7. CASE fetchLogPageMeta(q)
  <2>1. go[q] # "ended" /\ UNCHANGED <<op, task, stage, verdict, outcome>>
    BY <1>7 DEF fetchLogPageMeta
  <2>2. /\ go' = [go EXCEPT ![q] = "ended"] /\ metas' = metas \ {q}
        /\ page' = [page EXCEPT ![q] = IF q \in metas THEN "found" ELSE "empty"]
    BY <1>7 DEF fetchLogPageMeta
  <2> QED
    BY <1>t, <1>1, <2>1, <2>2 DEF PageInv, PageFrame
<1> QED
  BY <1>2, <1>3, <1>4, <1>5, <1>6, <1>7 DEF RowsStep

Pages == \A q \in Queries : PageInv(q)

\* No page has been asked for.
LEMMA InitPages == Init => Pages
BY DEF Init, Pages, PageInv

\* Each step keeps the metadata of every page.
LEMMA NextPages == IInv /\ Pages /\ [Next]_vars => Pages'
<1> SUFFICES ASSUME IInv, Pages, [Next]_vars, NEW p \in Queries PROVE PageInv(p)'
  BY DEF Pages
<1>0. PageInv(p)
  BY DEF Pages
<1>1. ASSUME NEW q \in Queries,
             \/ \E o \in Ops, d \in Dbs : openStream(q, o, d)
             \/ openStreamRefused(q) \/ NextCall(q) \/ RowsStep(q) \/ Close(q)
             \/ HandlerStep(q)
      PROVE  PageInv(p)'
  <2>1. PageInv(q)
    BY DEF Pages
  <2>2. PageInv(q)' /\ \A r \in Queries \ {q} : PageFrame(r)
    BY <1>1, <2>1, HandlerKeepsPage, OtherStepsKeepPage
  <2> QED
    BY <1>0, <2>2, FrameKeepsPage
<1>2. ASSUME \/ \E q \in Queries : Cancel(q) \/ Release(q)
             \/ \E d \in Dbs : imbhgo_close(d)
             \/ UNCHANGED vars
      PROVE  PageInv(p)'
  <2>1. PageFrame(p)
    BY <1>2 DEF Cancel, Release, imbhgo_close, vars, PageFrame
  <2> QED
    BY <1>0, <2>1, FrameKeepsPage
<1> QED
  BY <1>1, <1>2 DEF Next, Finished

-----------------------------------------------------------------------------
(***************************************************************************)
(* The count of the shells.                                                *)
(***************************************************************************)

\* A batch by its query and position.
LEMMA ShellAt ==
    ASSUME NEW q \in Queries, NEW i \in 1..MaxBatches
    PROVE  <<q, i>> \in Batches /\ (<<q, i>> \in Shells <=> i <= produced[q] /\ frees[<<q, i>>] = 0)
BY DEF Batches, Shells

\* A batch that Next has not had in hand is freed when the receiver was dropped
\* with it, and not before.
LEMMA NotTakenFrees ==
    ASSUME IInv, NEW q \in Queries, NEW i \in 1..MaxBatches, i > Taken(q)
    PROVE  frees[<<q, i>>] = IF rx[q] = "dropped" /\ i <= Sent(q) THEN 1 ELSE 0
<1>1. frees[<<q, i>>] = IF \/ i <= Taken(q) /\ i # ptr[q]
                           \/ rx[q] = "dropped" /\ i <= Sent(q)
                        THEN 1 ELSE 0
  BY DEF IInv, QInv, FreesInv
<1>2. Taken(q) \in Nat
  BY NumbersAt DEF Numbers
<1> QED
  BY <1>1, <1>2

\* Freeing shells that are alive brings the counter down by as many.
LEMMA DropKeepsLive ==
    ASSUME IInv, LiveInv, NEW bs \in SUBSET Shells, NEW fate, DropShells(bs, fate),
           produced' = produced
    PROVE  LiveInv'
<1>t. frees \in [Batches -> Nat]
  BY DEF IInv, TypeOK
<1>1. Shells' = Shells \ bs
  BY <1>t DEF Shells, DropShells
<1>2. Shells \cap bs = bs
  OBVIOUS
<1>3. IsFiniteSet(Shells) /\ live = Cardinality(Shells)
  BY DEF LiveInv
<1>4. IsFiniteSet(Shells \ bs) /\ Cardinality(Shells \ bs) = Cardinality(Shells) - Cardinality(bs)
  BY <1>2, <1>3, FS_Difference
<1> QED
  BY <1>1, <1>3, <1>4 DEF LiveInv, DropShells

\* The three places that free shells free live ones.
LEMMA SendFailsKeepsLive ==
    ASSUME IInv, LiveInv, NEW q \in Queries, HandlerSendFails(q)
    PROVE  LiveInv'
<1>n. Numbers(q)
  BY NumbersAt
<1>1. task[q] = "sending" /\ rx[q] = "dropped" /\ produced[q] > 0
  BY DEF HandlerSendFails, IInv, QInv, PhaseInv
<1>2. ptr[q] = 0 /\ Sent(q) = produced[q] - 1 /\ produced[q] \in 1..MaxBatches
  BY <1>1, <1>n DEF Numbers, Sent, IInv, QInv, PhaseInv, ImportPc, OpenPc
<1>3. frees[<<q, produced[q]>>] = 0
  <2>1. produced[q] > Taken(q) /\ produced[q] > Sent(q) /\ Sent(q) \in Nat
    BY <1>2, <1>n DEF Numbers
  <2> QED
    BY <1>2, <2>1, NotTakenFrees
<1>4. {<<q, produced[q]>>} \in SUBSET Shells
  BY <1>2, <1>3, ShellAt
<1> QED
  BY <1>4, DropKeepsLive DEF HandlerSendFails, imbhgo_batch_release

\* Next frees the shell of the batch in its hand.
LEMMA ShellFreeKeepsLive ==
    ASSUME IInv, LiveInv, NEW q \in Queries, NextShellFree(q)
    PROVE  LiveInv'
<1>n. Numbers(q)
  BY NumbersAt
<1>1. go[q] \in ImportPc
  BY DEF NextShellFree, AfterImport, ImportPc
<1>2. ptr[q] \in 1..MaxBatches /\ rx[q] = "open" /\ ptr[q] = Len(got[q]) + 1 /\ Taken(q) = ptr[q]
  BY <1>1, <1>n DEF Numbers, Taken, IInv, QInv, PhaseInv, QueueInv, ImportPc, OpenPc
<1>3. frees[<<q, ptr[q]>>] = 0 /\ ptr[q] <= produced[q]
  BY <1>2, <1>n DEF Numbers, IInv, QInv, FreesInv
<1>4. {<<q, ptr[q]>>} \in SUBSET Shells
  BY <1>2, <1>3, ShellAt
<1>5. DropShells({<<q, ptr[q]>>}, "lost") /\ produced' = produced
  BY DEF NextShellFree, AfterImport, imbhgo_shell_free
<1> QED
  BY <1>4, <1>5, DropKeepsLive

\* Closing the cursor frees the shells in the channel.
LEMMA CloseKeepsLive ==
    ASSUME IInv, LiveInv, NEW q \in Queries, FinishClose(q) \/ Close(q)
    PROVE  LiveInv'
<1> DEFINE bs == {<<q, chan[q][k]>> : k \in DOMAIN chan[q]}
<1>n. Numbers(q)
  BY NumbersAt
<1>1. rx[q] = "open" /\ ptr[q] = 0
  BY DEF FinishClose, Close, IInv, QInv, PhaseInv, OpenPc, ImportPc
<1>2. DropShells(bs, "freed") /\ produced' = produced
  BY DEF FinishClose, Close, CloseCursor, CloseStream, imbhgo_batch_release
<1>3. ASSUME NEW b \in bs PROVE b \in Shells
  <2>1. PICK i \in 1..MaxBatches : b = <<q, i>>
    BY <1>n DEF Numbers
  <2>2. Taken(q) < i /\ i <= Sent(q)
    BY <1>1, <2>1, BufferedBatches
  <2>3. frees[<<q, i>>] = 0 /\ i <= produced[q]
    BY <1>1, <1>n, <2>2, NotTakenFrees DEF Numbers
  <2> QED
    BY <2>1, <2>3, ShellAt
<1> HIDE DEF bs
<1> QED
  BY <1>2, <1>3, DropKeepsLive

\* An exported batch is a new shell.
LEMMA ExportKeepsLive ==
    ASSUME IInv, LiveInv, NEW q \in Queries, HandlerExport(q)
    PROVE  LiveInv'
<1> DEFINE n == produced[q] + 1
<1>n. Numbers(q)
  BY NumbersAt
<1>t. /\ produced \in [Queries -> 0..MaxBatches] /\ size[q] \in 0..MaxBatches
      /\ frees \in [Batches -> Nat] /\ MaxBatches \in Nat
  BY StreamAssumption DEF IInv, TypeOK
<1>1. /\ produced' = [produced EXCEPT ![q] = n] /\ live' = live + 1 /\ frees' = frees
      /\ n \in 1..MaxBatches
  BY <1>t DEF HandlerExport, export_batch
<1>2. frees[<<q, n>>] = 0
  <2>1. n > Taken(q) /\ n > Sent(q)
    BY <1>1, <1>n DEF Numbers
  <2>2. Sent(q) \in Nat
    BY <1>n DEF Numbers
  <2>3. frees[<<q, n>>] = IF rx[q] = "dropped" /\ n <= Sent(q) THEN 1 ELSE 0
    BY <1>1, <2>1, NotTakenFrees
  <2> QED
    BY <1>1, <2>1, <2>2, <2>3
<1>3. <<q, n>> \notin Shells
  BY <1>1, <1>t, ShellAt
<1>4. Shells' = Shells \cup {<<q, n>>}
  <2>1. ASSUME NEW b \in Batches
        PROVE  b \in Shells' <=> b \in Shells \cup {<<q, n>>}
    <3>1. PICK p \in Queries, i \in 1..MaxBatches : b = <<p, i>>
      BY DEF Batches
    <3>2. b \in Shells' <=> i <= produced'[p] /\ frees[b] = 0
      BY <1>1, <3>1 DEF Shells
    <3>3. b \in Shells <=> i <= produced[p] /\ frees[b] = 0
      BY <3>1 DEF Shells
    <3>4. CASE p = q
      BY <1>1, <1>2, <1>t, <3>1, <3>2, <3>3, <3>4
    <3>5. CASE p # q
      BY <1>1, <1>t, <3>1, <3>2, <3>3, <3>5
    <3> QED
      BY <3>4, <3>5
  <2>2. <<q, n>> \in Batches
    BY <1>1 DEF Batches
  <2>3. Shells \subseteq Batches /\ Shells' \subseteq Batches
    BY DEF Shells
  <2> QED
    BY <2>1, <2>2, <2>3
<1>5. /\ IsFiniteSet(Shells \cup {<<q, n>>})
      /\ Cardinality(Shells \cup {<<q, n>>}) = Cardinality(Shells) + 1
  BY <1>3, FS_AddElement DEF LiveInv
<1> QED
  BY <1>1, <1>4, <1>5 DEF LiveInv

\* No shell has been exported.
LEMMA InitLive == Init => LiveInv
<1> SUFFICES ASSUME Init PROVE LiveInv
  OBVIOUS
<1>1. Shells = {}
  <2>1. ASSUME NEW b \in Batches PROVE ~(b[2] <= produced[b[1]])
    BY StreamAssumption DEF Init, Batches
  <2> QED
    BY <2>1 DEF Shells
<1> QED
  BY <1>1, FS_EmptySet DEF Init, LiveInv

\* All other steps leave the shells alone.
LEMMA QuietMemory ==
    ASSUME NEW q \in Queries,
           \/ \E o \in Ops, d \in Dbs : openStream(q, o, d)
           \/ openStreamRefused(q) \/ NextCall(q) \/ Cancel(q) \/ Release(q)
           \/ HandlerStage(q) \/ HandlerLookup(q) \/ HandlerMeta(q) \/ HandlerLoopError(q)
           \/ HandlerEnd(q) \/ HandlerSend(q) \/ HandlerUnpin(q) \/ HandlerDropTx(q)
           \/ NextTake(q) \/ NextEnd(q) \/ NextCancelled(q) \/ ImportCRecordBatch(q)
           \/ SlotCall(q) \/ finish(q) \/ CloseTake(q) \/ fetchLogPageMeta(q)
    PROVE  UNCHANGED <<produced, frees, live>>
<1>1. CASE \/ \E o \in Ops, d \in Dbs : openStream(q, o, d)
           \/ openStreamRefused(q) \/ NextCall(q) \/ Cancel(q) \/ Release(q)
  BY <1>1 DEF openStream, OpenCursor, openStreamRefused, NextCall, GoMoves, Cancel, Release
<1>2. CASE \/ HandlerStage(q) \/ HandlerLookup(q) \/ HandlerMeta(q) \/ HandlerLoopError(q)
           \/ HandlerEnd(q) \/ HandlerSend(q) \/ HandlerUnpin(q) \/ HandlerDropTx(q)
  BY <1>2 DEF HandlerStage, HandlerLookup, HandlerMeta, HandlerLoopError, HandlerEnd, HandlerSend,
     HandlerUnpin, HandlerDropTx, HandlerGoes
<1>3. CASE \/ NextTake(q) \/ NextEnd(q) \/ NextCancelled(q) \/ ImportCRecordBatch(q)
           \/ SlotCall(q) \/ finish(q) \/ CloseTake(q) \/ fetchLogPageMeta(q)
  BY <1>3 DEF NextTake, Take, NextEnd, NextCancelled, GoMoves, ImportCRecordBatch, SlotCall,
     finish, CloseTake, TakeStoredError, fetchLogPageMeta
<1> QED
  BY <1>1, <1>2, <1>3

\* Each step moves LIVE_BATCHES with the shells.
LEMMA NextLive == IInv /\ LiveInv /\ [Next]_vars => LiveInv'
<1> SUFFICES ASSUME IInv, LiveInv, [Next]_vars PROVE LiveInv'
  OBVIOUS
<1>0. ASSUME UNCHANGED <<produced, frees, live>> PROVE LiveInv'
  <2>1. Shells' = Shells
    BY <1>0 DEF Shells
  <2> QED
    BY <1>0, <2>1 DEF LiveInv
<1>1. ASSUME NEW d \in Dbs, imbhgo_close(d) PROVE LiveInv'
  BY <1>0, <1>1 DEF imbhgo_close
<1>2. CASE UNCHANGED vars
  BY <1>0, <1>2 DEF vars
<1>3. ASSUME NEW q \in Queries, HandlerStep(q) \/ RowsStep(q) \/ Close(q) PROVE LiveInv'
  BY <1>0, <1>3, QuietMemory, SendFailsKeepsLive, ShellFreeKeepsLive, CloseKeepsLive,
     ExportKeepsLive DEF HandlerStep, RowsStep
<1> QED
  BY <1>0, <1>1, <1>2, <1>3, QuietMemory DEF Next, Finished

-----------------------------------------------------------------------------
(***************************************************************************)
(* The owners of the Arrow buffers.                                        *)
(***************************************************************************)

\* The buffers of p's batches stay where they are.
BuffersStay(p) == \A i \in 1..MaxBatches : bufs'[<<p, i>>] = bufs[<<p, i>>]

\* A step that moves no buffers of p, delivers nothing to it and does not touch
\* the batch in its hand; before the receiver is dropped it does not matter how
\* many batches were sent.
LEMMA StayKeepsBuffers ==
    ASSUME NEW p \in Queries, BufferInv(p), BuffersStay(p),
           got'[p] = got[p], ptr'[p] = ptr[p], p \in importErr' <=> p \in importErr,
           produced'[p] = produced[p], rx'[p] = "dropped" <=> rx[p] = "dropped",
           rx[p] = "dropped" => Sent(p)' = Sent(p),
           go'[p] = go[p] \/ go'[p] \notin ImportPc
    PROVE  BufferInv(p)'
<1>1. Taken(p)' = Taken(p)
  BY DEF Taken
<1>2. SUFFICES ASSUME NEW i \in 1..MaxBatches PROVE BufferAt(p, i)'
  BY DEF BufferInv
<1>3. BufferAt(p, i) /\ bufs'[<<p, i>>] = bufs[<<p, i>>]
  BY DEF BufferInv, BuffersStay
<1> QED
  BY <1>1, <1>3 DEF BufferAt, ImportPc

\* A step of one query that is invisible to p.
LEMMA FrameKeepsBuffers ==
    ASSUME NEW p \in Queries, BufferInv(p), BuffersStay(p), Frame(p)
    PROVE  BufferInv(p)'
<1>1. Sent(p)' = Sent(p)
  BY DEF Frame, Sent
<1> QED
  BY <1>1, StayKeepsBuffers DEF Frame

\* The exported batch owns its buffers.
LEMMA ExportKeepsBuffers ==
    ASSUME IInv, NEW q \in Queries, BufferInv(q), HandlerExport(q)
    PROVE  BufferInv(q)' /\ \A p \in Queries \ {q} : BuffersStay(p)
<1> DEFINE n == produced[q] + 1
<1>n. Numbers(q)
  BY NumbersAt
<1>t. /\ produced \in [Queries -> 0..MaxBatches] /\ size[q] \in 0..MaxBatches
      /\ bufs \in [Batches -> Owners] /\ task \in [Queries -> TaskPc] /\ MaxBatches \in Nat
  BY StreamAssumption DEF IInv, TypeOK
<1>1. /\ produced'[q] = n /\ n \in 1..MaxBatches /\ task'[q] = "sending" /\ task[q] = "running"
      /\ bufs' = [bufs EXCEPT ![<<q, n>>] = "ffi"]
      /\ UNCHANGED <<go, got, ptr, importErr, rx>>
  BY <1>t DEF HandlerExport, export_batch, At
<1>2. /\ \A i \in 1..MaxBatches : bufs'[<<q, i>>] = IF i = n THEN "ffi" ELSE bufs[<<q, i>>]
      /\ \A p \in Queries \ {q} : BuffersStay(p)
  BY <1>1, <1>t DEF Batches, BuffersStay
<1>3. Taken(q)' = Taken(q) /\ Sent(q)' = Sent(q) /\ Sent(q) = produced[q]
  BY <1>1, <1>n DEF Taken, Sent, Numbers
<1>4. Len(got[q]) < n /\ ptr[q] < n /\ Taken(q) < n
  <2>1. /\ produced[q] \in Nat /\ Len(got[q]) \in Nat /\ Taken(q) <= produced[q] /\ ptr[q] \in Nat
        /\ Taken(q) \in Nat
    BY <1>3, <1>n DEF Numbers
  <2>2. Len(got[q]) <= Taken(q) /\ ptr[q] <= Taken(q)
    BY <1>n DEF Taken, Numbers, IInv, QInv, QueueInv
  <2> QED
    BY <2>1, <2>2
<1>5. ASSUME NEW i \in 1..MaxBatches PROVE BufferAt(q, i)'
  <2>0. BufferAt(q, i)
    BY DEF BufferInv
  <2>1. CASE i = n
    BY <1>1, <1>2, <1>3, <1>4, <1>n, <2>1 DEF BufferAt, Numbers
  <2>2. CASE i # n
    <3>1. i <= n <=> i <= produced[q]
      BY <1>1, <1>t, <2>2
    <3> QED
      BY <1>1, <1>2, <1>3, <2>0, <2>2, <3>1 DEF BufferAt
  <2> QED
    BY <2>1, <2>2
<1> QED
  BY <1>2, <1>5 DEF BufferInv

\* The batch that could not be sent is dropped with its buffers.
LEMMA SendFailsKeepsBuffers ==
    ASSUME IInv, NEW q \in Queries, BufferInv(q), HandlerSendFails(q)
    PROVE  BufferInv(q)' /\ \A p \in Queries \ {q} : BuffersStay(p)
<1> DEFINE n == produced[q]
<1>n. Numbers(q)
  BY NumbersAt
<1>t. bufs \in [Batches -> Owners] /\ task \in [Queries -> TaskPc]
  BY DEF IInv, TypeOK
<1>1. /\ task[q] = "sending" /\ rx[q] = "dropped" /\ n > 0 /\ task'[q] = "returning"
      /\ UNCHANGED <<go, got, ptr, importErr, rx, produced>>
  BY <1>t DEF HandlerSendFails, Return, IInv, QInv, PhaseInv
<1>2. ptr[q] = 0 /\ Sent(q) = n - 1 /\ Sent(q)' = n /\ Taken(q)' = Taken(q) /\ n \in 1..MaxBatches
  <2>1. ptr[q] = 0
    BY <1>1 DEF IInv, QInv, PhaseInv, ImportPc, OpenPc
  <2>2. n \in 1..MaxBatches
    BY <1>1, <1>n DEF Numbers
  <2>3. Sent(q) = n - 1 /\ Sent(q)' = n
    BY <1>1 DEF Sent
  <2>4. Taken(q)' = Taken(q)
    BY <1>1 DEF Taken
  <2> QED
    BY <2>1, <2>2, <2>3, <2>4
<1>3. Taken(q) < n /\ Len(got[q]) < n
  <2>1. n \in Nat /\ Len(got[q]) \in Nat /\ Taken(q) \in Nat /\ Taken(q) <= n - 1
    BY <1>2, <1>n DEF Numbers
  <2>2. Len(got[q]) <= Taken(q)
    BY <1>n DEF Taken, Numbers
  <2> QED
    BY <2>1, <2>2
<1>4. bufs[<<q, n>>] = "ffi"
  <2>1. BufferAt(q, n)
    BY <1>2 DEF BufferInv
  <2> QED
    BY <1>2, <1>3, <2>1 DEF BufferAt
<1>5. /\ \A i \in 1..MaxBatches : bufs'[<<q, i>>] = IF i = n THEN "freed" ELSE bufs[<<q, i>>]
      /\ \A p \in Queries \ {q} : BuffersStay(p)
  BY <1>t, <1>4 DEF HandlerSendFails, imbhgo_batch_release, DropShells, Batches, BuffersStay
<1>6. ASSUME NEW i \in 1..MaxBatches PROVE BufferAt(q, i)'
  <2>0. BufferAt(q, i)
    BY DEF BufferInv
  <2>1. CASE i = n
    BY <1>1, <1>2, <1>3, <1>5, <2>1 DEF BufferAt
  <2>2. CASE i # n
    <3>1. i <= n <=> i <= n - 1
      BY <1>2, <2>2
    <3> QED
      BY <1>1, <1>2, <1>5, <2>0, <2>2, <3>1 DEF BufferAt
  <2> QED
    BY <2>1, <2>2
<1> QED
  BY <1>5, <1>6 DEF BufferInv

\* The batch Next takes still owns its buffers.
LEMMA TakeKeepsBuffers ==
    ASSUME IInv, NEW q \in Queries, BufferInv(q), NextTake(q)
    PROVE  BufferInv(q)' /\ \A p \in Queries \ {q} : BuffersStay(p)
<1>n. Numbers(q)
  BY NumbersAt
<1>p. Preserved(q)
  BY NextTakeStep
<1>t. go \in [Queries -> GoPc] /\ ptr' \in [Queries -> 0..MaxBatches]
  BY <1>p DEF IInv, TypeOK, Preserved
<1>1. /\ go[q] = "pulling" /\ go'[q] = "importing" /\ rx[q] = "open" /\ ptr[q] = 0
      /\ q \notin importErr /\ ptr'[q] # 0 /\ ptr'[q] = Len(got'[q]) + 1 /\ Taken(q)' <= Sent(q)'
      /\ UNCHANGED <<got, importErr, rx, produced, task, bufs>>
  BY <1>p, <1>t DEF NextTake, Take, Preserved, IInv, QInv, PhaseInv, QueueInv, OpenPc, ImportPc,
     FinishPc, ClosedPc
<1>2. /\ Taken(q) = Len(got[q]) /\ Taken(q)' = Taken(q) + 1 /\ ptr'[q] = Taken(q) + 1
      /\ Sent(q)' = Sent(q)
  BY <1>1, <1>n DEF Taken, Sent, Numbers
<1>3. /\ Taken(q) \in Nat /\ Taken(q) + 1 <= produced[q] /\ produced[q] \in 0..MaxBatches
      /\ MaxBatches \in Nat
  <2>1. /\ Sent(q) \in Nat /\ Sent(q) <= produced[q] /\ produced[q] \in 0..MaxBatches
        /\ Taken(q) \in Nat /\ MaxBatches \in Nat
    BY <1>n DEF Numbers
  <2>2. Taken(q) + 1 <= Sent(q)
    BY <1>1, <1>2
  <2> QED
    BY <2>1, <2>2
<1>4. ASSUME NEW i \in 1..MaxBatches PROVE BufferAt(q, i)'
  <2>0. BufferAt(q, i)
    BY DEF BufferInv
  <2>1. CASE i = Taken(q) + 1
    <3>1. bufs[<<q, i>>] = "ffi"
      BY <1>1, <1>3, <2>0, <2>1 DEF BufferAt
    <3> QED
      BY <1>1, <1>2, <1>3, <2>1, <3>1 DEF BufferAt
  <2>2. CASE i # Taken(q) + 1
    <3>1. Taken(q) + 1 < i => Taken(q) < i
      BY <1>3
    <3> QED
      BY <1>1, <1>2, <2>0, <2>2, <3>1 DEF BufferAt
  <2> QED
    BY <2>1, <2>2
<1> QED
  BY <1>1, <1>4 DEF BufferInv, BuffersStay

\* The batch in Next's hand, before its shell is freed.
LEMMA InHand ==
    ASSUME IInv, NEW q \in Queries, go[q] \in ImportPc
    PROVE  /\ ptr[q] \in 1..MaxBatches /\ ptr[q] = Len(got[q]) + 1 /\ Taken(q) = ptr[q]
           /\ Len(got[q]) \in Nat /\ rx[q] = "open" /\ q \notin importErr
<1>n. Numbers(q)
  BY NumbersAt
<1>1. ptr[q] # 0 /\ rx[q] = "open" /\ q \notin importErr
  BY DEF IInv, QInv, PhaseInv, ImportPc, OpenPc, FinishPc, ClosedPc
<1>2. ptr[q] = Len(got[q]) + 1
  BY <1>1 DEF IInv, QInv, QueueInv
<1> QED
  BY <1>1, <1>2, <1>n DEF Numbers, Taken

\* The import moves the buffers of the batch in hand only.
LEMMA ImportKeepsBuffers ==
    ASSUME IInv, NEW q \in Queries, BufferInv(q), ImportCRecordBatch(q)
    PROVE  BufferInv(q)' /\ \A p \in Queries \ {q} : BuffersStay(p)
<1>t. go \in [Queries -> GoPc] /\ bufs \in [Batches -> Owners]
  BY DEF IInv, TypeOK
<1>1. go[q] = "importing" /\ UNCHANGED <<got, ptr, importErr, rx, produced, task>>
  BY DEF ImportCRecordBatch
<1>2. /\ ptr[q] \in 1..MaxBatches /\ ptr[q] = Len(got[q]) + 1 /\ Taken(q) = ptr[q]
      /\ Len(got[q]) \in Nat /\ rx[q] = "open" /\ q \notin importErr
  BY <1>1, InHand DEF ImportPc
<1>3. Taken(q)' = Taken(q) /\ Sent(q)' = Sent(q)
  BY <1>1 DEF Taken, Sent
<1>4. bufs[<<q, ptr[q]>>] = "ffi" /\ <<q, ptr[q]>> \in Batches
  <2>1. BufferAt(q, ptr[q])
    BY <1>2 DEF BufferInv
  <2> QED
    BY <1>1, <1>2, <2>1 DEF BufferAt, Batches
<1>5. /\ \/ go'[q] = "imported" /\ bufs'[<<q, ptr[q]>>] = "record"
         \/ go'[q] = "importFailed" /\ bufs'[<<q, ptr[q]>>] \in {"ffi", "freed"}
      /\ \A b \in Batches : b # <<q, ptr[q]>> => bufs'[b] = bufs[b]
  BY <1>t, <1>4 DEF ImportCRecordBatch
<1>6. ASSUME NEW i \in 1..MaxBatches PROVE BufferAt(q, i)'
  <2>0. BufferAt(q, i)
    BY DEF BufferInv
  <2>1. CASE i = ptr[q]
    BY <1>1, <1>2, <1>3, <1>5, <2>1 DEF BufferAt
  <2>2. CASE i # ptr[q]
    <3>1. bufs'[<<q, i>>] = bufs[<<q, i>>]
      BY <1>5, <2>2 DEF Batches
    <3> QED
      BY <1>1, <1>2, <1>3, <2>0, <2>2, <3>1 DEF BufferAt
  <2> QED
    BY <2>1, <2>2
<1>7. \A p \in Queries \ {q} : BuffersStay(p)
  BY <1>5 DEF Batches, BuffersStay
<1> QED
  BY <1>6, <1>7 DEF BufferInv

\* Freeing the shell loses the buffers that the import left in it.
LEMMA ShellFreeKeepsBuffers ==
    ASSUME IInv, NEW q \in Queries, BufferInv(q), NextShellFree(q)
    PROVE  BufferInv(q)' /\ \A p \in Queries \ {q} : BuffersStay(p)
<1>n. Numbers(q)
  BY NumbersAt
<1>t. /\ go \in [Queries -> GoPc] /\ bufs \in [Batches -> Owners]
      /\ ptr \in [Queries -> 0..MaxBatches] /\ got \in [Queries -> Seq(1..MaxBatches)]
  BY DEF IInv, TypeOK
<1>1. go[q] \in {"imported", "importFailed"} /\ UNCHANGED <<rx, produced, task>>
  BY DEF NextShellFree, AfterImport
<1>2. /\ ptr[q] \in 1..MaxBatches /\ ptr[q] = Len(got[q]) + 1 /\ Taken(q) = ptr[q]
      /\ Len(got[q]) \in Nat /\ rx[q] = "open" /\ q \notin importErr
  BY <1>1, InHand DEF ImportPc
<1>3. /\ ptr'[q] = 0
      /\ \/ /\ go[q] = "imported" /\ go'[q] = "rows" /\ importErr' = importErr
            /\ got'[q] = Append(got[q], ptr[q])
         \/ /\ go[q] = "importFailed" /\ go'[q] = "finishing" /\ q \in importErr'
            /\ got'[q] = got[q]
  BY <1>t DEF NextShellFree, AfterImport
<1>4. Len(Append(got[q], ptr[q])) = ptr[q]
  BY <1>2, <1>n DEF Numbers
<1>5. Taken(q)' = Taken(q) /\ Sent(q)' = Sent(q)
  BY <1>1, <1>2, <1>3, <1>4 DEF Taken, Sent
<1>6. \A b \in Batches : bufs'[b] = IF b = <<q, ptr[q]>> /\ bufs[b] = "ffi" THEN "lost" ELSE bufs[b]
  BY DEF NextShellFree, imbhgo_shell_free, DropShells
<1>7. ASSUME NEW i \in 1..MaxBatches PROVE BufferAt(q, i)'
  <2>0. BufferAt(q, i) /\ <<q, i>> \in Batches
    BY DEF BufferInv, Batches
  <2>1. CASE i = ptr[q]
    <3>1. CASE go[q] = "imported"
      <4>1. bufs'[<<q, i>>] = "record"
        BY <1>6, <2>0, <2>1, <3>1 DEF BufferAt
      <4> QED
        BY <1>2, <1>3, <1>5, <2>1, <3>1, <4>1 DEF BufferAt
    <3>2. CASE go[q] = "importFailed"
      <4>1. bufs'[<<q, i>>] \in {"lost", "freed"}
        BY <1>6, <2>0, <2>1, <3>2 DEF BufferAt
      <4> QED
        BY <1>2, <1>3, <1>5, <2>1, <3>2, <4>1 DEF BufferAt
    <3> QED
      BY <1>1, <3>1, <3>2
  <2>2. CASE i # ptr[q]
    <3>1. bufs'[<<q, i>>] = bufs[<<q, i>>]
      BY <1>6, <2>0, <2>2
    <3>2. i <= Len(got'[q]) => i <= Len(got[q])
      BY <1>2, <1>3, <1>4, <2>2
    <3> QED
      BY <1>1, <1>2, <1>3, <1>5, <2>0, <2>2, <3>1, <3>2 DEF BufferAt
  <2> QED
    BY <2>1, <2>2
<1>8. \A p \in Queries \ {q} : BuffersStay(p)
  BY <1>6 DEF Batches, BuffersStay
<1> QED
  BY <1>7, <1>8 DEF BufferInv

\* Closing the cursor frees the buffers in the channel.
LEMMA CloseKeepsBuffers ==
    ASSUME IInv, NEW q \in Queries, BufferInv(q), FinishClose(q) \/ Close(q)
    PROVE  BufferInv(q)' /\ \A p \in Queries \ {q} : BuffersStay(p)
<1> DEFINE bs == {<<q, chan[q][k]>> : k \in DOMAIN chan[q]}
<1>n. Numbers(q)
  BY NumbersAt
<1>t. go \in [Queries -> GoPc] /\ rx \in [Queries -> {"none", "open", "dropped"}]
  BY DEF IInv, TypeOK
<1>1. /\ rx[q] = "open" /\ rx'[q] = "dropped" /\ ptr[q] = 0
      /\ UNCHANGED <<got, ptr, importErr, produced, task>>
  BY <1>t DEF FinishClose, Close, CloseCursor, CloseStream, IInv, QInv, PhaseInv, OpenPc, ImportPc
<1>2. Taken(q)' = Taken(q) /\ Sent(q)' = Sent(q)
  BY <1>1 DEF Taken, Sent
<1>3. \A b \in Batches : bufs'[b] = IF b \in bs /\ bufs[b] = "ffi" THEN "freed" ELSE bufs[b]
  BY DEF FinishClose, Close, CloseCursor, CloseStream, imbhgo_batch_release, DropShells
<1>4. \A i \in 1..MaxBatches : <<q, i>> \in bs <=> Taken(q) < i /\ i <= Sent(q)
  BY <1>1, BufferedBatches
<1>5. \A p \in Queries \ {q}, i \in 1..MaxBatches : <<p, i>> \notin bs
  OBVIOUS
<1> HIDE DEF bs
<1>6. ASSUME NEW i \in 1..MaxBatches PROVE BufferAt(q, i)'
  <2>0. BufferAt(q, i) /\ <<q, i>> \in Batches
    BY DEF BufferInv, Batches
  <2>1. CASE Taken(q) < i /\ i <= Sent(q)
    <3>0. /\ Sent(q) \in Nat /\ Taken(q) \in Nat /\ produced[q] \in Nat /\ Sent(q) <= produced[q]
          /\ Len(got[q]) \in Nat /\ Len(got[q]) <= Taken(q)
      BY <1>n DEF Numbers, Taken
    <3>1. i <= produced[q] /\ ~(i <= Len(got[q])) /\ i # Taken(q) /\ i # 0
      BY <2>1, <3>0
    <3>2. bufs[<<q, i>>] = "ffi"
      BY <1>1, <2>0, <2>1, <3>1 DEF BufferAt
    <3>3. bufs'[<<q, i>>] = "freed"
      BY <1>3, <1>4, <2>0, <2>1, <3>2
    <3> QED
      BY <1>1, <1>2, <2>1, <3>1, <3>3 DEF BufferAt
  <2>2. CASE ~(Taken(q) < i /\ i <= Sent(q))
    <3>1. bufs'[<<q, i>>] = bufs[<<q, i>>]
      BY <1>3, <1>4, <2>0, <2>2
    <3> QED
      BY <1>1, <1>2, <2>0, <2>2, <3>1 DEF BufferAt
  <2> QED
    BY <2>1, <2>2
<1>7. \A p \in Queries \ {q} : BuffersStay(p)
  BY <1>3, <1>5 DEF Batches, BuffersStay
<1> QED
  BY <1>6, <1>7 DEF BufferInv

\* The caller releases a batch it was given, never one on its way.
LEMMA ReleaseKeepsBuffers ==
    ASSUME IInv, NEW q \in Queries, BufferInv(q), Release(q)
    PROVE  BufferInv(q)' /\ \A p \in Queries \ {q} : BuffersStay(p)
<1>n. Numbers(q)
  BY NumbersAt
<1>t. bufs \in [Batches -> Owners]
  BY DEF IInv, TypeOK
<1>1. UNCHANGED <<go, got, ptr, importErr, rx, produced, task>>
  BY DEF Release
<1>2. Taken(q)' = Taken(q) /\ Sent(q)' = Sent(q)
  BY <1>1 DEF Taken, Sent
<1>3. PICK k \in DOMAIN got[q] : /\ bufs[<<q, got[q][k]>>] = "record"
                                 /\ bufs' = [bufs EXCEPT ![<<q, got[q][k]>>] = "freed"]
  BY DEF Release
<1>4. k \in 1..Len(got[q]) /\ got[q][k] = k
  <2>1. SpanLaw(0, Len(got[q])) /\ got[q] = Span(0, Len(got[q]))
    BY <1>n, SpanFacts DEF Numbers, IInv, QInv, QueueInv
  <2>2. k \in 1..Len(got[q])
    BY <1>n DEF Numbers
  <2>3. got[q][k] = 0 + k
    BY <1>n, <2>1, <2>2 DEF SpanLaw, Numbers
  <2> QED
    BY <2>2, <2>3
<1>5. Len(got[q]) \in Nat /\ Taken(q) \in Nat /\ Len(got[q]) <= Taken(q)
  BY <1>n DEF Numbers, Taken
<1>6. ptr[q] # k /\ (q \in importErr => Taken(q) # k)
  <2>1. ptr[q] # 0 => ptr[q] = Len(got[q]) + 1
    BY DEF IInv, QInv, QueueInv
  <2> QED
    BY <1>4, <1>5, <2>1 DEF Taken
<1>7. ASSUME NEW i \in 1..MaxBatches PROVE BufferAt(q, i)'
  <2>0. BufferAt(q, i) /\ <<q, i>> \in Batches
    BY DEF BufferInv, Batches
  <2>1. CASE i = k
    <3>1. bufs'[<<q, i>>] = "freed"
      BY <1>3, <1>4, <1>t, <2>0, <2>1
    <3>2. ~(Taken(q) < i)
      BY <1>4, <1>5, <2>1
    <3> QED
      BY <1>1, <1>2, <1>6, <2>1, <3>1, <3>2 DEF BufferAt
  <2>2. CASE i # k
    <3>1. bufs'[<<q, i>>] = bufs[<<q, i>>]
      BY <1>3, <1>4, <1>t, <2>0, <2>2
    <3> QED
      BY <1>1, <1>2, <2>0, <3>1 DEF BufferAt
  <2> QED
    BY <2>1, <2>2
<1>8. \A p \in Queries \ {q} : BuffersStay(p)
  BY <1>3, <1>t DEF Batches, BuffersStay
<1> QED
  BY <1>7, <1>8 DEF BufferInv

\* All other steps move no buffers, and touch neither the batch in hand nor,
\* once the receiver is dropped, the count of batches sent.
LEMMA QuietBuffers ==
    ASSUME IInv, NEW q \in Queries, BufferInv(q),
           \/ \E o \in Ops, d \in Dbs : openStream(q, o, d)
           \/ openStreamRefused(q) \/ NextCall(q) \/ Cancel(q)
           \/ HandlerStage(q) \/ HandlerLookup(q) \/ HandlerMeta(q) \/ HandlerLoopError(q)
           \/ HandlerEnd(q) \/ HandlerSend(q) \/ HandlerUnpin(q) \/ HandlerDropTx(q)
           \/ NextEnd(q) \/ NextCancelled(q)
           \/ SlotCall(q) \/ finish(q) \/ CloseTake(q) \/ fetchLogPageMeta(q)
    PROVE  BufferInv(q)' /\ \A p \in Queries \ {q} : BuffersStay(p)
<1>t. go \in [Queries -> GoPc] /\ task \in [Queries -> TaskPc]
  BY DEF IInv, TypeOK
<1>r. rx \in [Queries -> {"none", "open", "dropped"}]
  BY DEF IInv, TypeOK
<1>1. ASSUME UNCHANGED <<got, ptr, importErr, produced, bufs>>,
             rx'[q] = "dropped" <=> rx[q] = "dropped",
             rx[q] = "dropped" => (task'[q] = "sending" <=> task[q] = "sending"),
             go'[q] = go[q] \/ go'[q] \notin ImportPc
      PROVE  BufferInv(q)' /\ \A p \in Queries \ {q} : BuffersStay(p)
  <2>1. rx[q] = "dropped" => Sent(q)' = Sent(q)
    BY <1>1 DEF Sent
  <2>2. \A p \in Queries : BuffersStay(p)
    BY <1>1 DEF BuffersStay
  <2> QED
    BY <1>1, <2>1, <2>2, StayKeepsBuffers
<1>2. CASE \E o \in Ops, d \in Dbs : openStream(q, o, d)
  <2>1. rx[q] = "none"
    BY <1>2 DEF openStream, OpenCursor, IInv, QInv, PhaseInv
  <2> QED
    BY <1>1, <1>2, <1>t, <1>r, <2>1 DEF openStream, OpenCursor, ImportPc
<1>3. CASE \/ openStreamRefused(q) \/ NextCall(q) \/ Cancel(q) \/ NextEnd(q) \/ NextCancelled(q)
  BY <1>1, <1>3, <1>t DEF openStreamRefused, NextCall, Cancel, NextEnd, NextCancelled, GoMoves,
     ImportPc
<1>4. CASE SlotCall(q) \/ finish(q) \/ CloseTake(q) \/ fetchLogPageMeta(q)
  BY <1>1, <1>4, <1>t DEF SlotCall, CallPc, finish, CloseTake, TakeStoredError, fetchLogPageMeta,
     ImportPc
<1>5. CASE \/ HandlerStage(q) \/ HandlerLookup(q) \/ HandlerMeta(q) \/ HandlerLoopError(q)
           \/ HandlerEnd(q) \/ HandlerUnpin(q) \/ HandlerDropTx(q)
  BY <1>1, <1>5, <1>t DEF HandlerStage, HandlerLookup, HandlerMeta, HandlerLoopError, HandlerEnd,
     HandlerUnpin, HandlerDropTx, HandlerGoes, Advance, store_query_error, Return, At
<1>6. CASE HandlerSend(q)
  BY <1>1, <1>6 DEF HandlerSend
<1> QED
  BY <1>2, <1>3, <1>4, <1>5, <1>6

Buffers == \A q \in Queries : BufferInv(q)

\* No batch has been produced.
LEMMA InitBuffers == Init => Buffers
<1> SUFFICES ASSUME Init, NEW q \in Queries, NEW i \in 1..MaxBatches PROVE BufferAt(q, i)
  BY DEF Buffers, BufferInv
<1>1. /\ Len(got[q]) = 0 /\ ptr[q] = 0 /\ q \notin importErr /\ produced[q] = 0
      /\ ~(i <= 0) /\ i # 0
  BY StreamAssumption DEF Init
<1> QED
  BY <1>1 DEF BufferAt

\* Each step keeps the buffers of every batch accounted for.
LEMMA NextBuffers == IInv /\ Buffers /\ [Next]_vars => Buffers'
<1> SUFFICES ASSUME IInv, Buffers, [Next]_vars, NEW p \in Queries PROVE BufferInv(p)'
  BY DEF Buffers
<1>0. \A q \in Queries : BufferInv(q)
  BY DEF Buffers
<1>1. ASSUME NEW q \in Queries, \A r \in Queries \ {q} : Frame(r),
             BufferInv(q)' /\ \A r \in Queries \ {q} : BuffersStay(r)
      PROVE  BufferInv(p)'
  BY <1>0, <1>1, FrameKeepsBuffers
<1>2. ASSUME NEW q \in Queries, HandlerStep(q) PROVE BufferInv(p)'
  <2>1. BufferInv(q)' /\ \A r \in Queries \ {q} : BuffersStay(r)
    BY <1>0, <1>2, QuietBuffers, ExportKeepsBuffers, SendFailsKeepsBuffers DEF HandlerStep
  <2>2. \A r \in Queries \ {q} : Frame(r)
    BY <1>2, HandlerSteps DEF Preserved
  <2> QED
    BY <1>1, <2>1, <2>2
<1>3. ASSUME NEW q \in Queries, RowsStep(q) PROVE BufferInv(p)'
  <2>1. BufferInv(q)' /\ \A r \in Queries \ {q} : BuffersStay(r)
    BY <1>0, <1>3, QuietBuffers, TakeKeepsBuffers, ImportKeepsBuffers, ShellFreeKeepsBuffers,
       CloseKeepsBuffers DEF RowsStep
  <2>2. \A r \in Queries \ {q} : Frame(r)
    BY <1>3, RowsSteps DEF Preserved
  <2> QED
    BY <1>1, <2>1, <2>2
<1>4. ASSUME NEW q \in Queries,
             \/ \E o \in Ops, d \in Dbs : openStream(q, o, d)
             \/ openStreamRefused(q) \/ NextCall(q) \/ Close(q) \/ Cancel(q)
      PROVE  BufferInv(p)'
  <2>1. BufferInv(q)' /\ \A r \in Queries \ {q} : BuffersStay(r)
    BY <1>0, <1>4, QuietBuffers, CloseKeepsBuffers
  <2>2. \A r \in Queries \ {q} : Frame(r)
    BY <1>4, OpenStep, GoMovesSteps, CloseStep, CancelStep DEF Preserved
  <2> QED
    BY <1>1, <2>1, <2>2
<1>5. ASSUME NEW q \in Queries, Release(q) PROVE BufferInv(p)'
  <2>1. BufferInv(q)' /\ \A r \in Queries \ {q} : BuffersStay(r)
    BY <1>0, <1>5, ReleaseKeepsBuffers
  <2>2. \A r \in Queries \ {q} : Frame(r)
    BY <1>5, ReleaseStep
  <2> QED
    BY <1>1, <2>1, <2>2
<1>6. ASSUME \/ \E d \in Dbs : imbhgo_close(d)
             \/ UNCHANGED vars
      PROVE  BufferInv(p)'
  <2>1. Frame(p) /\ BuffersStay(p)
    BY <1>6 DEF imbhgo_close, vars, Frame, BuffersStay
  <2> QED
    BY <1>0, <2>1, FrameKeepsBuffers
<1> QED
  BY <1>2, <1>3, <1>4, <1>5, <1>6 DEF Next, Finished

-----------------------------------------------------------------------------
(***************************************************************************)
(* The theorems.                                                           *)
(***************************************************************************)

\* All parts hold of the specification.
LEMMA ResourcesHold == Spec => []IInv /\ []GaugeInv /\ []LiveInv /\ []Pages /\ []Buffers
<1>1. Spec => []IInv
  BY InvariantHolds
<1>2. Spec => []GaugeInv
  BY <1>1, InitGauge, NextGauge, PTL DEF Spec
<1>3. Spec => []LiveInv
  BY <1>1, InitLive, NextLive, PTL DEF Spec
<1>4. Spec => []Pages
  BY <1>1, InitPages, NextPages, PTL DEF Spec
<1>5. Spec => []Buffers
  BY <1>1, InitBuffers, NextBuffers, PTL DEF Spec
<1> QED
  BY <1>1, <1>2, <1>3, <1>4, <1>5, PTL

\* sable's gauge, as opening, closing and the byte-Calls move it, counts the open
\* streams and the running calls exactly, and SetMaxInFlight's cap bounds the
\* streams, for any number of queries and any cap.
THEOREM AdmissionGaugeHolds == Spec => []AdmissionGauge
<1>1. ASSUME GaugeInv PROVE AdmissionGauge
  BY <1>1 DEF GaugeInv, AdmissionGauge, OpenStreams, RunningCalls
<1> QED
  BY <1>1, ResourcesHold, PTL

\* What Next and Err report at the end of a stream, and what was delivered, stay
\* as they are, and no later step takes the query's error a second time.
THEOREM EndIsFinalHolds == Spec => EndIsFinal
<1>1. IInv /\ [Next]_vars => [\A q \in Queries : Final(q)]_vars
  BY NextIsFinal
<1>2. EndIsFinal <=> [][\A q \in Queries : Final(q)]_vars
  BY PTL DEF EndIsFinal, Final
<1> QED
  BY <1>1, <1>2, InvariantHolds, PTL DEF Spec

\* QueryLogPage finds the metadata of every page that ended cleanly: its handler
\* stored it before the first row, and nothing else removes it.
THEOREM CleanPageHasMetaHolds == Spec => []CleanPageHasMeta
<1>1. ASSUME Pages PROVE CleanPageHasMeta
  BY <1>1 DEF Pages, PageInv, CleanPageHasMeta
<1> QED
  BY <1>1, ResourcesHold, PTL

\* A stream that has ended on both sides: nothing is in hand, in the channel or
\* with the handler.
LEMMA AtRest ==
    ASSUME IInv, Quiescent, NEW q \in Queries
    PROVE  /\ rx[q] # "open" /\ go[q] \notin InCall /\ ptr[q] = 0 /\ Sent(q) = produced[q]
           /\ produced[q] # 0 => rx[q] = "dropped"
<1>n. Numbers(q)
  BY NumbersAt
<1>1. go[q] \in {"new", "refused", "ended"} /\ task[q] \in {"none", "done"}
  BY DEF Quiescent
<1>2. rx[q] \in {"none", "open", "dropped"}
  BY DEF IInv, TypeOK
<1>3. rx[q] # "open" /\ ptr[q] = 0 /\ (produced[q] # 0 => rx[q] = "dropped")
  BY <1>1, <1>2 DEF IInv, QInv, PhaseInv, OpenPc, ImportPc
<1> QED
  BY <1>1, <1>3 DEF Sent, InCall

\* Once every stream has ended on both sides, LIVE_BATCHES and the gauge are at 0
\* and every exported shell has been freed once, whatever mix of drained,
\* cancelled, abandoned and failed streams came before.
THEOREM NothingLeaksAtRestHolds == Spec => []NothingLeaksAtRest
<1>1. ASSUME IInv, GaugeInv, LiveInv PROVE NothingLeaksAtRest
  <2> SUFFICES ASSUME Quiescent
               PROVE  /\ live = 0 /\ inflight = 0
                      /\ \A q \in Queries, i \in 1..MaxBatches :
                            i <= produced[q] => frees[<<q, i>>] = 1
    BY DEF NothingLeaksAtRest
  <2>1. ASSUME NEW q \in Queries, NEW i \in 1..MaxBatches, i <= produced[q]
        PROVE  frees[<<q, i>>] = 1
    <3>1. produced[q] # 0 /\ i # 0
      BY <1>1, <2>1, NumbersAt DEF Numbers
    <3>2. rx[q] = "dropped" /\ Sent(q) = produced[q]
      BY <1>1, <3>1, AtRest
    <3> QED
      BY <1>1, <2>1, <3>2 DEF IInv, QInv, FreesInv
  <2>2. Shells = {}
    BY <2>1 DEF Shells, Batches
  <2>3. OpenStreams = {} /\ RunningCalls = {}
    BY <1>1, AtRest DEF OpenStreams, RunningCalls
  <2>4. Cardinality({}) = 0
    BY FS_EmptySet
  <2>5. live = 0 /\ inflight = 0
    BY <1>1, <2>2, <2>3, <2>4 DEF LiveInv, GaugeInv
  <2> QED
    BY <2>1, <2>5
<1> QED
  BY <1>1, ResourcesHold, PTL

\* At rest the Arrow buffers of every batch were freed or belong to a record the
\* caller was given; only those of a batch whose import failed before the
\* importer took them are lost, because Next then frees the shell alone.
THEOREM BuffersAccountedForHolds == Spec => []BuffersAccountedFor
<1>1. ASSUME IInv, Buffers PROVE BuffersAccountedFor
  <2> SUFFICES ASSUME Quiescent, NEW q \in Queries, NEW i \in 1..MaxBatches, i <= produced[q]
               PROVE  \/ bufs[<<q, i>>] = "freed"
                      \/ bufs[<<q, i>>] = "record" /\ \E k \in DOMAIN got[q] : got[q][k] = i
                      \/ bufs[<<q, i>>] = "lost" /\ q \in importErr
    BY DEF BuffersAccountedFor
  <2>n. Numbers(q)
    BY <1>1, NumbersAt
  <2>0. BufferAt(q, i)
    BY <1>1 DEF Buffers, BufferInv
  <2>1. rx[q] = "dropped" /\ ptr[q] = 0 /\ Sent(q) = produced[q]
    <3>1. produced[q] # 0
      BY <2>n DEF Numbers
    <3> QED
      BY <1>1, <3>1, AtRest
  <2>2. CASE i <= Len(got[q])
    <3>1. SpanLaw(0, Len(got[q])) /\ got[q] = Span(0, Len(got[q]))
      BY <1>1, <2>n, SpanFacts DEF Numbers, IInv, QInv, QueueInv
    <3>2. i \in DOMAIN got[q] /\ got[q][i] = 0 + i
      BY <2>2, <2>n, <3>1 DEF SpanLaw, Numbers
    <3> QED
      BY <2>0, <2>2, <3>2 DEF BufferAt
  <2>3. CASE i = Taken(q) /\ q \in importErr
    BY <2>0, <2>3 DEF BufferAt
  <2>4. CASE Taken(q) < i
    BY <2>0, <2>1, <2>4 DEF BufferAt
  <2>5. \/ i <= Len(got[q])
        \/ i = Taken(q) /\ q \in importErr
        \/ Taken(q) < i
    BY <2>1, <2>n DEF Taken, Numbers
  <2> QED
    BY <2>2, <2>3, <2>4, <2>5
<1> QED
  BY <1>1, ResourcesHold, PTL
=============================================================================
