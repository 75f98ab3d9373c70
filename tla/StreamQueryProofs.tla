-------------------------- MODULE StreamQueryProofs --------------------------
(***************************************************************************)
(* Machine-checked proofs about StreamQuery, for any number of streams,    *)
(* any channel capacity, any cap and any bound on the batches.             *)
(***************************************************************************)
EXTENDS StreamQuery, FiniteSetTheorems, TLAPS

-----------------------------------------------------------------------------
(***************************************************************************)
(* The inductive invariant.                                                *)
(***************************************************************************)

OpenPc == {"rows", "pulling", "importing", "imported", "importFailed",
           "finishing", "finishCalled", "closing"}
ImportPc == {"importing", "imported", "importFailed"}
ClosedPc == {"abandoning", "abandonCalled", "metaFetch", "metaCalled", "ended"}
FinishPc == {"finishing", "finishCalled"}

\* The Go goroutine, the receiver and the task agree on how far the stream is.
PhaseInv(q) ==
    /\ rx[q] = "none" <=> go[q] \in {"new", "refused"}
    /\ rx[q] = "open" <=> go[q] \in OpenPc
    /\ task[q] = "none" <=> rx[q] = "none"
    /\ task[q] = "none" => produced[q] = 0
    /\ task[q] = "sending" => produced[q] > 0
    /\ ptr[q] # 0 <=> go[q] \in ImportPc
    /\ q \in importErr => go[q] \in FinishPc \cup {"closing"} \cup ClosedPc
    /\ outcome[q] # "none" => go[q] \in {"closing", "metaFetch", "metaCalled", "ended"}
    /\ go[q] \in {"closing", "metaFetch", "metaCalled", "ended"} => outcome[q] # "none"

\* The channel holds exactly what was sent and not yet taken, in order.
QueueInv(q) ==
    /\ got[q] = Span(0, Len(got[q]))
    /\ ptr[q] # 0 => ptr[q] = Len(got[q]) + 1
    /\ Taken(q) <= Sent(q)
    /\ rx[q] = "open" => chan[q] = Span(Taken(q), Sent(q))
    /\ rx[q] # "open" => chan[q] = <<>>

\* A shell has been freed once when Next is through with it or the receiver was
\* dropped with it, and not at all before that.
FreesInv(q) ==
    \A i \in 1..MaxBatches :
        frees[<<q, i>>] = IF \/ i <= Taken(q) /\ i # ptr[q]
                             \/ rx[q] = "dropped" /\ i <= Sent(q)
                          THEN 1 ELSE 0

\* The error slot and the verdict of the handler's body.
ErrorInv(q) ==
    /\ verdict[q] = "none" <=> task[q] \in {"none", "running", "sending"}
    /\ verdict[q] = "stopped" => rx[q] = "dropped"
    /\ q \in errs => verdict[q] = "failed"
    /\ verdict[q] = "failed" /\ outcome[q] = "none" => q \in errs
    /\ q \in pins => task[q] \in {"running", "sending", "returning"}

\* Unless it was cancelled or failed to import, a Next that ends has seen the
\* drained channel of a handler that is gone.
EndInv(q) ==
    /\ go[q] \in FinishPc /\ q \notin importErr /\ ~ctx[q]
          => task[q] = "done" /\ chan[q] = <<>>
    /\ outcome[q] \in {"clean", "query"}
          => /\ task[q] = "done"
             /\ q \notin errs
             /\ got[q] = Span(0, produced[q])
             /\ verdict[q] = IF outcome[q] = "clean" THEN "ok" ELSE "failed"

QInv(q) ==
    /\ PhaseInv(q)
    /\ QueueInv(q)
    /\ FreesInv(q)
    /\ ErrorInv(q)
    /\ EndInv(q)

IInv == TypeOK /\ \A q \in Queries : QInv(q)

\* A step leaves everything that QInv(q) looks at alone.
Frame(q) ==
    /\ go'[q] = go[q]
    /\ ctx'[q] = ctx[q]
    /\ ptr'[q] = ptr[q]
    /\ q \in importErr' <=> q \in importErr
    /\ outcome'[q] = outcome[q]
    /\ got'[q] = got[q]
    /\ chan'[q] = chan[q]
    /\ rx'[q] = rx[q]
    /\ task'[q] = task[q]
    /\ produced'[q] = produced[q]
    /\ verdict'[q] = verdict[q]
    /\ q \in errs' <=> q \in errs
    /\ q \in pins' <=> q \in pins
    /\ \A i \in 1..MaxBatches : frees'[<<q, i>>] = frees[<<q, i>>]

-----------------------------------------------------------------------------

\* What a step does not touch it does not break.
LEMMA FrameKeepsQInv ==
    ASSUME NEW q \in Queries, QInv(q), Frame(q)
    PROVE  QInv(q)'
<1>1. PhaseInv(q)'
  BY DEF QInv, PhaseInv, Frame
<1>2. QueueInv(q)'
  BY DEF QInv, QueueInv, Frame, Taken, Sent, Span
<1>3. FreesInv(q)'
  BY DEF QInv, FreesInv, Frame, Taken, Sent
<1>4. ErrorInv(q)'
  BY DEF QInv, ErrorInv, Frame
<1>5. EndInv(q)'
  BY DEF QInv, EndInv, Frame, Span
<1> QED
  BY <1>1, <1>2, <1>3, <1>4, <1>5 DEF QInv

\* What the sequences of the channel and of the caller are made of: appending
\* the next position, and taking the first one off.
SpanLaw(t, s) ==
    /\ Span(t, s) \in Seq(Nat)
    /\ Len(Span(t, s)) = s - t
    /\ DOMAIN Span(t, s) = 1..(s - t)
    /\ \A i \in 1..(s - t) : Span(t, s)[i] = t + i
    /\ Span(t, s) = <<>> <=> t = s
    /\ Append(Span(t, s), s + 1) = Span(t, s + 1)
    /\ t < s => /\ Head(Span(t, s)) = t + 1
                /\ Tail(Span(t, s)) = Span(t + 1, s)

\* Span behaves as its law says.
LEMMA SpanFacts ==
    ASSUME NEW t \in Nat, NEW s \in Nat, t <= s
    PROVE  SpanLaw(t, s)
<1>1. /\ Span(t, s) \in Seq(Nat)
      /\ Len(Span(t, s)) = s - t
      /\ DOMAIN Span(t, s) = 1..(s - t)
  BY DEF Span
<1>2. \A i \in 1..(s - t) : Span(t, s)[i] = t + i
  BY DEF Span
<1>3. Span(t, s) = <<>> <=> t = s
  BY <1>1
<1>4. Append(Span(t, s), s + 1) = Span(t, s + 1)
  BY <1>1 DEF Span
<1>5. ASSUME t < s
      PROVE  Head(Span(t, s)) = t + 1 /\ Tail(Span(t, s)) = Span(t + 1, s)
  BY <1>1, <1>5 DEF Span
<1> QED
  BY <1>1, <1>2, <1>3, <1>4, <1>5 DEF SpanLaw

\* Buffered handles are finitely many, so LIVE_BATCHES stays a number.
LEMMA BufferedIsFinite ==
    ASSUME NEW q, NEW c \in Seq(1..MaxBatches)
    PROVE  Cardinality({<<q, c[i]>> : i \in DOMAIN c}) \in Nat
<1> DEFINE D == 1..Len(c)
           T == {<<q, c[i]>> : i \in D}
           f == [i \in D |-> <<q, c[i]>>]
<1>1. f \in Surjection(D, T)
  BY DEF Surjection
<1>2. IsFiniteSet(D)
  BY FS_Interval
<1>3. Cardinality(T) \in Nat
  <2> HIDE DEF D, T, f
  <2> QED
    BY <1>1, <1>2, FS_Surjection, FS_CardinalityType
<1>4. DOMAIN c = D
  OBVIOUS
<1> QED
  BY <1>3, <1>4

\* So is one handle.
LEMMA SingletonIsFinite ==
    ASSUME NEW x
    PROVE  Cardinality({x}) \in Nat
<1>1. Cardinality({x}) = 1
  BY FS_Singleton
<1> QED
  BY <1>1

\* The sizes and positions of one stream, as numbers.
Numbers(q) ==
    /\ MaxBatches \in Nat
    /\ got[q] \in Seq(1..MaxBatches)
    /\ Len(got[q]) \in Nat
    /\ chan[q] \in Seq(1..MaxBatches)
    /\ ptr[q] \in 0..MaxBatches
    /\ produced[q] \in 0..MaxBatches
    /\ Taken(q) \in Nat
    /\ Sent(q) \in Nat
    /\ Taken(q) <= Sent(q)
    /\ Sent(q) <= produced[q]

\* The invariant makes them numbers.
LEMMA NumbersAt ==
    ASSUME IInv, NEW q \in Queries
    PROVE  Numbers(q)
<1>1. /\ MaxBatches \in Nat
      /\ got[q] \in Seq(1..MaxBatches) /\ Len(got[q]) \in Nat
      /\ chan[q] \in Seq(1..MaxBatches)
      /\ ptr[q] \in 0..MaxBatches
      /\ produced[q] \in 0..MaxBatches
  BY StreamAssumption DEF IInv, TypeOK
<1>2. task[q] = "sending" => produced[q] > 0
  BY DEF IInv, QInv, PhaseInv
<1>3. Taken(q) <= Sent(q)
  BY DEF IInv, QInv, QueueInv
<1>4. Taken(q) \in Nat
  BY <1>1 DEF Taken
<1>5. Sent(q) \in Nat /\ Sent(q) <= produced[q]
  BY <1>1, <1>2 DEF Sent
<1> QED
  BY <1>1, <1>3, <1>4, <1>5 DEF Numbers

\* A step of query q: it keeps q's part of the invariant and is invisible to
\* every other query.
Preserved(q) ==
    /\ TypeOK'
    /\ QInv(q)'
    /\ \A p \in Queries \ {q} : Frame(p)

USE DEF rowsVars, goVars, reqVars, sableVars, taskVars, slotVars, dbVars,
        memVars, rustVars

-----------------------------------------------------------------------------
(***************************************************************************)
(* Steps that only move the goroutine.                                     *)
(***************************************************************************)

\* The moves of the goroutine that touch nothing but the gauge.
LEMMA GoStep ==
    ASSUME IInv, NEW q \in Queries, NEW to \in GoPc,
           go' = [go EXCEPT ![q] = to],
           inflight' \in Int,
           UNCHANGED <<rowsVars, reqVars, chan, rx, rustVars>>,
           \/ go[q] = "new" /\ to = "refused"
           \/ go[q] = "rows" /\ to = "pulling"
           \/ /\ go[q] = "pulling" /\ to = "finishing"
              /\ ctx[q] \/ (task[q] = "done" /\ chan[q] = <<>>)
           \/ go[q] = "finishing" /\ to = "finishCalled"
           \/ go[q] = "abandoning" /\ to = "abandonCalled"
           \/ go[q] = "metaFetch" /\ to = "metaCalled"
    PROVE  Preserved(q)
<1>1. go \in [Queries -> GoPc]
  BY DEF IInv, TypeOK
<1>2. go' \in [Queries -> GoPc] /\ go'[q] = to
  BY <1>1
<1>3. TypeOK'
  BY <1>2 DEF IInv, TypeOK
<1>4. \A p \in Queries \ {q} : Frame(p)
  BY <1>1 DEF Frame
<1>5. PhaseInv(q)'
  BY <1>2 DEF IInv, QInv, PhaseInv, OpenPc, ImportPc, ClosedPc, FinishPc
<1>6. QueueInv(q)' /\ FreesInv(q)'
  BY DEF IInv, QInv, QueueInv, FreesInv, Taken, Sent
<1>7. ErrorInv(q)'
  BY DEF IInv, QInv, ErrorInv
<1>8. EndInv(q)'
  BY <1>2 DEF IInv, QInv, EndInv, FinishPc
<1> QED
  BY <1>3, <1>4, <1>5, <1>6, <1>7, <1>8 DEF Preserved, QInv

\* openStreamRefused, NextCall and both ways in which NextCtx returns no batch.
LEMMA GoMovesSteps ==
    ASSUME IInv, NEW q \in Queries,
           \/ openStreamRefused(q) \/ NextCall(q)
           \/ NextEnd(q) \/ NextCancelled(q)
    PROVE  Preserved(q)
<1>1. inflight \in Int
  BY DEF IInv, TypeOK
<1>2. {"refused", "pulling", "finishing"} \subseteq GoPc
  BY DEF GoPc
<1>3. CASE openStreamRefused(q)
  BY <1>1, <1>2, <1>3, GoStep DEF openStreamRefused, GoMoves
<1>4. CASE NextCall(q)
  BY <1>1, <1>2, <1>4, GoStep DEF NextCall, GoMoves
<1>5. CASE NextEnd(q)
  BY <1>1, <1>2, <1>5, GoStep DEF NextEnd, GoMoves
<1>6. CASE NextCancelled(q)
  BY <1>1, <1>2, <1>6, GoStep DEF NextCancelled, GoMoves
<1> QED
  BY <1>3, <1>4, <1>5, <1>6

\* A byte-Call is issued.
LEMMA SlotCallStep ==
    ASSUME IInv, NEW q \in Queries, SlotCall(q)
    PROVE  Preserved(q)
<1>1. inflight' \in Int
  BY DEF SlotCall, IInv, TypeOK
<1>2. /\ go[q] \in DOMAIN CallPc
      /\ go' = [go EXCEPT ![q] = CallPc[go[q]]]
      /\ UNCHANGED <<rowsVars, reqVars, chan, rx, rustVars>>
  BY DEF SlotCall
<1>3. go[q] \in {"finishing", "abandoning", "metaFetch"}
  BY <1>2 DEF CallPc
<1>4. CASE go[q] = "finishing"
  <2>1. CallPc[go[q]] = "finishCalled" /\ "finishCalled" \in GoPc
    BY <1>4 DEF CallPc, GoPc
  <2> QED
    BY <1>1, <1>2, <1>4, <2>1, GoStep
<1>5. CASE go[q] = "abandoning"
  <2>1. CallPc[go[q]] = "abandonCalled" /\ "abandonCalled" \in GoPc
    BY <1>5 DEF CallPc, GoPc
  <2> QED
    BY <1>1, <1>2, <1>5, <2>1, GoStep
<1>6. CASE go[q] = "metaFetch"
  <2>1. CallPc[go[q]] = "metaCalled" /\ "metaCalled" \in GoPc
    BY <1>6 DEF CallPc, GoPc
  <2> QED
    BY <1>1, <1>2, <1>6, <2>1, GoStep
<1> QED
  BY <1>3, <1>4, <1>5, <1>6

-----------------------------------------------------------------------------
(***************************************************************************)
(* Steps of the handler that leave the channel and the batches alone.      *)
(***************************************************************************)

\* A handler's body advances, fails or ends, and then lets its locals go.
LEMMA TaskStep ==
    ASSUME IInv, NEW q \in Queries, NEW t \in TaskPc, NEW v \in Verdicts,
           task' = [task EXCEPT ![q] = t],
           verdict' = [verdict EXCEPT ![q] = v],
           stage' \in [Queries -> Nat],
           size' \in [Queries -> 0..MaxBatches],
           metas' \in SUBSET Queries,
           errs' \in {errs, errs \cup {q}},
           pins' \in {pins, pins \cup {q}, pins \ {q}},
           UNCHANGED <<goVars, reqVars, sableVars, produced, dbs, memVars>>,
           \/ /\ task[q] = "running" /\ t = "running" /\ v = verdict[q]
              /\ errs' = errs
           \/ /\ task[q] = "running" /\ t = "returning"
              /\ \/ v = "failed" /\ q \in errs'
                 \/ v = "ok" /\ errs' = errs
           \/ /\ task[q] = "returning" /\ t = "unpinned" /\ v = verdict[q]
              /\ errs' = errs /\ q \notin pins'
           \/ /\ task[q] = "unpinned" /\ t = "done" /\ v = verdict[q]
              /\ errs' = errs /\ pins' = pins
    PROVE  Preserved(q)
<1>1. /\ task \in [Queries -> TaskPc] /\ verdict \in [Queries -> Verdicts]
      /\ errs \in SUBSET Queries /\ pins \in SUBSET Queries
  BY DEF IInv, TypeOK
<1>2. /\ task' \in [Queries -> TaskPc] /\ verdict' \in [Queries -> Verdicts]
      /\ errs' \in SUBSET Queries /\ pins' \in SUBSET Queries
      /\ task'[q] = t /\ verdict'[q] = v
  BY <1>1
<1>3. TypeOK'
  BY <1>2 DEF IInv, TypeOK
<1>4. \A p \in Queries \ {q} : Frame(p)
  BY <1>1 DEF Frame
<1>5. PhaseInv(q)'
  BY <1>2 DEF IInv, QInv, PhaseInv
<1>6. Taken(q)' = Taken(q) /\ Sent(q)' = Sent(q)
  BY <1>2 DEF Taken, Sent
<1>7. QueueInv(q)' /\ FreesInv(q)'
  BY <1>6 DEF IInv, QInv, QueueInv, FreesInv
<1>8. ErrorInv(q)'
  BY <1>2 DEF IInv, QInv, ErrorInv
<1>9. EndInv(q)'
  BY <1>2 DEF IInv, QInv, EndInv
<1> QED
  BY <1>3, <1>4, <1>5, <1>7, <1>8, <1>9 DEF Preserved, QInv

\* A body that advances to its next stage or gives up with an error.
LEMMA AdvanceOrFail ==
    ASSUME IInv, NEW q \in Queries, task[q] = "running",
           Advance(q) \/ store_query_error(q),
           size' \in [Queries -> 0..MaxBatches],
           metas' \in SUBSET Queries,
           pins' \in {pins, pins \cup {q}},
           UNCHANGED <<goVars, reqVars, sableVars, produced, dbs, memVars>>
    PROVE  Preserved(q)
<1>1. /\ task \in [Queries -> TaskPc] /\ verdict \in [Queries -> Verdicts]
      /\ stage \in [Queries -> Nat]
  BY DEF IInv, TypeOK
<1>2. {"running", "returning"} \subseteq TaskPc /\ "failed" \in Verdicts
  BY DEF TaskPc, Verdicts
<1>3. CASE Advance(q)
  <2>1. stage' \in [Queries -> Nat]
    BY <1>1, <1>3 DEF Advance
  <2>2. /\ task' = [task EXCEPT ![q] = "running"]
        /\ verdict' = [verdict EXCEPT ![q] = verdict[q]]
        /\ verdict[q] \in Verdicts /\ errs' = errs
    BY <1>1, <1>3 DEF Advance
  <2> QED
    BY <1>2, <2>1, <2>2, TaskStep
<1>4. CASE store_query_error(q)
  <2>1. /\ task' = [task EXCEPT ![q] = "returning"]
        /\ verdict' = [verdict EXCEPT ![q] = "failed"]
        /\ stage' = stage /\ errs' = errs \cup {q}
    BY <1>4 DEF store_query_error, Return
  <2> QED
    BY <1>1, <1>2, <2>1, TaskStep
<1> QED
  BY <1>3, <1>4

\* decode, build, run, pack.
LEMMA HandlerStageStep ==
    ASSUME IInv, NEW q \in Queries, HandlerStage(q)
    PROVE  Preserved(q)
<1>1. size' \in [Queries -> 0..MaxBatches]
  <2>1. \A o : ResultSizes(o) \subseteq 0..MaxBatches
    BY DEF ResultSizes
  <2>2. \/ UNCHANGED size
        \/ \E n \in 0..MaxBatches : size' = [size EXCEPT ![q] = n]
    BY <2>1 DEF HandlerStage
  <2>3. size \in [Queries -> 0..MaxBatches]
    BY DEF IInv, TypeOK
  <2> QED
    BY <2>2, <2>3
<1>2. metas \in SUBSET Queries
  BY DEF IInv, TypeOK
<1>3. task[q] = "running" /\ (Advance(q) \/ store_query_error(q))
  BY DEF HandlerStage, At
<1> QED
  BY <1>1, <1>2, <1>3, AdvanceOrFail DEF HandlerStage

\* lookup_db.
LEMMA HandlerLookupStep ==
    ASSUME IInv, NEW q \in Queries, HandlerLookup(q)
    PROVE  Preserved(q)
<1>1. metas \in SUBSET Queries /\ size \in [Queries -> 0..MaxBatches]
  BY DEF IInv, TypeOK
<1>2. task[q] = "running" /\ (Advance(q) \/ store_query_error(q))
  BY DEF HandlerLookup, At
<1>3. pins' \in {pins, pins \cup {q}}
  BY DEF HandlerLookup
<1> QED
  BY <1>1, <1>2, <1>3, AdvanceOrFail DEF HandlerLookup

\* store_page_meta.
LEMMA HandlerMetaStep ==
    ASSUME IInv, NEW q \in Queries, HandlerMeta(q)
    PROVE  Preserved(q)
<1>1. metas' \in SUBSET Queries /\ size \in [Queries -> 0..MaxBatches]
  BY DEF HandlerMeta, IInv, TypeOK
<1> QED
  BY <1>1, AdvanceOrFail DEF HandlerMeta, At

\* An error in the send loop.
LEMMA HandlerLoopErrorStep ==
    ASSUME IInv, NEW q \in Queries, HandlerLoopError(q)
    PROVE  Preserved(q)
<1>1. metas \in SUBSET Queries /\ size \in [Queries -> 0..MaxBatches]
  BY DEF IInv, TypeOK
<1> QED
  BY <1>1, AdvanceOrFail DEF HandlerLoopError, At

\* The loop is through, the locals are dropped, the sender is dropped.
LEMMA HandlerEndSteps ==
    ASSUME IInv, NEW q \in Queries,
           HandlerEnd(q) \/ HandlerUnpin(q) \/ HandlerDropTx(q)
    PROVE  Preserved(q)
<1>1. /\ metas \in SUBSET Queries /\ size \in [Queries -> 0..MaxBatches]
      /\ stage \in [Queries -> Nat] /\ verdict \in [Queries -> Verdicts]
  BY DEF IInv, TypeOK
<1>2. /\ {"returning", "unpinned", "done"} \subseteq TaskPc
      /\ "ok" \in Verdicts
      /\ verdict[q] \in Verdicts
      /\ verdict = [verdict EXCEPT ![q] = verdict[q]]
  BY <1>1 DEF TaskPc, Verdicts
<1>3. CASE HandlerEnd(q)
  BY <1>1, <1>2, <1>3, TaskStep DEF HandlerEnd, Return, At
<1>4. CASE HandlerUnpin(q)
  BY <1>1, <1>2, <1>4, TaskStep DEF HandlerUnpin, HandlerGoes
<1>5. CASE HandlerDropTx(q)
  BY <1>1, <1>2, <1>5, TaskStep DEF HandlerDropTx, HandlerGoes
<1> QED
  BY <1>3, <1>4, <1>5

-----------------------------------------------------------------------------
(***************************************************************************)
(* Opening, and the way of a batch through the channel.                    *)
(***************************************************************************)

\* openStream starts with an empty channel and nothing sent or taken.
LEMMA OpenStep ==
    ASSUME IInv, NEW q \in Queries, NEW o \in Ops, NEW d \in Dbs,
           openStream(q, o, d)
    PROVE  Preserved(q)
<1> USE DEF openStream, OpenCursor
<1>n. Numbers(q)
  BY NumbersAt
<1>t. /\ go \in [Queries -> GoPc]
      /\ op \in [Queries -> Ops \cup {"none"}]
      /\ db \in [Queries -> Dbs \cup {NoDb}]
      /\ rx \in [Queries -> {"none", "open", "dropped"}]
      /\ task \in [Queries -> TaskPc]
      /\ stage \in [Queries -> Nat]
      /\ inflight \in Int
  BY DEF IInv, TypeOK
<1>a. /\ go[q] = "new" /\ rx[q] = "none" /\ task[q] = "none"
      /\ produced[q] = 0 /\ ptr[q] = 0 /\ q \notin importErr
      /\ outcome[q] = "none"
  BY DEF IInv, QInv, PhaseInv, ImportPc, FinishPc, ClosedPc
<1>b. Sent(q) = 0 /\ Taken(q) = 0
  BY <1>a, <1>n DEF Numbers, Sent
<1>c. Len(got[q]) = 0
  BY <1>a, <1>b, <1>n DEF Numbers, Taken
<1>d. go'[q] = "rows" /\ rx'[q] = "open" /\ task'[q] = "running"
  BY <1>t
<1>e. Sent(q)' = 0 /\ Taken(q)' = 0
  BY <1>a, <1>c, <1>d DEF Taken, Sent
<1>1. TypeOK'
  <2>1. /\ go' \in [Queries -> GoPc]
        /\ rx' \in [Queries -> {"none", "open", "dropped"}]
        /\ task' \in [Queries -> TaskPc]
    BY <1>t DEF GoPc, TaskPc
  <2>2. /\ op' \in [Queries -> Ops \cup {"none"}]
        /\ db' \in [Queries -> Dbs \cup {NoDb}]
        /\ stage' \in [Queries -> Nat]
        /\ inflight' \in Int
    BY <1>t
  <2> QED
    BY <2>1, <2>2 DEF IInv, TypeOK
<1>2. \A p \in Queries \ {q} : Frame(p)
  BY <1>t DEF Frame
<1>3. PhaseInv(q)'
  BY <1>a, <1>d DEF PhaseInv, OpenPc, ImportPc
<1>4. QueueInv(q)'
  <2>1. chan[q] = <<>> /\ got[q] = Span(0, Len(got[q]))
    BY <1>a DEF IInv, QInv, QueueInv
  <2>2. Span(0, 0) = <<>>
    BY SpanFacts DEF SpanLaw
  <2> QED
    BY <1>a, <1>c, <1>d, <1>e, <2>1, <2>2 DEF QueueInv
<1>5. FreesInv(q)'
  BY <1>a, <1>b, <1>d, <1>e DEF IInv, QInv, FreesInv
<1>6. ErrorInv(q)' /\ EndInv(q)'
  BY <1>a, <1>d DEF IInv, QInv, ErrorInv, EndInv, FinishPc
<1> QED
  BY <1>1, <1>2, <1>3, <1>4, <1>5, <1>6 DEF Preserved, QInv

\* A batch is exported: the handler holds it, nothing has been sent.
LEMMA HandlerExportStep ==
    ASSUME IInv, NEW q \in Queries, HandlerExport(q)
    PROVE  Preserved(q)
<1> USE DEF HandlerExport, export_batch, At
<1>n. Numbers(q)
  BY NumbersAt
<1>t. /\ produced \in [Queries -> 0..MaxBatches]
      /\ size \in [Queries -> 0..MaxBatches]
      /\ task \in [Queries -> TaskPc]
      /\ bufs \in [Batches -> Owners]
      /\ live \in Int
  BY DEF IInv, TypeOK
<1>a. /\ task[q] = "running" /\ task'[q] = "sending"
      /\ produced'[q] = produced[q] + 1 /\ produced'[q] \in 1..MaxBatches
  BY <1>t, <1>n DEF Numbers
<1>b. Sent(q)' = Sent(q) /\ Taken(q)' = Taken(q)
  BY <1>a, <1>n DEF Numbers, Sent, Taken
<1>1. TypeOK'
  <2>1. /\ produced' \in [Queries -> 0..MaxBatches]
        /\ task' \in [Queries -> TaskPc]
    BY <1>a, <1>t DEF TaskPc
  <2>2. bufs' \in [Batches -> Owners]
    BY <1>t DEF Owners
  <2>3. live' \in Int
    BY <1>t
  <2> QED
    BY <2>1, <2>2, <2>3 DEF IInv, TypeOK
<1>2. \A p \in Queries \ {q} : Frame(p)
  BY <1>t DEF Frame
<1>3. PhaseInv(q)'
  BY <1>a, <1>n DEF Numbers, IInv, QInv, PhaseInv
<1>4. QueueInv(q)' /\ FreesInv(q)'
  BY <1>b DEF IInv, QInv, QueueInv, FreesInv
<1>5. ErrorInv(q)' /\ EndInv(q)'
  BY <1>a DEF IInv, QInv, ErrorInv, EndInv
<1> QED
  BY <1>1, <1>2, <1>3, <1>4, <1>5 DEF Preserved, QInv

\* The batch goes to the end of the channel.
LEMMA HandlerSendStep ==
    ASSUME IInv, NEW q \in Queries, HandlerSend(q)
    PROVE  Preserved(q)
<1> USE DEF HandlerSend
<1>n. Numbers(q)
  BY NumbersAt
<1>t. /\ chan \in [Queries -> Seq(1..MaxBatches)]
      /\ task \in [Queries -> TaskPc]
  BY DEF IInv, TypeOK
<1>a. /\ task[q] = "sending" /\ task'[q] = "running" /\ produced[q] > 0
      /\ rx[q] = "open" /\ chan'[q] = Append(chan[q], produced[q])
  BY <1>t DEF IInv, QInv, PhaseInv
<1>b. /\ Sent(q)' = Sent(q) + 1 /\ produced[q] = Sent(q) + 1
      /\ Taken(q)' = Taken(q)
  BY <1>a, <1>n DEF Numbers, Sent, Taken
<1>c. chan'[q] = Span(Taken(q), Sent(q) + 1)
  <2>1. SpanLaw(Taken(q), Sent(q))
    BY <1>n, SpanFacts DEF Numbers
  <2>2. chan[q] = Span(Taken(q), Sent(q))
    BY <1>a DEF IInv, QInv, QueueInv
  <2> QED
    BY <1>a, <1>b, <2>1, <2>2 DEF SpanLaw
<1>1. TypeOK'
  <2>1. chan' \in [Queries -> Seq(1..MaxBatches)]
    BY <1>a, <1>n, <1>t DEF Numbers
  <2>2. task' \in [Queries -> TaskPc]
    BY <1>t DEF TaskPc
  <2> QED
    BY <2>1, <2>2 DEF IInv, TypeOK
<1>2. \A p \in Queries \ {q} : Frame(p)
  BY <1>t DEF Frame
<1>3. PhaseInv(q)'
  BY <1>a DEF IInv, QInv, PhaseInv
<1>4. QueueInv(q)'
  <2>1. Taken(q)' <= Sent(q)'
    BY <1>b, <1>n DEF Numbers
  <2> QED
    BY <1>a, <1>b, <1>c, <2>1 DEF IInv, QInv, QueueInv
<1>5. FreesInv(q)'
  BY <1>a, <1>b DEF IInv, QInv, FreesInv
<1>6. ErrorInv(q)' /\ EndInv(q)'
  BY <1>a DEF IInv, QInv, PhaseInv, ErrorInv, EndInv
<1> QED
  BY <1>1, <1>2, <1>3, <1>4, <1>5, <1>6 DEF Preserved, QInv

\* The effect of freeing the shells `bs` on types and on other queries.
LEMMA DropShellsEffect ==
    ASSUME TypeOK, NEW q \in Queries, NEW bs, NEW fate \in Owners,
           Cardinality(bs) \in Nat,
           \A b \in bs : \E i \in 1..MaxBatches : b = <<q, i>>,
           DropShells(bs, fate)
    PROVE  /\ frees' \in [Batches -> Nat]
           /\ bufs' \in [Batches -> Owners]
           /\ live' \in Int
           /\ \A p \in Queries \ {q}, i \in 1..MaxBatches :
                 frees'[<<p, i>>] = frees[<<p, i>>]
           /\ \A i \in 1..MaxBatches :
                 frees'[<<q, i>>] = IF <<q, i>> \in bs THEN frees[<<q, i>>] + 1
                                                       ELSE frees[<<q, i>>]
<1>t. /\ frees \in [Batches -> Nat] /\ bufs \in [Batches -> Owners]
      /\ live \in Int
  BY DEF TypeOK
<1>1. frees' \in [Batches -> Nat] /\ bufs' \in [Batches -> Owners]
  BY <1>t DEF DropShells
<1>2. live' \in Int
  BY <1>t DEF DropShells
<1>3. \A p \in Queries, i \in 1..MaxBatches :
         frees'[<<p, i>>] = IF <<p, i>> \in bs THEN frees[<<p, i>>] + 1
                                               ELSE frees[<<p, i>>]
  BY DEF DropShells, Batches
<1>4. \A p \in Queries \ {q}, i \in 1..MaxBatches : <<p, i>> \notin bs
  OBVIOUS
<1> QED
  BY <1>1, <1>2, <1>3, <1>4

\* The batch in the handler's hand is dropped because the receiver is gone.
LEMMA HandlerSendFailsStep ==
    ASSUME IInv, NEW q \in Queries, HandlerSendFails(q)
    PROVE  Preserved(q)
<1>n. Numbers(q)
  BY NumbersAt
<1>t. task \in [Queries -> TaskPc] /\ verdict \in [Queries -> Verdicts]
  BY DEF IInv, TypeOK
<1>u. UNCHANGED <<goVars, reqVars, sableVars, size, produced, slotVars, dbVars,
                  stage>>
  BY DEF HandlerSendFails, Return
<1>a. /\ task[q] = "sending" /\ task'[q] = "returning"
      /\ verdict'[q] = "stopped" /\ rx[q] = "dropped" /\ produced[q] > 0
  BY <1>t DEF HandlerSendFails, Return, IInv, QInv, PhaseInv
<1>b. /\ Sent(q)' = Sent(q) + 1 /\ produced[q] = Sent(q) + 1
      /\ Taken(q)' = Taken(q)
  BY <1>a, <1>n, <1>u DEF Numbers, Sent, Taken
<1>c. /\ frees' \in [Batches -> Nat]
      /\ bufs' \in [Batches -> Owners]
      /\ live' \in Int
      /\ \A p \in Queries \ {q}, i \in 1..MaxBatches :
            frees'[<<p, i>>] = frees[<<p, i>>]
      /\ \A i \in 1..MaxBatches :
            frees'[<<q, i>>] = IF i = produced[q] THEN frees[<<q, i>>] + 1
                                                  ELSE frees[<<q, i>>]
  <2> DEFINE bs == {<<q, produced[q]>>}
  <2>1. DropShells(bs, "freed") /\ "freed" \in Owners
    BY DEF HandlerSendFails, imbhgo_batch_release, Owners
  <2>2. Cardinality(bs) \in Nat
    BY SingletonIsFinite
  <2>3. \A b \in bs : \E i \in 1..MaxBatches : b = <<q, i>>
    BY <1>a, <1>n DEF Numbers
  <2>4. \A i \in 1..MaxBatches : <<q, i>> \in bs <=> i = produced[q]
    OBVIOUS
  <2>5. TypeOK
    BY DEF IInv
  <2> HIDE DEF bs
  <2> QED
    BY <2>1, <2>2, <2>3, <2>4, <2>5, DropShellsEffect
<1>1. TypeOK'
  <2>1. task' \in [Queries -> TaskPc] /\ verdict' \in [Queries -> Verdicts]
    BY <1>t DEF HandlerSendFails, Return, TaskPc, Verdicts
  <2> QED
    BY <1>c, <1>u, <2>1 DEF IInv, TypeOK
<1>2. \A p \in Queries \ {q} : Frame(p)
  BY <1>c, <1>t, <1>u DEF HandlerSendFails, Return, Frame
<1>3. PhaseInv(q)'
  BY <1>a, <1>u DEF IInv, QInv, PhaseInv
<1>4. QueueInv(q)'
  <2>1. Taken(q)' <= Sent(q)'
    BY <1>b, <1>n DEF Numbers
  <2> QED
    BY <1>a, <1>b, <1>u, <2>1 DEF IInv, QInv, QueueInv
<1>5. FreesInv(q)'
  <2> SUFFICES ASSUME NEW i \in 1..MaxBatches
               PROVE  frees'[<<q, i>>] = IF \/ i <= Taken(q) /\ i # ptr[q]
                                            \/ i <= Sent(q) + 1
                                         THEN 1 ELSE 0
    BY <1>a, <1>b, <1>u DEF FreesInv
  <2>1. frees[<<q, i>>] = IF i <= Sent(q) THEN 1 ELSE 0
    BY <1>a, <1>n DEF Numbers, IInv, QInv, FreesInv
  <2> QED
    BY <1>b, <1>c, <2>1, <1>n DEF Numbers
<1>6. ErrorInv(q)' /\ EndInv(q)'
  BY <1>a, <1>u DEF IInv, QInv, ErrorInv, EndInv
<1> QED
  BY <1>1, <1>2, <1>3, <1>4, <1>5, <1>6 DEF Preserved, QInv

\* NextCtx returns the oldest batch of the channel.
LEMMA NextTakeStep ==
    ASSUME IInv, NEW q \in Queries, NextTake(q)
    PROVE  Preserved(q)
<1> USE DEF NextTake, Take
<1>n. Numbers(q)
  BY NumbersAt
<1>t. /\ go \in [Queries -> GoPc]
      /\ ptr \in [Queries -> 0..MaxBatches]
      /\ chan \in [Queries -> Seq(1..MaxBatches)]
  BY DEF IInv, TypeOK
<1>a. /\ go[q] = "pulling" /\ go'[q] = "importing"
      /\ rx[q] = "open" /\ ptr[q] = 0 /\ q \notin importErr
      /\ outcome[q] = "none"
  BY <1>t DEF IInv, QInv, PhaseInv, OpenPc, ImportPc, FinishPc, ClosedPc
<1>b. /\ Taken(q) = Len(got[q])
      /\ Taken(q) < Sent(q)
      /\ Head(chan[q]) = Taken(q) + 1
      /\ Tail(chan[q]) = Span(Taken(q) + 1, Sent(q))
  <2>1. Taken(q) = Len(got[q])
    BY <1>a, <1>n DEF Numbers, Taken
  <2>2. chan[q] = Span(Taken(q), Sent(q)) /\ chan[q] # <<>>
    BY <1>a DEF IInv, QInv, QueueInv
  <2>3. SpanLaw(Taken(q), Sent(q))
    BY <1>n, SpanFacts DEF Numbers
  <2>4. Taken(q) < Sent(q)
    BY <2>2, <2>3, <1>n DEF Numbers, SpanLaw
  <2> QED
    BY <2>1, <2>2, <2>3, <2>4 DEF SpanLaw
<1>c. /\ ptr'[q] = Taken(q) + 1
      /\ chan'[q] = Span(Taken(q) + 1, Sent(q))
  BY <1>b, <1>t
<1>d. Taken(q) + 1 \in 1..MaxBatches
  <2>1. /\ MaxBatches \in Nat /\ produced[q] \in 0..MaxBatches
        /\ Taken(q) \in Nat /\ Sent(q) \in Nat /\ Sent(q) <= produced[q]
    BY <1>n DEF Numbers
  <2> QED
    BY <1>b, <2>1
<1>e. Taken(q)' = Taken(q) + 1 /\ Sent(q)' = Sent(q)
  BY <1>a, <1>b, <1>c, <1>d DEF Taken, Sent
<1>1. TypeOK'
  <2>1. ptr' \in [Queries -> 0..MaxBatches]
    BY <1>b, <1>d, <1>t
  <2>2. chan' \in [Queries -> Seq(1..MaxBatches)]
    BY <1>n, <1>t DEF Numbers
  <2>3. go' \in [Queries -> GoPc]
    BY <1>t DEF GoPc
  <2> QED
    BY <2>1, <2>2, <2>3 DEF IInv, TypeOK
<1>2. \A p \in Queries \ {q} : Frame(p)
  BY <1>t DEF Frame
<1>3. PhaseInv(q)'
  BY <1>a, <1>c, <1>d DEF IInv, QInv, PhaseInv, OpenPc, ImportPc, ClosedPc,
                          FinishPc
<1>4. QueueInv(q)'
  <2>1. Taken(q)' <= Sent(q)'
    BY <1>b, <1>e, <1>n DEF Numbers
  <2> QED
    BY <1>a, <1>b, <1>c, <1>e, <2>1 DEF IInv, QInv, QueueInv
<1>5. FreesInv(q)'
  <2> SUFFICES ASSUME NEW i \in 1..MaxBatches
               PROVE  frees[<<q, i>>] = IF /\ i <= Taken(q) + 1
                                           /\ i # Taken(q) + 1
                                        THEN 1 ELSE 0
    BY <1>a, <1>c, <1>e DEF FreesInv
  <2>1. frees[<<q, i>>] = IF i <= Taken(q) THEN 1 ELSE 0
    BY <1>a, <1>n DEF Numbers, IInv, QInv, FreesInv
  <2> QED
    BY <2>1, <1>n DEF Numbers
<1>6. ErrorInv(q)' /\ EndInv(q)'
  BY <1>a DEF IInv, QInv, ErrorInv, EndInv, FinishPc
<1> QED
  BY <1>1, <1>2, <1>3, <1>4, <1>5, <1>6 DEF Preserved, QInv

\* The import moves buffers, not shells.
LEMMA ImportStep ==
    ASSUME IInv, NEW q \in Queries, ImportCRecordBatch(q)
    PROVE  Preserved(q)
<1>t. go \in [Queries -> GoPc] /\ bufs \in [Batches -> Owners]
  BY DEF IInv, TypeOK
<1>u. UNCHANGED <<rowsVars, reqVars, sableVars, taskVars, slotVars, dbVars,
                  frees, live>>
  BY DEF ImportCRecordBatch
<1>a. /\ go[q] = "importing"
      /\ \/ go' = [go EXCEPT ![q] = "imported"]
         \/ go' = [go EXCEPT ![q] = "importFailed"]
  BY DEF ImportCRecordBatch
<1>b. go'[q] \in {"imported", "importFailed"}
  BY <1>a, <1>t
<1>1. TypeOK'
  <2>1. go' \in [Queries -> GoPc]
    BY <1>a, <1>t DEF GoPc
  <2>2. \/ bufs' = bufs
        \/ \E f \in {"record", "freed"} :
              bufs' = [bufs EXCEPT ![<<q, ptr[q]>>] = f]
    BY DEF ImportCRecordBatch
  <2>3. bufs' \in [Batches -> Owners]
    BY <2>2, <1>t DEF Owners
  <2> QED
    BY <1>u, <2>1, <2>3 DEF IInv, TypeOK
<1>2. \A p \in Queries \ {q} : Frame(p)
  BY <1>a, <1>t, <1>u DEF Frame
<1>3. PhaseInv(q)'
  BY <1>a, <1>b, <1>u DEF IInv, QInv, PhaseInv, OpenPc, ImportPc, ClosedPc,
                          FinishPc
<1>4. QueueInv(q)' /\ FreesInv(q)'
  BY <1>u DEF IInv, QInv, QueueInv, FreesInv, Taken, Sent
<1>5. ErrorInv(q)' /\ EndInv(q)'
  BY <1>b, <1>u DEF IInv, QInv, ErrorInv, EndInv, FinishPc
<1> QED
  BY <1>1, <1>2, <1>3, <1>4, <1>5 DEF Preserved, QInv

\* imbhgo_shell_free: the batch is delivered, or given up with an import error.
LEMMA NextShellFreeStep ==
    ASSUME IInv, NEW q \in Queries, NextShellFree(q)
    PROVE  Preserved(q)
<1>n. Numbers(q)
  BY NumbersAt
<1>t. /\ go \in [Queries -> GoPc]
      /\ ptr \in [Queries -> 0..MaxBatches]
      /\ got \in [Queries -> Seq(1..MaxBatches)]
      /\ importErr \in SUBSET Queries
  BY DEF IInv, TypeOK
<1>u. UNCHANGED <<ctx, outcome, page, reqVars, sableVars, taskVars, slotVars,
                  dbVars>>
  BY DEF NextShellFree, AfterImport
<1>v. /\ ptr' = [ptr EXCEPT ![q] = 0]
      /\ \/ /\ go[q] = "imported"
            /\ go' = [go EXCEPT ![q] = "rows"]
            /\ got' = [got EXCEPT ![q] = Append(got[q], ptr[q])]
            /\ importErr' = importErr
         \/ /\ go[q] = "importFailed"
            /\ go' = [go EXCEPT ![q] = "finishing"]
            /\ got' = got
            /\ importErr' = importErr \cup {q}
  BY DEF NextShellFree, AfterImport
<1>a. /\ go[q] \in {"imported", "importFailed"}
      /\ rx[q] = "open" /\ q \notin importErr /\ outcome[q] = "none"
      /\ ptr[q] # 0 /\ ptr[q] = Len(got[q]) + 1
  BY <1>v DEF IInv, QInv, PhaseInv, QueueInv, OpenPc, ImportPc, FinishPc, ClosedPc
<1>b. Taken(q) = ptr[q] /\ ptr[q] \in 1..MaxBatches
  BY <1>a, <1>n DEF Numbers, Taken
<1>c. /\ ptr'[q] = 0
      /\ \/ /\ go'[q] = "rows" /\ q \notin importErr'
            /\ got'[q] = Append(got[q], ptr[q])
         \/ /\ go'[q] = "finishing" /\ q \in importErr'
            /\ got'[q] = got[q]
  BY <1>a, <1>t, <1>v
<1>d. Taken(q)' = Taken(q) /\ Sent(q)' = Sent(q)
  <2>1. Len(Append(got[q], ptr[q])) = Len(got[q]) + 1
    BY <1>b, <1>n DEF Numbers
  <2>2. Taken(q)' = Len(got[q]) + 1
    BY <1>c, <2>1 DEF Taken
  <2> QED
    BY <1>a, <1>b, <1>u, <2>2 DEF Sent
<1>e. /\ frees' \in [Batches -> Nat]
      /\ bufs' \in [Batches -> Owners]
      /\ live' \in Int
      /\ \A p \in Queries \ {q}, i \in 1..MaxBatches :
            frees'[<<p, i>>] = frees[<<p, i>>]
      /\ \A i \in 1..MaxBatches :
            frees'[<<q, i>>] = IF i = ptr[q] THEN frees[<<q, i>>] + 1
                                             ELSE frees[<<q, i>>]
  <2> DEFINE bs == {<<q, ptr[q]>>}
  <2>1. DropShells(bs, "lost") /\ "lost" \in Owners
    BY DEF NextShellFree, imbhgo_shell_free, Owners
  <2>2. Cardinality(bs) \in Nat
    BY SingletonIsFinite
  <2>3. \A b \in bs : \E i \in 1..MaxBatches : b = <<q, i>>
    BY <1>b
  <2>4. \A i \in 1..MaxBatches : <<q, i>> \in bs <=> i = ptr[q]
    OBVIOUS
  <2>5. TypeOK
    BY DEF IInv
  <2> HIDE DEF bs
  <2> QED
    BY <2>1, <2>2, <2>3, <2>4, <2>5, DropShellsEffect
<1>1. TypeOK'
  <2>1. got' \in [Queries -> Seq(1..MaxBatches)]
    <3>1. Append(got[q], ptr[q]) \in Seq(1..MaxBatches)
      BY <1>b, <1>n DEF Numbers
    <3> QED
      BY <1>t, <1>v, <3>1
  <2>2. ptr' \in [Queries -> 0..MaxBatches] /\ importErr' \in SUBSET Queries
    BY <1>n, <1>t, <1>v DEF Numbers
  <2>3. go' \in [Queries -> GoPc]
    BY <1>t, <1>v DEF GoPc
  <2> QED
    BY <1>e, <1>u, <2>1, <2>2, <2>3 DEF IInv, TypeOK
<1>2. \A p \in Queries \ {q} : Frame(p)
  BY <1>e, <1>t, <1>u, <1>v DEF Frame
<1>3. PhaseInv(q)'
  BY <1>a, <1>c, <1>u DEF IInv, QInv, PhaseInv, OpenPc, ImportPc, ClosedPc,
                          FinishPc
<1>4. QueueInv(q)'
  <2>1. got'[q] = Span(0, Len(got'[q]))
    <3>1. SpanLaw(0, Len(got[q]))
      BY <1>n, SpanFacts DEF Numbers
    <3>2. got[q] = Span(0, Len(got[q]))
      BY DEF IInv, QInv, QueueInv
    <3>3. Append(got[q], ptr[q]) = Span(0, ptr[q])
      BY <1>a, <3>1, <3>2 DEF SpanLaw
    <3>4. Len(Append(got[q], ptr[q])) = ptr[q]
      BY <1>a, <1>b, <1>n DEF Numbers
    <3> QED
      BY <1>c, <3>2, <3>3, <3>4
  <2> QED
    BY <1>c, <1>d, <1>u, <2>1 DEF IInv, QInv, QueueInv
<1>5. FreesInv(q)'
  <2> SUFFICES ASSUME NEW i \in 1..MaxBatches
               PROVE  frees'[<<q, i>>] = IF i <= Taken(q) /\ i # 0 THEN 1 ELSE 0
    BY <1>a, <1>c, <1>d, <1>u DEF FreesInv
  <2>1. frees[<<q, i>>] = IF i <= Taken(q) /\ i # ptr[q] THEN 1 ELSE 0
    BY <1>a DEF IInv, QInv, FreesInv
  <2> QED
    BY <1>b, <1>e, <2>1
<1>6. ErrorInv(q)' /\ EndInv(q)'
  BY <1>a, <1>c, <1>u DEF IInv, QInv, ErrorInv, EndInv, FinishPc
<1> QED
  BY <1>1, <1>2, <1>3, <1>4, <1>5, <1>6 DEF Preserved, QInv

-----------------------------------------------------------------------------
(***************************************************************************)
(* The end of Rows.                                                        *)
(***************************************************************************)

\* A take of the error slot, by finish or by Close.
LEMMA TakeStep ==
    ASSUME IInv, NEW q \in Queries,
           NEW from \in GoPc, NEW to \in GoPc, NEW o \in Outcomes \ {"none"},
           TakeStoredError(q, from, to, o, errs \ {q}),
           \/ from = "finishCalled" /\ to = "closing"
           \/ from = "abandonCalled" /\ to = "ended",
           o \in {"clean", "query"} =>
               /\ task[q] = "done"
               /\ got[q] = Span(0, produced[q])
               /\ verdict[q] = IF o = "clean" THEN "ok" ELSE "failed"
    PROVE  Preserved(q)
<1> USE DEF TakeStoredError
<1>t. /\ go \in [Queries -> GoPc] /\ outcome \in [Queries -> Outcomes]
      /\ errs \in SUBSET Queries /\ inflight \in Int
  BY DEF IInv, TypeOK
<1>a. go[q] = from /\ go'[q] = to /\ outcome'[q] = o
  BY <1>t
<1>1. TypeOK'
  <2>1. /\ go' \in [Queries -> GoPc] /\ outcome' \in [Queries -> Outcomes]
        /\ errs' \in SUBSET Queries /\ inflight' \in Int
    BY <1>t
  <2> QED
    BY <2>1 DEF IInv, TypeOK
<1>2. \A p \in Queries \ {q} : Frame(p)
  BY <1>t DEF Frame
<1>3. PhaseInv(q)'
  BY <1>a DEF IInv, QInv, PhaseInv, OpenPc, ImportPc, ClosedPc, FinishPc
<1>4. QueueInv(q)' /\ FreesInv(q)'
  BY DEF IInv, QInv, QueueInv, FreesInv, Taken, Sent
<1>5. ErrorInv(q)'
  BY <1>a DEF IInv, QInv, ErrorInv
<1>6. EndInv(q)'
  BY <1>a DEF EndInv, FinishPc
<1> QED
  BY <1>1, <1>2, <1>3, <1>4, <1>5, <1>6 DEF Preserved, QInv

\* finish: a verdict of the query itself comes from a drained stream.
LEMMA FinishStep ==
    ASSUME IInv, NEW q \in Queries, finish(q)
    PROVE  Preserved(q)
<1>n. Numbers(q)
  BY NumbersAt
<1>a. go[q] = "finishCalled" /\ outcome[q] = "none"
      /\ rx[q] = "open" /\ ptr[q] = 0
  BY DEF finish, TakeStoredError, IInv, QInv, PhaseInv, OpenPc, ImportPc
<1>b. /\ TerminalErr(q) \in Outcomes \ {"none"}
      /\ {"finishCalled", "closing"} \subseteq GoPc
  BY DEF TerminalErr, Outcomes, GoPc
<1>c. ASSUME TerminalErr(q) \in {"clean", "query"}
      PROVE  /\ task[q] = "done"
             /\ got[q] = Span(0, produced[q])
             /\ verdict[q] = IF TerminalErr(q) = "clean" THEN "ok" ELSE "failed"
  <2>1. q \notin importErr /\ ~ctx[q]
    BY <1>c DEF TerminalErr
  <2>2. task[q] = "done" /\ chan[q] = <<>>
    BY <1>a, <2>1 DEF IInv, QInv, EndInv, FinishPc
  <2>3. Len(got[q]) = produced[q]
    <3>1. Taken(q) = Len(got[q]) /\ Sent(q) = produced[q]
      BY <1>a, <2>1, <2>2, <1>n DEF Numbers, Taken, Sent
    <3>2. SpanLaw(Taken(q), Sent(q))
      BY <1>n, SpanFacts DEF Numbers
    <3>3. chan[q] = Span(Taken(q), Sent(q))
      BY <1>a DEF IInv, QInv, QueueInv
    <3> QED
      BY <2>2, <3>1, <3>2, <3>3 DEF SpanLaw
  <2>4. got[q] = Span(0, produced[q])
    BY <2>3 DEF IInv, QInv, QueueInv
  <2>5. verdict[q] \in Verdicts
    BY DEF IInv, TypeOK
  <2>6. verdict[q] = IF q \in errs THEN "failed" ELSE "ok"
    BY <1>a, <2>2, <2>5 DEF IInv, QInv, ErrorInv, Verdicts
  <2>7. TerminalErr(q) = IF q \in errs THEN "query" ELSE "clean"
    BY <2>1 DEF TerminalErr
  <2> QED
    BY <2>2, <2>4, <2>6, <2>7
<1> QED
  BY <1>b, <1>c, TakeStep DEF finish

\* Close before the end: the stored error is discarded.
LEMMA CloseTakeStep ==
    ASSUME IInv, NEW q \in Queries, CloseTake(q)
    PROVE  Preserved(q)
<1>1. /\ {"abandonCalled", "ended"} \subseteq GoPc
      /\ "abandoned" \in Outcomes \ {"none"}
  BY DEF GoPc, Outcomes
<1> QED
  BY <1>1, TakeStep DEF CloseTake

\* The metadata slot plays no part in the invariant.
LEMMA MetaStep ==
    ASSUME IInv, NEW q \in Queries, fetchLogPageMeta(q)
    PROVE  Preserved(q)
<1> USE DEF fetchLogPageMeta
<1>t. /\ go \in [Queries -> GoPc] /\ metas \in SUBSET Queries
      /\ page \in [Queries -> {"none", "found", "empty"}] /\ inflight \in Int
  BY DEF IInv, TypeOK
<1>a. go[q] = "metaCalled" /\ go'[q] = "ended"
  BY <1>t
<1>1. TypeOK'
  <2>1. /\ go' \in [Queries -> GoPc] /\ metas' \in SUBSET Queries
        /\ page' \in [Queries -> {"none", "found", "empty"}] /\ inflight' \in Int
    BY <1>t DEF GoPc
  <2> QED
    BY <2>1 DEF IInv, TypeOK
<1>2. \A p \in Queries \ {q} : Frame(p)
  BY <1>t DEF Frame
<1>3. PhaseInv(q)'
  BY <1>a DEF IInv, QInv, PhaseInv, OpenPc, ImportPc, ClosedPc, FinishPc
<1>4. QueueInv(q)' /\ FreesInv(q)'
  BY DEF IInv, QInv, QueueInv, FreesInv, Taken, Sent
<1>5. ErrorInv(q)' /\ EndInv(q)'
  BY <1>a DEF IInv, QInv, ErrorInv, EndInv, FinishPc
<1> QED
  BY <1>1, <1>2, <1>3, <1>4, <1>5 DEF Preserved, QInv

\* The handles in the channel of an open stream are those of the batches that
\* were sent and not taken.
LEMMA BufferedBatches ==
    ASSUME IInv, NEW q \in Queries, rx[q] = "open"
    PROVE  \A i \in 1..MaxBatches :
              <<q, i>> \in {<<q, chan[q][k]>> : k \in DOMAIN chan[q]}
                 <=> Taken(q) < i /\ i <= Sent(q)
<1> DEFINE bs == {<<q, chan[q][k]>> : k \in DOMAIN chan[q]}
<1>n. Numbers(q)
  BY NumbersAt
<1>1. SpanLaw(Taken(q), Sent(q))
  BY <1>n, SpanFacts DEF Numbers
<1>2. chan[q] = Span(Taken(q), Sent(q))
  BY DEF IInv, QInv, QueueInv
<1>3. /\ DOMAIN chan[q] = 1..(Sent(q) - Taken(q))
      /\ \A k \in DOMAIN chan[q] : chan[q][k] = Taken(q) + k
  BY <1>1, <1>2 DEF SpanLaw
<1> SUFFICES ASSUME NEW i \in 1..MaxBatches
             PROVE  <<q, i>> \in bs <=> Taken(q) < i /\ i <= Sent(q)
  OBVIOUS
<1>4. ASSUME <<q, i>> \in bs PROVE Taken(q) < i /\ i <= Sent(q)
  <2>1. PICK k \in DOMAIN chan[q] : i = chan[q][k]
    BY <1>4
  <2>2. k \in 1..(Sent(q) - Taken(q)) /\ i = Taken(q) + k
    BY <1>3, <2>1
  <2>3. Taken(q) \in Nat /\ Sent(q) \in Nat
    BY <1>n DEF Numbers
  <2> QED
    BY <2>2, <2>3
<1>5. ASSUME Taken(q) < i, i <= Sent(q) PROVE <<q, i>> \in bs
  <2>1. i - Taken(q) \in 1..(Sent(q) - Taken(q))
    BY <1>5, <1>n DEF Numbers
  <2>2. i - Taken(q) \in DOMAIN chan[q] /\ chan[q][i - Taken(q)] = i
    BY <1>3, <2>1, <1>n DEF Numbers
  <2> QED
    BY <2>2
<1> QED
  BY <1>4, <1>5

\* Closing the cursor frees exactly the batches that are in the channel.
LEMMA CloseCursorStep ==
    ASSUME IInv, NEW q \in Queries,
           NEW to \in {"abandoning", "metaFetch", "ended"}, CloseCursor(q, to),
           \/ go[q] = "rows" /\ to = "abandoning"
           \/ go[q] = "closing" /\ to \in {"metaFetch", "ended"}
    PROVE  Preserved(q)
<1> DEFINE bs == {<<q, chan[q][i]>> : i \in DOMAIN chan[q]}
<1>n. Numbers(q)
  BY NumbersAt
<1>t. /\ go \in [Queries -> GoPc] /\ inflight \in Int
      /\ chan \in [Queries -> Seq(1..MaxBatches)]
      /\ rx \in [Queries -> {"none", "open", "dropped"}]
  BY DEF IInv, TypeOK
<1>u. /\ UNCHANGED <<rowsVars, reqVars, taskVars, slotVars, dbVars>>
      /\ go' = [go EXCEPT ![q] = to]
      /\ rx' = [rx EXCEPT ![q] = "dropped"]
      /\ chan' = [chan EXCEPT ![q] = <<>>]
      /\ inflight' = inflight - 1
      /\ DropShells(bs, "freed")
  BY DEF CloseCursor, CloseStream, imbhgo_batch_release
<1>a. go'[q] = to /\ rx'[q] = "dropped" /\ chan'[q] = <<>>
  BY <1>t, <1>u
<1>b. rx[q] = "open" /\ ptr[q] = 0
  BY DEF IInv, QInv, PhaseInv, OpenPc, ImportPc
<1>c. Taken(q)' = Taken(q) /\ Sent(q)' = Sent(q)
  BY <1>u DEF Taken, Sent
<1>d. \A i \in 1..MaxBatches : <<q, i>> \in bs <=> Taken(q) < i /\ i <= Sent(q)
  BY <1>b, BufferedBatches
<1>e. Cardinality(bs) \in Nat
  BY <1>n, BufferedIsFinite DEF Numbers
<1>f. \A b \in bs : \E i \in 1..MaxBatches : b = <<q, i>>
  BY <1>n DEF Numbers
<1> HIDE DEF bs
<1>g. /\ frees' \in [Batches -> Nat]
      /\ bufs' \in [Batches -> Owners]
      /\ live' \in Int
      /\ \A p \in Queries \ {q}, i \in 1..MaxBatches :
            frees'[<<p, i>>] = frees[<<p, i>>]
      /\ \A i \in 1..MaxBatches :
            frees'[<<q, i>>] = IF <<q, i>> \in bs THEN frees[<<q, i>>] + 1
                                                  ELSE frees[<<q, i>>]
  <2>1. TypeOK /\ "freed" \in Owners
    BY DEF IInv, Owners
  <2> QED
    BY <1>e, <1>f, <1>u, <2>1, DropShellsEffect
<1>1. TypeOK'
  <2>1. go' \in [Queries -> GoPc]
    BY <1>t, <1>u DEF GoPc
  <2>2. /\ chan' \in [Queries -> Seq(1..MaxBatches)]
        /\ rx' \in [Queries -> {"none", "open", "dropped"}]
        /\ inflight' \in Int
    BY <1>t, <1>u
  <2> QED
    BY <1>g, <1>u, <2>1, <2>2 DEF IInv, TypeOK
<1>2. \A p \in Queries \ {q} : Frame(p)
  BY <1>g, <1>t, <1>u DEF Frame
<1>3. PhaseInv(q)'
  BY <1>a, <1>u DEF IInv, QInv, PhaseInv, OpenPc, ImportPc, ClosedPc, FinishPc
<1>4. QueueInv(q)'
  BY <1>a, <1>c, <1>u DEF IInv, QInv, QueueInv
<1>5. FreesInv(q)'
  <2> SUFFICES ASSUME NEW i \in 1..MaxBatches
               PROVE  frees'[<<q, i>>] = IF \/ i <= Taken(q) /\ i # ptr[q]
                                            \/ i <= Sent(q)
                                         THEN 1 ELSE 0
    BY <1>a, <1>c, <1>u DEF FreesInv
  <2>1. frees[<<q, i>>] = IF i <= Taken(q) THEN 1 ELSE 0
    BY <1>b, <1>n DEF Numbers, IInv, QInv, FreesInv
  <2> QED
    BY <1>b, <1>d, <1>g, <2>1, <1>n DEF Numbers
<1>6. ErrorInv(q)' /\ EndInv(q)'
  BY <1>a, <1>u DEF IInv, QInv, ErrorInv, EndInv, FinishPc
<1> QED
  BY <1>1, <1>2, <1>3, <1>4, <1>5, <1>6 DEF Preserved, QInv

\* finish closes the cursor last.
LEMMA FinishCloseStep ==
    ASSUME IInv, NEW q \in Queries, FinishClose(q)
    PROVE  Preserved(q)
<1>1. AfterFinish(q) \in {"metaFetch", "ended"}
  BY DEF AfterFinish
<1> QED
  BY <1>1, CloseCursorStep DEF FinishClose

\* Close closes it first.
LEMMA CloseStep ==
    ASSUME IInv, NEW q \in Queries, Close(q)
    PROVE  Preserved(q)
BY CloseCursorStep DEF Close

-----------------------------------------------------------------------------
(***************************************************************************)
(* The caller and the registry.                                            *)
(***************************************************************************)

\* Cancelling weakens what a finishing Next may conclude.
LEMMA CancelStep ==
    ASSUME IInv, NEW q \in Queries, Cancel(q)
    PROVE  Preserved(q)
<1> USE DEF Cancel
<1>t. ctx \in [Queries -> BOOLEAN]
  BY DEF IInv, TypeOK
<1>a. ctx' \in [Queries -> BOOLEAN] /\ ctx'[q] = TRUE
  BY <1>t
<1>1. TypeOK'
  BY <1>a DEF IInv, TypeOK
<1>2. \A p \in Queries \ {q} : Frame(p)
  BY <1>t DEF Frame
<1>3. PhaseInv(q)' /\ ErrorInv(q)'
  BY DEF IInv, QInv, PhaseInv, ErrorInv
<1>4. QueueInv(q)' /\ FreesInv(q)'
  BY DEF IInv, QInv, QueueInv, FreesInv, Taken, Sent
<1>5. EndInv(q)'
  BY <1>a DEF IInv, QInv, EndInv
<1> QED
  BY <1>1, <1>2, <1>3, <1>4, <1>5 DEF Preserved, QInv

\* A released record frees buffers, not shells.
LEMMA ReleaseStep ==
    ASSUME IInv, NEW q \in Queries, Release(q)
    PROVE  TypeOK' /\ \A p \in Queries : Frame(p)
<1>t. bufs \in [Batches -> Owners]
  BY DEF IInv, TypeOK
<1>1. PICK b : bufs' = [bufs EXCEPT ![b] = "freed"]
  BY DEF Release
<1>2. bufs' \in [Batches -> Owners]
  BY <1>1, <1>t DEF Owners
<1>3. UNCHANGED <<goVars, reqVars, sableVars, taskVars, slotVars, dbVars,
                  frees, live>>
  BY DEF Release
<1> QED
  BY <1>2, <1>3 DEF IInv, TypeOK, Frame

\* Closing a handle touches the registry only.
LEMMA DbCloseStep ==
    ASSUME IInv, NEW d \in Dbs, imbhgo_close(d)
    PROVE  TypeOK' /\ \A p \in Queries : Frame(p)
BY DEF imbhgo_close, IInv, TypeOK, Frame

\* Every step of a handler.
LEMMA HandlerSteps ==
    ASSUME IInv, NEW q \in Queries, HandlerStep(q)
    PROVE  Preserved(q)
BY HandlerStageStep, HandlerLookupStep, HandlerMetaStep, HandlerExportStep,
   HandlerLoopErrorStep, HandlerEndSteps, HandlerSendStep, HandlerSendFailsStep
   DEF HandlerStep

\* Every step of a Rows method.
LEMMA RowsSteps ==
    ASSUME IInv, NEW q \in Queries, RowsStep(q)
    PROVE  Preserved(q)
BY NextTakeStep, GoMovesSteps, ImportStep, NextShellFreeStep, SlotCallStep,
   FinishStep, FinishCloseStep, CloseTakeStep, MetaStep
   DEF RowsStep

-----------------------------------------------------------------------------
(***************************************************************************)
(* The invariant is inductive.                                             *)
(***************************************************************************)
\* Base case.
LEMMA InitIInv == Init => IInv
<1> SUFFICES ASSUME Init PROVE IInv
  OBVIOUS
<1>1. TypeOK
  BY StreamAssumption DEF Init, TypeOK, GoPc, Outcomes, TaskPc, Verdicts, Owners
<1>2. ASSUME NEW q \in Queries PROVE QInv(q)
  <2>1. Taken(q) = 0 /\ Sent(q) = 0
    BY DEF Init, Taken, Sent
  <2>2. Span(0, 0) = <<>>
    BY SpanFacts DEF SpanLaw
  <2>3. PhaseInv(q)
    BY DEF Init, PhaseInv, OpenPc, ImportPc
  <2>4. QueueInv(q)
    BY <2>1, <2>2 DEF Init, QueueInv
  <2>5. FreesInv(q)
    BY <2>1 DEF Init, FreesInv, Batches
  <2>6. ErrorInv(q) /\ EndInv(q)
    BY DEF Init, ErrorInv, EndInv, FinishPc
  <2> QED
    BY <2>3, <2>4, <2>5, <2>6 DEF QInv
<1> QED
  BY <1>1, <1>2 DEF IInv

\* Every step, stuttering included.
LEMMA NextIInv == IInv /\ [Next]_vars => IInv'
<1> SUFFICES ASSUME IInv, [Next]_vars PROVE IInv'
  OBVIOUS
<1>1. ASSUME NEW q \in Queries, Preserved(q) PROVE IInv'
  BY <1>1, FrameKeepsQInv DEF Preserved, IInv
<1>2. ASSUME TypeOK', \A p \in Queries : Frame(p) PROVE IInv'
  BY <1>2, FrameKeepsQInv DEF IInv
<1>3. ASSUME NEW q \in Queries,
             NEW o \in Ops, NEW d \in Dbs, openStream(q, o, d)
      PROVE  IInv'
  BY <1>1, <1>3, OpenStep
<1>4. ASSUME NEW q \in Queries,
             \/ openStreamRefused(q) \/ NextCall(q)
             \/ Close(q) \/ Cancel(q)
      PROVE  IInv'
  BY <1>1, <1>4, GoMovesSteps, CloseStep, CancelStep
<1>9. ASSUME NEW q \in Queries, Release(q) PROVE IInv'
  BY <1>2, <1>9, ReleaseStep
<1>5. ASSUME NEW q \in Queries, HandlerStep(q) \/ RowsStep(q)
      PROVE  IInv'
  BY <1>1, <1>5, HandlerSteps, RowsSteps
<1>6. ASSUME NEW d \in Dbs, imbhgo_close(d) PROVE IInv'
  BY <1>2, <1>6, DbCloseStep
<1>7. CASE UNCHANGED vars
  <2>1. TypeOK' /\ \A p \in Queries : Frame(p)
    BY <1>7 DEF vars, IInv, TypeOK, Frame
  <2> QED
    BY <1>2, <2>1
<1>8. CASE Finished
  BY <1>7, <1>8 DEF Finished
<1> QED
  BY <1>3, <1>4, <1>5, <1>6, <1>7, <1>8, <1>9 DEF Next

\* The strengthened invariant holds of the specification.
LEMMA InvariantHolds == Spec => []IInv
BY InitIInv, NextIInv, PTL DEF Spec

-----------------------------------------------------------------------------
(***************************************************************************)
(* The theorems.                                                           *)
(***************************************************************************)

\* Every variable of the streams keeps its type: in particular a batch number
\* handed over between the channel, Next and the caller is always one that the
\* handler exported.
THEOREM TypeCorrect == Spec => []TypeOK
BY InvariantHolds, PTL DEF IInv

\* No shell is given to Box::from_raw twice, and Next never imports from a
\* freed shell, for any number of streams and any channel capacity.
THEOREM NoDoubleFreeHolds == Spec => []NoDoubleFree
<1>1. IInv => NoDoubleFree
  <2> SUFFICES ASSUME IInv PROVE NoDoubleFree
    OBVIOUS
  <2>1. ASSUME NEW q \in Queries, NEW i \in 1..MaxBatches
        PROVE  frees[<<q, i>>] <= 1
    BY DEF IInv, QInv, FreesInv
  <2>2. ASSUME NEW q \in Queries, ptr[q] # 0 PROVE frees[<<q, ptr[q]>>] = 0
    <3>1. rx[q] = "open" /\ ptr[q] \in 1..MaxBatches
      BY <2>2, NumbersAt DEF Numbers, IInv, QInv, PhaseInv, ImportPc, OpenPc
    <3> QED
      BY <3>1 DEF IInv, QInv, FreesInv
  <2> QED
    BY <2>1, <2>2 DEF NoDoubleFree, Batches
<1> QED
  BY <1>1, InvariantHolds, PTL

\* The caller gets a gapless prefix of the result, in order, and the batch in
\* hand and the channel continue it, for any channel capacity and any number of
\* streams.
THEOREM DeliveredInOrderHolds == Spec => []DeliveredInOrder
<1>1. IInv => DeliveredInOrder
  BY DEF IInv, QInv, QueueInv, DeliveredInOrder
<1> QED
  BY <1>1, InvariantHolds, PTL

\* A clean end is never reported for a failed or unfinished query, and a query
\* error only after everything that was sent, whatever the interleaving.
THEOREM EndOfStreamIsTruthfulHolds == Spec => []EndOfStreamIsTruthful
<1>1. IInv => EndOfStreamIsTruthful
  BY DEF EndOfStreamIsTruthful, IInv, QInv, EndInv
<1> QED
  BY <1>1, InvariantHolds, PTL

\* Only a stream that was cancelled, abandoned or failed to import can leave an
\* entry in QUERY_ERRORS.
THEOREM OnlyAbandonedStrandErrorsHolds == Spec => []OnlyAbandonedStrandErrors
<1>1. IInv => OnlyAbandonedStrandErrors
  <2> SUFFICES ASSUME IInv, NEW q \in errs, go[q] = "ended"
               PROVE  outcome[q] \in {"ctx", "import", "abandoned"}
    BY DEF OnlyAbandonedStrandErrors
  <2>1. q \in Queries
    BY DEF IInv, TypeOK
  <2>2. outcome[q] \in Outcomes \ {"none"}
    BY <2>1 DEF IInv, TypeOK, QInv, PhaseInv
  <2> QED
    BY <2>1, <2>2 DEF IInv, QInv, EndInv, Outcomes
<1> QED
  BY <1>1, InvariantHolds, PTL

\* A drained stream no longer pins the Db.
THEOREM DrainedHoldsNoDbHolds == Spec => []DrainedHoldsNoDb
<1>1. IInv => DrainedHoldsNoDb
  BY DEF DrainedHoldsNoDb, IInv, QInv, EndInv, ErrorInv
<1> QED
  BY <1>1, InvariantHolds, PTL

-----------------------------------------------------------------------------
(***************************************************************************)
(* Refinement.  Seven actions are visible through the mapping; each is a   *)
(* step of ResultStream because of the invariant.                          *)
(***************************************************************************)
given == [q \in Queries |-> Len(got[q])]

\* A step that leaves these alone is invisible.
LEMMA Invisible ==
    ASSUME UNCHANGED <<produced, verdict, got, outcome>>
    PROVE  UNCHANGED Promise!vars
BY DEF Promise!vars

\* The end of a handler's body.
LEMMA ReturnIsEngineEnds ==
    ASSUME IInv, NEW q \in Queries, NEW v \in {"ok", "failed", "stopped"},
           task[q] \in {"running", "sending"}, Return(q, v),
           UNCHANGED <<produced, got, outcome>>,
           v = "stopped" => Len(got[q]) < produced[q]
    PROVE  Promise!Next
<1>1. verdict[q] = "none"
  BY DEF IInv, QInv, ErrorInv
<1>2. Promise!EngineEnds(q, v)
  BY <1>1 DEF Promise!EngineEnds, Return
<1> QED
  BY <1>2 DEF Promise!Next

\* Every step of a handler is a step of the engine's side, or invisible.
LEMMA HandlerRefines ==
    ASSUME IInv, NEW q \in Queries, HandlerStep(q)
    PROVE  [Promise!Next]_(Promise!vars)
<1>n. Numbers(q)
  BY NumbersAt
<1>1. CASE HandlerStage(q) \/ HandlerLookup(q) \/ HandlerMeta(q)
  <2>1. task[q] = "running" /\ UNCHANGED <<produced, got, outcome>>
    BY <1>1 DEF HandlerStage, HandlerLookup, HandlerMeta, At
  <2>2. UNCHANGED verdict \/ Return(q, "failed")
    BY <1>1 DEF HandlerStage, HandlerLookup, HandlerMeta, Advance,
                store_query_error
  <2> QED
    BY <2>1, <2>2, Invisible, ReturnIsEngineEnds
<1>2. CASE HandlerLoopError(q) \/ HandlerEnd(q)
  <2>1. task[q] = "running" /\ UNCHANGED <<produced, got, outcome>>
    BY <1>2 DEF HandlerLoopError, HandlerEnd, At
  <2>2. Return(q, "failed") \/ Return(q, "ok")
    BY <1>2 DEF HandlerLoopError, HandlerEnd, store_query_error
  <2> QED
    BY <2>1, <2>2, ReturnIsEngineEnds
<1>3. CASE HandlerExport(q)
  <2>1. verdict[q] = "none" /\ produced[q] < MaxBatches
    BY <1>3, <1>n DEF HandlerExport, At, IInv, TypeOK, QInv, ErrorInv, Numbers
  <2>2. Promise!Produce(q)
    BY <1>3, <2>1 DEF Promise!Produce, HandlerExport, export_batch
  <2> QED
    BY <2>2 DEF Promise!Next
<1>4. CASE HandlerSendFails(q)
  <2>1. /\ task[q] = "sending" /\ Return(q, "stopped")
        /\ UNCHANGED <<produced, got, outcome>>
    BY <1>4 DEF HandlerSendFails
  <2>2. Len(got[q]) <= Taken(q)
    BY <1>n DEF Numbers, Taken
  <2>3. Sent(q) < produced[q]
    BY <1>n, <2>1 DEF Numbers, Sent
  <2>4. Len(got[q]) < produced[q]
    BY <1>n, <2>2, <2>3 DEF Numbers
  <2> QED
    BY <2>1, <2>4, ReturnIsEngineEnds
<1>5. CASE HandlerSend(q) \/ HandlerUnpin(q) \/ HandlerDropTx(q)
  BY <1>5, Invisible DEF HandlerSend, HandlerUnpin, HandlerDropTx, HandlerGoes
<1> QED
  BY <1>1, <1>2, <1>3, <1>4, <1>5 DEF HandlerStep

\* A record handed to the caller is the next one of the result.
LEMMA ShellFreeRefines ==
    ASSUME IInv, NEW q \in Queries, NextShellFree(q)
    PROVE  [Promise!Next]_(Promise!vars)
<1>n. Numbers(q)
  BY NumbersAt
<1>0. UNCHANGED <<produced, verdict, outcome>>
  BY DEF NextShellFree, AfterImport
<1>1. CASE UNCHANGED got
  BY <1>0, <1>1, Invisible
<1>2. CASE go[q] = "imported" /\ got' = [got EXCEPT ![q] = Append(@, ptr[q])]
  <2>1. ptr[q] # 0 /\ outcome[q] = "none"
    BY <1>2 DEF IInv, QInv, PhaseInv, ImportPc
  <2>2. Len(got[q]) < produced[q]
    <3>1. Len(got[q]) < Taken(q)
      BY <2>1, <1>n DEF Numbers, Taken
    <3> QED
      BY <3>1, <1>n DEF Numbers
  <2>3. given' = [given EXCEPT ![q] = @ + 1]
    <3>1. ptr[q] \in 1..MaxBatches
      BY <2>1, <1>n DEF Numbers
    <3>2. Len(Append(got[q], ptr[q])) = Len(got[q]) + 1
      BY <3>1, <1>n DEF Numbers
    <3> QED
      BY <1>2, <3>2 DEF given, IInv, TypeOK
  <2>4. Promise!Give(q)
    BY <1>0, <2>1, <2>2, <2>3 DEF Promise!Give, given
  <2> QED
    BY <2>4 DEF Promise!Next
<1> QED
  BY <1>1, <1>2 DEF NextShellFree, AfterImport

\* What finish and Close report is what the abstract stream may report.
LEMMA ReportRefines ==
    ASSUME IInv, NEW q \in Queries, finish(q) \/ CloseTake(q)
    PROVE  [Promise!Next]_(Promise!vars)
<1>n. Numbers(q)
  BY NumbersAt
<1>0. UNCHANGED <<produced, verdict, got>>
  BY DEF finish, CloseTake, TakeStoredError
<1>1. outcome[q] = "none"
  BY DEF finish, CloseTake, TakeStoredError, IInv, QInv, PhaseInv
<1>2. ASSUME NEW why \in {"ctx", "import", "abandoned"},
             outcome' = [outcome EXCEPT ![q] = why]
      PROVE  Promise!Next
  <2>1. Promise!GiveUp(q, why)
    BY <1>0, <1>1, <1>2 DEF Promise!GiveUp
  <2> QED
    BY <2>1 DEF Promise!Next
<1>3. ASSUME finish(q), TerminalErr(q) \in {"clean", "query"}
      PROVE  Promise!Next
  <2>1. Preserved(q)
    BY <1>3, FinishStep
  <2>2. outcome' = [outcome EXCEPT ![q] = TerminalErr(q)]
    BY <1>3 DEF finish, TakeStoredError
  <2>3. outcome'[q] = TerminalErr(q)
    BY <2>2 DEF IInv, TypeOK
  <2>4. /\ verdict[q] = IF TerminalErr(q) = "clean" THEN "ok" ELSE "failed"
        /\ got[q] = Span(0, produced[q])
    BY <1>0, <1>3, <2>1, <2>3 DEF Preserved, QInv, EndInv, Span
  <2>5. Len(got[q]) = produced[q]
    <3>1. produced[q] \in Nat /\ 0 <= produced[q]
      BY <1>n DEF Numbers
    <3>2. SpanLaw(0, produced[q])
      BY <3>1, SpanFacts
    <3> QED
      BY <2>4, <3>1, <3>2 DEF SpanLaw
  <2>6. Promise!ReportEnd(q)
    BY <1>0, <1>1, <1>3, <2>2, <2>4, <2>5 DEF Promise!ReportEnd
  <2> QED
    BY <2>6 DEF Promise!Next
<1>4. CASE finish(q)
  <2>1. TerminalErr(q) \in {"import", "ctx", "query", "clean"}
    BY DEF TerminalErr
  <2>2. outcome' = [outcome EXCEPT ![q] = TerminalErr(q)]
    BY <1>4 DEF finish, TakeStoredError
  <2> QED
    BY <1>2, <1>3, <1>4, <2>1, <2>2
<1>5. CASE CloseTake(q)
  BY <1>2, <1>5 DEF CloseTake, TakeStoredError
<1> QED
  BY <1>4, <1>5

\* The rest of a Rows method is invisible.
LEMMA RowsRefines ==
    ASSUME IInv, NEW q \in Queries, RowsStep(q)
    PROVE  [Promise!Next]_(Promise!vars)
<1>1. CASE \/ NextTake(q) \/ NextEnd(q) \/ NextCancelled(q)
           \/ ImportCRecordBatch(q) \/ SlotCall(q) \/ FinishClose(q)
           \/ fetchLogPageMeta(q)
  BY <1>1, Invisible DEF NextTake, Take, NextEnd, NextCancelled, GoMoves,
        ImportCRecordBatch, SlotCall, FinishClose, CloseCursor, fetchLogPageMeta
<1>2. CASE NextShellFree(q)
  BY <1>2, ShellFreeRefines
<1>3. CASE finish(q) \/ CloseTake(q)
  BY <1>3, ReportRefines
<1> QED
  BY <1>1, <1>2, <1>3 DEF RowsStep

\* The channel, the slots and the handoff implement the abstract result stream:
\* the caller sees a growing prefix of what the engine made, then one truthful
\* verdict.
THEOREM Refinement == Spec => KeepsPromise
<1>1. Init => Promise!Init
  BY DEF Init, Promise!Init
<1>2. IInv /\ [Next]_vars => [Promise!Next]_(Promise!vars)
  <2> SUFFICES ASSUME IInv, [Next]_vars PROVE [Promise!Next]_(Promise!vars)
    OBVIOUS
  <2>1. ASSUME NEW q \in Queries,
               \/ \E o \in Ops, d \in Dbs : openStream(q, o, d)
               \/ openStreamRefused(q) \/ NextCall(q)
               \/ Close(q) \/ Cancel(q) \/ Release(q)
        PROVE  UNCHANGED Promise!vars
    BY <2>1, Invisible DEF openStream, OpenCursor, openStreamRefused, NextCall, GoMoves,
                           Close, CloseCursor, Cancel, Release
  <2>2. ASSUME NEW q \in Queries, HandlerStep(q) \/ RowsStep(q)
        PROVE  [Promise!Next]_(Promise!vars)
    BY <2>2, HandlerRefines, RowsRefines
  <2>3. ASSUME \/ \E d \in Dbs : imbhgo_close(d)
               \/ Finished
               \/ UNCHANGED vars
        PROVE  UNCHANGED Promise!vars
    BY <2>3, Invisible DEF imbhgo_close, Finished, vars
  <2> QED
    BY <2>1, <2>2, <2>3 DEF Next
<1> QED
  BY <1>1, <1>2, InvariantHolds, PTL DEF Spec, KeepsPromise, Promise!Spec
=============================================================================
