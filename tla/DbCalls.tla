------------------------------- MODULE DbCalls -------------------------------
(***************************************************************************)
(* The life of Db handles and the byte-Calls made on them: goroutines open *)
(* databases (db.go, admin.go), ingest, flush, count and administer them   *)
(* (ingest.go, ops.go, query.go), run queries that may fail, and close     *)
(* handles, all at the same time. On the Rust side (rust/src/lib.rs) an    *)
(* engine is an Arc that the DBS registry and every running handler share, *)
(* and a failed open or query leaves its cause in QUERY_ERRORS, under an   *)
(* id from the one counter that both draw from. Open cursors, running      *)
(* byte-Calls and the Calls that fetch a cause share sable's gauge.        *)
(*                                                                         *)
(* A member of Calls is one goroutine making one call. An engine is named  *)
(* by the handle it was opened under; 0 is the ABI's "error" handle.       *)
(* External: imbh's writer lock, and sable's gauge and task per Call.      *)
(***************************************************************************)
EXTENDS Integers, FiniteSets

CONSTANTS
    Calls,        \* goroutines, one call each
    Paths,        \* on-disk locations
    Ops,          \* the byte ops that are called
    MaxInFlight   \* SetMaxInFlight's cap; 0 = unbounded

InMemory == "memory"
NoCall   == "nobody"

VARIABLES
    go,        \* where each goroutine is
    req,       \* what it asked for
    errId,     \* the id it drew from queryCtr, 0 if none
    ret,       \* what it was told
    task,      \* the Rust task of its Call
    pin,       \* the engine whose Arc that task holds, 0 if none
    failed,    \* calls whose cause was stored
    queryCtr,
    dbCtr,     \* DB_CTR: the next handle
    dbs,       \* keys of DBS
    live,      \* engines that have not been dropped
    mode,      \* engine -> [path, writer]
    lock,      \* path -> the engine holding its writer lock, 0 if none
    errs,      \* QUERY_ERRORS: id -> the call whose failure is stored
    inflight   \* sable's gauge

goVars     == <<go, req, errId, ret>>
engineVars == <<dbCtr, dbs, live, mode, lock>>
taskVars   == <<task, pin, inflight>>
causeVars  == <<errs, failed>>
vars == <<goVars, engineVars, taskVars, queryCtr, causeVars>>

Handles == 1..(dbCtr - 1)

\* Byte ops by shape: the three signals are one; "stats" stands for the reads
\* without arguments (segments, durable_through), "export" for those with
\* (segment_files), "maintain" for the writes without (compact).
AdminOps  == {"stats", "export", "maintain", "snapshot"}
WriterOps == {"ingest", "tryIngest", "flush", "maintain", "snapshot"}
ArgOps    == {"snapshot", "export", "countLogs"}   \* arguments are checked before the handle
ByteOps   == WriterOps \union AdminOps \union ArgOps

ASSUME CallsAssumption ==
    /\ IsFiniteSet(Calls)
    /\ NoCall \notin Calls
    /\ Ops \subseteq ByteOps
    /\ MaxInFlight \in Nat

NoReq == [op |-> "none"]
Bound == Cardinality(Calls) + 1   \* of the ids and of the handles

Modes == [path : Paths \union {InMemory}, writer : BOOLEAN]

Requests ==
    {NoReq}
    \union [op : {"open"}, path : Paths \union {InMemory}, writer : BOOLEAN]
    \union [op : {"query"} \union ByteOps, handle : 1..Bound]

Answers ==
    [kind : {"none", "bare", "ok", "clean", "failed", "left", "refused", "closed"}]
    \union [kind : {"handle"}, handle : 1..Bound]
    \union [kind : {"cause"}, of : Calls]

\* A Rows whose cursor is open; a goroutine waiting for the Call that takes a slot.
HasCursor == {"rows", "finishClaims", "closing"}
Claiming  == {"openClaims", "finishClaims", "abandonClaims"}
Places    == {"new", "opening", "openFailed", "abandoning", "waiting", "done"}
                \union HasCursor \union Claiming
TaskStates == {"none", "sent", "running", "returning", "ended"}

TypeOK ==
    /\ go \in [Calls -> Places]
    /\ task \in [Calls -> TaskStates]
    /\ req \in [Calls -> Requests]
    /\ ret \in [Calls -> Answers]
    /\ errId \in [Calls -> 0..queryCtr]
    /\ pin \in [Calls -> {0} \union live]
    /\ queryCtr \in 0..Bound
    /\ dbCtr \in 1..(Bound + 1)
    /\ dbs \subseteq Handles /\ live \subseteq Handles
    /\ lock \in [Paths -> {0} \union live]
    /\ mode \in [1..Bound -> Modes]
    /\ errs \in [1..Bound -> Calls \union {NoCall}]
    /\ failed \subseteq Calls
    /\ inflight \in Int

-----------------------------------------------------------------------------
\* The process has opened no database yet, or one.
Init ==
    /\ go = [c \in Calls |-> "new"]
    /\ req = [c \in Calls |-> NoReq]
    /\ errId = [c \in Calls |-> 0]
    /\ ret = [c \in Calls |-> [kind |-> "none"]]
    /\ task = [c \in Calls |-> "none"]
    /\ pin = [c \in Calls |-> 0]
    /\ queryCtr \in {0, 1}
    /\ dbCtr = queryCtr + 1
    /\ dbs = Handles /\ live = Handles
    /\ \E m \in Modes :
         /\ queryCtr = 0 \/ m.path = InMemory => m = [path |-> InMemory, writer |-> TRUE]
         /\ mode = [h \in 1..Bound |-> m]
         /\ lock = [p \in Paths |-> IF queryCtr = 1 /\ m.writer /\ m.path = p THEN 1 ELSE 0]
    /\ errs = [i \in 1..Bound |-> NoCall]
    /\ failed = {}
    /\ inflight = 0

Return(c, r) == go' = [go EXCEPT ![c] = "done"] /\ ret' = [ret EXCEPT ![c] = r]

-----------------------------------------------------------------------------
(* Opening *)

\* queryCtr.Add(1), then the C call with that id.
BeginOpen(c, what) ==
    /\ go[c] = "new"
    /\ queryCtr' = queryCtr + 1
    /\ errId' = [errId EXCEPT ![c] = queryCtr']
    /\ req' = [req EXCEPT ![c] = what]
    /\ go' = [go EXCEPT ![c] = "opening"]
    /\ UNCHANGED <<ret, engineVars, taskVars, causeVars>>

OpenReq(p, w) == [op |-> "open", path |-> p, writer |-> w]

OpenInMemory(c) == BeginOpen(c, OpenReq(InMemory, TRUE))
Open(c)         == \E p \in Paths : BeginOpen(c, OpenReq(p, TRUE))
OpenReadOnly(c) == \E p \in Paths : BeginOpen(c, OpenReq(p, FALSE))
\* DbOptions: an access mode, and specs; malformed ones are among the failures.
OpenWith(c)     == \E p \in Paths, w \in BOOLEAN : BeginOpen(c, OpenReq(p, w))

ReusedInsertDb == Cardinality(dbs) + 1                      \* mutant

InsertDb == dbCtr

\* imbhgo_open*: the engine opens (a writer takes its path's lock) and is
\* registered under a fresh handle, which is returned.
Opened(c) ==
    /\ go[c] = "opening"
    /\ req[c].writer /\ req[c].path \in Paths => lock[req[c].path] = 0
    /\ LET h == InsertDb IN
         /\ dbCtr' = dbCtr + 1
         /\ dbs' = dbs \union {h}
         /\ live' = live \union {h}
         /\ mode' = [mode EXCEPT ![h] = [path |-> req[c].path, writer |-> req[c].writer]]
         /\ lock' = [p \in Paths |-> IF p = req[c].path /\ req[c].writer THEN h ELSE lock[p]]
         /\ Return(c, [kind |-> "handle", handle |-> h])
    /\ UNCHANGED <<req, errId, taskVars, queryCtr, causeVars>>

StoreError(c) ==
    /\ errs' = [errs EXCEPT ![errId[c]] = c]
    /\ failed' = failed \union {c}

\* ... or it does not: the cause is stored under err_id and 0 is returned.
StoreOpenError(c) ==
    /\ go[c] = "opening"
    /\ StoreError(c)
    /\ go' = [go EXCEPT ![c] = "openFailed"]
    /\ UNCHANGED <<req, errId, ret, engineVars, taskVars, queryCtr>>

\* The Call of takeStoredError is never refused, but counted while it runs.
Claim(c, from, to) ==
    /\ go[c] = from
    /\ go' = [go EXCEPT ![c] = to]
    /\ inflight' = inflight + 1
    /\ UNCHANGED <<req, errId, task, pin, engineVars, queryCtr, causeVars>>

OpenClaims(c) == Claim(c, "openFailed", "openClaims") /\ UNCHANGED ret

PeekStoredError(c) ==                                       \* mutant
    /\ inflight' = inflight - 1
    /\ UNCHANGED causeVars

\* takeStoredError: fetch and clear the slot.
TakeStoredError(c) ==
    /\ errs' = [errs EXCEPT ![errId[c]] = NoCall]
    /\ inflight' = inflight - 1
    /\ UNCHANGED failed

Stored(c, none) ==
    IF errs[errId[c]] = NoCall THEN [kind |-> none] ELSE [kind |-> "cause", of |-> errs[errId[c]]]

OpenFailure(c) ==
    /\ go[c] = "openClaims"
    /\ Return(c, Stored(c, "bare"))
    /\ TakeStoredError(c)
    /\ UNCHANGED <<req, errId, task, pin, engineVars, queryCtr>>

-----------------------------------------------------------------------------
(* Queries, as far as they share the counter, the slots, the gauge and the *)
(* engines with the other calls; StreamQuery has the batches.              *)

AtCap == MaxInFlight > 0 /\ inflight >= MaxInFlight

SeparateQueryId == Cardinality({c \in Calls : req[c].op = "query"}) + 1  \* mutant

QueryId == queryCtr + 1

\* openStream: an id is drawn, and spent also when the cursor is refused.
BeginQuery(c) ==
    /\ go[c] = "new"
    /\ \E h \in Handles : req' = [req EXCEPT ![c] = [op |-> "query", handle |-> h]]
    /\ errId' = [errId EXCEPT ![c] = QueryId]
    /\ queryCtr' = queryCtr + 1
    /\ IF AtCap THEN Return(c, [kind |-> "refused"]) /\ UNCHANGED <<task, inflight>>
       ELSE /\ go' = [go EXCEPT ![c] = "rows"]
            /\ task' = [task EXCEPT ![c] = "sent"]
            /\ inflight' = inflight + 1
            /\ UNCHANGED ret
    /\ UNCHANGED <<pin, engineVars, causeVars>>

Querying(c, states) == req[c].op = "query" /\ task[c] \in states

HandlerBodyEnds(c) ==
    /\ task' = [task EXCEPT ![c] = "returning"]
    /\ UNCHANGED <<goVars, engineVars, pin, inflight, queryCtr>>

\* The handler stores an error, whether or not its reader is still there: a bad
\* payload, an unknown handle, an engine error.
QueryFails(c) ==
    /\ Querying(c, {"sent", "running"})
    /\ StoreError(c)
    /\ HandlerBodyEnds(c)

\* The result was sent, or a send failed because the reader left.
QueryRuns(c) ==
    /\ Querying(c, {"running"})
    /\ HandlerBodyEnds(c)
    /\ UNCHANGED causeVars

\* Next sees the end of the stream and finish asks for the cause ...
QueryEnds(c) == task[c] = "ended" /\ Claim(c, "rows", "finishClaims") /\ UNCHANGED ret

\* ... or it gives up before: the context is done, a batch cannot be imported.
QueryGivesUp(c) ==
    /\ Claim(c, "rows", "finishClaims")
    /\ ret' = [ret EXCEPT ![c] = [kind |-> "left"]]

\* finish: the import error and the context come before the stored cause; the
\* context may also have ended since the stream did.
QueryFinish(c) ==
    /\ go[c] = "finishClaims"
    /\ go' = [go EXCEPT ![c] = "closing"]
    /\ \/ ret' = [ret EXCEPT ![c] = [kind |-> "left"]]
       \/ ret[c].kind # "left" /\ ret' = [ret EXCEPT ![c] = Stored(c, "clean")]
    /\ TakeStoredError(c)
    /\ UNCHANGED <<req, errId, task, pin, engineVars, queryCtr>>

CloseCursor(c, from, to) ==
    /\ go[c] = from
    /\ go' = [go EXCEPT ![c] = to]
    /\ inflight' = inflight - 1
    /\ UNCHANGED <<req, errId, task, pin, engineVars, queryCtr, causeVars>>

\* The r.Close() at the end of finish.
FinishClose(c) == CloseCursor(c, "closing", "done") /\ UNCHANGED ret

\* Rows.Close before the end: the cursor goes, then the cause is taken.
AbandonQuery(c) ==
    /\ CloseCursor(c, "rows", "abandoning")
    /\ ret' = [ret EXCEPT ![c] = [kind |-> "left"]]

AbandonClaims(c) == Claim(c, "abandoning", "abandonClaims") /\ UNCHANGED ret

QueryAbandoned(c) ==
    /\ go[c] = "abandonClaims"
    /\ go' = [go EXCEPT ![c] = "done"]
    /\ TakeStoredError(c)
    /\ UNCHANGED <<req, errId, ret, task, pin, engineVars, queryCtr>>

-----------------------------------------------------------------------------
(* Byte-Calls *)

\* The request is framed with the handle and a task is started for it; the
\* blocking Call is never refused.
Admit(c, op, h) ==
    /\ req' = [req EXCEPT ![c] = [op |-> op, handle |-> h]]
    /\ go' = [go EXCEPT ![c] = "waiting"]
    /\ task' = [task EXCEPT ![c] = "sent"]
    /\ inflight' = inflight + 1
    /\ UNCHANGED <<errId, ret, pin, engineVars, queryCtr, causeVars>>

CallOp(c, op) ==
    /\ go[c] = "new" /\ op \in Ops
    /\ \E h \in Handles : Admit(c, op, h)

Ingest(c)    == CallOp(c, "ingest")
Flush(c)     == CallOp(c, "flush")
Admin(c)     == \E op \in AdminOps : CallOp(c, op)
CountLogs(c) == CallOp(c, "countLogs")

LateRefusalTryIngest(c) ==                                  \* mutant
    /\ go[c] = "new" /\ "tryIngest" \in Ops
    /\ \E h \in Handles :
         IF AtCap
         THEN /\ req' = [req EXCEPT ![c] = [op |-> "tryIngest", handle |-> h]]
              /\ Return(c, [kind |-> "refused"])
              /\ task' = [task EXCEPT ![c] = "sent"]
              /\ inflight' = inflight + 1
              /\ UNCHANGED <<errId, pin, engineVars, queryCtr, causeVars>>
         ELSE Admit(c, "tryIngest", h)

\* TryCall: at the cap nothing is admitted.
TryIngest(c) ==
    /\ go[c] = "new" /\ "tryIngest" \in Ops
    /\ \E h \in Handles :
         IF AtCap
         THEN /\ req' = [req EXCEPT ![c] = [op |-> "tryIngest", handle |-> h]]
              /\ Return(c, [kind |-> "refused"])
              /\ UNCHANGED <<errId, engineVars, taskVars, queryCtr, causeVars>>
         ELSE Admit(c, "tryIngest", h)

Calling(c, states) == req[c].op \in ByteOps /\ task[c] \in states

\* The task ends with an answer for its caller, if that one still waits.
Answer(c, r) ==
    /\ task' = [task EXCEPT ![c] = "ended"]
    /\ pin' = [pin EXCEPT ![c] = 0]
    /\ inflight' = inflight - 1
    /\ IF go[c] = "waiting" THEN Return(c, r) ELSE UNCHANGED <<go, ret>>
    /\ UNCHANGED <<req, errId, dbCtr, dbs, mode, queryCtr, causeVars>>

\* The engine goes with the last reference to it, and frees its lock.
Drop(h, otherPins, registry) ==
    LET gone == h # 0 /\ h \notin registry /\ h \notin otherPins
    IN  /\ live' = IF gone THEN live \ {h} ELSE live
        /\ lock' = [p \in Paths |-> IF gone /\ lock[p] = h THEN 0 ELSE lock[p]]

PinsBut(c) == {pin[d] : d \in Calls \ {c}}

UncountedLookupDb(c) ==                                     \* mutant
    /\ task[c] = "sent"
    /\ req[c].handle \in dbs
    /\ task' = [task EXCEPT ![c] = "running"]
    /\ UNCHANGED <<goVars, pin, inflight, engineVars, queryCtr, causeVars>>

\* lookup_db clones the Arc under the registry's lock, for queries too.
LookupDb(c) ==
    /\ task[c] = "sent"
    /\ req[c].handle \in dbs
    /\ pin' = [pin EXCEPT ![c] = req[c].handle]
    /\ task' = [task EXCEPT ![c] = "running"]
    /\ UNCHANGED <<goVars, inflight, engineVars, queryCtr, causeVars>>

LookupFails(c) ==
    /\ Calling(c, {"sent"})
    /\ req[c].handle \notin dbs \/ req[c].op \in ArgOps
    /\ Answer(c, [kind |-> "failed"])
    /\ UNCHANGED <<live, lock>>

\* What Go makes of the reply. decodeReceipt rejects one that is too short (an
\* archive of another layout), although the engine has the records by then.
Replies(c) ==
    IF req[c].op \in {"ingest", "tryIngest"} THEN {"ok", "failed"} ELSE {"ok"}

\* The handler's call into the engine succeeds, and it returns, dropping its Arc.
HandlerSucceeds(c) ==
    /\ Calling(c, {"running"})
    /\ req[c].op \in WriterOps => mode[req[c].handle].writer
    /\ \E reply \in Replies(c) : Answer(c, [kind |-> reply])
    /\ Drop(pin[c], PinsBut(c), dbs)

\* It fails: always for a write through a reader.
HandlerFails(c) ==
    /\ Calling(c, {"running"})
    /\ Answer(c, [kind |-> "failed"])
    /\ Drop(pin[c], PinsBut(c), dbs)

\* A stream handler returns: its Arc goes, then its sender.
HandlerReturns(c) ==
    /\ task[c] = "returning"
    /\ task' = [task EXCEPT ![c] = "ended"]
    /\ pin' = [pin EXCEPT ![c] = 0]
    /\ Drop(pin[c], PinsBut(c), dbs)
    /\ UNCHANGED <<goVars, inflight, dbCtr, dbs, mode, queryCtr, causeVars>>

ForgettingCtxDone(c) ==                                     \* mutant
    /\ go[c] = "waiting" /\ req[c].op = "countLogs"
    /\ Return(c, [kind |-> "left"])
    /\ task' = [task EXCEPT ![c] = "ended"]
    /\ UNCHANGED <<req, errId, engineVars, pin, inflight, queryCtr, causeVars>>

\* CallCtx: the caller leaves, its task ends in its own time.
CtxDone(c) ==
    /\ go[c] = "waiting" /\ req[c].op = "countLogs"
    /\ Return(c, [kind |-> "left"])
    /\ UNCHANGED <<req, errId, engineVars, taskVars, queryCtr, causeVars>>

UnlockingClose(c) ==                                        \* mutant
    /\ go[c] = "new"
    /\ \E h \in Handles :
         /\ dbs' = dbs \ {h}
         /\ live' = IF h \in PinsBut(c) THEN live ELSE live \ {h}
         /\ lock' = [p \in Paths |-> IF lock[p] = h THEN 0 ELSE lock[p]]
    /\ Return(c, [kind |-> "closed"])
    /\ UNCHANGED <<req, errId, dbCtr, mode, taskVars, queryCtr, causeVars>>

\* Close drops the registry's Arc; an id that is not there is ignored.
Close(c) ==
    /\ go[c] = "new"
    /\ \E h \in Handles :
         /\ dbs' = dbs \ {h}
         /\ Drop(h, PinsBut(c), dbs')
    /\ Return(c, [kind |-> "closed"])
    /\ UNCHANGED <<req, errId, dbCtr, mode, taskVars, queryCtr, causeVars>>

-----------------------------------------------------------------------------
TaskStep(c) ==
    \/ LookupDb(c) \/ LookupFails(c) \/ HandlerSucceeds(c) \/ HandlerFails(c)
    \/ QueryFails(c) \/ QueryRuns(c) \/ HandlerReturns(c)

Step(c) ==
    \/ OpenInMemory(c) \/ Open(c) \/ OpenReadOnly(c) \/ OpenWith(c)
    \/ Opened(c) \/ StoreOpenError(c) \/ OpenClaims(c) \/ OpenFailure(c)
    \/ BeginQuery(c) \/ QueryEnds(c) \/ QueryGivesUp(c) \/ QueryFinish(c) \/ FinishClose(c)
    \/ AbandonQuery(c) \/ AbandonClaims(c) \/ QueryAbandoned(c)
    \/ Ingest(c) \/ Flush(c) \/ Admin(c) \/ CountLogs(c) \/ TryIngest(c)
    \/ TaskStep(c)
    \/ CtxDone(c) \/ Close(c)

Done == (\A c \in Calls : go[c] = "done" /\ task[c] \in {"none", "ended"}) /\ UNCHANGED vars

Next == (\E c \in Calls : Step(c)) \/ Done

Spec == Init /\ [][Next]_vars

\* The runtime runs every task it started to its end: the engine's futures
\* resolve, and a reader goes on with Next or Close, so that no stream handler
\* waits for room for ever (StreamsComeToRest of StreamQuery). Nothing makes a
\* goroutine come and call.
FairSpec == Spec /\ \A c \in Calls : WF_vars(TaskStep(c))

-----------------------------------------------------------------------------
(* Properties *)

\* A failed open or query gets the cause that was stored for it, never another
\* call's and never the bare fallback, although opens and queries of all
\* goroutines share one counter and one map (openFailure, finish); and a query
\* whose handler failed never reports a clean end.
CauseReachesItsCaller ==
    \A c \in Calls : /\ ret[c].kind = "cause" => ret[c].of = c
                     /\ ret[c].kind # "bare"
                     /\ ret[c].kind = "clean" => c \notin failed

\* Whose entries stay in QUERY_ERRORS when the call is over: only those of a
\* query that was left before its end (cancelled, closed early, a failed
\* import), the window that Rows.Close documents. An open, also a failed one,
\* and a query that saw its end leave nothing, and no call writes to the slot
\* of another.
OnlyEarlyLeaversStrandCauses ==
    \A i \in DOMAIN errs : errs[i] # NoCall =>
        /\ errId[errs[i]] = i
        /\ go[errs[i]] = "done" =>
              req[errs[i]].op = "query" /\ ret[errs[i]].kind = "left"

\* No two opens get the same handle, not even after a Close in between, so a
\* stale handle never reaches a later database; and 0 is never one (insert_db).
HandlesAreNotReused ==
    \A c \in Calls : ret[c].kind = "handle" =>
        /\ ret[c].handle # 0
        /\ \A d \in Calls \ {c} : ret[d].kind = "handle" => ret[d].handle # ret[c].handle

\* An engine exists exactly while DBS or a running handler refers to it: Close
\* never takes it from under a call or a query, and the last one does not leak
\* it, also when its caller has gone.
EngineLivesWhileUsed ==
    /\ live = dbs \union ({pin[c] : c \in Calls} \ {0})
    /\ \A c \in Calls : task[c] = "running" => req[c].handle \in live

\* Two writers are never live on one path, also when it is reopened while a
\* call on a closed handle still runs.
OneWriterPerPath ==
    \A g, h \in live : /\ mode[g].writer /\ mode[h].writer
                        /\ mode[g].path = mode[h].path /\ mode[g].path \in Paths
                        => g = h

Cursors  == {c \in Calls : go[c] \in HasCursor}
Claims   == {c \in Calls : go[c] \in Claiming}
InCall   == {c \in Calls : Calling(c, {"sent", "running"})}
Admitted == Cursors \union {c \in InCall : req[c].op = "tryIngest"}

\* The cap of SetMaxInFlight bounds the open Rows and the running TryIngests
\* together, also while Calls that are exempt from it pass; a call that got
\* ErrBackpressure has nothing running. The gauge counts cursors, tasks and
\* claims exactly: each gives its slot back once, whatever its handler answers
\* and whether or not its caller is still there.
CapBoundsAdmitted ==
    /\ inflight = Cardinality(Cursors) + Cardinality(Claims) + Cardinality(InCall)
    /\ MaxInFlight > 0 => Cardinality(Admitted) <= MaxInFlight
    /\ \A c \in Calls : ret[c].kind = "refused" => c \notin Cursors \union InCall

\* A closed database is dropped in the end, whatever calls and queries were
\* running on it and whichever of their callers went away (CountLogs with a dead
\* context, an abandoned Rows).
ClosedEngineIsDropped ==
    \A h \in 1..Bound : (h \in live /\ h \notin dbs) ~> (h \notin live)
=============================================================================
