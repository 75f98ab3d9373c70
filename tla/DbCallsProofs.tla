---------------------------- MODULE DbCallsProofs ----------------------------
(***************************************************************************)
(* Proofs of the safety properties of DbCalls for any finite number of     *)
(* goroutines, any set of paths and any cap.                               *)
(***************************************************************************)
EXTENDS DbCalls, FiniteSetTheorems, TLAPS

-----------------------------------------------------------------------------
(* The inductive invariant *)

\* The two halves of TypeOK: the calls and their slots, and the engines.
CallTypes ==
    /\ go \in [Calls -> Places]
    /\ task \in [Calls -> TaskStates]
    /\ req \in [Calls -> Requests]
    /\ ret \in [Calls -> Answers]
    /\ errId \in [Calls -> 0..queryCtr]
    /\ queryCtr \in 0..Bound
    /\ errs \in [1..Bound -> Calls \union {NoCall}]
    /\ failed \subseteq Calls

EngineTypes ==
    /\ pin \in [Calls -> {0} \union live]
    /\ dbCtr \in 1..(Bound + 1)
    /\ dbs \subseteq Handles /\ live \subseteq Handles
    /\ lock \in [Paths -> {0} \union live]
    /\ mode \in [1..Bound -> Modes]

\* The goroutines that drew an id, and those that were given a handle.
Drawn == {c \in Calls : errId[c] # 0}
Opens == {c \in Calls : ret[c].kind = "handle"}

\* The caller will see what is in its slot.
WillClaim(c) == go[c] = "rows" \/ (go[c] = "finishClaims" /\ ret[c].kind = "none")

\* Where a goroutine is says what it has asked for and has been told.
PlaceInv(c) ==
    /\ go[c] \in {"new", "opening", "openFailed", "openClaims", "waiting", "rows"}
         => ret[c].kind = "none"
    /\ go[c] = "new" => errId[c] = 0 /\ task[c] = "none"
    /\ go[c] \in {"opening", "openFailed", "openClaims"}
         => req[c].op = "open" /\ errId[c] # 0 /\ task[c] = "none"
    /\ go[c] \in HasCursor \union {"abandoning", "abandonClaims"}
         => req[c].op = "query" /\ errId[c] # 0
    /\ go[c] = "waiting" => Calling(c, {"sent", "running"})
    /\ go[c] \in {"abandoning", "abandonClaims"} => ret[c].kind = "left"
    /\ go[c] = "finishClaims" => ret[c].kind \in {"none", "left"}
    /\ go[c] = "finishClaims" /\ ret[c].kind = "none" => task[c] = "ended"
    /\ go[c] = "closing" => ret[c].kind \in {"left", "clean", "cause"}

\* What its task may still do, and the engine it holds.
TaskInv(c) ==
    /\ task[c] # "none" => req[c].op \in {"query"} \union ByteOps
    /\ task[c] = "returning" => req[c].op = "query"
    /\ Calling(c, {"sent", "running"})
         => go[c] = "waiting" \/ (go[c] = "done" /\ ret[c].kind = "left" /\ req[c].op = "countLogs")
    /\ Querying(c, {"sent", "running", "returning"})
         => errId[c] # 0 /\ (go[c] = "rows" \/ ret[c].kind = "left")
    /\ pin[c] # 0 => pin[c] = req[c].handle
    /\ task[c] = "running" => pin[c] = req[c].handle
    /\ task[c] \in {"none", "sent", "ended"} => pin[c] = 0

\* What it was told, and what its slot holds for it.
AnswerInv(c) ==
    /\ c \in failed => errId[c] # 0
    /\ ret[c].kind = "refused" => go[c] = "done" /\ task[c] = "none"
    /\ ret[c].kind = "cause" => ret[c].of = c
    /\ ret[c].kind # "bare"
    /\ ret[c].kind = "clean" => c \notin failed /\ task[c] = "ended"
    /\ go[c] \in {"openFailed", "openClaims"} \/ (c \in failed /\ WillClaim(c))
         => errs[errId[c]] = c
    /\ errId[c] # 0 /\ errs[errId[c]] = c
         => \/ go[c] \in {"openFailed", "openClaims"}
            \/ req[c].op = "query" /\ (WillClaim(c) \/ ret[c].kind = "left")

CallInv(c) == PlaceInv(c) /\ TaskInv(c) /\ AnswerInv(c)

\* Ids are drawn once, so a slot of QUERY_ERRORS is one goroutine's own.
SlotInv ==
    /\ queryCtr <= Cardinality(Drawn) + 1
    /\ \A c, d \in Calls : errId[c] # 0 /\ errId[c] = errId[d] => c = d
    /\ \A i \in 1..Bound : errs[i] # NoCall => errId[errs[i]] = i

\* A handle is one open's own.
HandleInv ==
    /\ dbCtr <= Cardinality(Opens) + 2
    /\ \A c \in Calls : ret[c].kind = "handle" => ret[c].handle < dbCtr
    /\ HandlesAreNotReused

\* An engine is there while someone refers to it, and a writer has its path's
\* lock as long as it is there.
EngineInv ==
    /\ EngineTypes
    /\ live = dbs \union ({pin[c] : c \in Calls} \ {0})
    /\ \A h \in live : mode[h].writer /\ mode[h].path \in Paths => lock[mode[h].path] = h

\* The gauge, and what the cap bounds.
GaugeInv ==
    /\ inflight = Cardinality(Cursors) + Cardinality(Claims) + Cardinality(InCall)
    /\ MaxInFlight > 0 => Cardinality(Admitted) <= MaxInFlight

IInv ==
    /\ TypeOK
    /\ \A c \in Calls : CallInv(c)
    /\ SlotInv
    /\ HandleInv
    /\ EngineInv
    /\ GaugeInv

-----------------------------------------------------------------------------
(* Counting calls *)

One(b) == IF b THEN 1 ELSE 0

\* A set of calls that changes in at most one member.
LEMMA CountOther ==
    ASSUME NEW S \in SUBSET Calls, NEW T \in SUBSET Calls, NEW c \in Calls, S \ {c} = T \ {c}
    PROVE  /\ Cardinality(S) \in Nat /\ Cardinality(T) \in Nat
           /\ Cardinality(T) = Cardinality(S) + One(c \in T) - One(c \in S)
  <1>1. ASSUME NEW U \in SUBSET Calls
        PROVE  /\ IsFiniteSet(U) /\ Cardinality(U) \in Nat
               /\ Cardinality(U) = Cardinality(U \ {c}) + One(c \in U)
               /\ Cardinality(U \ {c}) \in Nat
    <2>1. IsFiniteSet(U) /\ IsFiniteSet(U \ {c}) BY CallsAssumption, FS_Subset
    <2>2. Cardinality(U) \in Nat /\ Cardinality(U \ {c}) \in Nat BY <2>1, FS_CardinalityType
    <2>3. CASE c \in U
      <3>1. Cardinality(U \ {c}) = Cardinality(U) - 1 BY <2>1, <2>3, FS_RemoveElement
      <3> QED BY <2>1, <2>2, <2>3, <3>1 DEF One
    <2>4. CASE c \notin U
      <3>1. U \ {c} = U BY <2>4
      <3> QED BY <2>1, <2>2, <2>4, <3>1 DEF One
    <2> QED BY <2>3, <2>4
  <1>2. Cardinality(S) = Cardinality(S \ {c}) + One(c \in S) /\ Cardinality(S) \in Nat BY <1>1
  <1>3. /\ Cardinality(T) = Cardinality(S \ {c}) + One(c \in T) /\ Cardinality(T) \in Nat
        /\ Cardinality(S \ {c}) \in Nat
    BY <1>1
  <1> QED BY <1>2, <1>3 DEF One

\* There are never more calls of a kind than calls.
LEMMA CountBound ==
    ASSUME NEW S \in SUBSET Calls
    PROVE  IsFiniteSet(S) /\ Cardinality(S) \in Nat /\ Cardinality(S) + 1 <= Bound /\ Bound \in Nat
  BY CallsAssumption, FS_Subset, FS_CardinalityType DEF Bound

\* The number of calls is a natural number.
LEMMA BoundType == Bound \in Nat
  BY CallsAssumption, FS_CardinalityType DEF Bound

-----------------------------------------------------------------------------
(* What requests and answers are made of *)

\* What a typed request is made of.
LEMMA RequestFields ==
    ASSUME NEW r \in Requests
    PROVE  /\ r.op = "open" => r.path \in Paths \union {InMemory} /\ r.writer \in BOOLEAN
           /\ r.op \in {"query"} \union ByteOps => r.handle \in 1..Bound
  BY DEF Requests, NoReq, ByteOps, WriterOps, AdminOps, ArgOps

\* What a typed answer is made of.
LEMMA AnswerFields ==
    ASSUME NEW r \in Answers
    PROVE  r.kind = "handle" => r.handle \in 1..Bound
  BY DEF Answers

\* A byte op is neither an open nor a query.
LEMMA OpNames ==
    /\ "none" \notin ByteOps /\ "open" \notin ByteOps /\ "query" \notin ByteOps
    /\ "tryIngest" \in ByteOps /\ "countLogs" \in ByteOps /\ Ops \subseteq ByteOps
  BY CallsAssumption DEF ByteOps, WriterOps, AdminOps, ArgOps

-----------------------------------------------------------------------------
(* A step of one call, part by part *)

USE DEF goVars, engineVars, taskVars, causeVars

\* A step of call c is invisible to the others.
Alone(c) ==
    \A d \in Calls \ {c} :
        /\ go'[d] = go[d] /\ req'[d] = req[d] /\ errId'[d] = errId[d] /\ ret'[d] = ret[d]
        /\ task'[d] = task[d] /\ pin'[d] = pin[d]
        /\ errId[d] # 0 => errs'[errId[d]] = errs[errId[d]]
        /\ d \in failed' <=> d \in failed

\* It leaves what holds of them alone.
LEMMA OthersKeep ==
    ASSUME IInv, NEW c \in Calls, Alone(c), CallInv(c)'
    PROVE  \A d \in Calls : CallInv(d)'
  <1> SUFFICES ASSUME NEW d \in Calls \ {c} PROVE CallInv(d)' OBVIOUS
  <1>1. CallInv(d) BY DEF IInv
  <1>2. PlaceInv(d)' BY <1>1 DEF Alone, CallInv, PlaceInv, Calling
  <1>3. TaskInv(d)' BY <1>1 DEF Alone, CallInv, TaskInv, Calling, Querying
  <1>4. AnswerInv(d)'
    <2>1. go[d] \in {"openFailed", "openClaims"} \/ WillClaim(d) => errId[d] # 0
      BY <1>1 DEF CallInv, PlaceInv, WillClaim, HasCursor
    <2> QED BY <1>1, <2>1 DEF Alone, CallInv, AnswerInv, WillClaim
  <1> QED BY <1>2, <1>3, <1>4 DEF CallInv

\* What a call has in the gauge, and whether the cap counts it.
Weight(c) ==
    One(go[c] \in HasCursor) + One(go[c] \in Claiming) + One(Calling(c, {"sent", "running"}))
Counted(c) == go[c] \in HasCursor \/ (Calling(c, {"sent", "running"}) /\ req[c].op = "tryIngest")

\* The gauge moves by what the call gains or gives back, and the cap is asked
\* before it is admitted.
Weighs(c) ==
    /\ inflight' = inflight + Weight(c)' - Weight(c)
    /\ Counted(c)' => Counted(c) \/ ~AtCap

\* So the gauge stays exact, and the cap bounds what it admits.
LEMMA GaugeKept ==
    ASSUME IInv, NEW c \in Calls, Alone(c), Weighs(c)
    PROVE  GaugeInv' /\ inflight' \in Int
  <1>0. /\ Cursors \in SUBSET Calls /\ Claims \in SUBSET Calls /\ InCall \in SUBSET Calls
        /\ Admitted \in SUBSET Calls
        /\ Cursors' \in SUBSET Calls /\ Claims' \in SUBSET Calls /\ InCall' \in SUBSET Calls
        /\ Admitted' \in SUBSET Calls
    BY DEF Cursors, Claims, InCall, Admitted
  <1>1. /\ Cursors \ {c} = Cursors' \ {c} /\ Claims \ {c} = Claims' \ {c}
        /\ InCall \ {c} = InCall' \ {c} /\ Admitted \ {c} = Admitted' \ {c}
    BY DEF Alone, Cursors, Claims, InCall, Admitted, Calling
  <1>2. PICK A, B, C, D, A1, B1, C1, D1 :
          /\ A = Cursors /\ B = Claims /\ C = InCall /\ D = Admitted
          /\ A1 = Cursors' /\ B1 = Claims' /\ C1 = InCall' /\ D1 = Admitted'
    OBVIOUS
  <1>3. /\ A \in SUBSET Calls /\ B \in SUBSET Calls /\ C \in SUBSET Calls /\ D \in SUBSET Calls
        /\ A1 \in SUBSET Calls /\ B1 \in SUBSET Calls /\ C1 \in SUBSET Calls /\ D1 \in SUBSET Calls
        /\ A \ {c} = A1 \ {c} /\ B \ {c} = B1 \ {c} /\ C \ {c} = C1 \ {c} /\ D \ {c} = D1 \ {c}
    BY <1>0, <1>1, <1>2
  <1>4. /\ Cardinality(A1) = Cardinality(A) + One(c \in A1) - One(c \in A)
        /\ Cardinality(B1) = Cardinality(B) + One(c \in B1) - One(c \in B)
        /\ Cardinality(C1) = Cardinality(C) + One(c \in C1) - One(c \in C)
        /\ Cardinality(D1) = Cardinality(D) + One(c \in D1) - One(c \in D)
        /\ Cardinality(A) \in Nat /\ Cardinality(B) \in Nat /\ Cardinality(C) \in Nat
        /\ Cardinality(D) \in Nat
    BY <1>3, CountOther
  <1>5. /\ Weight(c) = One(c \in A) + One(c \in B) + One(c \in C)
        /\ Weight(c)' = One(c \in A1) + One(c \in B1) + One(c \in C1)
        /\ Counted(c) <=> c \in D
        /\ Counted(c)' <=> c \in D1
    <2>1. /\ go[c] \in HasCursor <=> c \in A
          /\ go[c] \in Claiming <=> c \in B
          /\ Calling(c, {"sent", "running"}) <=> c \in C
          /\ Counted(c) <=> c \in D
      BY <1>2 DEF Counted, Cursors, Claims, InCall, Admitted
    <2>2. /\ go'[c] \in HasCursor <=> c \in A1
          /\ go'[c] \in Claiming <=> c \in B1
          /\ Calling(c, {"sent", "running"})' <=> c \in C1
          /\ Counted(c)' <=> c \in D1
      BY <1>2 DEF Counted, Cursors, Claims, InCall, Admitted
    <2> QED BY <2>1, <2>2 DEF Weight, One
  <1>6. inflight = Cardinality(A) + Cardinality(B) + Cardinality(C) BY <1>2 DEF IInv, GaugeInv
  <1>7. \A b : One(b) \in {0, 1} BY DEF One
  <1>8. inflight' = Cardinality(A1) + Cardinality(B1) + Cardinality(C1) /\ inflight' \in Int
    BY <1>4, <1>5, <1>6, <1>7 DEF Weighs
  <1>9. ASSUME MaxInFlight > 0 PROVE Cardinality(D1) <= MaxInFlight
    <2>1. Cardinality(D) <= MaxInFlight /\ MaxInFlight \in Nat
      BY <1>2, <1>9, CallsAssumption DEF IInv, GaugeInv
    <2>2. CASE c \notin D1 \/ c \in D BY <1>4, <2>1, <2>2 DEF One
    <2>3. CASE c \in D1 /\ c \notin D
      <3>1. inflight < MaxInFlight BY <1>4, <1>5, <1>6, <1>9, <2>1, <2>3 DEF Weighs, AtCap
      <3>2. Cardinality(D) <= Cardinality(A) + Cardinality(C)
        <4>1. D \subseteq A \union C BY <1>2 DEF Admitted
        <4>2. IsFiniteSet(A) /\ IsFiniteSet(C) /\ IsFiniteSet(A \union C)
          BY <1>3, CountBound, FS_Union
        <4>3. Cardinality(D) <= Cardinality(A \union C) BY <4>1, <4>2, FS_Subset
        <4>4. Cardinality(A \union C) = Cardinality(A) + Cardinality(C) - Cardinality(A \cap C)
          BY <4>2, FS_Union
        <4>5. Cardinality(A \cap C) \in Nat /\ Cardinality(A \union C) \in Nat
          BY <4>2, FS_Intersection, FS_CardinalityType
        <4> QED BY <1>4, <4>3, <4>4, <4>5
      <3> QED BY <1>4, <1>6, <2>1, <2>3, <3>1, <3>2 DEF One
    <2> QED BY <2>2, <2>3
  <1> QED BY <1>2, <1>8, <1>9 DEF GaugeInv

\* The slots stay as they are.
LEMMA SlotsKept ==
    ASSUME IInv, UNCHANGED <<errId, queryCtr, errs>>
    PROVE  SlotInv'
  <1>1. Drawn' = Drawn BY DEF Drawn
  <1> QED BY <1>1 DEF IInv, SlotInv

\* No handle is given out or taken back.
LEMMA HandlesKept ==
    ASSUME IInv, NEW c \in Calls, Alone(c), dbCtr' = dbCtr,
           ret[c].kind # "handle", ret'[c].kind # "handle"
    PROVE  HandleInv'
  <1>1. \A d \in Calls : (ret[d].kind = "handle" \/ ret'[d].kind = "handle") => ret'[d] = ret[d]
    BY DEF Alone
  <1>2. Opens' = Opens BY <1>1 DEF Opens
  <1> QED BY <1>1, <1>2 DEF IInv, HandleInv, HandlesAreNotReused

\* The engines and the references to them stay as they are.
LEMMA EnginesKept ==
    ASSUME IInv, UNCHANGED <<engineVars, pin>>
    PROVE  EngineInv'
  BY DEF IInv, EngineInv, EngineTypes, Handles

\* A step that does all this keeps the invariant.
LEMMA Assemble ==
    ASSUME IInv, NEW c \in Calls, Alone(c), CallInv(c)', CallTypes', SlotInv', HandleInv',
           EngineInv', Weighs(c)
    PROVE  IInv'
  <1>1. \A d \in Calls : CallInv(d)' BY OthersKeep
  <1>2. GaugeInv' /\ inflight' \in Int BY GaugeKept
  <1>3. TypeOK' BY <1>2 DEF CallTypes, EngineInv, EngineTypes, TypeOK
  <1> QED BY <1>1, <1>2, <1>3 DEF IInv

\* A step that touches neither slots, handles nor engines: the call goes on to
\* place g with request q, answer r and task state t.
Quiet(c, g, q, r, t) ==
    /\ go' = [go EXCEPT ![c] = g] /\ req' = [req EXCEPT ![c] = q]
    /\ ret' = [ret EXCEPT ![c] = r] /\ task' = [task EXCEPT ![c] = t]
    /\ UNCHANGED <<errId, engineVars, pin, queryCtr, causeVars>>

\* It keeps the invariant if it keeps what holds of the call.
LEMMA QuietKeeps ==
    ASSUME IInv, NEW c \in Calls, NEW g \in Places, NEW q \in Requests, NEW r \in Answers,
           NEW t \in TaskStates, Quiet(c, g, q, r, t), r.kind # "handle", ret[c].kind # "handle",
           CallInv(c)', Weighs(c)
    PROVE  IInv'
  <1>1. CallTypes' BY DEF IInv, TypeOK, CallTypes, Quiet
  <1>2. Alone(c) BY DEF IInv, TypeOK, Quiet, Alone
  <1>3. SlotInv' BY SlotsKept DEF Quiet
  <1>4. ret'[c].kind # "handle" BY DEF IInv, TypeOK, Quiet
  <1>5. HandleInv' BY <1>2, <1>4, HandlesKept DEF Quiet
  <1>6. EngineInv' BY EnginesKept DEF Quiet
  <1> QED BY <1>1, <1>2, <1>3, <1>5, <1>6, Assemble

-----------------------------------------------------------------------------
(* The invariant is inductive: one lemma per kind of step *)

\* Before the first call there is at most one database, and every slot is empty.
LEMMA InitInv == Init => IInv
  <1> SUFFICES ASSUME Init PROVE IInv OBVIOUS
  <1>0. /\ queryCtr \in {0, 1} /\ dbCtr = queryCtr + 1 /\ dbs = Handles /\ live = Handles
        /\ Handles = 1..queryCtr /\ Bound \in Nat /\ Bound >= 1
    BY CallsAssumption, FS_CardinalityType DEF Init, Handles, Bound
  <1>1. Drawn = {} /\ Opens = {} /\ Cursors = {} /\ Claims = {} /\ InCall = {} /\ Admitted = {}
    BY OpNames DEF Init, Drawn, Opens, Cursors, Claims, InCall, Admitted, HasCursor, Claiming,
       Calling, NoReq
  <1>2. Cardinality({}) = 0 BY FS_EmptySet
  <1>3. CallTypes
    BY <1>0, CallsAssumption DEF Init, CallTypes, Requests, Answers, Places, TaskStates
  <1>4. \A c \in Calls : CallInv(c)
    BY OpNames DEF Init, CallInv, PlaceInv, TaskInv, AnswerInv, NoReq, Calling, Querying, HasCursor,
       WillClaim
  <1>5. SlotInv BY <1>0, <1>1, <1>2, CallsAssumption DEF Init, SlotInv
  <1>6. HandleInv BY <1>0, <1>1, <1>2 DEF Init, HandleInv, HandlesAreNotReused
  <1>7. EngineInv
    <2>1. PICK m \in Modes :
            /\ queryCtr = 0 \/ m.path = InMemory => m = [path |-> InMemory, writer |-> TRUE]
            /\ mode = [h \in 1..Bound |-> m]
            /\ lock = [p \in Paths |-> IF queryCtr = 1 /\ m.writer /\ m.path = p THEN 1 ELSE 0]
      BY DEF Init
    <2>2. EngineTypes BY <1>0, <2>1 DEF Init, EngineTypes, Handles
    <2>3. {pin[c] : c \in Calls} \ {0} = {} BY DEF Init
    <2>4. \A h \in live : mode[h].writer /\ mode[h].path \in Paths => lock[mode[h].path] = h
      BY <1>0, <2>1
    <2> QED BY <1>0, <2>2, <2>3, <2>4 DEF EngineInv
  <1>8. GaugeInv BY <1>1, <1>2, CallsAssumption DEF Init, GaugeInv
  <1>9. TypeOK BY <1>3, <1>7 DEF TypeOK, CallTypes, EngineInv, EngineTypes, Init
  <1> QED BY <1>4, <1>5, <1>6, <1>7, <1>8, <1>9 DEF IInv

\* What the places of a call tell of it, for the steps below.
LEMMA CallFacts ==
    ASSUME IInv, NEW c \in Calls
    PROVE  /\ PlaceInv(c) /\ TaskInv(c) /\ AnswerInv(c)
           /\ go[c] \in Places /\ req[c] \in Requests /\ ret[c] \in Answers
           /\ task[c] \in TaskStates /\ errId[c] \in 0..queryCtr /\ 0..queryCtr \subseteq Nat
           /\ errId[c] # 0 => errId[c] \in 1..Bound
           /\ inflight \in Int
  BY BoundType DEF IInv, TypeOK, CallInv

\* The Call that takes a cause begins: after a failed open, at the end of a
\* query or before it, after an early Close.
LEMMA ClaimKeeps ==
    ASSUME IInv, NEW c \in Calls,
           OpenClaims(c) \/ QueryEnds(c) \/ QueryGivesUp(c) \/ AbandonClaims(c)
    PROVE  IInv'
  <1> USE CallFacts, OpNames
  <1> DEFINE left == [kind |-> "left"]
  <1>0. left \in Answers BY DEF Answers
  <1>1. ret[c].kind # "handle" /\ ret[c] \in Answers /\ req[c] \in Requests /\ task[c] \in TaskStates
    BY DEF OpenClaims, QueryEnds, QueryGivesUp, AbandonClaims, Claim, PlaceInv
  <1>2. CASE OpenClaims(c)
    <2>1. Quiet(c, "openClaims", req[c], ret[c], task[c]) /\ go[c] = "openFailed"
          /\ inflight' = inflight + 1
      BY <1>2 DEF OpenClaims, Claim, Quiet, IInv, TypeOK
    <2>2. CallInv(c)'
      BY <2>1 DEF CallInv, PlaceInv, TaskInv, AnswerInv, WillClaim, Quiet, IInv, TypeOK, Calling,
         Querying, HasCursor
    <2>3. Weighs(c)
      BY <2>1 DEF Weighs, Weight, Counted, One, Quiet, PlaceInv, Calling, HasCursor, Claiming, IInv,
         TypeOK
    <2> QED BY <1>1, <2>1, <2>2, <2>3, QuietKeeps DEF Places, Claiming
  <1>3. CASE QueryEnds(c)
    <2>1. Quiet(c, "finishClaims", req[c], ret[c], task[c]) /\ go[c] = "rows" /\ task[c] = "ended"
          /\ inflight' = inflight + 1
      BY <1>3 DEF QueryEnds, Claim, Quiet, IInv, TypeOK
    <2>2. CallInv(c)'
      BY <2>1 DEF CallInv, PlaceInv, TaskInv, AnswerInv, WillClaim, Quiet, IInv, TypeOK, Calling,
         Querying, HasCursor
    <2>3. Weighs(c)
      BY <2>1 DEF Weighs, Weight, Counted, One, Quiet, PlaceInv, Calling, HasCursor, Claiming, IInv,
         TypeOK
    <2> QED BY <1>1, <2>1, <2>2, <2>3, QuietKeeps DEF Places, Claiming
  <1>4. CASE QueryGivesUp(c)
    <2>1. Quiet(c, "finishClaims", req[c], left, task[c]) /\ go[c] = "rows"
          /\ inflight' = inflight + 1
      BY <1>4 DEF QueryGivesUp, Claim, Quiet, IInv, TypeOK
    <2>2. CallInv(c)'
      BY <2>1 DEF CallInv, PlaceInv, TaskInv, AnswerInv, WillClaim, Quiet, IInv, TypeOK, Calling,
         Querying, HasCursor
    <2>3. Weighs(c)
      BY <2>1 DEF Weighs, Weight, Counted, One, Quiet, PlaceInv, Calling, HasCursor, Claiming, IInv,
         TypeOK
    <2> QED BY <1>0, <1>1, <2>1, <2>2, <2>3, QuietKeeps DEF Places, Claiming
  <1>5. CASE AbandonClaims(c)
    <2>1. Quiet(c, "abandonClaims", req[c], ret[c], task[c]) /\ go[c] = "abandoning"
          /\ inflight' = inflight + 1
      BY <1>5 DEF AbandonClaims, Claim, Quiet, IInv, TypeOK
    <2>2. CallInv(c)'
      BY <2>1 DEF CallInv, PlaceInv, TaskInv, AnswerInv, WillClaim, Quiet, IInv, TypeOK, Calling,
         Querying, HasCursor
    <2>3. Weighs(c)
      BY <2>1 DEF Weighs, Weight, Counted, One, Quiet, PlaceInv, Calling, HasCursor, Claiming, IInv,
         TypeOK
    <2> QED BY <1>1, <2>1, <2>2, <2>3, QuietKeeps DEF Places, Claiming
  <1> QED BY <1>2, <1>3, <1>4, <1>5

\* A cursor is closed, after the end or before.
LEMMA CloseCursorKeeps ==
    ASSUME IInv, NEW c \in Calls, FinishClose(c) \/ AbandonQuery(c)
    PROVE  IInv'
  <1> USE CallFacts, OpNames
  <1> DEFINE left == [kind |-> "left"]
  <1>0. left \in Answers /\ ret[c].kind # "handle" /\ ret[c] \in Answers /\ req[c] \in Requests
        /\ task[c] \in TaskStates
    BY DEF Answers, FinishClose, AbandonQuery, CloseCursor, PlaceInv
  <1>1. CASE FinishClose(c)
    <2>1. Quiet(c, "done", req[c], ret[c], task[c]) /\ go[c] = "closing" /\ inflight' = inflight - 1
      BY <1>1 DEF FinishClose, CloseCursor, Quiet, IInv, TypeOK
    <2>2. CallInv(c)'
      BY <2>1 DEF CallInv, PlaceInv, TaskInv, AnswerInv, WillClaim, Quiet, IInv, TypeOK, Calling,
         Querying, HasCursor
    <2>3. Weighs(c)
      BY <2>1 DEF Weighs, Weight, Counted, One, Quiet, PlaceInv, Calling, HasCursor, Claiming, IInv,
         TypeOK
    <2> QED BY <1>0, <2>1, <2>2, <2>3, QuietKeeps DEF Places
  <1>2. CASE AbandonQuery(c)
    <2>1. Quiet(c, "abandoning", req[c], left, task[c]) /\ go[c] = "rows" /\ inflight' = inflight - 1
      BY <1>2 DEF AbandonQuery, CloseCursor, Quiet, IInv, TypeOK
    <2>2. CallInv(c)'
      BY <2>1 DEF CallInv, PlaceInv, TaskInv, AnswerInv, WillClaim, Quiet, IInv, TypeOK, Calling,
         Querying, HasCursor
    <2>3. Weighs(c)
      BY <2>1 DEF Weighs, Weight, Counted, One, Quiet, PlaceInv, Calling, HasCursor, Claiming, IInv,
         TypeOK
    <2> QED BY <1>0, <2>1, <2>2, <2>3, QuietKeeps DEF Places
  <1> QED BY <1>1, <1>2

\* A stream handler is through with its result.
LEMMA QueryRunsKeeps == ASSUME IInv, NEW c \in Calls, QueryRuns(c) PROVE IInv'
  <1> USE CallFacts, OpNames
  <1>1. /\ Quiet(c, go[c], req[c], ret[c], "returning") /\ inflight' = inflight
        /\ req[c].op = "query" /\ task[c] = "running"
    BY DEF QueryRuns, HandlerBodyEnds, Quiet, Querying, IInv, TypeOK
  <1>2. go[c] = "rows" \/ ret[c].kind = "left" BY <1>1 DEF TaskInv, Querying
  <1>3. CallInv(c)'
    BY <1>1, <1>2 DEF CallInv, PlaceInv, TaskInv, AnswerInv, WillClaim, Quiet, IInv, TypeOK, Calling,
       Querying, HasCursor
  <1>4. Weighs(c)
    BY <1>1 DEF Weighs, Weight, Counted, One, Quiet, Calling, HasCursor, Claiming, IInv, TypeOK
  <1>5. ret[c].kind # "handle" BY <1>2 DEF PlaceInv
  <1> QED BY <1>1, <1>3, <1>4, <1>5, QuietKeeps DEF TaskStates

\* A caller stops waiting; its call runs on.
LEMMA CtxDoneKeeps == ASSUME IInv, NEW c \in Calls, CtxDone(c) PROVE IInv'
  <1> USE CallFacts, OpNames
  <1> DEFINE left == [kind |-> "left"]
  <1>1. /\ Quiet(c, "done", req[c], left, task[c]) /\ inflight' = inflight
        /\ req[c].op = "countLogs" /\ go[c] = "waiting"
    BY DEF CtxDone, Return, Quiet, IInv, TypeOK
  <1>2. CallInv(c)'
    BY <1>1 DEF CallInv, PlaceInv, TaskInv, AnswerInv, WillClaim, Quiet, IInv, TypeOK, Calling,
       Querying, HasCursor
  <1>3. Weighs(c)
    BY <1>1 DEF Weighs, Weight, Counted, One, Quiet, PlaceInv, Calling, HasCursor, Claiming, IInv,
       TypeOK
  <1>4. left \in Answers /\ ret[c].kind # "handle" BY <1>1 DEF Answers, PlaceInv
  <1> QED BY <1>1, <1>2, <1>3, <1>4, QuietKeeps DEF Places

\* A byte-Call is admitted, at the cap only one that is exempt from it.
LEMMA AdmitKeeps ==
    ASSUME IInv, NEW c \in Calls, NEW op \in ByteOps, NEW h \in Handles, go[c] = "new",
           Admit(c, op, h), op = "tryIngest" => ~AtCap
    PROVE  IInv'
  <1> USE CallFacts, OpNames
  <1> DEFINE q == [op |-> op, handle |-> h]
  <1>0. q \in Requests BY BoundType DEF Requests, Handles, IInv, TypeOK
  <1>1. Quiet(c, "waiting", q, ret[c], "sent") /\ inflight' = inflight + 1
    BY DEF Admit, Quiet, IInv, TypeOK
  <1>2. ret[c].kind = "none" /\ errId[c] = 0 /\ task[c] = "none" /\ pin[c] = 0
    BY DEF PlaceInv, TaskInv
  <1>3. CallInv(c)'
    BY <1>1, <1>2 DEF CallInv, PlaceInv, TaskInv, AnswerInv, WillClaim, Quiet, IInv, TypeOK, Calling,
       Querying, HasCursor
  <1>4. Weighs(c)
    BY <1>1, <1>2 DEF Weighs, Weight, Counted, One, Quiet, Calling, HasCursor, Claiming, IInv, TypeOK
  <1> QED BY <1>0, <1>1, <1>2, <1>3, <1>4, QuietKeeps DEF Places, TaskStates

\* A TryIngest is refused.
LEMMA RefusedKeeps ==
    ASSUME IInv, NEW c \in Calls, NEW h \in Handles, go[c] = "new",
           req' = [req EXCEPT ![c] = [op |-> "tryIngest", handle |-> h]],
           Return(c, [kind |-> "refused"]),
           UNCHANGED <<errId, engineVars, taskVars, queryCtr, causeVars>>
    PROVE  IInv'
  <1> USE CallFacts, OpNames
  <1> DEFINE q == [op |-> "tryIngest", handle |-> h]
             r == [kind |-> "refused"]
  <1>0. q \in Requests /\ r \in Answers BY BoundType DEF Requests, Answers, Handles, IInv, TypeOK
  <1>1. Quiet(c, "done", q, r, task[c]) /\ inflight' = inflight
    BY DEF Return, Quiet, IInv, TypeOK
  <1>2. ret[c].kind = "none" /\ errId[c] = 0 /\ task[c] = "none" /\ pin[c] = 0
    BY DEF PlaceInv, TaskInv
  <1>3. CallInv(c)'
    BY <1>1, <1>2 DEF CallInv, PlaceInv, TaskInv, AnswerInv, WillClaim, Quiet, IInv, TypeOK, Calling,
       Querying, HasCursor
  <1>4. Weighs(c)
    BY <1>1, <1>2 DEF Weighs, Weight, Counted, One, Quiet, Calling, HasCursor, Claiming, IInv, TypeOK
  <1> QED BY <1>0, <1>1, <1>2, <1>3, <1>4, QuietKeeps DEF Places

\* A byte-Call is issued on a handle.
LEMMA ByteCallKeeps ==
    ASSUME IInv, NEW c \in Calls,
           Ingest(c) \/ Flush(c) \/ Admin(c) \/ CountLogs(c) \/ TryIngest(c)
    PROVE  IInv'
  <1>1. CASE TryIngest(c)
    <2>1. go[c] = "new" BY <1>1 DEF TryIngest
    <2>2. PICK h \in Handles :
            IF AtCap
            THEN /\ req' = [req EXCEPT ![c] = [op |-> "tryIngest", handle |-> h]]
                 /\ Return(c, [kind |-> "refused"])
                 /\ UNCHANGED <<errId, engineVars, taskVars, queryCtr, causeVars>>
            ELSE Admit(c, "tryIngest", h)
      BY <1>1 DEF TryIngest
    <2>3. CASE AtCap BY <2>1, <2>2, <2>3, RefusedKeeps
    <2>4. CASE ~AtCap BY <2>1, <2>2, <2>4, AdmitKeeps, OpNames
    <2> QED BY <2>3, <2>4
  <1>2. CASE ~TryIngest(c)
    <2>1. PICK op \in {"ingest", "flush", "countLogs"} \union AdminOps : CallOp(c, op)
      BY <1>2 DEF Ingest, Flush, Admin, CountLogs
    <2>2. op \in ByteOps /\ op # "tryIngest" BY <2>1 DEF AdminOps, ByteOps, WriterOps, ArgOps
    <2>3. PICK h \in Handles : Admit(c, op, h) /\ go[c] = "new" BY <2>1 DEF CallOp
    <2> QED BY <2>2, <2>3, AdmitKeeps
  <1> QED BY <1>1, <1>2

-----------------------------------------------------------------------------
(* Ids and slots *)

\* A goroutine draws the next id, for an open or for a query.
Draws(c, g, q, r, t) ==
    /\ queryCtr' = queryCtr + 1
    /\ errId' = [errId EXCEPT ![c] = queryCtr + 1]
    /\ go' = [go EXCEPT ![c] = g] /\ req' = [req EXCEPT ![c] = q]
    /\ ret' = [ret EXCEPT ![c] = r] /\ task' = [task EXCEPT ![c] = t]
    /\ UNCHANGED <<engineVars, pin, causeVars>>

\* The id is new, so its slot is empty.
LEMMA DrawsKeeps ==
    ASSUME IInv, NEW c \in Calls, NEW g \in Places, NEW q \in Requests, NEW r \in Answers,
           NEW t \in TaskStates, go[c] = "new", Draws(c, g, q, r, t), r.kind # "handle",
           errs[queryCtr + 1] = NoCall => CallInv(c)', Weighs(c)
    PROVE  IInv'
  <1> USE CallFacts
  <1>0. errId[c] = 0 /\ ret[c].kind = "none" /\ queryCtr \in Nat BY DEF IInv, TypeOK, PlaceInv
  <1>1. Drawn \in SUBSET Calls /\ Drawn' = Drawn \union {c} /\ c \notin Drawn
    BY <1>0 DEF IInv, TypeOK, Draws, Drawn
  <1>2. PICK S, T : S = Drawn /\ T = Drawn' OBVIOUS
  <1>3. Cardinality(T) = Cardinality(S) + 1 /\ Cardinality(S) \in Nat /\ Cardinality(T) + 1 <= Bound
        /\ Bound \in Nat
    <2>1. S \in SUBSET Calls /\ T \in SUBSET Calls /\ S \ {c} = T \ {c} /\ c \in T /\ c \notin S
      BY <1>1, <1>2
    <2> QED BY <2>1, CountOther, CountBound DEF One
  <1>4. queryCtr' <= Cardinality(Drawn') + 1 /\ queryCtr' \in 0..Bound
    BY <1>0, <1>2, <1>3 DEF IInv, SlotInv, Draws
  <1>5. errs[queryCtr + 1] = NoCall
    <2>1. queryCtr + 1 \in 1..Bound BY <1>0, <1>4 DEF Draws
    <2>2. errs[queryCtr + 1] \in Calls \union {NoCall} BY <2>1 DEF IInv, TypeOK
    <2>3. \A d \in Calls : errId[d] # queryCtr + 1 BY <1>0 DEF IInv, TypeOK
    <2> QED BY <2>1, <2>2, <2>3 DEF IInv, SlotInv
  <1>6. CallTypes' BY <1>0, <1>4 DEF IInv, TypeOK, CallTypes, Draws
  <1>7. Alone(c) BY DEF IInv, TypeOK, Draws, Alone
  <1>8. SlotInv'
    <2>1. \A d \in Calls \ {c} : errId'[d] = errId[d] /\ errId[d] # queryCtr + 1
      BY <1>0 DEF IInv, TypeOK, Draws
    <2>2. errId'[c] = queryCtr + 1 BY DEF IInv, TypeOK, Draws
    <2>3. \A d, e \in Calls : errId'[d] # 0 /\ errId'[d] = errId'[e] => d = e
      BY <2>1, <2>2 DEF IInv, SlotInv
    <2>4. \A i \in 1..Bound : errs'[i] # NoCall => errId'[errs'[i]] = i
      <3> SUFFICES ASSUME NEW i \in 1..Bound, errs[i] # NoCall PROVE errId'[errs[i]] = i
        BY DEF Draws
      <3>1. errs[i] \in Calls /\ errId[errs[i]] = i BY DEF IInv, TypeOK, SlotInv
      <3> QED BY <1>0, <2>1, <3>1
    <2> QED BY <1>4, <2>3, <2>4 DEF SlotInv
  <1>9. ret'[c].kind # "handle" BY DEF IInv, TypeOK, Draws
  <1>10. HandleInv' BY <1>0, <1>7, <1>9, HandlesKept DEF Draws
  <1>11. EngineInv' BY EnginesKept DEF Draws
  <1> QED BY <1>5, <1>6, <1>7, <1>8, <1>10, <1>11, Assemble

\* A call of Open begins.
LEMMA OpenKeeps ==
    ASSUME IInv, NEW c \in Calls,
           OpenInMemory(c) \/ Open(c) \/ OpenReadOnly(c) \/ OpenWith(c)
    PROVE  IInv'
  <1> USE CallFacts, OpNames
  <1>1. PICK p \in Paths \union {InMemory}, w \in BOOLEAN : BeginOpen(c, OpenReq(p, w))
    BY DEF OpenInMemory, Open, OpenReadOnly, OpenWith
  <1>2. PICK q : q = OpenReq(p, w) OBVIOUS
  <1>3. q \in Requests /\ q.op = "open" BY <1>2 DEF OpenReq, Requests
  <1>4. /\ Draws(c, "opening", q, ret[c], task[c]) /\ inflight' = inflight /\ go[c] = "new"
    BY <1>1, <1>2 DEF BeginOpen, Draws, IInv, TypeOK
  <1>5. ret[c].kind = "none" /\ errId[c] = 0 /\ task[c] = "none" /\ pin[c] = 0 /\ queryCtr \in Nat
    BY <1>4 DEF PlaceInv, TaskInv, IInv, TypeOK
  <1>6. ASSUME errs[queryCtr + 1] = NoCall PROVE CallInv(c)'
    BY <1>3, <1>4, <1>5, <1>6, CallsAssumption DEF CallInv, PlaceInv, TaskInv, AnswerInv, WillClaim,
       Draws, IInv, TypeOK, Calling, Querying, HasCursor
  <1>7. Weighs(c)
    BY <1>3, <1>4, <1>5 DEF Weighs, Weight, Counted, One, Draws, Calling, HasCursor, Claiming, IInv,
       TypeOK
  <1> QED BY <1>3, <1>4, <1>5, <1>6, <1>7, DrawsKeeps DEF Places

\* A query begins, or its cursor is refused.
LEMMA BeginQueryKeeps == ASSUME IInv, NEW c \in Calls, BeginQuery(c) PROVE IInv'
  <1> USE CallFacts, OpNames
  <1>1. PICK h \in Handles : req' = [req EXCEPT ![c] = [op |-> "query", handle |-> h]]
    BY DEF BeginQuery
  <1>2. PICK q : q = [op |-> "query", handle |-> h] OBVIOUS
  <1>3. q \in Requests /\ q.op = "query"
    BY <1>2, BoundType DEF Requests, Handles, IInv, TypeOK
  <1>4. /\ go[c] = "new" /\ ret[c].kind = "none" /\ errId[c] = 0 /\ task[c] = "none" /\ pin[c] = 0
        /\ queryCtr \in Nat /\ c \notin failed
    BY DEF BeginQuery, PlaceInv, TaskInv, AnswerInv, IInv, TypeOK
  <1>5. CASE AtCap
    <2> DEFINE r == [kind |-> "refused"]
    <2>1. Draws(c, "done", q, r, task[c]) /\ inflight' = inflight
      BY <1>1, <1>2, <1>5 DEF BeginQuery, QueryId, Return, Draws, IInv, TypeOK
    <2>2. ASSUME errs[queryCtr + 1] = NoCall PROVE CallInv(c)'
      BY <1>3, <1>4, <2>1, <2>2, CallsAssumption DEF CallInv, PlaceInv, TaskInv, AnswerInv,
         WillClaim, Draws, IInv, TypeOK, Calling, Querying, HasCursor
    <2>3. Weighs(c)
      BY <1>3, <1>4, <2>1 DEF Weighs, Weight, Counted, One, Draws, Calling, HasCursor, Claiming, IInv,
         TypeOK
    <2>4. r \in Answers BY DEF Answers
    <2> QED BY <1>3, <1>4, <2>1, <2>2, <2>3, <2>4, DrawsKeeps DEF Places
  <1>6. CASE ~AtCap
    <2>1. Draws(c, "rows", q, ret[c], "sent") /\ inflight' = inflight + 1
      BY <1>1, <1>2, <1>6 DEF BeginQuery, QueryId, Draws, IInv, TypeOK
    <2>2. ASSUME errs[queryCtr + 1] = NoCall PROVE CallInv(c)'
      BY <1>3, <1>4, <2>1, <2>2, CallsAssumption DEF CallInv, PlaceInv, TaskInv, AnswerInv,
         WillClaim, Draws, IInv, TypeOK, Calling, Querying, HasCursor
    <2>3. Weighs(c)
      BY <1>3, <1>4, <1>6, <2>1 DEF Weighs, Weight, Counted, One, Draws, Calling, HasCursor, Claiming,
         IInv, TypeOK
    <2> QED BY <1>3, <1>4, <2>1, <2>2, <2>3, DrawsKeeps DEF Places, TaskStates, HasCursor
  <1> QED BY <1>5, <1>6

\* A call whose task is at t and whose place is g has stored its cause.
Stores(c, g, t) ==
    /\ errs' = [errs EXCEPT ![errId[c]] = c]
    /\ failed' = failed \union {c}
    /\ go' = [go EXCEPT ![c] = g] /\ task' = [task EXCEPT ![c] = t]
    /\ UNCHANGED <<req, errId, ret, engineVars, pin, queryCtr>>

\* A cause is stored under its call's own id.
LEMMA StoresKeeps ==
    ASSUME IInv, NEW c \in Calls, NEW g \in Places, NEW t \in TaskStates, Stores(c, g, t),
           errId[c] # 0, ret[c].kind # "handle", CallInv(c)', Weighs(c)
    PROVE  IInv'
  <1> USE CallFacts
  <1>1. errId[c] \in 1..Bound OBVIOUS
  <1>2. \A d \in Calls \ {c} : errId[d] # errId[c] BY DEF IInv, SlotInv
  <1>3. CallTypes' BY <1>1 DEF IInv, TypeOK, CallTypes, Stores
  <1>4. Alone(c) BY <1>2 DEF IInv, TypeOK, Stores, Alone
  <1>5. SlotInv'
    <2>1. Drawn' = Drawn BY DEF Drawn, Stores
    <2>2. ASSUME NEW i \in 1..Bound, errs'[i] # NoCall PROVE errId'[errs'[i]] = i
      <3>1. CASE i = errId[c] BY <1>1, <3>1 DEF IInv, TypeOK, Stores
      <3>2. CASE i # errId[c] BY <1>1, <2>2, <3>2 DEF IInv, TypeOK, SlotInv, Stores
      <3> QED BY <3>1, <3>2
    <2> QED BY <2>1, <2>2 DEF IInv, SlotInv, Stores
  <1>6. HandleInv' BY <1>4, HandlesKept DEF Stores
  <1>7. EngineInv' BY EnginesKept DEF Stores
  <1> QED BY <1>3, <1>4, <1>5, <1>6, <1>7, Assemble

\* An open or the handler of a query fails.
LEMMA FailsKeeps ==
    ASSUME IInv, NEW c \in Calls, StoreOpenError(c) \/ QueryFails(c)
    PROVE  IInv'
  <1> USE CallFacts, OpNames
  <1>1. CASE StoreOpenError(c)
    <2>1. Stores(c, "openFailed", task[c]) /\ go[c] = "opening" /\ inflight' = inflight
      BY <1>1 DEF StoreOpenError, StoreError, Stores, IInv, TypeOK
    <2>2. errId[c] # 0 /\ ret[c].kind = "none" /\ errId[c] \in 1..Bound BY <2>1 DEF PlaceInv
    <2>3. CallInv(c)'
      BY <2>1, <2>2 DEF CallInv, PlaceInv, TaskInv, AnswerInv, WillClaim, Stores, IInv, TypeOK,
         Calling, Querying, HasCursor
    <2>4. Weighs(c)
      BY <2>1 DEF Weighs, Weight, Counted, One, Stores, PlaceInv, Calling, HasCursor, Claiming, IInv,
         TypeOK
    <2> QED BY <2>1, <2>2, <2>3, <2>4, StoresKeeps DEF Places
  <1>2. CASE QueryFails(c)
    <2>1. /\ Stores(c, go[c], "returning") /\ req[c].op = "query" /\ task[c] \in {"sent", "running"}
          /\ inflight' = inflight
      BY <1>2 DEF QueryFails, Querying, HandlerBodyEnds, StoreError, Stores, IInv, TypeOK
    <2>2. /\ errId[c] # 0 /\ errId[c] \in 1..Bound
          /\ go[c] = "rows" \/ ret[c].kind = "left"
          /\ ret[c].kind # "handle"
      BY <2>1 DEF TaskInv, PlaceInv, Querying
    <2>3. CallInv(c)'
      BY <2>1, <2>2 DEF CallInv, PlaceInv, TaskInv, AnswerInv, WillClaim, Stores, IInv, TypeOK,
         Calling, Querying, HasCursor
    <2>4. Weighs(c)
      BY <2>1 DEF Weighs, Weight, Counted, One, Stores, Calling, HasCursor, Claiming, IInv, TypeOK
    <2> QED BY <2>1, <2>2, <2>3, <2>4, StoresKeeps DEF TaskStates
  <1> QED BY <1>1, <1>2

\* takeStoredError: the call goes on to place g with answer r, its slot empty.
Takes(c, g, r) ==
    /\ errs' = [errs EXCEPT ![errId[c]] = NoCall]
    /\ go' = [go EXCEPT ![c] = g] /\ ret' = [ret EXCEPT ![c] = r]
    /\ inflight' = inflight - 1
    /\ UNCHANGED <<req, errId, task, engineVars, pin, queryCtr, failed>>

\* The slot that is emptied is the caller's own.
LEMMA TakesKeeps ==
    ASSUME IInv, NEW c \in Calls, NEW g \in Places, NEW r \in Answers, Takes(c, g, r),
           errId[c] # 0, ret[c].kind # "handle", r.kind # "handle", CallInv(c)', Weighs(c)
    PROVE  IInv'
  <1> USE CallFacts
  <1>1. errId[c] \in 1..Bound OBVIOUS
  <1>2. \A d \in Calls \ {c} : errId[d] # errId[c] BY DEF IInv, SlotInv
  <1>3. CallTypes' BY <1>1 DEF IInv, TypeOK, CallTypes, Takes
  <1>4. Alone(c) BY <1>2 DEF IInv, TypeOK, Takes, Alone
  <1>5. SlotInv'
    <2>1. Drawn' = Drawn BY DEF Drawn, Takes
    <2>2. ASSUME NEW i \in 1..Bound, errs'[i] # NoCall PROVE errId'[errs'[i]] = i
      BY <1>1, <2>2 DEF IInv, TypeOK, SlotInv, Takes
    <2> QED BY <2>1, <2>2 DEF IInv, SlotInv, Takes
  <1>6. ret'[c].kind # "handle" BY DEF IInv, TypeOK, Takes
  <1>7. HandleInv' BY <1>4, <1>6, HandlesKept DEF Takes
  <1>8. EngineInv' BY EnginesKept DEF Takes
  <1> QED BY <1>3, <1>4, <1>5, <1>7, <1>8, Assemble

\* What a slot says of its owner.
LEMMA StoredIs ==
    ASSUME IInv, NEW c \in Calls, errId[c] # 0, NEW none
    PROVE  /\ errs[errId[c]] \in {c, NoCall} /\ c # NoCall
           /\ errs[errId[c]] = c => Stored(c, none) = [kind |-> "cause", of |-> c]
           /\ errs[errId[c]] # c => Stored(c, none) = [kind |-> none]
  <1>1. errId[c] \in 1..Bound BY CallFacts
  <1>2. errs[errId[c]] \in Calls \union {NoCall} BY <1>1 DEF IInv, TypeOK
  <1>3. errs[errId[c]] \in {c, NoCall} BY <1>1, <1>2 DEF IInv, SlotInv
  <1> QED BY <1>3, CallsAssumption DEF Stored

\* A cause is taken: after a failed open, at the end of a query, after an early
\* Close.
LEMMA TakeKeeps ==
    ASSUME IInv, NEW c \in Calls, OpenFailure(c) \/ QueryFinish(c) \/ QueryAbandoned(c)
    PROVE  IInv'
  <1> USE CallFacts, OpNames
  <1>0. go[c] \in {"openClaims", "finishClaims", "abandonClaims"}
    BY DEF OpenFailure, QueryFinish, QueryAbandoned
  <1>1. errId[c] # 0 /\ errId[c] \in 1..Bound /\ ret[c].kind \in {"none", "left"} /\ c # NoCall
    BY <1>0, CallsAssumption DEF PlaceInv, HasCursor
  <1>2. errs[errId[c]] \in {c, NoCall} BY <1>1, StoredIs
  <1>3. CASE OpenFailure(c)
    <2>1. go[c] = "openClaims" BY <1>3 DEF OpenFailure
    <2>2. Stored(c, "bare") = [kind |-> "cause", of |-> c] BY <1>1, <2>1, StoredIs DEF AnswerInv
    <2>3. PICK r : r = [kind |-> "cause", of |-> c] OBVIOUS
    <2>4. r \in Answers /\ r.kind = "cause" /\ r.of = c BY <2>3 DEF Answers
    <2>5. Takes(c, "done", r)
      BY <1>3, <2>2, <2>3 DEF OpenFailure, Return, TakeStoredError, Takes
    <2>6. CallInv(c)'
      BY <1>1, <2>1, <2>4, <2>5 DEF CallInv, PlaceInv, TaskInv, AnswerInv, WillClaim, Takes, IInv,
         TypeOK, Calling, Querying, HasCursor
    <2>7. Weighs(c)
      BY <2>1, <2>5 DEF Weighs, Weight, Counted, One, Takes, PlaceInv, Calling, HasCursor, Claiming,
         IInv, TypeOK
    <2> QED BY <1>1, <2>4, <2>5, <2>6, <2>7, TakesKeeps DEF Places
  <1>4. CASE QueryFinish(c)
    <2>1. go[c] = "finishClaims" BY <1>4 DEF QueryFinish
    <2>2. PICK r : /\ ret' = [ret EXCEPT ![c] = r]
                   /\ \/ r = [kind |-> "left"]
                      \/ ret[c].kind # "left" /\ r = Stored(c, "clean")
      BY <1>4 DEF QueryFinish
    <2>3. /\ r \in Answers
          /\ \/ r.kind = "left"
             \/ ret[c].kind = "none" /\ r.kind = "cause" /\ r.of = c
             \/ ret[c].kind = "none" /\ r.kind = "clean" /\ errs[errId[c]] # c
      <3>1. CASE r = [kind |-> "left"] BY <3>1 DEF Answers
      <3>2. CASE ret[c].kind # "left" /\ r = Stored(c, "clean")
        <4>1. CASE errs[errId[c]] = c
          <5>1. r = [kind |-> "cause", of |-> c] BY <1>1, <3>2, <4>1, StoredIs
          <5> QED BY <1>1, <3>2, <5>1 DEF Answers
        <4>2. CASE errs[errId[c]] # c
          <5>1. r = [kind |-> "clean"] BY <1>1, <3>2, <4>2, StoredIs
          <5> QED BY <1>1, <3>2, <4>2, <5>1 DEF Answers
        <4> QED BY <4>1, <4>2
      <3> QED BY <2>2, <3>1, <3>2
    <2>4. Takes(c, "closing", r) BY <1>4, <2>2 DEF QueryFinish, TakeStoredError, Takes
    <2>5. ret[c].kind = "none" => task[c] = "ended" /\ (c \in failed => errs[errId[c]] = c)
      BY <2>1 DEF PlaceInv, AnswerInv, WillClaim
    <2>6. CallInv(c)'
      <3>1. PlaceInv(c)'
        BY <1>1, <2>1, <2>3, <2>4 DEF PlaceInv, Takes, IInv, TypeOK, Calling, HasCursor
      <3>2. TaskInv(c)'
        BY <1>1, <2>1, <2>3, <2>4, <2>5 DEF PlaceInv, TaskInv, Takes, IInv, TypeOK, Calling, Querying,
           HasCursor
      <3>3. AnswerInv(c)'
        BY <1>1, <2>1, <2>3, <2>4, <2>5 DEF AnswerInv, WillClaim, Takes, IInv, TypeOK
      <3> QED BY <3>1, <3>2, <3>3 DEF CallInv
    <2>7. Weighs(c)
      BY <2>1, <2>4 DEF Weighs, Weight, Counted, One, Takes, PlaceInv, Calling, HasCursor, Claiming,
         IInv, TypeOK
    <2> QED BY <1>1, <2>3, <2>4, <2>6, <2>7, TakesKeeps DEF Places, HasCursor
  <1>5. CASE QueryAbandoned(c)
    <2>1. Takes(c, "done", ret[c]) /\ go[c] = "abandonClaims"
      BY <1>5 DEF QueryAbandoned, TakeStoredError, Takes, IInv, TypeOK
    <2>2. CallInv(c)'
      BY <1>1, <2>1 DEF CallInv, PlaceInv, TaskInv, AnswerInv, WillClaim, Takes, IInv, TypeOK,
         Calling, Querying, HasCursor
    <2>3. Weighs(c)
      BY <2>1 DEF Weighs, Weight, Counted, One, Takes, PlaceInv, Calling, HasCursor, Claiming, IInv,
         TypeOK
    <2> QED BY <1>1, <2>1, <2>2, <2>3, TakesKeeps DEF Places
  <1> QED BY <1>3, <1>4, <1>5

-----------------------------------------------------------------------------
(* Handles and engines *)

\* The engine has been opened and its handle registered.
LEMMA OpenedKeeps == ASSUME IInv, NEW c \in Calls, Opened(c) PROVE IInv'
  <1> USE CallFacts, OpNames
  <1> DEFINE h == dbCtr
  <1>a. PICK r : r = [kind |-> "handle", handle |-> h] OBVIOUS
  <1>b. /\ go[c] = "opening" /\ ret[c].kind = "none" /\ task[c] = "none" /\ req[c].op = "open"
        /\ errId[c] # 0
    BY DEF Opened, PlaceInv
  <1>c. req[c].path \in Paths \union {InMemory} /\ req[c].writer \in BOOLEAN
    BY <1>b, RequestFields DEF IInv, TypeOK
  <1>d. /\ go' = [go EXCEPT ![c] = "done"] /\ ret' = [ret EXCEPT ![c] = r]
        /\ dbCtr' = dbCtr + 1 /\ dbs' = dbs \union {h} /\ live' = live \union {h}
        /\ mode' = [mode EXCEPT ![h] = [path |-> req[c].path, writer |-> req[c].writer]]
        /\ lock' = [p \in Paths |-> IF p = req[c].path /\ req[c].writer THEN h ELSE lock[p]]
        /\ req[c].writer /\ req[c].path \in Paths => lock[req[c].path] = 0
        /\ UNCHANGED <<req, errId, taskVars, queryCtr, causeVars>>
    BY <1>a DEF Opened, InsertDb, Return
  <1>1. Opens \in SUBSET Calls /\ Opens' = Opens \union {c} /\ c \notin Opens
    BY <1>a, <1>b, <1>d DEF IInv, TypeOK, Opens
  <1>2. dbCtr' <= Cardinality(Opens') + 2 /\ h \in 1..Bound /\ dbCtr' \in 1..(Bound + 1)
    <2>1. PICK S, T : S = Opens /\ T = Opens' OBVIOUS
    <2>2. S \in SUBSET Calls /\ T \in SUBSET Calls /\ S \ {c} = T \ {c} /\ c \in T /\ c \notin S
      BY <1>1, <2>1
    <2>3. Cardinality(T) = Cardinality(S) + 1 /\ Cardinality(S) \in Nat /\ Cardinality(T) + 1 <= Bound
          /\ Bound \in Nat
      BY <2>2, CountOther, CountBound DEF One
    <2>4. dbCtr <= Cardinality(S) + 2 /\ dbCtr \in 1..(Bound + 1)
      BY <2>1 DEF IInv, HandleInv, TypeOK
    <2> QED BY <1>d, <2>1, <2>3, <2>4
  <1>3. h \notin live /\ h \notin dbs /\ h # 0 BY <1>2 DEF IInv, TypeOK, Handles
  <1>4. r \in Answers /\ r.kind = "handle" /\ r.handle = h BY <1>a, <1>2 DEF Answers
  <1>5. CallTypes' BY <1>d, <1>4 DEF IInv, TypeOK, CallTypes, Places
  <1>6. Alone(c) BY <1>d DEF IInv, TypeOK, Alone
  <1>7. CallInv(c)'
    BY <1>b, <1>d, <1>4 DEF CallInv, PlaceInv, TaskInv, AnswerInv, WillClaim, IInv, TypeOK, Calling,
       Querying, HasCursor
  <1>8. SlotInv' BY <1>d, SlotsKept
  <1>9. HandleInv'
    <2>1. \A d \in Calls : ret[d].kind = "handle" => ret[d].handle \in 1..Bound
      BY AnswerFields DEF IInv, TypeOK
    <2>2. ret'[c] = r /\ \A d \in Calls \ {c} : ret'[d] = ret[d] BY <1>d DEF IInv, TypeOK
    <2> QED BY <1>d, <1>2, <1>3, <1>4, <2>1, <2>2 DEF IInv, HandleInv, HandlesAreNotReused
  <1>10. EngineInv'
    <2>1. live' = dbs' \union ({pin'[d] : d \in Calls} \ {0}) BY <1>d, <1>2 DEF IInv, EngineInv
    <2>2. ASSUME NEW g \in live', mode'[g].writer, mode'[g].path \in Paths
          PROVE  lock'[mode'[g].path] = g
      <3>1. CASE g = h BY <1>c, <1>d, <1>2, <1>3, <2>2, <3>1 DEF IInv, TypeOK, EngineInv, Handles
      <3>2. CASE g # h BY <1>c, <1>d, <1>2, <1>3, <2>2, <3>2 DEF IInv, TypeOK, EngineInv, Handles
      <3> QED BY <3>1, <3>2
    <2>3. EngineTypes'
      <3>1. mode' \in [1..Bound -> Modes] BY <1>c, <1>d, <1>2 DEF IInv, TypeOK, Modes
      <3>2. dbs' \subseteq Handles' /\ live' \subseteq Handles'
        BY <1>d, <1>2 DEF IInv, TypeOK, Handles
      <3>3. pin' \in [Calls -> {0} \union live'] /\ lock' \in [Paths -> {0} \union live']
        BY <1>d DEF IInv, TypeOK
      <3> QED BY <1>2, <3>1, <3>2, <3>3 DEF EngineTypes
    <2> QED BY <2>1, <2>2, <2>3 DEF EngineInv
  <1>11. Weighs(c)
    BY <1>b, <1>d DEF Weighs, Weight, Counted, One, Calling, HasCursor, Claiming, IInv, TypeOK
  <1> QED BY <1>5, <1>6, <1>7, <1>8, <1>9, <1>10, <1>11, Assemble

\* A handler finds its Db.
LEMMA LookupKeeps == ASSUME IInv, NEW c \in Calls, LookupDb(c) PROVE IInv'
  <1> USE CallFacts, OpNames
  <1>1. task[c] = "sent" /\ pin[c] = 0 /\ req[c].handle \in dbs /\ dbs \subseteq live
    BY DEF IInv, TaskInv, EngineInv, LookupDb
  <1>2. /\ pin' = [pin EXCEPT ![c] = req[c].handle] /\ task' = [task EXCEPT ![c] = "running"]
        /\ UNCHANGED <<goVars, inflight, engineVars, queryCtr, causeVars>>
    BY DEF LookupDb
  <1>3. req[c].op \in {"query"} \union ByteOps BY <1>1 DEF TaskInv
  <1>4. CallTypes' BY <1>2 DEF IInv, TypeOK, CallTypes, TaskStates
  <1>5. Alone(c) BY <1>2 DEF IInv, TypeOK, Alone
  <1>6. CallInv(c)'
    BY <1>1, <1>2, <1>3 DEF CallInv, PlaceInv, TaskInv, AnswerInv, WillClaim, IInv, TypeOK, Calling,
       Querying, HasCursor
  <1>7. SlotInv' BY <1>2, SlotsKept
  <1>8. ret[c].kind # "handle" /\ ret' = ret
    BY <1>1, <1>2, <1>3 DEF TaskInv, PlaceInv, Calling, Querying
  <1>9. HandleInv' BY <1>2, <1>5, <1>8, HandlesKept
  <1>10. EngineInv'
    <2>1. {pin'[d] : d \in Calls} \ {0} \subseteq ({pin[d] : d \in Calls} \ {0}) \union dbs
      BY <1>1, <1>2 DEF IInv, TypeOK
    <2>2. {pin[d] : d \in Calls} \ {0} \subseteq {pin'[d] : d \in Calls} \ {0}
      <3> SUFFICES ASSUME NEW d \in Calls, pin[d] # 0 PROVE pin[d] = pin'[d]
        OBVIOUS
      <3> QED BY <1>1, <1>2 DEF IInv, TypeOK
    <2>3. EngineTypes' BY <1>1, <1>2 DEF IInv, TypeOK, EngineTypes, Handles
    <2> QED BY <1>2, <2>1, <2>2, <2>3 DEF IInv, EngineInv
  <1>11. Weighs(c)
    BY <1>1, <1>2 DEF Weighs, Weight, Counted, One, Calling, HasCursor, Claiming, IInv, TypeOK
  <1> QED BY <1>4, <1>5, <1>6, <1>7, <1>9, <1>10, <1>11, Assemble

\* Giving up a reference to engine h drops it if it was the last one; call c
\* has none afterwards.
LEMMA DropKeeps ==
    ASSUME IInv, NEW c \in Calls, NEW h, Drop(h, PinsBut(c), dbs'),
           pin' = [pin EXCEPT ![c] = 0], pin[c] \in {0, h},
           dbs' \subseteq dbs, dbs \ dbs' \subseteq {h}, UNCHANGED <<dbCtr, mode>>
    PROVE  EngineInv'
  <1> DEFINE gone == h # 0 /\ h \notin dbs' /\ h \notin PinsBut(c)
  <1>0. 0 \notin live BY DEF IInv, TypeOK, Handles
  <1>1. live' = (IF gone THEN live \ {h} ELSE live)
    BY DEF Drop
  <1>2. lock' = [p \in Paths |-> IF gone /\ lock[p] = h THEN 0 ELSE lock[p]]
    BY DEF Drop
  <1>3. \A d \in Calls \ {c} : pin[d] \in PinsBut(c) BY DEF PinsBut
  <1>4. \A x \in PinsBut(c) : \E d \in Calls \ {c} : x = pin[d] BY DEF PinsBut
  <1> HIDE DEF gone
  <1>5. live' \subseteq live BY <1>1
  <1>6. pin' \in [Calls -> {0} \union live']
    BY <1>1, <1>3 DEF IInv, TypeOK, gone
  <1>7. lock' \in [Paths -> {0} \union live'] BY <1>1, <1>2 DEF IInv, TypeOK
  <1>8. dbs' \subseteq live' BY <1>1 DEF IInv, EngineInv, gone
  <1>9. ASSUME NEW g \in live' PROVE g \in dbs' \/ \E d \in Calls : pin'[d] = g /\ g # 0
    <2>1. g \in live /\ g # 0 BY <1>0, <1>5
    <2>2. CASE g = h BY <1>1, <1>4, <2>1, <2>2 DEF IInv, TypeOK, gone
    <2>3. CASE g # h
      <3>1. g \in dbs \/ \E d \in Calls : pin[d] = g BY <2>1 DEF IInv, EngineInv
      <3> QED BY <2>1, <2>3, <3>1 DEF IInv, TypeOK
    <2> QED BY <2>2, <2>3
  <1>10. live' = dbs' \union ({pin'[d] : d \in Calls} \ {0}) BY <1>6, <1>8, <1>9
  <1>11. \A g \in live' : mode'[g].writer /\ mode'[g].path \in Paths => lock'[mode'[g].path] = g
    BY <1>1, <1>2, <1>5 DEF IInv, EngineInv
  <1>12. EngineTypes' BY <1>5, <1>6, <1>7 DEF IInv, TypeOK, EngineTypes, Handles
  <1> QED BY <1>10, <1>11, <1>12 DEF EngineInv

\* A task ends with an answer, which only a caller that still waits is given.
LEMMA AnswerKeeps ==
    ASSUME IInv, NEW c \in Calls, Calling(c, {"sent", "running"}), NEW r \in Answers,
           r.kind \in {"ok", "failed"}, Answer(c, r), EngineInv'
    PROVE  IInv'
  <1> USE CallFacts, OpNames
  <1>1. /\ task' = [task EXCEPT ![c] = "ended"] /\ pin' = [pin EXCEPT ![c] = 0]
        /\ inflight' = inflight - 1
        /\ UNCHANGED <<req, errId, dbCtr, dbs, mode, queryCtr, causeVars>>
    BY DEF Answer
  <1>2. \/ /\ go[c] = "waiting" /\ go' = [go EXCEPT ![c] = "done"] /\ ret' = [ret EXCEPT ![c] = r]
        \/ /\ go[c] = "done" /\ ret[c].kind = "left" /\ req[c].op = "countLogs"
           /\ go' = go /\ ret' = ret
    BY DEF TaskInv, Answer, Return
  <1>3. req[c].op \in ByteOps /\ task[c] \in {"sent", "running"} BY DEF Calling
  <1>4. CallTypes'
    <2>1. go' \in [Calls -> Places] BY <1>2 DEF IInv, TypeOK, Places
    <2>2. ret' \in [Calls -> Answers] BY <1>2 DEF IInv, TypeOK
    <2> QED BY <1>1, <2>1, <2>2 DEF IInv, TypeOK, CallTypes, TaskStates
  <1>5. Alone(c) BY <1>1, <1>2 DEF IInv, TypeOK, Alone
  <1>6. ret[c].kind # "handle" /\ ret'[c].kind # "handle" BY <1>2 DEF PlaceInv, IInv, TypeOK
  <1>7. CallInv(c)'
    <2>1. CASE go[c] = "waiting"
      BY <1>1, <1>2, <1>3, <2>1 DEF CallInv, PlaceInv, TaskInv, AnswerInv, WillClaim, IInv, TypeOK,
         Calling, Querying, HasCursor
    <2>2. CASE go[c] = "done"
      BY <1>1, <1>2, <1>3, <2>2 DEF CallInv, PlaceInv, TaskInv, AnswerInv, WillClaim, IInv, TypeOK,
         Calling, Querying, HasCursor
    <2> QED BY <1>2, <2>1, <2>2
  <1>8. SlotInv' BY <1>1, SlotsKept
  <1>9. HandleInv' BY <1>1, <1>5, <1>6, HandlesKept
  <1>10. Weighs(c)
    BY <1>1, <1>2, <1>3 DEF Weighs, Weight, Counted, One, Calling, HasCursor, Claiming, IInv, TypeOK
  <1> QED BY <1>4, <1>5, <1>7, <1>8, <1>9, <1>10, Assemble

\* The handler of a byte-Call finds no Db, or ends with an answer or an error.
LEMMA HandlerKeeps ==
    ASSUME IInv, NEW c \in Calls, LookupFails(c) \/ HandlerSucceeds(c) \/ HandlerFails(c)
    PROVE  IInv'
  <1>1. PICK kind \in {"ok", "failed"} : Answer(c, [kind |-> kind])
    BY DEF LookupFails, HandlerSucceeds, HandlerFails, Replies
  <1>2. PICK r : r = [kind |-> kind] OBVIOUS
  <1>3. r \in Answers /\ r.kind \in {"ok", "failed"} /\ Answer(c, r) BY <1>1, <1>2 DEF Answers
  <1>4. Calling(c, {"sent", "running"})
    BY DEF LookupFails, HandlerSucceeds, HandlerFails, Calling
  <1>5. pin' = [pin EXCEPT ![c] = 0] /\ UNCHANGED <<dbs, dbCtr, mode>> BY <1>3 DEF Answer
  <1>6. CASE LookupFails(c)
    <2>1. task[c] = "sent" /\ UNCHANGED <<live, lock>> BY <1>6 DEF LookupFails, Calling
    <2>2. pin[c] = 0 BY <2>1, CallFacts DEF TaskInv
    <2>3. UNCHANGED <<engineVars, pin>> BY <1>5, <2>1, <2>2 DEF IInv, TypeOK
    <2>4. EngineInv' BY <2>3, EnginesKept
    <2> QED BY <1>3, <1>4, <2>4, AnswerKeeps
  <1>7. CASE HandlerSucceeds(c) \/ HandlerFails(c)
    <2>1. Drop(pin[c], PinsBut(c), dbs') BY <1>5, <1>7 DEF HandlerSucceeds, HandlerFails
    <2>2. EngineInv' BY <1>5, <2>1, DropKeeps
    <2> QED BY <1>3, <1>4, <2>2, AnswerKeeps
  <1> QED BY <1>6, <1>7

\* A stream handler returns, its Arc goes.
LEMMA HandlerReturnsKeeps == ASSUME IInv, NEW c \in Calls, HandlerReturns(c) PROVE IInv'
  <1> USE CallFacts, OpNames
  <1>1. /\ task[c] = "returning" /\ task' = [task EXCEPT ![c] = "ended"]
        /\ pin' = [pin EXCEPT ![c] = 0]
        /\ UNCHANGED <<goVars, inflight, dbCtr, dbs, mode, queryCtr, causeVars>>
    BY DEF HandlerReturns
  <1>2. Drop(pin[c], PinsBut(c), dbs') BY <1>1 DEF HandlerReturns
  <1>3. EngineInv' BY <1>1, <1>2, DropKeeps
  <1>4. CallTypes' BY <1>1 DEF IInv, TypeOK, CallTypes, TaskStates
  <1>5. Alone(c) BY <1>1 DEF IInv, TypeOK, Alone
  <1>6. req[c].op = "query" BY <1>1 DEF TaskInv
  <1>7. CallInv(c)'
    BY <1>1, <1>6 DEF CallInv, PlaceInv, TaskInv, AnswerInv, WillClaim, IInv, TypeOK, Calling,
       Querying, HasCursor
  <1>8. SlotInv' BY <1>1, SlotsKept
  <1>9. ret[c].kind # "handle" /\ ret' = ret BY <1>1, <1>6 DEF TaskInv, PlaceInv, Querying
  <1>10. HandleInv' BY <1>1, <1>5, <1>9, HandlesKept
  <1>11. Weighs(c)
    BY <1>1, <1>6 DEF Weighs, Weight, Counted, One, Calling, HasCursor, Claiming, IInv, TypeOK
  <1> QED BY <1>3, <1>4, <1>5, <1>7, <1>8, <1>10, <1>11, Assemble

\* A handle is closed; what runs on its engine keeps it.
LEMMA CloseKeeps == ASSUME IInv, NEW c \in Calls, Close(c) PROVE IInv'
  <1> USE CallFacts, OpNames
  <1>1. go[c] = "new" /\ task[c] = "none" /\ pin[c] = 0 /\ ret[c].kind = "none" /\ errId[c] = 0
    BY DEF PlaceInv, TaskInv, Close
  <1>2. PICK h \in Handles : dbs' = dbs \ {h} /\ Drop(h, PinsBut(c), dbs') BY DEF Close
  <1>3. pin' = [pin EXCEPT ![c] = 0] /\ UNCHANGED <<dbCtr, mode>>
    BY <1>1 DEF Close, IInv, TypeOK
  <1>4. EngineInv' BY <1>1, <1>2, <1>3, DropKeeps
  <1>5. PICK r : r = [kind |-> "closed"] OBVIOUS
  <1>6. /\ go' = [go EXCEPT ![c] = "done"] /\ ret' = [ret EXCEPT ![c] = r]
        /\ UNCHANGED <<req, errId, dbCtr, mode, taskVars, queryCtr, causeVars>>
    BY <1>5 DEF Close, Return
  <1>7. r \in Answers /\ r.kind = "closed" BY <1>5 DEF Answers
  <1>8. CallTypes' BY <1>6, <1>7 DEF IInv, TypeOK, CallTypes, Places
  <1>9. Alone(c) BY <1>6 DEF IInv, TypeOK, Alone
  <1>10. CallInv(c)'
    BY <1>1, <1>6, <1>7 DEF CallInv, PlaceInv, TaskInv, AnswerInv, WillClaim, IInv, TypeOK, Calling,
       Querying, HasCursor
  <1>11. SlotInv' BY <1>6, SlotsKept
  <1>12. ret'[c].kind # "handle" BY <1>6, <1>7 DEF IInv, TypeOK
  <1>13. HandleInv' BY <1>1, <1>6, <1>9, <1>12, HandlesKept
  <1>14. Weighs(c)
    BY <1>1, <1>6 DEF Weighs, Weight, Counted, One, Calling, HasCursor, Claiming, IInv, TypeOK
  <1> QED BY <1>4, <1>8, <1>9, <1>10, <1>11, <1>13, <1>14, Assemble

-----------------------------------------------------------------------------
(* The invariant, and what follows from it *)

\* Every step keeps the invariant.
LEMMA NextInv == IInv /\ [Next]_vars => IInv'
  <1> SUFFICES ASSUME IInv, [Next]_vars PROVE IInv' OBVIOUS
  <1>1. ASSUME NEW c \in Calls, Step(c) PROVE IInv'
    <2>1. CASE TaskStep(c)
      BY <2>1, LookupKeeps, HandlerKeeps, FailsKeeps, QueryRunsKeeps, HandlerReturnsKeeps DEF TaskStep
    <2>2. CASE ~TaskStep(c)
      BY <1>1, <2>2, OpenKeeps, OpenedKeeps, FailsKeeps, ClaimKeeps, TakeKeeps, BeginQueryKeeps,
         CloseCursorKeeps, ByteCallKeeps, CtxDoneKeeps, CloseKeeps DEF Step
    <2> QED BY <2>1, <2>2
  <1>2. CASE UNCHANGED vars
    <2>1. TypeOK' BY <1>2 DEF vars, IInv, TypeOK, Handles
    <2>2. ASSUME NEW c \in Calls PROVE CallInv(c)'
      BY <1>2 DEF vars, IInv, CallInv, PlaceInv, TaskInv, AnswerInv, WillClaim, Calling, Querying
    <2>3. SlotInv' BY <1>2, SlotsKept DEF vars
    <2>4. HandleInv'
      <3>1. Opens' = Opens BY <1>2 DEF vars, Opens
      <3> QED BY <1>2, <3>1 DEF vars, IInv, HandleInv, HandlesAreNotReused
    <2>5. EngineInv' BY <1>2, EnginesKept DEF vars
    <2>6. GaugeInv'
      <3>1. Cursors' = Cursors /\ Claims' = Claims /\ InCall' = InCall /\ Admitted' = Admitted
        BY <1>2 DEF vars, Cursors, Claims, InCall, Admitted, Calling
      <3> QED BY <1>2, <3>1 DEF vars, IInv, GaugeInv
    <2> QED BY <2>1, <2>2, <2>3, <2>4, <2>5, <2>6 DEF IInv
  <1> QED BY <1>1, <1>2 DEF Next, Done

\* The invariant holds of the specification.
LEMMA Inductive == Spec => []IInv
  BY InitInv, NextInv, PTL DEF Spec

\* Every call, handle, engine, lock and slot stays well formed: ids and handles
\* never run past the goroutines that drew them, a lock is held by a live engine
\* and a task refers to one (queryCtr, DB_CTR, DBS, QUERY_ERRORS).
THEOREM TypeCorrect == Spec => []TypeOK
  <1>1. IInv => TypeOK BY DEF IInv
  <1> QED BY <1>1, Inductive, PTL

\* A failed open or query is told its own cause, for any number of goroutines
\* that share queryCtr and QUERY_ERRORS, and a query that failed never ends
\* clean (openFailure, finish).
THEOREM CauseReachesItsCallerHolds == Spec => []CauseReachesItsCaller
  <1>1. IInv => CauseReachesItsCaller BY DEF IInv, CallInv, AnswerInv, CauseReachesItsCaller
  <1> QED BY <1>1, Inductive, PTL

\* An entry of QUERY_ERRORS outlives its call only when that is a query that was
\* left before its end (takeStoredError, Rows.Close).
THEOREM OnlyEarlyLeaversStrandCausesHolds == Spec => []OnlyEarlyLeaversStrandCauses
  <1>1. ASSUME IInv PROVE OnlyEarlyLeaversStrandCauses
    <2> SUFFICES ASSUME NEW i \in DOMAIN errs, errs[i] # NoCall
                 PROVE  /\ errId[errs[i]] = i
                        /\ go[errs[i]] = "done" =>
                              req[errs[i]].op = "query" /\ ret[errs[i]].kind = "left"
      BY DEF OnlyEarlyLeaversStrandCauses
    <2>1. i \in 1..Bound /\ errs[i] \in Calls /\ errId[errs[i]] = i
      BY <1>1 DEF IInv, TypeOK, SlotInv
    <2>2. AnswerInv(errs[i]) BY <1>1, <2>1 DEF IInv, CallInv
    <2> QED BY <2>1, <2>2 DEF AnswerInv, WillClaim
  <1> QED BY <1>1, Inductive, PTL

\* No two opens are given the same handle, and none is given 0 (insert_db).
THEOREM HandlesAreNotReusedHolds == Spec => []HandlesAreNotReused
  <1>1. IInv => HandlesAreNotReused BY DEF IInv, HandleInv
  <1> QED BY <1>1, Inductive, PTL

\* An engine is alive exactly while DBS or a running handler refers to it
\* (lookup_db, imbhgo_close).
THEOREM EngineLivesWhileUsedHolds == Spec => []EngineLivesWhileUsed
  <1>1. ASSUME IInv PROVE EngineLivesWhileUsed
    <2>1. ASSUME NEW c \in Calls, task[c] = "running" PROVE req[c].handle \in live
      <3>1. pin[c] = req[c].handle /\ req[c].op \in {"query"} \union ByteOps
        BY <1>1, <2>1 DEF IInv, CallInv, TaskInv
      <3>2. req[c].handle \in 1..Bound BY <1>1, <3>1, RequestFields DEF IInv, TypeOK
      <3> QED BY <1>1, <3>1, <3>2 DEF IInv, TypeOK
    <2> QED BY <1>1, <2>1 DEF IInv, EngineInv, EngineLivesWhileUsed
  <1> QED BY <1>1, Inductive, PTL

\* Two live writers are never on one path: the writer of a path has its lock
\* until the last reference to it is gone.
THEOREM OneWriterPerPathHolds == Spec => []OneWriterPerPath
  <1>1. IInv => OneWriterPerPath BY DEF IInv, EngineInv, OneWriterPerPath
  <1> QED BY <1>1, Inductive, PTL

\* For any cap and any number of goroutines the gauge is exact, the open Rows
\* and running TryIngests stay within the cap, and a refused call has nothing
\* running (SetMaxInFlight, openStream, TryIngest*).
THEOREM CapBoundsAdmittedHolds == Spec => []CapBoundsAdmitted
  <1>1. ASSUME IInv PROVE CapBoundsAdmitted
    <2>1. ASSUME NEW c \in Calls, ret[c].kind = "refused" PROVE c \notin Cursors \union InCall
      <3>1. go[c] = "done" /\ task[c] = "none" BY <1>1, <2>1 DEF IInv, CallInv, AnswerInv
      <3> QED BY <3>1 DEF Cursors, InCall, HasCursor, Calling
    <2> QED BY <1>1, <2>1 DEF IInv, GaugeInv, CapBoundsAdmitted
  <1> QED BY <1>1, Inductive, PTL
=============================================================================
