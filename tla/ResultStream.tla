---------------------------- MODULE ResultStream ----------------------------
(***************************************************************************)
(* What a streamed query promises its caller, with the channel, the slots, *)
(* the batch handoff and the call sequences of the implementation left     *)
(* out.  The engine produces the batches of a result and at last finishes  *)
(* or fails; the caller is given a growing prefix of them and then one     *)
(* verdict, which never changes:                                           *)
(*                                                                         *)
(*   clean      the whole result of a query that finished                  *)
(*   query      all that a failed query had produced                       *)
(*   ctx, import, abandoned                                                *)
(*              the caller's side ended first; any prefix                  *)
(***************************************************************************)
EXTENDS Naturals

CONSTANTS Queries, MaxBatches

VARIABLES
    made,     \* batches the engine has produced
    ending,   \* how the engine's side ended
    given,    \* batches the caller was given: the first given[q] of them
    report    \* the verdict the caller was given

vars == <<made, ending, given, report>>

Init ==
    /\ made = [q \in Queries |-> 0]
    /\ ending = [q \in Queries |-> "none"]
    /\ given = [q \in Queries |-> 0]
    /\ report = [q \in Queries |-> "none"]

Produce(q) ==
    /\ ending[q] = "none"
    /\ made[q] < MaxBatches
    /\ made' = [made EXCEPT ![q] = @ + 1]
    /\ UNCHANGED <<ending, given, report>>

\* A query that is stopped because nobody listens any more was not finished:
\* nobody can then be told that it was.
EngineEnds(q, how) ==
    /\ ending[q] = "none"
    /\ how = "stopped" => report[q] # "none" \/ given[q] < made[q]
    /\ ending' = [ending EXCEPT ![q] = how]
    /\ UNCHANGED <<made, given, report>>

Give(q) ==
    /\ report[q] = "none"
    /\ given[q] < made[q]
    /\ given' = [given EXCEPT ![q] = @ + 1]
    /\ UNCHANGED <<made, ending, report>>

ReportEnd(q) ==
    /\ report[q] = "none"
    /\ ending[q] \in {"ok", "failed"}
    /\ given[q] = made[q]
    /\ report' = [report EXCEPT ![q] = IF ending[q] = "ok"
                                       THEN "clean" ELSE "query"]
    /\ UNCHANGED <<made, ending, given>>

GiveUp(q, why) ==
    /\ report[q] = "none"
    /\ report' = [report EXCEPT ![q] = why]
    /\ UNCHANGED <<made, ending, given>>

Next ==
    \E q \in Queries :
        \/ Produce(q)
        \/ \E how \in {"ok", "failed", "stopped"} : EngineEnds(q, how)
        \/ Give(q)
        \/ ReportEnd(q)
        \/ \E why \in {"ctx", "import", "abandoned"} : GiveUp(q, why)

Spec == Init /\ [][Next]_vars
=============================================================================
