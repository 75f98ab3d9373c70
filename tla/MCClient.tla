------------------------------ MODULE MCClient ------------------------------
(***************************************************************************)
(* What the Go client does with a query and its answer, in one instance: a *)
(* decoder, the grouping of its samples, the assembly of its spans, a      *)
(* query's way to the engine, a walk through pages, a log that is          *)
(* followed. They share no state, so a behaviour is one of theirs while    *)
(* the others stay at rest.                                                *)
(***************************************************************************)
EXTENDS ResultDecoding, SeriesGrouping, TraceTree, QueryWire, LogPaging, LogFollow

VARIABLE part

\* Two label keys, one a prefix of the other; values "", "a", "aa" and a NUL.
LabelKeys   == <<<<"a">>, <<"a", "a">>>>
LabelValues == {<<>>, <<"a">>, <<"a", "a">>, <<"NUL">>}

\* Below 0, in a byte, and 257, which a byte takes for 1.
WireNumbers == {-1, 1, 2, 3, 257}

Parts == {"decoding", "series", "tree", "wire", "walk", "follow"}

ClientInit ==
    /\ part \in Parts
    /\ Init /\ (part # "decoding" => query = "names" /\ result = <<>>)
    /\ SeriesInit /\ (part # "series" => path = "groupBy")
    /\ TreeInit /\ (part # "tree" => spans = <<>>)
    /\ WireInit /\ (part # "wire" => kind = "logs")
    /\ WalkInit /\ (part # "walk" => request.limit = 0 /\ ~request.backward /\ store = {})
    /\ FollowInit

clientVars == <<vars, seriesVars, treeVars, wireVars, walkVars, followVars>>

ClientNext ==
    /\ UNCHANGED part
    /\ \/ part = "decoding" /\ Next
          /\ UNCHANGED <<seriesVars, treeVars, wireVars, walkVars, followVars>>
       \/ part = "series" /\ SeriesNext
          /\ UNCHANGED <<vars, treeVars, wireVars, walkVars, followVars>>
       \/ part = "tree" /\ TreeNext
          /\ UNCHANGED <<vars, seriesVars, wireVars, walkVars, followVars>>
       \/ part = "wire" /\ WireNext
          /\ UNCHANGED <<vars, seriesVars, treeVars, walkVars, followVars>>
       \/ part = "walk" /\ WalkNext
          /\ UNCHANGED <<vars, seriesVars, treeVars, wireVars, followVars>>
       \/ part = "follow" /\ FollowNext
          /\ UNCHANGED <<vars, seriesVars, treeVars, wireVars, walkVars>>

\* The caller walks on, and a page that is not broken off returns; the loop keeps
\* polling and handles what it polled.
ClientSpec ==
    /\ ClientInit /\ [][ClientNext]_<<part, clientVars>>
    /\ WF_walkVars(part = "walk" /\ QueryPage)
    /\ WF_walkVars(part = "walk" /\ PageReturns)
    /\ WF_followVars(part = "follow" /\ Poll)
    /\ WF_followVars(part = "follow" /\ Handle)
=============================================================================
