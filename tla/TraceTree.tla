------------------------------ MODULE TraceTree ------------------------------
(***************************************************************************)
(* AssembleTrace (trace_tree.go): the spans of a trace, in any order and   *)
(* with whatever parents their producers wrote, become a forest. Span ids  *)
(* are numbers; 0 is the empty id, which as a parent means "none".         *)
(***************************************************************************)
EXTENDS Integers, Sequences, FiniteSets, Functions

CONSTANTS
    MaxId,      \* bound on the span ids
    MaxStart,   \* bound on the start times
    MaxSpans    \* bound on the spans of a trace

ASSUME TreeAssumption == MaxId \in Nat /\ MaxStart \in Nat /\ MaxSpans \in Nat

VARIABLES
    spans,      \* the input
    phase,      \* the loop AssembleTrace is in
    pos,        \* its position
    byID,       \* span id -> its span
    order,      \* the ids indexed, in order
    children,   \* span id -> the ids appended to its Children
    roots

treeVars == <<spans, phase, pos, byID, order, children, roots>>

Span == [id : 0..MaxId, parent : 0..MaxId, start : 1..MaxStart]

TreeInit ==
    /\ spans \in UNION {[1..n -> Span] : n \in 0..MaxSpans}
    /\ phase = IF spans = <<>> THEN "done" ELSE "index"
    /\ pos = 1
    /\ byID = <<>>
    /\ order = <<>>
    /\ children = [id \in 0..MaxId |-> <<>>]
    /\ roots = <<>>

\* The first span with an id wins.
IndexSpan ==
    /\ phase = "index" /\ pos <= Len(spans)
    /\ LET s == spans[pos] IN
         IF s.id \in DOMAIN byID THEN UNCHANGED <<byID, order>>
         ELSE /\ byID' = [id \in DOMAIN byID \union {s.id} |-> IF id = s.id THEN s ELSE byID[id]]
              /\ order' = Append(order, s.id)
    /\ pos' = pos + 1
    /\ UNCHANGED <<spans, phase, children, roots>>

Indexed ==
    /\ phase = "index" /\ pos > Len(spans)
    /\ phase' = "link" /\ pos' = 1
    /\ UNCHANGED <<spans, byID, order, children, roots>>

DroppedOrphanLinkSpan ==                                    \* mutant
    /\ phase = "link" /\ pos <= Len(order)
    /\ LET s == byID[order[pos]] IN
         /\ children' = IF s.parent # 0 /\ s.parent \in DOMAIN byID
                        THEN [children EXCEPT ![s.parent] = Append(@, s.id)] ELSE children
         /\ roots' = IF s.parent = 0 THEN Append(roots, s.id) ELSE roots
    /\ pos' = pos + 1
    /\ UNCHANGED <<spans, phase, byID, order>>

\* A span without a parent, or whose parent is not in the input, is a root.
LinkSpan ==
    /\ phase = "link" /\ pos <= Len(order)
    /\ LET s == byID[order[pos]] IN
         IF s.parent # 0 /\ s.parent \in DOMAIN byID
         THEN /\ children' = [children EXCEPT ![s.parent] = Append(@, s.id)]
              /\ UNCHANGED roots
         ELSE /\ roots' = Append(roots, s.id)
              /\ UNCHANGED children
    /\ pos' = pos + 1
    /\ UNCHANGED <<spans, phase, byID, order>>

StartOnlyBefore(a, b) == byID[a].start < byID[b].start      \* mutant

\* sortNodes: by start time, then by id; ids are distinct by now.
Before(a, b) ==
    \/ byID[a].start < byID[b].start
    \/ byID[a].start = byID[b].start /\ a < b

\* sort.Slice is not stable: any arrangement of the nodes in which none comes
\* right after one that it is less than.
SortNodes(ids) ==
    {sorted \in {[k \in DOMAIN ids |-> ids[f[k]]] : f \in Bijection(DOMAIN ids, DOMAIN ids)} :
        \A k \in 1..(Len(ids) - 1) : ~Before(sorted[k + 1], sorted[k])}

SortAll ==
    /\ phase = "link" /\ pos > Len(order)
    /\ roots' \in SortNodes(roots)
    /\ children' \in [0..MaxId -> UNION {SortNodes(children[id]) : id \in 0..MaxId}]
    /\ \A id \in 0..MaxId : children'[id] \in SortNodes(children[id])
    /\ phase' = "done"
    /\ UNCHANGED <<spans, pos, byID, order>>

TreeDone == phase = "done" /\ UNCHANGED treeVars

TreeNext == IndexSpan \/ Indexed \/ LinkSpan \/ SortAll \/ TreeDone

TreeSpec == TreeInit /\ [][TreeNext]_treeVars

-----------------------------------------------------------------------------
(* Reference: the forest as a function of the spans. *)

Ids == {spans[k].id : k \in 1..Len(spans)}

\* The span of an id that comes first in a list of spans.
FirstIn(list, id) == list[CHOOSE k \in 1..Len(list) :
                        /\ list[k].id = id
                        /\ \A j \in 1..(k - 1) : list[j].id # id]

First(id) == FirstIn(spans, id)

HasParent(id) == First(id).parent # 0 /\ First(id).parent \in Ids

\* Ascending in (start, id), and made of exactly these ids.
SortedListOf(ids, set) ==
    /\ Len(ids) = Cardinality(set)
    /\ \A k \in 1..Len(ids) : ids[k] \in set
    /\ \A k \in 1..(Len(ids) - 1) :
         LET a == First(ids[k])
             b == First(ids[k + 1])
         IN  a.start < b.start \/ (a.start = b.start /\ a.id < b.id)

\* The forest is the one that the first span of each id describes: a node is
\* that span, and every list holds the right ids, once, sorted. So the order of
\* the spans matters only between spans with the same id.
ForestIsCanonical ==
    phase = "done" =>
        /\ \A id \in Ids : byID[id] = First(id)
        /\ SortedListOf(roots, {id \in Ids : ~HasParent(id)})
        /\ \A p \in 0..MaxId : SortedListOf(children[p], {id \in Ids : HasParent(id) /\ First(id).parent = p})

\* "The output is stable regardless of input order" (AssembleTrace): the nodes
\* are those that any other order of the same spans gives.
ForestIgnoresOrder ==
    phase = "done" =>
        \A f \in Bijection(DOMAIN spans, DOMAIN spans) : \A id \in Ids :
            byID[id] = FirstIn([k \in DOMAIN spans |-> spans[f[k]]], id)

\* What is found below the roots: the ids in every set that holds the roots and,
\* with an id, its children.
Reached ==
    {id \in 0..MaxId : \A S \in SUBSET (0..MaxId) :
        /\ \A k \in 1..Len(roots) : roots[k] \in S
        /\ \A p \in S : \A k \in 1..Len(children[p]) : children[p][k] \in S
        => id \in S}

\* With every id in S, its parent.
ParentsIn(S) == \A id \in S : HasParent(id) => First(id).parent \in S

\* The span and its ancestors.
Lineage(id) == {a \in Ids : \A S \in SUBSET Ids : id \in S /\ ParentsIn(S) => a \in S}

\* The span is on a parent cycle: in a set whose parents are the set itself.
Cyclic(id) == \E C \in SUBSET Ids :
    /\ id \in C /\ \A c \in C : HasParent(c)
    /\ {First(c).parent : c \in C} = C

\* Every span is found in the returned forest unless a parent cycle is above it.
OnlyCyclesAreDropped ==
    phase = "done" => Reached = {id \in Ids : ~\E a \in Lineage(id) : Cyclic(a)}

\* "No span is ever dropped" (AssembleTrace): every id is found in the forest.
NoSpanIsDropped == phase = "done" => Reached = Ids
=============================================================================
