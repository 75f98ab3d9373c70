----------------------------- MODULE LogPaging -----------------------------
(***************************************************************************)
(* A walk through the pages of a log query (logpage.go, with               *)
(* query_log_page_handler): QueryLogPage is called with the cursor of the  *)
(* page before until there is none. A cursor is an offset into a result    *)
(* that the engine evaluates anew for every page, while rows arrive and    *)
(* maintenance drops the oldest ones. A row is its event time; times are   *)
(* distinct. How a page's rows, error and metadata travel is StreamQuery.  *)
(***************************************************************************)
EXTENDS Integers, Sequences, FiniteSets

CONSTANTS
    Limits,         \* the values of LogQuery.Limit (0: not given)
    DefaultLimit,   \* what the engine uses when it is given no limit
    MaxTime,        \* bound on the event times
    MaxExpired,     \* bound on the rows maintenance drops
    MaxFailures     \* bound on the pages that fail

ASSUME PagingAssumption ==
    /\ Limits \subseteq Nat
    /\ DefaultLimit \in Nat \ {0}
    /\ {MaxTime, MaxExpired, MaxFailures} \subseteq Nat

VARIABLES
    request,    \* LogQuery: Limit and Backward, the same for the whole walk
    store,      \* the rows in the engine that match
    after,      \* the cursor the next page is asked with (nil: 0)
    page,       \* the page under way: its rows and PAGE_META's next; or Idle
    entries,    \* the entries of the pages returned so far
    ended,      \* the last page came without a cursor
    failures,   \* pages that failed
    gone,       \* the rows dropped
    first,      \* the rows in the store when the first page was evaluated
    seen        \* the rows in the store when the last page was evaluated

walkVars == <<request, store, after, page, entries, ended, failures, gone, first, seen>>
callerVars == <<request, after, page, entries, ended, failures, first, seen>>

None == 0
Idle == [rows |-> <<>>, next |-> -1]

WalkInit ==
    /\ request \in [limit : Limits, backward : BOOLEAN]
    /\ store \in SUBSET (1..MaxTime)
    /\ after = None /\ page = Idle
    /\ entries = <<>> /\ ended = FALSE
    /\ failures = 0 /\ gone = {}
    /\ first = {} /\ seen = {}

-----------------------------------------------------------------------------
(* The engine: rows in the order asked for, an offset and a limit. *)

Precedes(a, b) == IF request.backward THEN a > b ELSE a < b

\* How many rows of S precede r.
Rank(r, S) == Cardinality({u \in S : Precedes(u, r)})

\* A limit of 0 is not passed on.
EngineLimit == IF request.limit > 0 THEN request.limit ELSE DefaultLimit

\* How many rows the offset and the limit leave.
PageSize(offset) ==
    LET rest == Cardinality(store) - offset
    IN  IF rest < 0 THEN 0 ELSE IF rest < EngineLimit THEN rest ELSE EngineLimit

\* The page at an offset (the set has one member).
RowsAfter(offset) ==
    {found \in [1..PageSize(offset) -> store] :
        \A i \in DOMAIN found : Rank(found[i], store) = offset + i - 1}

IngestRow(t) ==
    /\ t \notin store \union gone
    /\ store' = store \union {t}
    /\ UNCHANGED <<callerVars, gone>>

\* Retention drops the oldest row.
Expire ==
    /\ Cardinality(gone) < MaxExpired
    /\ \E oldest \in store :
          /\ \A u \in store : oldest <= u
          /\ store' = store \ {oldest} /\ gone' = gone \union {oldest}
    /\ UNCHANGED callerVars

-----------------------------------------------------------------------------

AlwaysNext(limit, prev, count) ==                           \* mutant
    IF limit > 0 THEN prev + count ELSE None

\* A full page points past the rows consumed.
NextCursor(limit, prev, count) ==
    IF limit > 0 /\ count >= limit THEN prev + count ELSE None

\* query_log_page_handler evaluates the query and stashes the cursor before it
\* streams the rows.
QueryPage ==
    /\ page = Idle /\ ~ended
    /\ \E found \in RowsAfter(after) :
          page' = [rows |-> found, next |-> NextCursor(request.limit, after, Len(found))]
    /\ seen' = store
    /\ first' = IF entries = <<>> THEN store ELSE first
    /\ UNCHANGED <<request, store, after, entries, ended, failures, gone>>

KeepingPageFails ==                                         \* mutant
    /\ page # Idle /\ failures < MaxFailures
    /\ entries' = entries \o page.rows
    /\ page' = Idle
    /\ failures' = failures + 1
    /\ UNCHANGED <<request, store, after, ended, gone, first, seen>>

\* The stream breaks (an engine error, a cancelled context): the metadata is
\* fetched and dropped, the entries too, and the caller asks again.
PageFails ==
    /\ page # Idle /\ failures < MaxFailures
    /\ page' = Idle
    /\ failures' = failures + 1
    /\ UNCHANGED <<request, store, after, entries, ended, gone, first, seen>>

PrependingPageReturns ==                                    \* mutant
    /\ page # Idle
    /\ entries' = page.rows \o entries
    /\ after' = page.next
    /\ ended' = (page.next = None)
    /\ page' = Idle
    /\ UNCHANGED <<request, store, failures, gone, first, seen>>

\* The rows are drained, the metadata fetched; a JSON null is the nil cursor.
PageReturns ==
    /\ page # Idle
    /\ entries' = entries \o page.rows
    /\ after' = page.next
    /\ ended' = (page.next = None)      \* ~HasMore
    /\ page' = Idle
    /\ UNCHANGED <<request, store, failures, gone, first, seen>>

WalkDone == ended /\ UNCHANGED walkVars

WalkNext ==
    \/ \E t \in 1..MaxTime : IngestRow(t)
    \/ Expire
    \/ QueryPage \/ PageFails \/ PageReturns
    \/ WalkDone

WalkSpec == WalkInit /\ [][WalkNext]_walkVars

-----------------------------------------------------------------------------
(* Properties *)

Delivered == {entries[i] : i \in DOMAIN entries}

\* Some row that arrived after the walk began, and that it has not delivered,
\* sorts before one that it has.
Overtaken ==
    \E r \in store \ (first \union Delivered) : \E d \in Delivered : Precedes(r, d)

\* While no row arrives behind the cursor and none is dropped, the i-th entry of
\* the pages put together is the i-th row of the result, and a walk with a limit
\* ends when it has all that its last page could see: no row twice and none
\* skipped, also when a page fails and is asked for again.
WalkIsExact ==
    ~Overtaken /\ gone = {} =>
        /\ \A i \in DOMAIN entries :
              entries[i] \in store /\ Rank(entries[i], store) = i - 1
        /\ ended /\ request.limit > 0 => Delivered = seen

\* A cursor is "empty when the page was short, i.e. no more rows" (LogPage,
\* logpage.go): a page without one has the last row, whatever the limit.
NoCursorMeansNoMore == ~Overtaken /\ gone = {} /\ ended => Delivered = seen

\* What offset paging costs when the store changes under it. A row that was
\* there from the first page on is skipped by a walk with a limit only for a row
\* that was dropped, and a row is seen twice only for one that arrived behind the
\* cursor.
ShiftsAreBounded ==
    /\ ended /\ request.limit > 0 =>
         Cardinality((first \intersect store) \ Delivered) <= Cardinality(gone)
    /\ Len(entries) - Cardinality(Delivered)
         <= Cardinality({r \in (store \union gone) \ first : \E d \in Delivered : Precedes(r, d)})

\* A walk that has begun comes to its end, a full last page followed by an empty
\* one included.
WalkEnds == page # Idle ~> ended
=============================================================================
