----------------------------- MODULE LogFollow -----------------------------
(***************************************************************************)
(* Following a log on the arrival clock: the loop of the README and of     *)
(* observed_time_test.go, over QueryLogs with ObservedAfter, LogOrder      *)
(* "observed_time" and a Limit. Rows become visible in the order of their  *)
(* observed_time; several may share an instant and some have none.         *)
(***************************************************************************)
EXTENDS Integers, Sequences

CONSTANTS
    Limit,      \* rows of a poll
    MaxClock,   \* bound on the observed times
    MaxArrivals \* bound on the rows that arrive

ASSUME FollowAssumption == {Limit, MaxClock, MaxArrivals} \subseteq Nat \ {0}

VARIABLES
    clock,      \* the instant of arrival
    arrived,    \* observed_time of each row, in the order they became visible
    watermark,  \* the loop's only state
    polled,     \* the rows of the poll that is being handled
    handed      \* how often each row was handed to the caller: 0, 1 or Again

followVars == <<clock, arrived, watermark, polled, handed>>

NULL == 0       \* a NULL observed_time, which decodes to 0
Again == 2      \* more than once

FollowInit ==
    /\ clock = 1
    /\ arrived = <<>>
    /\ watermark = 0
    /\ polled = <<>>
    /\ handed = <<>>

Tick ==
    /\ clock < MaxClock
    /\ clock' = clock + 1
    /\ UNCHANGED <<arrived, watermark, polled, handed>>

\* A producer need not send an observed_time.
IngestObserved(observed) ==
    /\ Len(arrived) < MaxArrivals
    /\ arrived' = Append(arrived, observed)
    /\ handed' = Append(handed, 0)
    /\ UNCHANGED <<clock, watermark, polled>>

-----------------------------------------------------------------------------
(* build_log_query and the engine's NULL rules *)

NonStrictMatches(r) ==                                      \* mutant
    watermark # 0 => arrived[r] # NULL /\ arrived[r] >= watermark

\* observed_after is applied when it is not 0; NULL > t never matches.
Matches(r) == watermark # 0 => arrived[r] # NULL /\ arrived[r] > watermark

NewestFirst(a, b) == arrived[a] > arrived[b] \/ (arrived[a] = arrived[b] /\ a < b)    \* mutant

NullsFirst(a, b) == arrived[a] < arrived[b] \/ (arrived[a] = arrived[b] /\ a < b)     \* mutant

\* order_by observed_time, forward; NULLs last, ties as they arrived.
Earlier(a, b) ==
    IF arrived[a] = arrived[b] THEN a < b
    ELSE arrived[a] # NULL /\ (arrived[b] = NULL \/ arrived[a] < arrived[b])

\* `batch` holds the first of the rows `found`, in order, as many as the limit
\* allows.
IsFirstPage(batch, found) ==
    /\ \A i, j \in DOMAIN batch : i < j => Earlier(batch[i], batch[j])
    /\ \A r \in found : \/ \E i \in DOMAIN batch : batch[i] = r
                        \/ Len(batch) = Limit /\ Earlier(batch[Limit], r)

Poll ==
    /\ polled = <<>>
    /\ LET found == {r \in DOMAIN arrived : Matches(r)}
       IN  \E n \in 0..Limit : \E batch \in [1..n -> found] :
              IsFirstPage(batch, found) /\ polled' = batch
    /\ UNCHANGED <<clock, arrived, watermark, handed>>

\* One entry of the poll: handled, and the watermark moves up to it.
Handle ==
    /\ polled # <<>>
    /\ handed' = [handed EXCEPT ![Head(polled)] = IF @ = 0 THEN 1 ELSE Again]
    /\ watermark' = IF arrived[Head(polled)] > watermark THEN arrived[Head(polled)] ELSE watermark
    /\ polled' = Tail(polled)
    /\ UNCHANGED <<clock, arrived>>

FollowNext ==
    \/ Tick
    \/ \E observed \in {clock, NULL} : IngestObserved(observed)
    \/ Poll \/ Handle

FollowSpec == FollowInit /\ [][FollowNext]_followVars

-----------------------------------------------------------------------------
(* Properties *)

\* A row at or below the watermark is missed only if it shares its instant with
\* one that was delivered, whatever arrived between and during the polls; with
\* distinct instants, none is.
OnlyTiesAreMissed ==
    \A r \in DOMAIN arrived :
        arrived[r] # NULL /\ arrived[r] <= watermark =>
            \E s \in DOMAIN arrived : arrived[s] = arrived[r] /\ handed[s] > 0

\* A row that has an observed_time is delivered at most once.
TimedRowsAreNotReplayed ==
    \A r \in DOMAIN arrived : arrived[r] # NULL => handed[r] <= 1

\* The loop catches up with every row that has an observed_time, the rows
\* without one and the limit notwithstanding.
FollowCatchesUp ==
    \A t \in 1..MaxClock : (\E r \in DOMAIN arrived : arrived[r] = t) ~> watermark >= t
=============================================================================
