--------------------------- MODULE LogFollowProofs ---------------------------
(***************************************************************************)
(* What the follow loop misses and repeats, proved for any number of rows, *)
(* any limit and any pattern of arrivals.                                  *)
(***************************************************************************)
EXTENDS LogFollow, TLAPS

-----------------------------------------------------------------------------
(***************************************************************************)
(* The inductive invariant.                                                *)
(***************************************************************************)

TypeOK ==
    /\ clock \in Nat \ {0}
    /\ arrived \in Seq(Nat)
    /\ handed \in Seq(0..Again) /\ Len(handed) = Len(arrived)
    /\ watermark \in Nat
    /\ polled \in Seq(Nat)
    /\ \A i \in DOMAIN polled : polled[i] \in DOMAIN arrived

\* No row is from the future.
ClockInv == \A r \in DOMAIN arrived : arrived[r] <= clock

\* A row that has a time and was delivered is at or below the watermark, which
\* keeps it out of later polls.
OnceInv ==
    \A r \in DOMAIN arrived : arrived[r] # NULL /\ handed[r] > 0 =>
        handed[r] = 1 /\ arrived[r] <= watermark

\* What is still to be handled of a poll: new rows, each once, and before each
\* every older one that is above the watermark.
PolledInv ==
    /\ \A i, j \in DOMAIN polled : i # j => polled[i] # polled[j]
    /\ \A i \in DOMAIN polled : arrived[polled[i]] # NULL => handed[polled[i]] = 0
    /\ \A i \in DOMAIN polled : \A r \in DOMAIN arrived :
          arrived[r] # NULL /\ arrived[r] < arrived[polled[i]] =>
              arrived[r] <= watermark \/ \E j \in DOMAIN polled : j < i /\ polled[j] = r

\* The watermark is the time of a row that was delivered.
WatermarkInv ==
    watermark # 0 => \E s \in DOMAIN arrived : arrived[s] = watermark /\ handed[s] > 0

IInv == TypeOK /\ ClockInv /\ OnceInv /\ PolledInv /\ WatermarkInv /\ OnlyTiesAreMissed

-----------------------------------------------------------------------------
(***************************************************************************)
(* The steps.                                                              *)
(***************************************************************************)

\* The entries of the sequences.
LEMMA Entries ==
    ASSUME TypeOK
    PROVE  /\ DOMAIN arrived = 1..Len(arrived) /\ DOMAIN handed = 1..Len(arrived) /\ Len(arrived) \in Nat
           /\ \A r \in DOMAIN arrived : arrived[r] \in Nat /\ handed[r] \in 0..2
           /\ Len(polled) \in Nat /\ DOMAIN polled = 1..Len(polled)
           /\ \A i \in DOMAIN polled : polled[i] \in Nat /\ polled[i] \in DOMAIN arrived
<1>1. /\ DOMAIN arrived = 1..Len(arrived) /\ DOMAIN handed = 1..Len(arrived) /\ Len(arrived) \in Nat
      /\ Len(polled) \in Nat /\ DOMAIN polled = 1..Len(polled)
  BY DEF TypeOK
<1>2. \A r \in DOMAIN arrived : arrived[r] \in Nat
  BY DEF TypeOK
<1>3. \A r \in DOMAIN handed : handed[r] \in 0..2
  <2>1. handed \in Seq(0..2)
    BY DEF TypeOK, Again
  <2> QED
    BY <2>1
<1>4. \A i \in DOMAIN polled : polled[i] \in Nat /\ polled[i] \in DOMAIN arrived
  BY DEF TypeOK
<1> QED
  BY <1>1, <1>2, <1>3, <1>4

\* At the start there are no rows.
LEMMA InitInv == FollowInit => IInv
BY DEF FollowInit, IInv, TypeOK, ClockInv, OnceInv, PolledInv, WatermarkInv,
   OnlyTiesAreMissed, Again

\* Time passes.
LEMMA TickKeeps == ASSUME IInv, Tick PROVE IInv'
<1>1. TypeOK' /\ ClockInv'
  BY DEF IInv, TypeOK, ClockInv, Tick
<1>2. OnceInv' /\ PolledInv' /\ WatermarkInv' /\ OnlyTiesAreMissed'
  BY DEF IInv, Tick, OnceInv, PolledInv, WatermarkInv, OnlyTiesAreMissed
<1> QED
  BY <1>1, <1>2 DEF IInv

\* A row that arrives is not older than any other, so it comes before nothing
\* that was polled.
LEMMA IngestKeeps == ASSUME IInv, NEW t \in {clock, NULL}, IngestObserved(t) PROVE IInv'
<1> DEFINE n == Len(arrived) + 1
<1>t. TypeOK /\ ClockInv /\ OnceInv /\ PolledInv /\ WatermarkInv /\ OnlyTiesAreMissed
  BY DEF IInv
<1>1. /\ arrived' = Append(arrived, t) /\ handed' = Append(handed, 0)
      /\ clock' = clock /\ watermark' = watermark /\ polled' = polled
  BY DEF IngestObserved
<1>2. t \in Nat /\ t <= clock /\ n \in Nat
  BY <1>t DEF TypeOK, NULL
<1>3. /\ DOMAIN arrived' = DOMAIN arrived \union {n} /\ n \notin DOMAIN arrived
      /\ \A r \in DOMAIN arrived : arrived'[r] = arrived[r] /\ handed'[r] = handed[r]
      /\ arrived'[n] = t /\ handed'[n] = 0
  BY <1>t, <1>1, <1>2 DEF TypeOK
<1>4. TypeOK'
  BY <1>t, <1>1, <1>2, <1>3 DEF TypeOK, Again
<1>5. ClockInv' /\ OnceInv' /\ WatermarkInv'
  <2>1. ClockInv'
    BY <1>t, <1>1, <1>2, <1>3 DEF ClockInv
  <2>2. OnceInv'
    <3> SUFFICES ASSUME NEW r \in DOMAIN arrived', arrived'[r] # NULL, handed'[r] > 0
                 PROVE  handed'[r] = 1 /\ arrived'[r] <= watermark
      BY <1>1 DEF OnceInv
    <3>1. r \in DOMAIN arrived
      BY <1>3
    <3> QED
      BY <1>t, <1>3, <3>1 DEF OnceInv
  <2>3. WatermarkInv'
    BY <1>t, <1>1, <1>3 DEF WatermarkInv
  <2> QED
    BY <2>1, <2>2, <2>3
<1>6. PolledInv'
  <2>1. \A i \in DOMAIN polled : polled[i] \in DOMAIN arrived /\ arrived[polled[i]] \in Nat
                                 /\ arrived[polled[i]] <= clock
    BY <1>t DEF TypeOK, ClockInv
  <2>2. ASSUME NEW i \in DOMAIN polled, t # NULL PROVE ~(t < arrived[polled[i]])
    <3>1. t = clock /\ clock \in Nat
      BY <1>t, <2>2 DEF TypeOK
    <3> QED
      BY <2>1, <3>1
  <2>3. /\ \A i, j \in DOMAIN polled : i # j => polled[i] # polled[j]
        /\ \A i \in DOMAIN polled : arrived'[polled[i]] # NULL => handed'[polled[i]] = 0
    BY <1>t, <1>3, <2>1 DEF PolledInv
  <2>4. ASSUME NEW i \in DOMAIN polled, NEW r \in DOMAIN arrived',
               arrived'[r] # NULL, arrived'[r] < arrived'[polled[i]]
        PROVE  arrived'[r] <= watermark \/ \E j \in DOMAIN polled : j < i /\ polled[j] = r
    <3>1. r \in DOMAIN arrived
      BY <1>3, <2>1, <2>2, <2>4
    <3> QED
      BY <1>t, <1>3, <2>1, <2>4, <3>1 DEF PolledInv
  <2>5. polled' = polled /\ watermark' = watermark
    BY <1>1
  <2> QED
    BY <2>3, <2>4, <2>5 DEF PolledInv
<1>7. OnlyTiesAreMissed'
  <2> SUFFICES ASSUME NEW r \in DOMAIN arrived', arrived'[r] # NULL, arrived'[r] <= watermark
               PROVE  \E s \in DOMAIN arrived' : arrived'[s] = arrived'[r] /\ handed'[s] > 0
    BY <1>1 DEF OnlyTiesAreMissed
  <2>1. CASE r \in DOMAIN arrived
    BY <1>t, <1>3, <2>1 DEF OnlyTiesAreMissed
  <2>2. CASE r = n
    <3>1. t = clock /\ t <= watermark /\ clock \in Nat \ {0} /\ watermark \in Nat
      BY <1>t, <1>3, <2>2 DEF TypeOK
    <3>2. PICK s \in DOMAIN arrived : arrived[s] = watermark /\ handed[s] > 0
      BY <1>t, <3>1 DEF WatermarkInv
    <3>3. arrived[s] = t
      BY <1>t, <3>1, <3>2 DEF ClockInv
    <3> QED
      BY <1>3, <2>2, <3>2, <3>3
  <2> QED
    BY <1>3, <2>1, <2>2
<1> QED
  BY <1>4, <1>5, <1>6, <1>7 DEF IInv

\* A poll finds the rows above the watermark, the oldest first, and stops at the
\* limit only with younger ones left.
LEMMA PollKeeps == ASSUME IInv, Poll PROVE IInv'
<1> DEFINE found == {r \in DOMAIN arrived : Matches(r)}
<1>t. TypeOK /\ ClockInv /\ OnceInv /\ PolledInv /\ WatermarkInv /\ OnlyTiesAreMissed
  BY DEF IInv
<1>0. Limit \in Nat \ {0}
  BY FollowAssumption
<1>1. PICK n \in 0..Limit : \E batch \in [1..n -> found] : IsFirstPage(batch, found) /\ polled' = batch
  BY DEF Poll
<1>2. /\ clock' = clock /\ arrived' = arrived /\ watermark' = watermark /\ handed' = handed
  BY DEF Poll
<1>3. polled' \in [1..n -> found] /\ IsFirstPage(polled', found) /\ n \in Nat
  BY <1>0, <1>1
<1>4. polled' \in Seq(Nat) /\ DOMAIN polled' = 1..n /\ Len(polled') = n
  <2>1. DOMAIN arrived = 1..Len(arrived) /\ Len(arrived) \in Nat
    BY <1>t DEF TypeOK
  <2>2. polled' \in [1..n -> Nat]
    BY <1>3, <2>1
  <2> QED
    BY <1>3, <2>2
<1>5. \A i \in 1..n : polled'[i] \in DOMAIN arrived /\ Matches(polled'[i]) /\ arrived[polled'[i]] \in Nat
  <2>1. \A r \in DOMAIN arrived : arrived[r] \in Nat
    BY <1>t DEF TypeOK
  <2> SUFFICES ASSUME NEW i \in 1..n PROVE polled'[i] \in found
    BY <2>1
  <2> HIDE DEF found
  <2> QED
    BY <1>3
<1>6. TypeOK'
  BY <1>t, <1>2, <1>4, <1>5 DEF TypeOK
<1>7. \A i, j \in 1..n : i < j => Earlier(polled'[i], polled'[j])
  BY <1>3, <1>4 DEF IsFirstPage
<1>8. \A i, j \in 1..n : i # j => polled'[i] # polled'[j]
  <2> SUFFICES ASSUME NEW i \in 1..n, NEW j \in 1..n, i < j PROVE polled'[i] # polled'[j]
    BY <1>3
  <2>1. Earlier(polled'[i], polled'[j]) /\ polled'[i] \in Nat
    BY <1>4, <1>7
  <2> QED
    BY <2>1 DEF Earlier
<1>9. ASSUME NEW i \in 1..n, arrived[polled'[i]] # NULL PROVE handed[polled'[i]] = 0
  <2>1. handed[polled'[i]] \in 0..2
    BY <1>t, <1>5, Entries
  <2>2. ~(handed[polled'[i]] > 0)
    BY <1>t, <1>5, <1>9 DEF TypeOK, OnceInv, Matches, NULL
  <2> QED
    BY <2>1, <2>2
<1>10. ASSUME NEW i \in 1..n, NEW r \in DOMAIN arrived, arrived[r] # NULL, arrived[r] < arrived[polled'[i]],
              ~(arrived[r] <= watermark)
       PROVE  \E j \in 1..n : j < i /\ polled'[j] = r
  <2>1. arrived[r] \in Nat /\ watermark \in Nat
    BY <1>t DEF TypeOK
  <2>2. r \in found
    BY <1>10, <2>1 DEF Matches
  <2>3. CASE \E j \in 1..n : polled'[j] = r
    <3>1. PICK j \in 1..n : polled'[j] = r
      BY <2>3
    <3>2. ~(i < j)
      <4>1. i < j => Earlier(polled'[i], r)
        BY <1>7, <3>1
      <4> QED
        BY <1>5, <1>10, <2>1, <4>1 DEF Earlier, NULL
    <3>3. i # j
      BY <1>5, <1>10, <3>1
    <3> QED
      BY <3>1, <3>2, <3>3
  <2>4. CASE n = Limit /\ Earlier(polled'[n], r)
    <3>1. i = n \/ Earlier(polled'[i], polled'[n])
      BY <1>3, <1>7
    <3>2. arrived[polled'[n]] \in Nat /\ arrived[polled'[i]] \in Nat
      BY <1>3, <1>5
    <3> QED
      BY <1>10, <2>1, <2>4, <3>1, <3>2 DEF Earlier, NULL
  <2> QED
    BY <1>3, <1>4, <2>2, <2>3, <2>4 DEF IsFirstPage
<1>11. PolledInv'
  BY <1>2, <1>4, <1>8, <1>9, <1>10 DEF PolledInv
<1>12. ClockInv' /\ OnceInv' /\ WatermarkInv' /\ OnlyTiesAreMissed'
  BY <1>t, <1>2 DEF ClockInv, OnceInv, WatermarkInv, OnlyTiesAreMissed
<1> QED
  BY <1>6, <1>11, <1>12 DEF IInv

\* The first row of the poll is delivered: what is older than it is at or below
\* the watermark already.
LEMMA HandleKeeps == ASSUME IInv, Handle PROVE IInv'
<1> DEFINE h == Head(polled)
           n == Len(polled)
<1>t. TypeOK /\ ClockInv /\ OnceInv /\ PolledInv /\ WatermarkInv /\ OnlyTiesAreMissed
  BY DEF IInv
<1>1. /\ polled # <<>> /\ polled' = Tail(polled) /\ clock' = clock /\ arrived' = arrived
      /\ handed' = [handed EXCEPT ![h] = IF handed[h] = 0 THEN 1 ELSE Again]
      /\ watermark' = IF arrived[h] > watermark THEN arrived[h] ELSE watermark
  BY DEF Handle
<1>2. /\ n \in Nat /\ n >= 1 /\ h = polled[1] /\ DOMAIN polled = 1..n
      /\ polled' \in Seq(Nat) /\ DOMAIN polled' = 1..(n - 1)
      /\ \A i \in 1..(n - 1) : i + 1 \in 1..n /\ polled'[i] = polled[i + 1]
  BY <1>t, <1>1 DEF TypeOK
<1>3. /\ h \in DOMAIN arrived /\ watermark \in Nat /\ DOMAIN handed = DOMAIN arrived
      /\ \A r \in DOMAIN arrived : arrived[r] \in Nat /\ handed[r] \in 0..2
  <2>1. watermark \in Nat /\ 1 \in DOMAIN polled
    BY <1>t, <1>2 DEF TypeOK
  <2> QED
    BY <1>t, <1>2, <2>1, Entries
<1>4. /\ \A r \in DOMAIN arrived : r # h => handed'[r] = handed[r]
      /\ handed'[h] \in {1, Again} /\ (arrived[h] # NULL => handed'[h] = 1)
  BY <1>t, <1>1, <1>2, <1>3 DEF PolledInv
<1>5. watermark' \in Nat /\ watermark <= watermark' /\ arrived[h] <= watermark'
  BY <1>1, <1>3
<1>6. TypeOK'
  <2>1. handed' \in Seq(0..Again) /\ Len(handed') = Len(arrived)
    BY <1>t, <1>1 DEF TypeOK, Again
  <2>2. \A i \in DOMAIN polled' : polled'[i] \in DOMAIN arrived
    BY <1>t, <1>2 DEF TypeOK
  <2> QED
    BY <1>t, <1>1, <1>2, <1>5, <2>1, <2>2 DEF TypeOK
<1>7. ClockInv'
  BY <1>t, <1>1 DEF ClockInv
<1>8. OnceInv'
  <2> SUFFICES ASSUME NEW r \in DOMAIN arrived, arrived[r] # NULL, handed'[r] > 0
               PROVE  handed'[r] = 1 /\ arrived[r] <= watermark'
    BY <1>1 DEF OnceInv
  <2>1. CASE r = h
    BY <1>4, <1>5, <2>1
  <2>2. CASE r # h
    <3>1. handed[r] = 1 /\ arrived[r] <= watermark
      BY <1>t, <1>4, <2>2 DEF OnceInv
    <3> QED
      BY <1>3, <1>4, <1>5, <2>2, <3>1
  <2> QED
    BY <2>1, <2>2
<1>9. PolledInv'
  <2>0. \A i, j \in 1..n : i # j => polled[i] # polled[j]
    BY <1>t, <1>2 DEF PolledInv
  <2>1. \A i \in 1..(n - 1) : polled'[i] # h /\ polled'[i] \in DOMAIN arrived
    <3> SUFFICES ASSUME NEW i \in 1..(n - 1) PROVE polled[i + 1] # polled[1] /\ polled[i + 1] \in DOMAIN arrived
      BY <1>2
    <3>1. i + 1 \in 1..n /\ 1 \in 1..n /\ i + 1 # 1
      BY <1>2
    <3> QED
      BY <1>t, <1>2, <2>0, <3>1, Entries
  <2>2. \A i, j \in 1..(n - 1) : i # j => polled'[i] # polled'[j]
    <3> SUFFICES ASSUME NEW i \in 1..(n - 1), NEW j \in 1..(n - 1), i # j
                 PROVE  polled[i + 1] # polled[j + 1]
      BY <1>2
    <3>1. i + 1 \in 1..n /\ j + 1 \in 1..n /\ i + 1 # j + 1
      BY <1>2
    <3> QED
      BY <2>0, <3>1
  <2>3. \A i \in 1..(n - 1) : arrived[polled'[i]] # NULL => handed'[polled'[i]] = 0
    <3> SUFFICES ASSUME NEW i \in 1..(n - 1), arrived[polled'[i]] # NULL
                 PROVE  handed[polled'[i]] = 0
      BY <1>4, <2>1
    <3>1. i + 1 \in DOMAIN polled /\ polled'[i] = polled[i + 1]
      BY <1>2
    <3> QED
      BY <1>t, <3>1 DEF PolledInv
  <2>4. ASSUME NEW i \in 1..(n - 1), NEW r \in DOMAIN arrived,
               arrived[r] # NULL, arrived[r] < arrived[polled'[i]], ~(arrived[r] <= watermark')
        PROVE  \E j \in 1..(n - 1) : j < i /\ polled'[j] = r
    <3>1. r # h /\ ~(arrived[r] <= watermark)
      BY <1>3, <1>5, <2>4
    <3>2. i + 1 \in 1..n /\ arrived[r] < arrived[polled[i + 1]]
      BY <1>2, <2>4
    <3>3. PICK j \in 1..n : j < i + 1 /\ polled[j] = r
      <4>1. \A k \in 1..n : arrived[r] < arrived[polled[k]] => \E j \in 1..n : j < k /\ polled[j] = r
        BY <1>t, <1>2, <2>4, <3>1 DEF PolledInv
      <4> QED
        BY <3>2, <4>1
    <3>4. j # 1
      BY <1>2, <3>1, <3>3
    <3>5. j - 1 \in 1..(n - 1) /\ j - 1 < i /\ (j - 1) + 1 = j
      BY <1>2, <3>3, <3>4
    <3>6. polled'[j - 1] = r
      BY <1>2, <3>3, <3>5
    <3> QED
      BY <3>5, <3>6
  <2>5. DOMAIN polled' = 1..(n - 1) /\ arrived' = arrived
    BY <1>1, <1>2
  <2> QED
    BY <2>2, <2>3, <2>4, <2>5 DEF PolledInv
<1>10. WatermarkInv'
  <2>1. CASE arrived[h] > watermark
    BY <1>1, <1>3, <1>4, <2>1 DEF WatermarkInv, Again
  <2>2. CASE ~(arrived[h] > watermark)
    <3>1. watermark' = watermark
      BY <1>1, <2>2
    <3>2. \A r \in DOMAIN arrived : handed[r] > 0 => handed'[r] > 0
      BY <1>4 DEF Again
    <3> QED
      BY <1>t, <1>1, <3>1, <3>2 DEF WatermarkInv
  <2> QED
    BY <2>1, <2>2
<1>11. OnlyTiesAreMissed'
  <2> SUFFICES ASSUME NEW r \in DOMAIN arrived, arrived[r] # NULL, arrived[r] <= watermark'
               PROVE  \E s \in DOMAIN arrived : arrived[s] = arrived[r] /\ handed'[s] > 0
    BY <1>1 DEF OnlyTiesAreMissed
  <2>1. CASE arrived[r] <= watermark
    <3>1. PICK s \in DOMAIN arrived : arrived[s] = arrived[r] /\ handed[s] > 0
      BY <1>t, <2>1 DEF OnlyTiesAreMissed
    <3>2. handed'[s] > 0
      BY <1>4, <3>1 DEF Again
    <3> QED
      BY <3>1, <3>2
  <2>2. CASE ~(arrived[r] <= watermark)
    <3>1. arrived[r] <= arrived[h]
      BY <1>1, <2>2
    <3>2. ~(arrived[r] < arrived[h])
      BY <1>t, <1>2, <2>2 DEF PolledInv
    <3>3. arrived[h] = arrived[r]
      BY <1>3, <3>1, <3>2
    <3> QED
      BY <1>3, <1>4, <3>3 DEF Again
  <2> QED
    BY <2>1, <2>2
<1> QED
  BY <1>6, <1>7, <1>8, <1>9, <1>10, <1>11 DEF IInv

\* Every step keeps the invariant.
LEMMA NextInv == IInv /\ [FollowNext]_followVars => IInv'
<1> SUFFICES ASSUME IInv, [FollowNext]_followVars PROVE IInv'
  OBVIOUS
<1>1. CASE UNCHANGED followVars
  <2>1. TypeOK' /\ ClockInv' /\ OnceInv'
    BY <1>1 DEF followVars, IInv, TypeOK, ClockInv, OnceInv
  <2>2. PolledInv' /\ WatermarkInv' /\ OnlyTiesAreMissed'
    BY <1>1 DEF followVars, IInv, PolledInv, WatermarkInv, OnlyTiesAreMissed
  <2> QED
    BY <2>1, <2>2 DEF IInv
<1> QED
  BY <1>1, TickKeeps, IngestKeeps, PollKeeps, HandleKeeps DEF FollowNext

\* It holds of the specification.
LEMMA Inductive == FollowSpec => []IInv
BY InitInv, NextInv, PTL DEF FollowSpec

-----------------------------------------------------------------------------
(***************************************************************************)
(* The theorems.                                                           *)
(***************************************************************************)

\* The loop of the README over QueryLogs with ObservedAfter passes over a row that
\* has an observed_time only if it delivered one of the same instant, whatever
\* arrives between and during the polls and however small their limit.
THEOREM OnlyTiesAreMissedHolds == FollowSpec => []OnlyTiesAreMissed
BY Inductive, PTL DEF IInv

\* It delivers such a row at most once: observed_after is strict and the watermark
\* never goes back.
THEOREM TimedRowsAreNotReplayedHolds == FollowSpec => []TimedRowsAreNotReplayed
<1>1. ASSUME IInv PROVE TimedRowsAreNotReplayed
  <2> SUFFICES ASSUME NEW r \in DOMAIN arrived, arrived[r] # NULL PROVE handed[r] <= 1
    BY DEF TimedRowsAreNotReplayed
  <2>1. handed[r] \in 0..2
    BY <1>1, Entries DEF IInv
  <2>2. handed[r] > 0 => handed[r] = 1
    BY <1>1 DEF IInv, OnceInv
  <2> QED
    BY <2>1, <2>2
<1> QED
  BY <1>1, Inductive, PTL
=============================================================================
