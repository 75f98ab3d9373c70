--------------------------- MODULE LogPagingProofs ---------------------------
(***************************************************************************)
(* What a walk through the pages delivers, proved for any number of rows   *)
(* and any limits.                                                         *)
(***************************************************************************)
EXTENDS LogPaging, FiniteSetTheorems, TLAPS

-----------------------------------------------------------------------------
(***************************************************************************)
(* The inductive invariant.                                                *)
(***************************************************************************)

Times == 1..MaxTime

PageRows == {page.rows[i] : i \in DOMAIN page.rows}

TypeOK ==
    /\ request \in [limit : Limits, backward : BOOLEAN]
    /\ store \subseteq Times /\ first \subseteq Times /\ seen \subseteq Times
    /\ after \in Nat
    /\ page \in [rows : Seq(Times), next : Nat \union {-1}]
    /\ entries \in Seq(Times)
    /\ ended \in BOOLEAN

\* The cursor counts what was delivered, and a page under way is as long as the
\* rows it could see and its limit allow.
CursorInv ==
    /\ page.next = -1 => page = Idle
    /\ ~ended => after = Len(entries)
    /\ ~ended /\ request.limit = 0 => entries = <<>>
    /\ ended => page = Idle
    /\ page # Idle =>
          /\ page.next = NextCursor(request.limit, after, Len(page.rows))
          /\ Len(page.rows) = EngineLimit \/ after + Len(page.rows) >= Cardinality(seen)

\* While nothing is dropped, what was seen is there.
SetsInv ==
    /\ first \subseteq seen /\ seen \subseteq store
    /\ Delivered \subseteq seen /\ PageRows \subseteq seen

\* A row that arrived behind the cursor, and that no later page will hold.
Lag ==
    \E r \in store \ (first \union Delivered \union PageRows) :
        /\ ended \/ Rank(r, store) < after
        /\ \E d \in Delivered : Precedes(r, d)

\* A row that arrived behind the end of the page under way.
PageLag ==
    \E r \in store \ seen :
        /\ Rank(r, store) < after + Len(page.rows)
        /\ \E p \in PageRows : Precedes(r, p)

\* The entries are where they are in the result.
Exact ==
    /\ \A i \in DOMAIN entries : Rank(entries[i], store) = i - 1
    /\ ended => Delivered = seen \/ (request.limit = 0 /\ Len(entries) = DefaultLimit)

PageExact == \A i \in DOMAIN page.rows : Rank(page.rows[i], store) = after + i - 1

WalkInv == (Lag \/ Exact) /\ (Lag \/ PageLag \/ PageExact)

IInv == TypeOK /\ CursorInv /\ (gone = {} => SetsInv /\ WalkInv)

-----------------------------------------------------------------------------
(***************************************************************************)
(* What moving rows cost a walk that has handed out k entries, the rows D, *)
(* when S are the rows of the store, G those dropped and F those of its    *)
(* first page's store. These invariants are inductive relative to IInv.    *)
(***************************************************************************)

\* Rows of the first page's store that were passed over.
Skipped(S, F, D, k) == {r \in (F \intersect S) \ D : Rank(r, S) < k}

\* Rows handed out that a later page will hold again.
Ahead(S, D, k) == {d \in D \intersect S : Rank(d, S) >= k}

\* Rows that arrived before one that was handed out.
Behind(A, F, D) == {r \in A \ F : \E d \in D : Precedes(r, d)}

Shift(S, G, F, D, k) ==
    /\ Cardinality(Skipped(S, F, D, k)) <= Cardinality(G)
    /\ k - Cardinality(D) + Cardinality(Ahead(S, D, k)) <= Cardinality(Behind(S \union G, F, D))

Left == (first \intersect store) \ (Delivered \union PageRows)

\* Every row that the walk knows is in the store or was dropped.
PlaceInv ==
    /\ gone \subseteq Times /\ gone \intersect store = {}
    /\ first \union Delivered \union PageRows \subseteq store \union gone

\* With and without the page under way; and a short page leaves no row behind
\* but for one that was dropped.
ShiftInv ==
    /\ Shift(store, gone, first, Delivered, Len(entries))
    /\ Shift(store, gone, first, Delivered \union PageRows, Len(entries) + Len(page.rows))
    /\ (ended /\ request.limit > 0) \/ (page # Idle /\ Len(page.rows) < EngineLimit) =>
          Cardinality(Left) <= Cardinality(gone)

ShiftIInv == IInv /\ PlaceInv /\ ShiftInv

-----------------------------------------------------------------------------
(***************************************************************************)
(* The order of the rows.                                                  *)
(***************************************************************************)

\* Before is a strict total order.
LEMMA BeforeIsOrder ==
    ASSUME TypeOK
    PROVE  \A a, b, c \in Times :
             /\ ~Precedes(a, a)
             /\ a # b => Precedes(a, b) \/ Precedes(b, a)
             /\ Precedes(a, b) /\ Precedes(b, c) => Precedes(a, c)
BY DEF TypeOK, Precedes, Times

\* Sets of rows can be counted.
LEMMA Counted ==
    ASSUME NEW S, S \subseteq Times
    PROVE  /\ IsFiniteSet(S) /\ Cardinality(S) \in Nat
           /\ \A r : IsFiniteSet({u \in S : Precedes(u, r)}) /\ Rank(r, S) \in Nat
<1>1. IsFiniteSet(Times)
  BY FS_Interval, PagingAssumption DEF Times
<1>2. \A T \in SUBSET Times : IsFiniteSet(T) /\ Cardinality(T) \in Nat
  BY <1>1, FS_Subset, FS_CardinalityType
<1> QED
  BY <1>2 DEF Rank

\* What follows has no fewer rows before it, and more if it follows one of them.
LEMMA RankGrows ==
    ASSUME TypeOK, NEW S, S \subseteq Times, NEW a \in Times, NEW b \in Times, Precedes(a, b)
    PROVE  /\ Rank(a, S) <= Rank(b, S)
           /\ a \in S => Rank(a, S) < Rank(b, S)
<1> DEFINE A == {u \in S : Precedes(u, a)}
           B == {u \in S : Precedes(u, b)}
<1>1. IsFiniteSet(A) /\ IsFiniteSet(B) /\ Cardinality(A) \in Nat /\ Cardinality(B) \in Nat
  BY Counted DEF Rank
<1>2. A \in SUBSET B
  BY BeforeIsOrder
<1>3. Cardinality(A) <= Cardinality(B) /\ (Cardinality(B) = Cardinality(A) => A = B)
  BY <1>1, <1>2, FS_Subset
<1>4. a \in S => a \in B /\ a \notin A
  BY BeforeIsOrder
<1> QED
  BY <1>1, <1>3, <1>4 DEF Rank

\* A row that arrives moves those that follow it.
LEMMA RankShifts ==
    ASSUME TypeOK, NEW S, S \subseteq Times, NEW t \in Times \ S, NEW r
    PROVE  Rank(r, S \union {t}) = IF Precedes(t, r) THEN Rank(r, S) + 1 ELSE Rank(r, S)
<1> DEFINE A == {u \in S : Precedes(u, r)}
           B == {u \in S \union {t} : Precedes(u, r)}
<1>1. IsFiniteSet(A) /\ t \notin A
  BY Counted
<1>2. CASE Precedes(t, r)
  <2>1. B = A \union {t}
    BY <1>2
  <2>2. Cardinality(A \union {t}) = Cardinality(A) + 1
    BY <1>1, FS_AddElement
  <2> QED
    BY <1>2, <2>1, <2>2 DEF Rank
<1>3. CASE ~Precedes(t, r)
  <2>1. B = A
    BY <1>3
  <2> QED
    BY <1>3, <2>1 DEF Rank
<1> QED
  BY <1>2, <1>3

\* Rows of different rank are different, so a sequence of them has as many rows
\* as entries.
LEMMA RankedSequence ==
    ASSUME NEW s \in Seq(Times), NEW S, \A i \in DOMAIN s : Rank(s[i], S) = i - 1
    PROVE  Cardinality({s[i] : i \in DOMAIN s}) = Len(s)
<1> DEFINE n == Len(s)
           T == {s[i] : i \in DOMAIN s}
<1>1. n \in Nat /\ DOMAIN s = 1..n /\ s \in [1..n -> T]
  BY DEF T
<1>2. \A i, j \in 1..n : s[i] = s[j] => i = j
  BY <1>1
<1>3. s \in Surjection(1..n, T) /\ s \in Injection(1..n, T)
  BY <1>1, <1>2 DEF Surjection, Injection, IsInjective
<1>4. IsFiniteSet(1..n) /\ Cardinality(1..n) = n
  <2> HIDE DEF n
  <2>1. n \in Nat
    BY <1>1
  <2> QED
    BY <2>1, FS_Interval
<1> QED
  BY <1>3, <1>4, FS_Surjection

-----------------------------------------------------------------------------
(***************************************************************************)
(* The steps.                                                              *)
(***************************************************************************)

\* The order of a walk does not change.
LEMMA SameOrder ==
    ASSUME request' = request
    PROVE  /\ \A a, b : Precedes(a, b)' <=> Precedes(a, b)
           /\ \A r : Rank(r, store)' = Rank(r, store')
BY DEF Precedes, Rank

\* The entries of a page and of the walk are rows.
LEMMA Entries ==
    ASSUME TypeOK
    PROVE  /\ Delivered \subseteq Times /\ PageRows \subseteq Times
           /\ \A i \in DOMAIN entries : entries[i] \in Times
           /\ \A i \in DOMAIN page.rows : page.rows[i] \in Times
           /\ DOMAIN entries = 1..Len(entries) /\ Len(entries) \in Nat
           /\ DOMAIN page.rows = 1..Len(page.rows) /\ Len(page.rows) \in Nat
BY DEF TypeOK, Delivered, PageRows

\* Before the first page there is nothing to be wrong.
LEMMA InitInv == WalkInit => IInv
<1> SUFFICES ASSUME WalkInit PROVE IInv
  OBVIOUS
<1>1. TypeOK /\ CursorInv
  <2>1. <<>> \in Seq(Times) /\ Len(<<>>) = 0
    OBVIOUS
  <2>2. TypeOK
    BY <2>1 DEF WalkInit, TypeOK, Idle, None, Times
  <2>3. CursorInv
    BY <2>1 DEF WalkInit, CursorInv, None
  <2> QED
    BY <2>2, <2>3
<1>2. Delivered = {} /\ PageRows = {} /\ DOMAIN entries = {} /\ DOMAIN page.rows = {}
  BY DEF WalkInit, Delivered, PageRows, Idle
<1>3. SetsInv /\ WalkInv
  BY <1>2 DEF WalkInit, SetsInv, WalkInv, Exact, PageExact
<1> QED
  BY <1>1, <1>3 DEF IInv

\* A row that arrives behind the cursor leaves the walk lagging; any other moves
\* only rows that are still to come.
LEMMA IngestKeeps == ASSUME IInv, NEW t \in Times, IngestRow(t) PROVE IInv'
<1>1. /\ t \notin store /\ store' = store \union {t}
      /\ UNCHANGED <<request, after, page, entries, ended, failures, first, seen, gone>>
  BY DEF IngestRow, callerVars
<1>2. TypeOK /\ CursorInv /\ TypeOK' /\ CursorInv'
  BY <1>1 DEF IInv, TypeOK, CursorInv, EngineLimit, Times
<1>3. Delivered' = Delivered /\ PageRows' = PageRows
  BY <1>1 DEF Delivered, PageRows
<1> SUFFICES ASSUME gone = {} PROVE SetsInv' /\ WalkInv'
  BY <1>1, <1>2 DEF IInv
<1>4. SetsInv /\ WalkInv /\ SetsInv'
  BY <1>1, <1>3 DEF IInv, SetsInv
<1>5. /\ \A r : Rank(r, store)' = IF Precedes(t, r) THEN Rank(r, store) + 1 ELSE Rank(r, store)
      /\ \A r : Rank(r, store) \in Nat
      /\ \A a, b : Precedes(a, b)' <=> Precedes(a, b)
  <2>1. store \subseteq Times /\ t \in Times \ store
    BY <1>1, <1>2 DEF TypeOK
  <2>2. \A r : Rank(r, store \union {t}) = IF Precedes(t, r) THEN Rank(r, store) + 1 ELSE Rank(r, store)
    BY <1>2, <2>1, RankShifts
  <2>3. \A r : Rank(r, store)' = Rank(r, store \union {t})
    BY <1>1, SameOrder
  <2>4. \A r : Rank(r, store) \in Nat
    BY <2>1, Counted
  <2>5. \A a, b : Precedes(a, b)' <=> Precedes(a, b)
    BY <1>1, SameOrder
  <2> QED
    BY <2>2, <2>3, <2>4, <2>5
<1>6. t \notin first \union Delivered \union PageRows \union seen /\ Rank(t, store)' = Rank(t, store)
  BY <1>1, <1>2, <1>4, <1>5, BeforeIsOrder DEF SetsInv
<1>7. Lag => Lag'
  <2> SUFFICES ASSUME NEW r \in store \ (first \union Delivered \union PageRows), NEW d \in Delivered,
                      ended \/ Rank(r, store) < after, Precedes(r, d)
               PROVE  Lag'
    BY DEF Lag
  <2>0. r \in Times /\ d \in Times /\ after \in Nat
    BY <1>2, Entries DEF TypeOK
  <2>1. CASE Precedes(t, r)
    <3>1. Precedes(t, d) /\ Rank(t, store) <= Rank(r, store)
      BY <1>2, <2>0, <2>1, BeforeIsOrder, RankGrows DEF TypeOK
    <3>2. ended \/ Rank(t, store) < after
      BY <1>5, <2>0, <3>1
    <3> QED
      BY <1>1, <1>3, <1>5, <1>6, <3>1, <3>2 DEF Lag
  <2>2. CASE ~Precedes(t, r)
    BY <1>1, <1>3, <1>5, <2>2 DEF Lag
  <2> QED
    BY <2>1, <2>2
<1>8. PageLag => PageLag'
  <2> SUFFICES ASSUME NEW r \in store \ seen, NEW p \in PageRows,
                      Rank(r, store) < after + Len(page.rows), Precedes(r, p)
               PROVE  PageLag'
    BY DEF PageLag
  <2>0. r \in Times /\ p \in Times /\ after \in Nat /\ Len(page.rows) \in Nat
    BY <1>2, Entries DEF TypeOK
  <2>1. CASE Precedes(t, r)
    <3>1. Precedes(t, p) /\ Rank(t, store) <= Rank(r, store)
      BY <1>2, <2>0, <2>1, BeforeIsOrder, RankGrows DEF TypeOK
    <3>2. Rank(t, store) < after + Len(page.rows)
      BY <1>5, <2>0, <3>1
    <3> QED
      BY <1>1, <1>3, <1>5, <1>6, <3>1, <3>2 DEF PageLag
  <2>2. CASE ~Precedes(t, r)
    BY <1>1, <1>3, <1>5, <2>2 DEF PageLag
  <2> QED
    BY <2>1, <2>2
<1>9. Exact => Lag' \/ Exact'
  <2> SUFFICES ASSUME Exact PROVE Lag' \/ Exact'
    OBVIOUS
  <2>1. CASE \E i \in DOMAIN entries : Precedes(t, entries[i])
    <3>1. PICK i \in DOMAIN entries : Precedes(t, entries[i])
      BY <2>1
    <3>2. entries[i] \in Times /\ entries[i] \in Delivered /\ i \in 1..Len(entries)
      BY <1>2, Entries DEF Delivered
    <3>3. Rank(t, store) <= Rank(entries[i], store) /\ Rank(entries[i], store) = i - 1
      BY <1>2, <3>1, <3>2, RankGrows DEF TypeOK, Exact
    <3>4. ended \/ Rank(t, store) < after
      BY <1>2, <1>5, <3>2, <3>3, Entries DEF CursorInv
    <3> QED
      BY <1>1, <1>3, <1>5, <1>6, <3>1, <3>2, <3>4 DEF Lag
  <2>2. CASE \A i \in DOMAIN entries : ~Precedes(t, entries[i])
    BY <1>1, <1>3, <1>5, <2>2 DEF Exact
  <2> QED
    BY <2>1, <2>2
<1>10. PageExact => PageLag' \/ PageExact'
  <2> SUFFICES ASSUME PageExact PROVE PageLag' \/ PageExact'
    OBVIOUS
  <2>1. CASE \E i \in DOMAIN page.rows : Precedes(t, page.rows[i])
    <3>1. PICK i \in DOMAIN page.rows : Precedes(t, page.rows[i])
      BY <2>1
    <3>2. page.rows[i] \in Times /\ page.rows[i] \in PageRows /\ i \in 1..Len(page.rows)
      BY <1>2, Entries DEF PageRows
    <3>3. Rank(t, store) <= Rank(page.rows[i], store) /\ Rank(page.rows[i], store) = after + i - 1
      BY <1>2, <3>1, <3>2, RankGrows DEF TypeOK, PageExact
    <3>4. Rank(t, store) < after + Len(page.rows)
      <4>1. after \in Nat /\ Len(page.rows) \in Nat /\ Rank(t, store) \in Nat
        BY <1>2, <1>5, Entries DEF TypeOK
      <4> QED
        BY <3>2, <3>3, <4>1
    <3> QED
      BY <1>1, <1>3, <1>5, <1>6, <3>1, <3>2, <3>4 DEF PageLag
  <2>2. CASE \A i \in DOMAIN page.rows : ~Precedes(t, page.rows[i])
    BY <1>1, <1>5, <2>2 DEF PageExact
  <2> QED
    BY <2>1, <2>2
<1> QED
  BY <1>4, <1>7, <1>8, <1>9, <1>10 DEF WalkInv

\* Once a row is dropped, nothing is claimed.
LEMMA ExpireKeeps == ASSUME IInv, Expire PROVE IInv'
<1>1. gone' # {} /\ store' \subseteq store
      /\ UNCHANGED <<request, after, page, entries, ended, failures, first, seen>>
  BY DEF Expire, callerVars
<1>2. TypeOK' /\ CursorInv'
  BY <1>1 DEF IInv, TypeOK, CursorInv, EngineLimit
<1> QED
  BY <1>1, <1>2 DEF IInv

\* A page continues an exact walk, and does not reach back to a row that was
\* overtaken.
LEMMA QueryPageKeeps == ASSUME IInv, QueryPage PROVE IInv'
<1> DEFINE n == PageSize(after)
<1>1. PICK rows \in RowsAfter(after) :
        page' = [rows |-> rows, next |-> NextCursor(request.limit, after, Len(rows))]
  BY DEF QueryPage
<1>2. /\ page = Idle /\ ~ended /\ seen' = store
      /\ first' = IF entries = <<>> THEN store ELSE first
      /\ UNCHANGED <<request, store, after, entries, ended, failures, gone>>
  BY DEF QueryPage
<1>t. TypeOK /\ CursorInv
  BY DEF IInv
<1>3. /\ request.limit \in Nat /\ EngineLimit \in Nat \ {0} /\ EngineLimit' = EngineLimit
      /\ after \in Nat /\ Cardinality(store) \in Nat
  <2>1. request.limit \in Nat /\ request' = request
    BY <1>t, <1>2, PagingAssumption DEF TypeOK
  <2>2. after \in Nat /\ Cardinality(store) \in Nat
    BY <1>t, Counted DEF TypeOK
  <2>3. EngineLimit \in Nat \ {0} /\ EngineLimit' = EngineLimit
    BY <2>1, PagingAssumption DEF EngineLimit
  <2> QED
    BY <2>1, <2>2, <2>3
<1>4. n \in Nat /\ (n = EngineLimit \/ after + n >= Cardinality(store))
  BY <1>3 DEF PageSize
<1> HIDE DEF n
<1>5. /\ rows \in [1..n -> store] /\ DOMAIN rows = 1..n /\ Len(rows) = n
      /\ rows \in Seq(Times)
      /\ \A i \in DOMAIN rows : Rank(rows[i], store) = after + i - 1
  <2>1. rows \in [1..n -> store] /\ \A i \in DOMAIN rows : Rank(rows[i], store) = after + i - 1
    BY DEF RowsAfter, n
  <2>2. rows \in [1..n -> Times]
    BY <1>t, <2>1 DEF TypeOK
  <2>3. rows \in Seq(Times)
    BY <1>4, <2>2
  <2> QED
    BY <1>4, <2>1, <2>3
<1>6. page'.rows = rows /\ page'.next = NextCursor(request.limit, after, n) /\ page'.next \in Nat
  BY <1>1, <1>3, <1>4, <1>5 DEF NextCursor, None
<1>7. TypeOK'
  <2>1. page' \in [rows : Seq(Times), next : Nat \union {-1}]
    BY <1>1, <1>5, <1>6
  <2> QED
    BY <1>t, <1>2, <2>1 DEF TypeOK
<1>8. CursorInv'
  BY <1>t, <1>2, <1>3, <1>4, <1>5, <1>6 DEF CursorInv
<1> SUFFICES ASSUME gone = {} PROVE SetsInv' /\ WalkInv'
  BY <1>2, <1>7, <1>8 DEF IInv
<1>9. Delivered' = Delivered /\ PageRows' = {rows[i] : i \in 1..n} /\ PageRows = {}
  BY <1>2, <1>5, <1>6 DEF Delivered, PageRows, Idle
<1>10. SetsInv /\ SetsInv'
  BY <1>2, <1>5, <1>9 DEF IInv, SetsInv
<1>11. /\ \A a, b : Precedes(a, b)' <=> Precedes(a, b)
       /\ \A r : Rank(r, store)' = Rank(r, store)
       /\ \A r : Rank(r, store) \in Nat
  BY <1>t, <1>2, SameOrder, Counted DEF TypeOK
<1>12. Lag => Lag'
  <2> SUFFICES ASSUME NEW r \in store \ (first \union Delivered), NEW d \in Delivered,
                      Rank(r, store) < after, Precedes(r, d)
               PROVE  Lag'
    BY <1>2 DEF Lag
  <2>1. first' = first
    BY <1>2 DEF Delivered
  <2>2. r \notin PageRows'
    BY <1>3, <1>4, <1>5, <1>9, <1>11
  <2> QED
    BY <1>2, <1>9, <1>11, <2>1, <2>2 DEF Lag
<1>13. Exact => Exact'
  BY <1>2, <1>11 DEF Exact
<1>14. PageExact'
  BY <1>2, <1>5, <1>6, <1>11 DEF PageExact
<1> QED
  BY <1>10, <1>12, <1>13, <1>14 DEF IInv, WalkInv

\* A page that fails leaves the walk where it was.
LEMMA PageFailsKeeps == ASSUME IInv, PageFails PROVE IInv'
<1>1. /\ page' = Idle /\ page # Idle
      /\ UNCHANGED <<request, store, after, entries, ended, gone, first, seen>>
  BY DEF PageFails
<1>t. TypeOK /\ CursorInv
  BY DEF IInv
<1>2. TypeOK'
  <2>1. <<>> \in Seq(Times)
    OBVIOUS
  <2> QED
    BY <1>t, <1>1, <2>1 DEF TypeOK, Idle
<1>3. CursorInv'
  BY <1>t, <1>1 DEF CursorInv
<1>4. Delivered' = Delivered /\ PageRows' = {} /\ DOMAIN page'.rows = {}
  BY <1>1 DEF Delivered, PageRows, Idle
<1>5. /\ \A a, b : Precedes(a, b)' <=> Precedes(a, b)
      /\ \A r : Rank(r, store)' = Rank(r, store)
  BY <1>1, SameOrder
<1>6. gone = {} => SetsInv'
  BY <1>1, <1>4 DEF IInv, SetsInv
<1>7. (Lag => Lag') /\ (Exact => Exact') /\ PageExact'
  BY <1>1, <1>4, <1>5 DEF Lag, Exact, PageExact
<1> QED
  BY <1>1, <1>2, <1>3, <1>6, <1>7 DEF IInv, WalkInv

\* The rows of a walk and of a page are those of the two together.
LEMMA ConcatenatedRows ==
    ASSUME TypeOK, entries' = entries \o page.rows
    PROVE  Delivered' = Delivered \union PageRows /\ Len(entries') = Len(entries) + Len(page.rows)
<1> DEFINE m == Len(entries)
           n == Len(page.rows)
<1>1. /\ m \in Nat /\ n \in Nat /\ DOMAIN entries = 1..m /\ DOMAIN page.rows = 1..n
      /\ Len(entries') = m + n /\ DOMAIN entries' = 1..(m + n)
      /\ \A i \in 1..m : entries'[i] = entries[i]
      /\ \A i \in (m + 1)..(m + n) : entries'[i] = page.rows[i - m]
  BY DEF TypeOK
<1> HIDE DEF m, n
<1>2. Delivered' \subseteq Delivered \union PageRows
  <2> SUFFICES ASSUME NEW i \in 1..(m + n) PROVE entries'[i] \in Delivered \union PageRows
    BY <1>1 DEF Delivered
  <2>1. CASE i \in 1..m
    BY <1>1, <2>1 DEF Delivered
  <2>2. CASE i \in (m + 1)..(m + n)
    <3>1. i - m \in 1..n
      BY <1>1, <2>2
    <3> QED
      BY <1>1, <2>2, <3>1 DEF PageRows
  <2> QED
    BY <1>1, <2>1, <2>2
<1>3. Delivered \subseteq Delivered'
  BY <1>1 DEF Delivered
<1>4. PageRows \subseteq Delivered'
  <2> SUFFICES ASSUME NEW i \in 1..n PROVE page.rows[i] \in Delivered'
    BY <1>1 DEF PageRows
  <2>1. m + i \in (m + 1)..(m + n) /\ m + i \in 1..(m + n) /\ (m + i) - m = i
    BY <1>1
  <2> QED
    BY <1>1, <2>1 DEF Delivered
<1> QED
  BY <1>1, <1>2, <1>3, <1>4 DEF m, n

\* A page that returns extends an exact walk, and ends it only when it has all
\* that it could see; a row that arrived behind the page is now overtaken.
LEMMA PageReturnsKeeps == ASSUME IInv, PageReturns PROVE IInv'
<1> DEFINE m == Len(entries)
           n == Len(page.rows)
<1>1. /\ page # Idle /\ page' = Idle /\ entries' = entries \o page.rows
      /\ after' = page.next /\ ended' = (page.next = 0)
      /\ UNCHANGED <<request, store, gone, first, seen>>
  BY DEF PageReturns, None
<1>t. TypeOK /\ CursorInv
  BY DEF IInv
<1>2. /\ ~ended /\ after = m /\ m \in Nat /\ n \in Nat /\ request.limit \in Nat
      /\ request.limit = 0 => entries = <<>>
      /\ n = EngineLimit \/ m + n >= Cardinality(seen)
  BY <1>t, <1>1, Entries, PagingAssumption DEF TypeOK, CursorInv
<1>3. IF ended' THEN request.limit = 0 \/ n < request.limit
                ELSE request.limit > 0 /\ after' = m + n
  <2>1. page.next = NextCursor(request.limit, m, n)
    BY <1>t, <1>1, <1>2 DEF CursorInv
  <2>2. CASE request.limit > 0 /\ n >= request.limit
    <3>1. page.next = m + n /\ m + n # 0
      BY <1>2, <2>1, <2>2 DEF NextCursor
    <3> QED
      BY <1>1, <2>2, <3>1
  <2>3. CASE ~(request.limit > 0 /\ n >= request.limit)
    <3>1. page.next = 0
      BY <2>1, <2>3 DEF NextCursor, None
    <3>2. request.limit = 0 \/ n < request.limit
      BY <1>2, <2>3
    <3> QED
      BY <1>1, <3>1, <3>2
  <2> QED
    BY <2>2, <2>3
<1>4. /\ entries' \in Seq(Times) /\ Len(entries') = m + n /\ DOMAIN entries' = 1..(m + n)
      /\ \A i \in 1..m : entries'[i] = entries[i]
      /\ \A i \in (m + 1)..(m + n) : entries'[i] = page.rows[i - m]
  BY <1>t, <1>1 DEF TypeOK
<1>5. TypeOK'
  <2>1. <<>> \in Seq(Times)
    OBVIOUS
  <2>2. after' \in Nat
    <3>1. page.next \in Nat \union {-1} /\ page.next # -1
      BY <1>t, <1>1 DEF TypeOK, CursorInv
    <3> QED
      BY <1>1, <3>1
  <2> QED
    BY <1>t, <1>1, <1>4, <2>1, <2>2 DEF TypeOK, Idle
<1>6. CursorInv'
  BY <1>1, <1>3, <1>4 DEF CursorInv
<1> SUFFICES ASSUME gone = {} PROVE SetsInv' /\ WalkInv'
  BY <1>1, <1>5, <1>6 DEF IInv
<1>7. Delivered' = Delivered \union PageRows /\ PageRows' = {} /\ DOMAIN page'.rows = {}
  BY <1>t, <1>1, ConcatenatedRows DEF PageRows, Idle
<1>8. SetsInv /\ SetsInv'
  BY <1>1, <1>7 DEF IInv, SetsInv
<1>9. /\ \A a, b : Precedes(a, b)' <=> Precedes(a, b)
      /\ \A r : Rank(r, store)' = Rank(r, store)
      /\ \A r : Rank(r, store) \in Nat
  BY <1>t, <1>1, SameOrder, Counted DEF TypeOK
<1>10. Lag => Lag'
  <2> SUFFICES ASSUME NEW r \in store \ (first \union Delivered \union PageRows), NEW d \in Delivered,
                      Rank(r, store) < after, Precedes(r, d)
               PROVE  Lag'
    BY <1>2 DEF Lag
  <2>1. ended' \/ Rank(r, store) < after'
    BY <1>2, <1>3, <1>9
  <2> QED
    BY <1>1, <1>7, <1>9, <2>1 DEF Lag
<1>11. PageLag => Lag'
  <2> SUFFICES ASSUME NEW r \in store \ seen, NEW p \in PageRows,
                      Rank(r, store) < after + n, Precedes(r, p)
               PROVE  Lag'
    BY DEF PageLag
  <2>1. ended' \/ Rank(r, store) < after'
    BY <1>2, <1>3, <1>9
  <2> QED
    BY <1>1, <1>7, <1>8, <1>9, <2>1 DEF Lag, SetsInv
<1>12. Exact /\ PageExact => Exact'
  <2> SUFFICES ASSUME Exact, PageExact PROVE Exact'
    OBVIOUS
  <2>1. ASSUME NEW i \in 1..(m + n) PROVE Rank(entries'[i], store) = i - 1
    <3>1. CASE i \in 1..m
      BY <1>t, <1>4, <3>1, Entries DEF Exact
    <3>2. CASE i \in (m + 1)..(m + n)
      <4>1. i - m \in 1..n /\ m + (i - m) - 1 = i - 1
        BY <1>2, <3>2
      <4>2. Rank(page.rows[i - m], store) = after + (i - m) - 1
        BY <1>t, <4>1, Entries DEF PageExact
      <4> QED
        BY <1>2, <1>4, <3>2, <4>1, <4>2
    <3> QED
      BY <1>2, <3>1, <3>2
  <2>2. m + n >= Cardinality(seen) => Delivered' = seen
    <3>1. Cardinality(Delivered') = m + n
      BY <1>4, <2>1, RankedSequence DEF Delivered
    <3>2. IsFiniteSet(seen) /\ Cardinality(seen) \in Nat /\ Delivered' \in SUBSET seen
      BY <1>t, <1>1, <1>8, Counted DEF TypeOK, SetsInv
    <3>3. Cardinality(Delivered') <= Cardinality(seen)
          /\ (Cardinality(seen) = Cardinality(Delivered') => seen = Delivered')
      BY <3>2, FS_Subset
    <3> QED
      BY <1>2, <3>1, <3>2, <3>3
  <2>3. ended' => Delivered' = seen \/ (request.limit = 0 /\ m + n = DefaultLimit)
    <3>1. CASE m + n >= Cardinality(seen)
      BY <2>2, <3>1
    <3>2. CASE n = EngineLimit /\ request.limit = 0
      <4>1. m = 0
        BY <1>2, <3>2
      <4> QED
        BY <1>2, <3>2, <4>1 DEF EngineLimit
    <3>3. CASE n = EngineLimit /\ request.limit # 0
      BY <1>2, <1>3, <3>3 DEF EngineLimit
    <3> QED
      BY <1>2, <3>1, <3>2, <3>3
  <2> QED
    BY <1>1, <1>4, <1>9, <2>1, <2>3 DEF Exact
<1>13. PageExact'
  BY <1>7 DEF PageExact
<1> QED
  BY <1>8, <1>10, <1>11, <1>12, <1>13 DEF IInv, WalkInv

\* Every step keeps the invariant.
LEMMA NextInv == IInv /\ [WalkNext]_walkVars => IInv'
<1> SUFFICES ASSUME IInv, [WalkNext]_walkVars PROVE IInv'
  OBVIOUS
<1>1. ASSUME NEW t \in 1..MaxTime, IngestRow(t) PROVE IInv'
  BY <1>1, IngestKeeps DEF Times
<1>2. CASE UNCHANGED walkVars
  <2>1. TypeOK' /\ CursorInv'
    BY <1>2 DEF walkVars, IInv, TypeOK, CursorInv, EngineLimit
  <2>2. Delivered' = Delivered /\ PageRows' = PageRows /\ gone' = gone
    BY <1>2 DEF walkVars, Delivered, PageRows
  <2>3. /\ \A a, b : Precedes(a, b)' <=> Precedes(a, b)
        /\ \A r : Rank(r, store)' = Rank(r, store)
    BY <1>2, SameOrder DEF walkVars
  <2>4. gone = {} => SetsInv' /\ WalkInv'
    BY <1>2, <2>2, <2>3 DEF walkVars, IInv, SetsInv, WalkInv, Lag, PageLag, Exact, PageExact
  <2> QED
    BY <2>1, <2>2, <2>4 DEF IInv
<1> QED
  BY <1>1, <1>2, ExpireKeeps, QueryPageKeeps, PageFailsKeeps, PageReturnsKeeps DEF WalkNext, WalkDone

\* It holds of the specification.
LEMMA Inductive == WalkSpec => []IInv
BY InitInv, NextInv, PTL DEF WalkSpec

-----------------------------------------------------------------------------
(***************************************************************************)
(* The theorem.                                                            *)
(***************************************************************************)

\* For any number of rows, whatever pages fail and whatever arrives ahead of the
\* cursor, the walk delivers the result row by row, and with any limit but 0 it
\* ends when it has all of it. (Without a limit it need not: the run page_no_limit.)
THEOREM WalkIsExactHolds == WalkSpec => []WalkIsExact
<1>1. ASSUME IInv PROVE WalkIsExact
  <2> SUFFICES ASSUME ~Overtaken, gone = {}
               PROVE  /\ \A i \in DOMAIN entries :
                            entries[i] \in store /\ Rank(entries[i], store) = i - 1
                      /\ ended /\ request.limit > 0 => Delivered = seen
    BY DEF WalkIsExact
  <2>1. ~Lag
    BY DEF Lag, Overtaken
  <2>2. Exact /\ SetsInv
    BY <1>1, <2>1 DEF IInv, WalkInv
  <2>3. \A i \in DOMAIN entries : entries[i] \in store
    BY <2>2 DEF SetsInv, Delivered
  <2> QED
    BY <2>2, <2>3 DEF Exact
<1> QED
  BY <1>1, Inductive, PTL

-----------------------------------------------------------------------------
(***************************************************************************)
(* Counting what moving rows cost.                                         *)
(***************************************************************************)

\* The smaller of two sets of rows has no more of them.
LEMMA CountGrows ==
    ASSUME NEW B, B \subseteq Times, NEW A, A \subseteq B
    PROVE  Cardinality(A) <= Cardinality(B) /\ Cardinality(A) \in Nat /\ Cardinality(B) \in Nat
<1>1. IsFiniteSet(B) /\ A \in SUBSET B /\ A \subseteq Times
  BY Counted
<1> QED
  BY <1>1, Counted, FS_Subset

\* No two rows have the same rank, and none has as many before it as there are.
LEMMA RankIsPlace ==
    ASSUME TypeOK, NEW S, S \subseteq Times
    PROVE  /\ \A a, b \in S : Rank(a, S) = Rank(b, S) => a = b
           /\ \A r \in S : Rank(r, S) < Cardinality(S)
<1>1. ASSUME NEW a \in S, NEW b \in S, a # b PROVE Rank(a, S) # Rank(b, S)
  <2>1. a \in Times /\ b \in Times /\ Rank(a, S) \in Nat /\ Rank(b, S) \in Nat
    BY Counted
  <2>2. CASE Precedes(a, b)
    BY <2>1, <2>2, RankGrows
  <2>3. CASE Precedes(b, a)
    BY <2>1, <2>3, RankGrows
  <2> QED
    BY <1>1, <2>1, <2>2, <2>3, BeforeIsOrder
<1>2. ASSUME NEW r \in S PROVE Rank(r, S) < Cardinality(S)
  <2> DEFINE A == {u \in S : Precedes(u, r)}
  <2>1. IsFiniteSet(S) /\ A \in SUBSET S /\ Cardinality(A) \in Nat /\ Cardinality(S) \in Nat
    BY Counted DEF Rank
  <2>2. A # S
    BY <1>2, BeforeIsOrder
  <2>3. Cardinality(A) <= Cardinality(S) /\ (Cardinality(S) = Cardinality(A) => S = A)
    BY <2>1, FS_Subset
  <2> QED
    BY <2>1, <2>2, <2>3 DEF Rank
<1> QED
  BY <1>1, <1>2

\* A set that grows only by rows of one rank grows by one at most.
LEMMA OneMore ==
    ASSUME TypeOK, NEW S, S \subseteq Times, NEW k, NEW A, A \subseteq Times, NEW T,
           T \subseteq A \union {r \in S : Rank(r, S) = k}
    PROVE  Cardinality(T) <= Cardinality(A) + 1
<1> DEFINE X == {r \in S : Rank(r, S) = k}
<1>0. IsFiniteSet(A) /\ Cardinality(A) \in Nat
  BY Counted
<1>1. CASE X = {}
  <2>1. T \subseteq A
    BY <1>1
  <2> QED
    BY <1>0, <2>1, CountGrows
<1>2. CASE X # {}
  <2>1. PICK x \in S : X = {x}
    BY <1>2, RankIsPlace
  <2>2. T \subseteq A \union {x} /\ A \union {x} \subseteq Times
    BY <2>1
  <2>3. Cardinality(T) <= Cardinality(A \union {x}) /\ Cardinality(T) \in Nat
    BY <2>2, CountGrows
  <2>4. Cardinality(A \union {x}) <= Cardinality(A) + 1
    <3>1. Cardinality(A \union {x}) = IF x \in A THEN Cardinality(A) ELSE Cardinality(A) + 1
      BY <1>0, FS_AddElement
    <3> QED
      BY <1>0, <3>1
  <2>5. Cardinality(A \union {x}) \in Nat
    BY <2>2, Counted
  <2> QED
    BY <1>0, <2>3, <2>4, <2>5
<1> QED
  BY <1>1, <1>2

\* The counts of a shift are numbers.
LEMMA ShiftNumbers ==
    ASSUME NEW S, S \subseteq Times, NEW G, G \subseteq Times, NEW F, NEW D, D \subseteq Times, NEW k
    PROVE  /\ Skipped(S, F, D, k) \subseteq Times /\ Ahead(S, D, k) \subseteq Times
           /\ Behind(S \union G, F, D) \subseteq Times
           /\ Cardinality(G) \in Nat /\ Cardinality(D) \in Nat
           /\ Cardinality(Skipped(S, F, D, k)) \in Nat /\ Cardinality(Ahead(S, D, k)) \in Nat
           /\ Cardinality(Behind(S \union G, F, D)) \in Nat
<1>1. /\ Skipped(S, F, D, k) \subseteq Times /\ Ahead(S, D, k) \subseteq Times
      /\ Behind(S \union G, F, D) \subseteq Times
  BY DEF Skipped, Ahead, Behind
<1> QED
  BY <1>1, Counted

\* A row that arrives behind what was handed out may bring one row of it up again;
\* it makes no page skip one.
LEMMA ArrivalShifts ==
    ASSUME TypeOK, NEW S, S \subseteq Times, NEW G, G \subseteq Times, NEW F, NEW D, D \subseteq Times,
           F \subseteq S \union G, D \subseteq S \union G,
           NEW k \in Nat, NEW t \in Times \ (S \union G), Shift(S, G, F, D, k)
    PROVE  Shift(S \union {t}, G, F, D, k)
<1> DEFINE Q == S \union {t}
<1>0. Q \subseteq Times /\ t \notin F /\ t \notin D /\ t \in Times \ S
  OBVIOUS
<1>1. \A r : Rank(r, Q) = IF Precedes(t, r) THEN Rank(r, S) + 1 ELSE Rank(r, S)
  BY <1>0, RankShifts
<1>2. \A r : Rank(r, S) \in Nat
  BY Counted
<1>n. /\ Cardinality(G) \in Nat /\ Cardinality(D) \in Nat
      /\ Skipped(S, F, D, k) \subseteq Times /\ Ahead(S, D, k) \subseteq Times
      /\ Cardinality(Skipped(S, F, D, k)) \in Nat /\ Cardinality(Skipped(Q, F, D, k)) \in Nat
      /\ Cardinality(Ahead(S, D, k)) \in Nat /\ Cardinality(Ahead(Q, D, k)) \in Nat
      /\ Cardinality(Behind(S \union G, F, D)) \in Nat /\ Cardinality(Behind(Q \union G, F, D)) \in Nat
      /\ Behind(S \union G, F, D) \subseteq Times
  BY <1>0, ShiftNumbers
<1>3. Cardinality(Skipped(Q, F, D, k)) <= Cardinality(Skipped(S, F, D, k))
  <2>1. Skipped(Q, F, D, k) \subseteq Skipped(S, F, D, k)
    <3> SUFFICES ASSUME NEW r \in (F \intersect Q) \ D, Rank(r, Q) < k
                 PROVE  r \in S /\ Rank(r, S) < k
      BY DEF Skipped
    <3>1. Rank(r, S) \in Nat /\ (Rank(r, Q) = Rank(r, S) \/ Rank(r, Q) = Rank(r, S) + 1)
      BY <1>1, <1>2
    <3> QED
      BY <1>0, <3>1
  <2> QED
    BY <1>n, <2>1, CountGrows
<1>4. CASE \E d \in D : Precedes(t, d)
  <2>1. Ahead(Q, D, k) \subseteq Ahead(S, D, k) \union {r \in S : Rank(r, S) = k - 1}
    <3> SUFFICES ASSUME NEW r \in D \intersect Q, Rank(r, Q) >= k
                 PROVE  r \in S /\ (Rank(r, S) >= k \/ Rank(r, S) = k - 1)
      BY DEF Ahead
    <3>1. Rank(r, S) \in Nat /\ (Rank(r, Q) = Rank(r, S) \/ Rank(r, Q) = Rank(r, S) + 1)
      BY <1>1, <1>2
    <3> QED
      BY <1>0, <3>1
  <2>2. Cardinality(Ahead(Q, D, k)) <= Cardinality(Ahead(S, D, k)) + 1
    BY <1>n, <2>1, OneMore
  <2>3. Behind(Q \union G, F, D) = Behind(S \union G, F, D) \union {t} /\ t \notin Behind(S \union G, F, D)
    BY <1>0, <1>4 DEF Behind
  <2>4. Cardinality(Behind(Q \union G, F, D)) = Cardinality(Behind(S \union G, F, D)) + 1
    BY <1>n, <2>3, Counted, FS_AddElement
  <2> QED
    BY <1>n, <1>3, <2>2, <2>4 DEF Shift
<1>5. CASE ~ \E d \in D : Precedes(t, d)
  <2>1. Ahead(Q, D, k) = Ahead(S, D, k)
    BY <1>0, <1>1, <1>5 DEF Ahead
  <2>2. Behind(Q \union G, F, D) = Behind(S \union G, F, D)
    BY <1>0, <1>5 DEF Behind
  <2> QED
    BY <1>n, <1>3, <2>1, <2>2 DEF Shift
<1> QED
  BY <1>4, <1>5

\* A row that is dropped may make a page skip one; it brings none up again.
LEMMA DropShifts ==
    ASSUME TypeOK, NEW S, S \subseteq Times, NEW G, G \subseteq Times, NEW F, NEW D, D \subseteq Times,
           G \intersect S = {}, NEW k \in Nat, NEW o \in S, Shift(S, G, F, D, k)
    PROVE  Shift(S \ {o}, G \union {o}, F, D, k)
<1> DEFINE Q == S \ {o}
           H == G \union {o}
<1>0. Q \subseteq Times /\ H \subseteq Times /\ o \in Times \ Q /\ Q \union {o} = S /\ Q \union H = S \union G
  OBVIOUS
<1>1. \A r : Rank(r, S) = IF Precedes(o, r) THEN Rank(r, Q) + 1 ELSE Rank(r, Q)
  BY <1>0, RankShifts
<1>2. \A r : Rank(r, S) \in Nat /\ Rank(r, Q) \in Nat
  BY <1>0, Counted
<1>n. /\ Cardinality(G) \in Nat /\ Cardinality(D) \in Nat
      /\ Skipped(S, F, D, k) \subseteq Times /\ Ahead(S, D, k) \subseteq Times
      /\ Cardinality(Skipped(S, F, D, k)) \in Nat /\ Cardinality(Skipped(Q, F, D, k)) \in Nat
      /\ Cardinality(Ahead(S, D, k)) \in Nat /\ Cardinality(Ahead(Q, D, k)) \in Nat
      /\ Cardinality(Behind(S \union G, F, D)) \in Nat
  BY <1>0, ShiftNumbers
<1>3. Cardinality(H) = Cardinality(G) + 1
  BY Counted, FS_AddElement
<1>d. \A r : /\ Rank(r, S) \in Nat /\ Rank(r, Q) \in Nat
             /\ Rank(r, S) = Rank(r, Q) \/ Rank(r, S) = Rank(r, Q) + 1
  BY <1>1, <1>2
<1>4. Skipped(Q, F, D, k) \subseteq Skipped(S, F, D, k) \union {r \in S : Rank(r, S) = k}
  <2> SUFFICES ASSUME NEW r \in (F \intersect Q) \ D, Rank(r, Q) < k
               PROVE  r \in S /\ (Rank(r, S) < k \/ Rank(r, S) = k)
    BY DEF Skipped
  <2> QED
    BY <1>0, <1>d
<1>5. Cardinality(Skipped(Q, F, D, k)) <= Cardinality(Skipped(S, F, D, k)) + 1
  BY <1>n, <1>4, OneMore
<1>6. Cardinality(Ahead(Q, D, k)) <= Cardinality(Ahead(S, D, k))
  <2>1. Ahead(Q, D, k) \subseteq Ahead(S, D, k)
    <3> SUFFICES ASSUME NEW r \in D \intersect Q, Rank(r, Q) >= k
                 PROVE  r \in S /\ Rank(r, S) >= k
      BY DEF Ahead
    <3> QED
      BY <1>0, <1>d
  <2> QED
    BY <1>n, <2>1, CountGrows
<1>7. Behind(Q \union H, F, D) = Behind(S \union G, F, D)
  BY <1>0
<1> QED
  BY <1>n, <1>3, <1>5, <1>6, <1>7 DEF Shift

\* A page hands out again what was ahead of its offset and within its reach.
LEMMA PageShifts ==
    ASSUME TypeOK, NEW G, G \subseteq Times, NEW F, NEW D, D \subseteq Times,
           NEW m \in Nat, NEW n \in Nat, NEW rows \in [1..n -> store],
           \A i \in 1..n : Rank(rows[i], store) = m + i - 1,
           NEW R, R = {rows[i] : i \in 1..n},
           Shift(store, G, F, D, m)
    PROVE  Shift(store, G, F, D \union R, m + n)
<1> DEFINE E == D \union R
<1>s. store \subseteq Times /\ R \subseteq store /\ E \subseteq Times
  BY DEF TypeOK
<1>n. /\ Cardinality(G) \in Nat /\ Cardinality(D) \in Nat /\ Cardinality(E) \in Nat
      /\ Skipped(store, F, D, m) \subseteq Times /\ Ahead(store, D, m) \subseteq Times
      /\ Ahead(store, E, m + n) \subseteq Times
      /\ Cardinality(Skipped(store, F, D, m)) \in Nat /\ Cardinality(Skipped(store, F, E, m + n)) \in Nat
      /\ Cardinality(Ahead(store, D, m)) \in Nat /\ Cardinality(Ahead(store, E, m + n)) \in Nat
      /\ Cardinality(Behind(store \union G, F, D)) \in Nat /\ Cardinality(Behind(store \union G, F, E)) \in Nat
      /\ Behind(store \union G, F, E) \subseteq Times
  BY <1>s, ShiftNumbers
<1>1. \A r \in store : Rank(r, store) \in Nat
  BY <1>s, Counted
<1>2. \A r \in R : Rank(r, store) >= m /\ Rank(r, store) < m + n
  BY <1>1
<1>3. \A r \in store : Rank(r, store) >= m /\ Rank(r, store) < m + n => r \in R
  <2> SUFFICES ASSUME NEW r \in store, Rank(r, store) >= m, Rank(r, store) < m + n PROVE r \in R
    OBVIOUS
  <2> DEFINE i == Rank(r, store) - m + 1
  <2>1. i \in 1..n /\ m + i - 1 = Rank(r, store)
    BY <1>1
  <2> HIDE DEF i
  <2>2. rows[i] \in store /\ Rank(rows[i], store) = Rank(r, store)
    BY <2>1
  <2>3. rows[i] = r
    BY <1>s, <2>2, RankIsPlace
  <2> QED
    BY <2>1, <2>3
<1>4. Cardinality(R) = n
  <2>1. rows \in [1..n -> R] /\ \A i, j \in 1..n : rows[i] = rows[j] => i = j
    <3>1. \A i, j \in 1..n : m + i - 1 = m + j - 1 => i = j
      OBVIOUS
    <3> QED
      BY <3>1
  <2>2. rows \in Surjection(1..n, R) /\ rows \in Injection(1..n, R)
    BY <2>1 DEF Surjection, Injection, IsInjective
  <2>3. IsFiniteSet(1..n) /\ Cardinality(1..n) = n
    BY FS_Interval
  <2> QED
    BY <2>2, <2>3, FS_Surjection
<1>5. Cardinality(E) = Cardinality(D) + n - Cardinality(R \intersect D) /\ Cardinality(R \intersect D) \in Nat
  <2>1. IsFiniteSet(D) /\ IsFiniteSet(R) /\ Cardinality(R \intersect D) \in Nat /\ R \intersect D = D \intersect R
    BY <1>s, Counted
  <2> QED
    <3>1. Cardinality(D \union R) = Cardinality(D) + Cardinality(R) - Cardinality(D \intersect R)
      BY <2>1, FS_Union
    <3> QED
      BY <1>4, <2>1, <3>1
<1>6. Cardinality(Skipped(store, F, E, m + n)) <= Cardinality(Skipped(store, F, D, m))
  <2>1. Skipped(store, F, E, m + n) \subseteq Skipped(store, F, D, m)
    <3> SUFFICES ASSUME NEW r \in (F \intersect store) \ E, Rank(r, store) < m + n
                 PROVE  Rank(r, store) < m
      BY DEF Skipped
    <3> QED
      BY <1>1, <1>3
  <2> QED
    BY <1>n, <2>1, CountGrows
<1>7. Cardinality(Ahead(store, E, m + n)) + Cardinality(R \intersect D) <= Cardinality(Ahead(store, D, m))
  <2> DEFINE A == Ahead(store, E, m + n)
             B == R \intersect D
  <2>1. A \intersect B = {}
    BY <1>1, <1>2 DEF Ahead
  <2>2. A \union B \subseteq Ahead(store, D, m)
    <3>1. ASSUME NEW r \in A PROVE r \in Ahead(store, D, m)
      <4>1. r \in store /\ r \in E /\ Rank(r, store) >= m + n
        BY <3>1 DEF Ahead
      <4>2. r \notin R
        BY <1>1, <1>2, <4>1
      <4>3. Rank(r, store) >= m
        BY <1>1, <4>1
      <4> QED
        BY <4>1, <4>2, <4>3 DEF Ahead
    <3>2. ASSUME NEW r \in B PROVE r \in Ahead(store, D, m)
      BY <1>s, <1>2, <3>2 DEF Ahead
    <3> QED
      BY <3>1, <3>2
  <2>3. Cardinality(A \union B) <= Cardinality(Ahead(store, D, m))
    BY <1>n, <2>2, CountGrows
  <2>4. IsFiniteSet(A) /\ IsFiniteSet(B)
    BY <1>s, <1>n, Counted
  <2>5. Cardinality(A) \in Nat /\ Cardinality(B) \in Nat /\ Cardinality(Ahead(store, D, m)) \in Nat
    BY <1>n, <1>5
  <2> HIDE DEF A, B
  <2>6. Cardinality(A \union B) = Cardinality(A) + Cardinality(B)
    <3>1. Cardinality(A \union B) = Cardinality(A) + Cardinality(B) - Cardinality(A \intersect B)
      BY <2>4, FS_Union
    <3>2. Cardinality(A \intersect B) = 0
      BY <2>1, FS_EmptySet
    <3> QED
      BY <2>5, <3>1, <3>2
  <2>7. Cardinality(A) + Cardinality(B) <= Cardinality(Ahead(store, D, m))
    BY <2>3, <2>6
  <2> QED
    BY <2>7 DEF A, B
<1>8. Cardinality(Behind(store \union G, F, D)) <= Cardinality(Behind(store \union G, F, E))
  <2>1. Behind(store \union G, F, D) \subseteq Behind(store \union G, F, E)
    BY DEF Behind
  <2> QED
    BY <1>n, <2>1, CountGrows
<1> QED
  <2>1. /\ Cardinality(Skipped(store, F, D, m)) <= Cardinality(G)
        /\ m - Cardinality(D) + Cardinality(Ahead(store, D, m)) <= Cardinality(Behind(store \union G, F, D))
    BY DEF Shift
  <2> DEFINE b == Cardinality(Behind(store \union G, F, D))
             c == Cardinality(Behind(store \union G, F, E))
             h == Cardinality(Ahead(store, D, m))
             g == Cardinality(Ahead(store, E, m + n))
             q == Cardinality(R \intersect D)
             u == Cardinality(D)
             v == Cardinality(E)
  <2>n. b \in Nat /\ c \in Nat /\ h \in Nat /\ g \in Nat /\ q \in Nat /\ u \in Nat /\ v \in Nat
    BY <1>n, <1>5
  <2>e. v = u + n - q /\ g + q <= h /\ b <= c /\ m - u + h <= b
    BY <1>5, <1>7, <1>8, <2>1
  <2>2. (m + n) - v + g <= c
    <3> HIDE DEF b, c, h, g, q, u, v
    <3> QED
      BY <2>n, <2>e
  <2>3. Cardinality(Skipped(store, F, E, m + n)) <= Cardinality(G)
    <3> DEFINE x == Cardinality(Skipped(store, F, E, m + n))
               y == Cardinality(Skipped(store, F, D, m))
               z == Cardinality(G)
    <3>1. x \in Nat /\ y \in Nat /\ z \in Nat /\ x <= y /\ y <= z
      BY <1>n, <1>6, <2>1
    <3> HIDE DEF x, y, z
    <3>2. x <= z
      BY <3>1
    <3> QED
      BY <3>2 DEF x, z
  <2> QED
    BY <2>2, <2>3 DEF Shift

-----------------------------------------------------------------------------
(***************************************************************************)
(* The steps, again.                                                       *)
(***************************************************************************)

\* A shift is counted in the order of the walk, which does not change.
LEMMA ShiftNext ==
    ASSUME request' = request,
           Shift(store', gone', first', Delivered', Len(entries')),
           Shift(store', gone', first', Delivered' \union PageRows', Len(entries') + Len(page'.rows)),
           (ended' /\ request.limit > 0) \/ (page' # Idle /\ Len(page'.rows) < EngineLimit) =>
               Cardinality(Left') <= Cardinality(gone')
    PROVE  ShiftInv'
<1>2. Shift(store, gone, first, Delivered, Len(entries))'
  BY DEF Shift, Skipped, Ahead, Behind, Rank, Precedes
<1>3. Shift(store, gone, first, Delivered \union PageRows, Len(entries) + Len(page.rows))'
  BY DEF Shift, Skipped, Ahead, Behind, Rank, Precedes
<1>4. EngineLimit' = EngineLimit /\ Idle' = Idle
  BY DEF EngineLimit, Idle
<1> QED
  BY <1>2, <1>3, <1>4 DEF ShiftInv

\* Before the first page nothing has moved.
LEMMA InitShift == WalkInit => ShiftIInv
<1> SUFFICES ASSUME WalkInit PROVE ShiftIInv
  OBVIOUS
<1>1. IInv /\ Delivered = {} /\ PageRows = {}
  BY InitInv DEF WalkInit, Delivered, PageRows, Idle
<1>2. first = {} /\ gone = {} /\ ~ended /\ page = Idle /\ Len(entries) = 0 /\ Len(page.rows) = 0
  BY DEF WalkInit, Idle
<1>3. PlaceInv
  BY <1>1, <1>2 DEF PlaceInv
<1>4. Shift(store, gone, first, {}, 0)
  <2>1. Skipped(store, first, {}, 0) = {} /\ Ahead(store, {}, 0) = {} /\ Behind(store \union gone, first, {}) = {}
    BY <1>2 DEF Skipped, Ahead, Behind
  <2>2. Cardinality({}) = 0 /\ 0 - 0 + 0 <= 0 /\ Cardinality(gone) = 0 /\ 0 <= 0
    BY <1>2, FS_EmptySet
  <2> QED
    BY <2>1, <2>2 DEF Shift
<1> QED
  BY <1>1, <1>2, <1>3, <1>4 DEF ShiftIInv, ShiftInv

\* What the invariants say of the sets and numbers.
LEMMA Places ==
    ASSUME ShiftIInv
    PROVE  /\ TypeOK /\ CursorInv /\ PlaceInv /\ ShiftInv
           /\ store \subseteq Times /\ gone \subseteq Times
           /\ Delivered \subseteq Times /\ Delivered \union PageRows \subseteq Times
           /\ Len(entries) \in Nat /\ Len(page.rows) \in Nat /\ Len(entries) + Len(page.rows) \in Nat
BY Entries DEF ShiftIInv, IInv, TypeOK, PlaceInv

\* A row arrives.
LEMMA IngestShift == ASSUME ShiftIInv, NEW t \in Times, IngestRow(t) PROVE PlaceInv' /\ ShiftInv'
<1>p. /\ TypeOK /\ PlaceInv /\ ShiftInv
      /\ store \subseteq Times /\ gone \subseteq Times
      /\ Delivered \subseteq Times /\ Delivered \union PageRows \subseteq Times
      /\ Len(entries) \in Nat /\ Len(entries) + Len(page.rows) \in Nat
  BY Places
<1>1. /\ t \in Times \ (store \union gone) /\ store' = store \union {t}
      /\ UNCHANGED <<request, after, page, entries, ended, failures, first, seen, gone>>
  BY DEF IngestRow, callerVars
<1>2. Delivered' = Delivered /\ PageRows' = PageRows
  BY <1>1 DEF Delivered, PageRows
<1>3. PlaceInv'
  BY <1>p, <1>1, <1>2 DEF PlaceInv
<1>4. /\ first \subseteq store \union gone /\ Delivered \subseteq store \union gone
      /\ Delivered \union PageRows \subseteq store \union gone
  BY <1>p DEF PlaceInv
<1>5. Shift(store', gone', first', Delivered', Len(entries'))
  <2>1. Shift(store \union {t}, gone, first, Delivered, Len(entries))
    BY <1>p, <1>1, <1>4, ArrivalShifts DEF ShiftInv
  <2> QED
    BY <1>1, <1>2, <2>1
<1>6. Shift(store', gone', first', Delivered' \union PageRows', Len(entries') + Len(page'.rows))
  <2>1. Shift(store \union {t}, gone, first, Delivered \union PageRows, Len(entries) + Len(page.rows))
    BY <1>p, <1>1, <1>4, ArrivalShifts DEF ShiftInv
  <2> QED
    BY <1>1, <1>2, <2>1
<1>7. Left' = Left
  BY <1>1, <1>2, <1>4 DEF Left
<1>8. (ended' /\ request.limit > 0) \/ (page' # Idle /\ Len(page'.rows) < EngineLimit) =>
          Cardinality(Left') <= Cardinality(gone')
  BY <1>p, <1>1, <1>7 DEF ShiftInv
<1> QED
  BY <1>1, <1>3, <1>5, <1>6, <1>8, ShiftNext

\* A row is dropped.
LEMMA ExpireShift == ASSUME ShiftIInv, Expire PROVE PlaceInv' /\ ShiftInv'
<1>p. /\ TypeOK /\ PlaceInv /\ ShiftInv
      /\ store \subseteq Times /\ gone \subseteq Times
      /\ Delivered \subseteq Times /\ Delivered \union PageRows \subseteq Times
      /\ Len(entries) \in Nat /\ Len(entries) + Len(page.rows) \in Nat
  BY Places
<1>1. PICK o \in store : store' = store \ {o} /\ gone' = gone \union {o}
  BY DEF Expire
<1>u. UNCHANGED <<request, after, page, entries, ended, failures, first, seen>>
  BY DEF Expire, callerVars
<1>2. Delivered' = Delivered /\ PageRows' = PageRows
  BY <1>u DEF Delivered, PageRows
<1>3. gone \intersect store = {} /\ first \union Delivered \union PageRows \subseteq store \union gone
  BY <1>p DEF PlaceInv
<1>4. PlaceInv'
  BY <1>p, <1>1, <1>u, <1>2, <1>3 DEF PlaceInv
<1>5. Shift(store', gone', first', Delivered', Len(entries'))
  <2>1. Shift(store \ {o}, gone \union {o}, first, Delivered, Len(entries))
    BY <1>p, <1>3, DropShifts DEF ShiftInv
  <2> QED
    BY <1>1, <1>u, <1>2, <2>1
<1>6. Shift(store', gone', first', Delivered' \union PageRows', Len(entries') + Len(page'.rows))
  <2>1. Shift(store \ {o}, gone \union {o}, first, Delivered \union PageRows, Len(entries) + Len(page.rows))
    BY <1>p, <1>3, DropShifts DEF ShiftInv
  <2> QED
    BY <1>1, <1>u, <1>2, <2>1
<1>7. Cardinality(Left') <= Cardinality(Left) /\ Cardinality(gone) <= Cardinality(gone')
      /\ Cardinality(Left') \in Nat /\ Cardinality(Left) \in Nat
      /\ Cardinality(gone) \in Nat /\ Cardinality(gone') \in Nat
  <2>1. Left' \subseteq Left /\ Left \subseteq Times /\ gone \subseteq gone' /\ gone' \subseteq Times
    BY <1>p, <1>1, <1>u, <1>2 DEF Left
  <2> QED
    BY <2>1, CountGrows
<1>8. (ended' /\ request.limit > 0) \/ (page' # Idle /\ Len(page'.rows) < EngineLimit) =>
          Cardinality(Left') <= Cardinality(gone')
  <2> SUFFICES ASSUME (ended /\ request.limit > 0) \/ (page # Idle /\ Len(page.rows) < EngineLimit)
               PROVE  Cardinality(Left') <= Cardinality(gone')
    BY <1>u
  <2>1. Cardinality(Left) <= Cardinality(gone)
    BY <1>p DEF ShiftInv
  <2> QED
    BY <1>7, <2>1
<1> QED
  BY <1>u, <1>4, <1>5, <1>6, <1>8, ShiftNext

\* A page is evaluated.
LEMMA QueryPageShift == ASSUME ShiftIInv, QueryPage PROVE PlaceInv' /\ ShiftInv'
<1> DEFINE m == Len(entries)
           n == PageSize(after)
<1>p. /\ TypeOK /\ CursorInv /\ PlaceInv /\ ShiftInv
      /\ store \subseteq Times /\ gone \subseteq Times /\ Delivered \subseteq Times /\ m \in Nat
  BY Places
<1>1. PICK rows \in RowsAfter(after) :
        page' = [rows |-> rows, next |-> NextCursor(request.limit, after, Len(rows))]
  BY DEF QueryPage
<1>2. /\ ~ended /\ first' = IF entries = <<>> THEN store ELSE first
      /\ UNCHANGED <<request, store, after, entries, ended, failures, gone>>
  BY DEF QueryPage
<1>3. after = m /\ EngineLimit \in Nat \ {0} /\ Cardinality(store) \in Nat
  <2>1. request.limit \in Nat
    BY <1>p, PagingAssumption DEF TypeOK
  <2>2. EngineLimit \in Nat \ {0}
    BY <2>1, PagingAssumption DEF EngineLimit
  <2> QED
    BY <1>p, <1>2, <2>2, Counted DEF CursorInv
<1>4. n \in Nat /\ (n < EngineLimit => m + n >= Cardinality(store))
  BY <1>p, <1>3 DEF PageSize
<1> HIDE DEF n
<1>5. /\ rows \in [1..n -> store] /\ \A i \in 1..n : Rank(rows[i], store) = m + i - 1
      /\ DOMAIN rows = 1..n /\ Len(rows) = n
  BY <1>3, <1>4 DEF RowsAfter, n
<1>6. /\ page'.rows = rows /\ Len(page'.rows) = n
      /\ Delivered' = Delivered /\ PageRows' = {rows[i] : i \in 1..n} /\ PageRows' \subseteq store
  BY <1>1, <1>2, <1>5 DEF Delivered, PageRows
<1>7. PlaceInv'
  BY <1>p, <1>2, <1>6 DEF PlaceInv
<1>8. Shift(store, gone, first', Delivered, m)
  <2>1. CASE entries # <<>>
    BY <1>p, <1>2, <2>1 DEF ShiftInv
  <2>2. CASE entries = <<>>
    <3>1. Delivered = {} /\ m = 0
      BY <2>2 DEF Delivered
    <3>2. \A r : Rank(r, store) \in Nat
      BY <1>p, Counted
    <3>3. Skipped(store, first', {}, 0) = {} /\ Ahead(store, {}, 0) = {}
          /\ Behind(store \union gone, first', {}) = {}
      BY <3>2 DEF Skipped, Ahead, Behind
    <3>4. Cardinality({}) = 0 /\ 0 - 0 + 0 <= 0 /\ Cardinality(gone) \in Nat /\ 0 <= Cardinality(gone)
      BY <1>p, Counted, FS_EmptySet
    <3> QED
      BY <3>1, <3>3, <3>4 DEF Shift
  <2> QED
    BY <2>1, <2>2
<1>9. Shift(store, gone, first', Delivered \union PageRows', m + n)
  <2>1. PICK F : F = first'
    OBVIOUS
  <2>2. Shift(store, gone, F, Delivered, m)
    BY <1>8, <2>1
  <2>3. PICK R : R = PageRows'
    OBVIOUS
  <2>4. Shift(store, gone, F, Delivered \union R, m + n)
    <3>1. m \in Nat /\ n \in Nat /\ gone \subseteq Times /\ Delivered \subseteq Times
      BY <1>p, <1>4
    <3>2. TypeOK /\ rows \in [1..n -> store] /\ \A i \in 1..n : Rank(rows[i], store) = m + i - 1
      BY <1>p, <1>5
    <3>3. R = {rows[i] : i \in 1..n}
      BY <1>6, <2>3
    <3> HIDE DEF m
    <3> QED
      BY <2>2, <3>1, <3>2, <3>3, PageShifts
  <2> QED
    BY <2>1, <2>3, <2>4
<1>10. n < EngineLimit => Cardinality(Left') <= Cardinality(gone)
  <2> SUFFICES ASSUME n < EngineLimit PROVE Cardinality(Left') <= Cardinality(gone)
    OBVIOUS
  <2> DEFINE E == Delivered \union PageRows'
  <2>1. \A r \in store : Rank(r, store) < m + n
    <3>1. \A r \in store : Rank(r, store) < Cardinality(store) /\ Rank(r, store) \in Nat
      BY <1>p, RankIsPlace, Counted
    <3> QED
      BY <1>p, <1>3, <1>4, <3>1
  <2>2. Left' = Skipped(store, first', E, m + n)
    BY <1>2, <1>6, <2>1 DEF Left, Skipped
  <2> QED
    BY <1>9, <2>2 DEF Shift
<1>11. (ended' /\ request.limit > 0) \/ (page' # Idle /\ Len(page'.rows) < EngineLimit) =>
           Cardinality(Left') <= Cardinality(gone')
  BY <1>2, <1>6, <1>10
<1>12. /\ Shift(store', gone', first', Delivered', Len(entries'))
       /\ Shift(store', gone', first', Delivered' \union PageRows', Len(entries') + Len(page'.rows))
  BY <1>2, <1>6, <1>8, <1>9
<1> QED
  BY <1>2, <1>7, <1>11, <1>12, ShiftNext

\* A page fails.
LEMMA PageFailsShift == ASSUME ShiftIInv, PageFails PROVE PlaceInv' /\ ShiftInv'
<1>p. CursorInv /\ PlaceInv /\ ShiftInv /\ Len(entries) \in Nat
  BY Places
<1>1. /\ page' = Idle /\ page # Idle
      /\ UNCHANGED <<request, store, after, entries, ended, gone, first, seen>>
  BY DEF PageFails
<1>2. ~ended /\ Delivered' = Delivered /\ PageRows' = {} /\ Len(page'.rows) = 0
  BY <1>p, <1>1 DEF CursorInv, Delivered, PageRows, Idle
<1>3. PlaceInv'
  BY <1>p, <1>1, <1>2 DEF PlaceInv
<1>4. Delivered' \union PageRows' = Delivered /\ Len(entries') + Len(page'.rows) = Len(entries)
  BY <1>p, <1>1, <1>2
<1>5. /\ Shift(store', gone', first', Delivered', Len(entries'))
      /\ Shift(store', gone', first', Delivered' \union PageRows', Len(entries') + Len(page'.rows))
  BY <1>p, <1>1, <1>2, <1>4 DEF ShiftInv
<1> QED
  BY <1>1, <1>2, <1>3, <1>5, ShiftNext

\* A page returns.
LEMMA PageReturnsShift == ASSUME ShiftIInv, PageReturns PROVE PlaceInv' /\ ShiftInv'
<1>p. /\ TypeOK /\ CursorInv /\ PlaceInv /\ ShiftInv
      /\ Len(entries) \in Nat /\ Len(page.rows) \in Nat
  BY Places
<1>1. /\ page # Idle /\ page' = Idle /\ entries' = entries \o page.rows
      /\ ended' = (page.next = 0)
      /\ UNCHANGED <<request, store, gone, first, seen>>
  BY DEF PageReturns, None
<1>2. /\ Delivered' = Delivered \union PageRows /\ PageRows' = {} /\ Len(page'.rows) = 0
      /\ Len(entries') = Len(entries) + Len(page.rows)
  BY <1>p, <1>1, ConcatenatedRows DEF PageRows, Idle
<1>3. PlaceInv'
  BY <1>p, <1>1, <1>2 DEF PlaceInv
<1>4. Delivered' \union PageRows' = Delivered \union PageRows
      /\ Len(entries') + Len(page'.rows) = Len(entries) + Len(page.rows)
  BY <1>p, <1>2
<1>5. /\ Shift(store', gone', first', Delivered', Len(entries'))
      /\ Shift(store', gone', first', Delivered' \union PageRows', Len(entries') + Len(page'.rows))
  BY <1>p, <1>1, <1>2, <1>4 DEF ShiftInv
<1>6. ended' /\ request.limit > 0 => Cardinality(Left') <= Cardinality(gone')
  <2> SUFFICES ASSUME ended', request.limit > 0 PROVE Cardinality(Left') <= Cardinality(gone')
    OBVIOUS
  <2>1. page.next = 0 /\ page.next = NextCursor(request.limit, Len(entries), Len(page.rows))
    BY <1>p, <1>1 DEF CursorInv
  <2>2. request.limit \in Nat /\ EngineLimit = request.limit
    BY <1>p, PagingAssumption DEF TypeOK, EngineLimit
  <2>3. Len(page.rows) < EngineLimit
    BY <1>p, <2>1, <2>2 DEF NextCursor
  <2>4. Cardinality(Left) <= Cardinality(gone) /\ Left' = Left
    BY <1>p, <1>1, <1>4, <2>3 DEF ShiftInv, Left
  <2> QED
    BY <1>1, <2>4
<1> QED
  BY <1>1, <1>3, <1>5, <1>6, ShiftNext

\* Every step keeps the counts.
LEMMA NextShift == ShiftIInv /\ [WalkNext]_walkVars => ShiftIInv'
<1> SUFFICES ASSUME ShiftIInv, [WalkNext]_walkVars PROVE ShiftIInv'
  OBVIOUS
<1> SUFFICES PlaceInv' /\ ShiftInv'
  BY NextInv DEF ShiftIInv
<1>1. ASSUME NEW t \in 1..MaxTime, IngestRow(t) PROVE PlaceInv' /\ ShiftInv'
  BY <1>1, IngestShift DEF Times
<1>2. CASE UNCHANGED walkVars
  <2>1. Delivered' = Delivered /\ PageRows' = PageRows /\ Left' = Left
    BY <1>2 DEF walkVars, Delivered, PageRows, Left
  <2>2. PlaceInv'
    BY <1>2, <2>1 DEF walkVars, ShiftIInv, PlaceInv
  <2>3. ShiftInv
    BY DEF ShiftIInv
  <2>4. request' = request /\ store' = store /\ gone' = gone /\ first' = first /\ entries' = entries
        /\ page' = page /\ ended' = ended
    BY <1>2 DEF walkVars
  <2>5. /\ Shift(store', gone', first', Delivered', Len(entries'))
        /\ Shift(store', gone', first', Delivered' \union PageRows', Len(entries') + Len(page'.rows))
        /\ (ended' /\ request.limit > 0) \/ (page' # Idle /\ Len(page'.rows) < EngineLimit) =>
              Cardinality(Left') <= Cardinality(gone')
    BY <2>1, <2>3, <2>4 DEF ShiftInv
  <2> QED
    BY <2>2, <2>4, <2>5, ShiftNext
<1>3. CASE Expire
  BY <1>3, ExpireShift
<1>4. CASE QueryPage
  BY <1>4, QueryPageShift
<1>5. CASE PageFails
  BY <1>5, PageFailsShift
<1>6. CASE PageReturns
  BY <1>6, PageReturnsShift
<1> QED
  BY <1>1, <1>2, <1>3, <1>4, <1>5, <1>6 DEF WalkNext, WalkDone

\* They hold of the specification.
LEMMA ShiftInductive == WalkSpec => []ShiftIInv
BY InitShift, NextShift, PTL DEF WalkSpec

\* For any number of rows and any limits, a row skipped is paid for by a row
\* that was dropped, and a row seen twice by one that arrived behind the cursor.
THEOREM ShiftsAreBoundedHolds == WalkSpec => []ShiftsAreBounded
<1>1. ASSUME ShiftIInv PROVE ShiftsAreBounded
  <2>p. /\ CursorInv /\ ShiftInv /\ store \subseteq Times /\ gone \subseteq Times /\ Delivered \subseteq Times
        /\ Len(entries) \in Nat
    BY <1>1, Places
  <2>1. ended /\ request.limit > 0 =>
            Cardinality((first \intersect store) \ Delivered) <= Cardinality(gone)
    <3> SUFFICES ASSUME ended, request.limit > 0
                 PROVE  Cardinality((first \intersect store) \ Delivered) <= Cardinality(gone)
      OBVIOUS
    <3>1. PageRows = {}
      BY <2>p DEF CursorInv, PageRows, Idle
    <3>2. Left = (first \intersect store) \ Delivered
      BY <3>1 DEF Left
    <3> QED
      BY <2>p, <3>2 DEF ShiftInv
  <2>2. Len(entries) - Cardinality(Delivered) <= Cardinality(Behind(store \union gone, first, Delivered))
    <3> DEFINE a == Cardinality(Ahead(store, Delivered, Len(entries)))
               b == Cardinality(Behind(store \union gone, first, Delivered))
               c == Cardinality(Delivered)
    <3>1. a \in Nat /\ b \in Nat /\ c \in Nat
      BY <2>p, ShiftNumbers
    <3>2. Len(entries) - c + a <= b
      BY <2>p DEF ShiftInv, Shift
    <3> HIDE DEF a, b, c
    <3>3. Len(entries) - c <= b
      BY <2>p, <3>1, <3>2
    <3> QED
      BY <3>3 DEF b, c
  <2> QED
    BY <2>1, <2>2 DEF ShiftsAreBounded, Behind
<1> QED
  BY <1>1, ShiftInductive, PTL
=============================================================================
