-------------------------- MODULE FeedReplay_proofs --------------------------
(***************************************************************************)
(* Proofs about FeedReplay.  First what sorting and merging candle files   *)
(* does to them; then types, the windows of sessions, and the replay.      *)
(***************************************************************************)
EXTENDS FeedReplay, FiniteSetTheorems, FunctionTheorems, TLAPS

-----------------------------------------------------------------------------
(* Sorting rows                                                            *)

\* A file of n rows has n positions.
LEMMA CountTo ==
  ASSUME NEW n \in Nat
  PROVE  IsFiniteSet(1..n) /\ Cardinality(1..n) = n
<1>1. 1 \in Int /\ n \in Int /\ (1 > n => n = 0) /\ (~(1 > n) => n - 1 + 1 = n)
  OBVIOUS
<1>2. IsFiniteSet(1..n)
  BY <1>1, FS_Interval
<1> QED
  BY <1>1, <1>2, FS_Interval

\* Positions of a file are finitely many, and so are those kept of them.
LEMMA KeptFinite ==
  ASSUME NEW rows \in Seq(Candle), NEW kept \in SUBSET DOMAIN rows
  PROVE  /\ IsFiniteSet(kept) /\ Cardinality(kept) \in Nat
         /\ Cardinality(kept) <= Len(rows)
<1>1. DOMAIN rows = 1..Len(rows) /\ Len(rows) \in Nat
  OBVIOUS
<1>2. IsFiniteSet(1..Len(rows)) /\ Cardinality(1..Len(rows)) = Len(rows)
  BY <1>1, CountTo
<1> QED
  BY <1>1, <1>2, FS_Subset, FS_CardinalityType


\* The fields sorting looks at.
LEMMA RowTimes ==
  ASSUME NEW rows \in Seq(Candle), NEW i \in DOMAIN rows
  PROVE  i \in Nat /\ rows[i] \in Candle /\ rows[i].time \in Nat
<1>1. DOMAIN rows = 1..Len(rows) /\ Len(rows) \in Nat /\ rows[i] \in Candle
  OBVIOUS
<1> QED
  BY <1>1 DEF Candle

\* Precedes is a total order of positions.
LEMMA PrecedesOrder ==
  ASSUME NEW rows \in Seq(Candle), NEW i \in DOMAIN rows, NEW j \in DOMAIN rows
  PROVE  /\ ~Precedes(rows, i, i)
         /\ i # j => Precedes(rows, i, j) \/ Precedes(rows, j, i)
         /\ \A k \in DOMAIN rows :
              Precedes(rows, k, i) /\ Precedes(rows, i, j) => Precedes(rows, k, j)
<1>1. /\ i \in Nat /\ rows[i].time \in Nat /\ j \in Nat /\ rows[j].time \in Nat
      /\ \A k \in DOMAIN rows : k \in Nat /\ rows[k].time \in Nat
  BY RowTimes
<1> QED
  BY <1>1 DEF Precedes

\* The number of a kept row in the sorted file.
LEMMA PlaceRange ==
  ASSUME NEW rows \in Seq(Candle), NEW kept \in SUBSET DOMAIN rows, NEW i \in kept
  PROVE  Place(rows, kept, i) \in 1..Cardinality(kept)
<1> DEFINE earlier == {j \in kept : Precedes(rows, j, i)}
<1>1. IsFiniteSet(kept) /\ Cardinality(kept) \in Nat
  BY KeptFinite
<1>2. IsFiniteSet(kept \ {i}) /\ Cardinality(kept \ {i}) = Cardinality(kept) - 1
  BY <1>1, FS_RemoveElement
<1>3. earlier \subseteq kept \ {i}
  BY PrecedesOrder
<1>4. IsFiniteSet(earlier) /\ Cardinality(earlier) <= Cardinality(kept \ {i})
  BY <1>2, <1>3, FS_Subset
<1>5. Cardinality(earlier) \in Nat
  BY <1>4, FS_CardinalityType
<1>6. Place(rows, kept, i) = 1 + Cardinality(earlier)
  BY DEF Place
<1> HIDE DEF earlier
<1> QED
  BY <1>1, <1>2, <1>4, <1>5, <1>6

\* An earlier row gets a smaller number.
LEMMA PlaceGrows ==
  ASSUME NEW rows \in Seq(Candle), NEW kept \in SUBSET DOMAIN rows,
         NEW i \in kept, NEW j \in kept, Precedes(rows, i, j)
  PROVE  Place(rows, kept, i) < Place(rows, kept, j)
<1> DEFINE before(k) == {h \in kept : Precedes(rows, h, k)}
<1>1. IsFiniteSet(kept)
  BY KeptFinite
<1>2. \A k : before(k) \in SUBSET kept
  OBVIOUS
<1>3. /\ IsFiniteSet(before(i)) /\ Cardinality(before(i)) \in Nat
      /\ IsFiniteSet(before(j)) /\ Cardinality(before(j)) \in Nat
  BY <1>1, <1>2, FS_Subset, FS_CardinalityType
<1>4. i \notin before(i) /\ before(i) \cup {i} \subseteq before(j)
  BY PrecedesOrder
<1>5. Place(rows, kept, i) = 1 + Cardinality(before(i))
      /\ Place(rows, kept, j) = 1 + Cardinality(before(j))
  BY DEF Place
<1> HIDE DEF before
<1>6. Cardinality(before(i) \cup {i}) = Cardinality(before(i)) + 1
  BY <1>3, <1>4, FS_AddElement
<1>7. Cardinality(before(i) \cup {i}) <= Cardinality(before(j))
  BY <1>3, <1>4, FS_Subset
<1> QED
  BY <1>3, <1>5, <1>6, <1>7

\* Every number belongs to one kept row.
LEMMA PlacesFilled ==
  ASSUME NEW rows \in Seq(Candle), NEW kept \in SUBSET DOMAIN rows,
         NEW k \in 1..Cardinality(kept)
  PROVE  \E i \in kept : Place(rows, kept, i) = k
<1> DEFINE n == Cardinality(kept)
           f == [i \in kept |-> Place(rows, kept, i)]
<1>1. IsFiniteSet(kept) /\ n \in Nat
  BY KeptFinite
<1>2. f \in [kept -> 1..n]
  BY PlaceRange
<1>3. \A i, j \in kept : i # j => f[i] # f[j]
  <2> SUFFICES ASSUME NEW i \in kept, NEW j \in kept, i # j PROVE f[i] # f[j]
    OBVIOUS
  <2>1. Precedes(rows, i, j) \/ Precedes(rows, j, i)
    BY PrecedesOrder
  <2>2. Place(rows, kept, i) \in Int /\ Place(rows, kept, j) \in Int
    BY <1>1, PlaceRange
  <2>3. Place(rows, kept, i) < Place(rows, kept, j) \/ Place(rows, kept, j) < Place(rows, kept, i)
    BY <2>1, PlaceGrows
  <2> QED
    BY <2>2, <2>3
<1>4. f \in Injection(kept, 1..n)
  BY <1>2, <1>3 DEF Injection, IsInjective
<1>5. IsFiniteSet(1..n) /\ Cardinality(1..n) = n
  BY <1>1, CountTo
<1> HIDE DEF n, f
<1>6. Cardinality(kept) = n
  BY DEF n
<1>7. f \in Surjection(kept, 1..n)
  BY <1>4, <1>5, <1>6, FS_Injection
<1>8. k \in 1..n
  BY DEF n
<1>9. \E i \in kept : f[i] = k
  BY <1>7, <1>8 DEF Surjection
<1> QED
  BY <1>9 DEF f


\* A sorted file holds the kept rows, each once and in order.
LEMMA SortFacts ==
  ASSUME NEW rows \in Seq(Candle), NEW kept \in SUBSET DOMAIN rows
  PROVE  /\ SortRows(rows, kept) \in Seq(Candle)
         /\ Len(SortRows(rows, kept)) = Cardinality(kept)
         /\ \A k \in 1..Cardinality(kept) : \E i \in kept :
              Place(rows, kept, i) = k /\ SortRows(rows, kept)[k] = rows[i]
<1> DEFINE n == Cardinality(kept)
           sorted == SortRows(rows, kept)
<1>1. n \in Nat
  BY KeptFinite
<1>2. \A k \in 1..n : \E i \in kept : Place(rows, kept, i) = k /\ sorted[k] = rows[i]
  <2> SUFFICES ASSUME NEW k \in 1..n
               PROVE  \E i \in kept : Place(rows, kept, i) = k /\ sorted[k] = rows[i]
    OBVIOUS
  <2> DEFINE i == CHOOSE h \in kept : Place(rows, kept, h) = k
  <2>1. i \in kept /\ Place(rows, kept, i) = k
    BY PlacesFilled
  <2>2. sorted[k] = rows[i]
    BY DEF SortRows
  <2> QED
    BY <2>1, <2>2
<1>3. \A i \in kept : rows[i] \in Candle
  BY RowTimes
<1>4. sorted = [k \in 1..n |-> sorted[k]]
  BY DEF SortRows
<1> HIDE DEF n, sorted
<1>5. \A k \in 1..n : sorted[k] \in Candle
  BY <1>2, <1>3
<1>6. sorted \in [1..n -> Candle]
  BY <1>4, <1>5
<1>7. sorted \in Seq(Candle) /\ Len(sorted) = n
  BY <1>1, <1>6
<1> QED
  BY <1>2, <1>7 DEF n, sorted

\* Rows of different timestamps are sorted strictly.
LEMMA SortInOrder ==
  ASSUME NEW rows \in Seq(Candle), NEW kept \in SUBSET DOMAIN rows,
         \A i, j \in kept : i # j => rows[i].time # rows[j].time
  PROVE  InOrder(SortRows(rows, kept))
<1> DEFINE n == Cardinality(kept)
           sorted == SortRows(rows, kept)
<1>1. n \in Nat /\ DOMAIN sorted = 1..n
  BY KeptFinite, SortFacts
<1> SUFFICES ASSUME NEW k \in 1..n, NEW l \in 1..n, k < l
             PROVE  sorted[k].time < sorted[l].time
  BY <1>1 DEF InOrder
<1>2. PICK i \in kept : Place(rows, kept, i) = k /\ sorted[k] = rows[i]
  BY SortFacts
<1>3. PICK j \in kept : Place(rows, kept, j) = l /\ sorted[l] = rows[j]
  BY SortFacts
<1> HIDE DEF n, sorted
<1>4. k \in Int /\ l \in Int
  BY <1>1
<1>5. i # j
  BY <1>2, <1>3, <1>4
<1>6. ~Precedes(rows, j, i)
  <2> SUFFICES ASSUME Precedes(rows, j, i) PROVE FALSE
    OBVIOUS
  <2>1. l < k
    BY <1>2, <1>3, PlaceGrows
  <2> QED
    BY <1>4, <2>1
<1>7. Precedes(rows, i, j)
  BY <1>5, <1>6, PrecedesOrder
<1>8. rows[i].time # rows[j].time
  BY <1>5
<1> QED
  BY <1>2, <1>3, <1>7, <1>8 DEF Precedes

\* normalize_candles keeps every row.
LEMMA NormalizeKeeps ==
  ASSUME NEW rows \in Seq(Candle)
  PROVE  Normalize(rows) \in Seq(Candle) /\ Len(Normalize(rows)) = Len(rows)
<1>1. DOMAIN rows = 1..Len(rows) /\ Len(rows) \in Nat
  OBVIOUS
<1>2. Cardinality(DOMAIN rows) = Len(rows)
  BY <1>1, CountTo
<1>3. DOMAIN rows \in SUBSET DOMAIN rows
  OBVIOUS
<1> QED
  BY <1>2, <1>3, SortFacts DEF Normalize

\* A file in order is left as it is.
LEMMA NormalizeFixed ==
  ASSUME NEW rows \in Seq(Candle), InOrder(rows)
  PROVE  Normalize(rows) = rows
<1> DEFINE all == DOMAIN rows
<1>1. all = 1..Len(rows) /\ Len(rows) \in Nat
  OBVIOUS
<1>2. \A i, j \in all : Precedes(rows, j, i) <=> j < i
  <2> SUFFICES ASSUME NEW i \in all, NEW j \in all PROVE Precedes(rows, j, i) <=> j < i
    OBVIOUS
  <2>1. i \in Nat /\ j \in Nat /\ rows[i].time \in Nat /\ rows[j].time \in Nat
    BY RowTimes
  <2>2. /\ j < i => rows[j].time < rows[i].time
        /\ i < j => rows[i].time < rows[j].time
    BY DEF InOrder
  <2> QED
    BY <2>1, <2>2 DEF Precedes
<1>3. \A i \in all : Place(rows, all, i) = i
  <2> SUFFICES ASSUME NEW i \in all PROVE Place(rows, all, i) = i
    OBVIOUS
  <2>1. i \in 1..Len(rows) /\ i \in Nat
    BY <1>1
  <2>2. {j \in all : Precedes(rows, j, i)} = 1..(i - 1)
    <3>1. {j \in all : Precedes(rows, j, i)} = {j \in all : j < i}
      BY <1>2
    <3>2. \A j \in 1..Len(rows) : j < i <=> j \in 1..(i - 1)
      BY <1>1, <2>1
    <3>3. 1..(i - 1) \subseteq 1..Len(rows)
      BY <1>1, <2>1
    <3>4. {j \in 1..Len(rows) : j < i} = 1..(i - 1)
      BY <3>2, <3>3
    <3> QED
      BY <1>1, <3>1, <3>4
  <2>3. Cardinality(1..(i - 1)) = i - 1
    <3>1. i - 1 \in Nat
      BY <2>1
    <3> QED
      BY <3>1, CountTo
  <2>4. Place(rows, all, i) = 1 + Cardinality({j \in all : Precedes(rows, j, i)})
    BY DEF Place
  <2>5. Place(rows, all, i) = 1 + (i - 1)
    BY <2>2, <2>3, <2>4, Zenon
  <2> QED
    BY <2>1, <2>5
<1>4. Len(Normalize(rows)) = Len(rows) /\ Normalize(rows) \in Seq(Candle)
  BY NormalizeKeeps
<1>5. \A k \in 1..Len(rows) : Normalize(rows)[k] = rows[k]
  <2> SUFFICES ASSUME NEW k \in 1..Len(rows) PROVE Normalize(rows)[k] = rows[k]
    OBVIOUS
  <2>1. Len(SortRows(rows, all)) = Cardinality(all) /\ all \in SUBSET DOMAIN rows
    BY SortFacts
  <2>2. k \in 1..Cardinality(all)
    BY <1>4, <2>1 DEF Normalize
  <2>3. PICK i \in all : Place(rows, all, i) = k /\ SortRows(rows, all)[k] = rows[i]
    BY <2>1, <2>2, SortFacts
  <2> QED
    BY <1>3, <2>3 DEF Normalize
<1> QED
  BY <1>1, <1>4, <1>5


\* The first and the last quotes of a file have a timestamp each.
LEMMA QuotesDiffer ==
  ASSUME NEW rows \in Seq(Candle)
  PROVE  /\ FirstQuotes(rows) \in SUBSET DOMAIN rows /\ LastQuotes(rows) \in SUBSET DOMAIN rows
         /\ \A i, j \in FirstQuotes(rows) : i # j => rows[i].time # rows[j].time
         /\ \A i, j \in LastQuotes(rows) : i # j => rows[i].time # rows[j].time
<1>1. DOMAIN rows = 1..Len(rows) /\ Len(rows) \in Nat
  OBVIOUS
<1>2. \A i, j \in 1..Len(rows) : i < j => i \in 1..(j - 1) /\ j \in (i + 1)..Len(rows)
  BY <1>1
<1>3. \A i, j \in 1..Len(rows) : i # j => i < j \/ j < i
  BY <1>1
<1>4. FirstQuotes(rows) \in SUBSET DOMAIN rows /\ LastQuotes(rows) \in SUBSET DOMAIN rows
  BY DEF FirstQuotes, LastQuotes
<1>5. \A i, j \in FirstQuotes(rows) : i # j => rows[i].time # rows[j].time
  BY <1>1, <1>2, <1>3 DEF FirstQuotes
<1>6. \A i, j \in LastQuotes(rows) : i # j => rows[i].time # rows[j].time
  BY <1>1, <1>2, <1>3 DEF LastQuotes
<1> QED
  BY <1>4, <1>5, <1>6

\* clean_candles_df puts any file in order, without duplicates.
LEMMA CleanSorts ==
  ASSUME NEW rows \in Seq(Candle)
  PROVE  CleanCandles(rows) \in Seq(Candle) /\ InOrder(CleanCandles(rows))
<1>1. PICK data : data = Normalize(rows) /\ data \in Seq(Candle)
  BY NormalizeKeeps
<1>2. CleanCandles(rows) = SortRows(data, LastQuotes(data))
  BY <1>1 DEF CleanCandles
<1>3. /\ LastQuotes(data) \in SUBSET DOMAIN data
      /\ \A i, j \in LastQuotes(data) : i # j => data[i].time # data[j].time
  BY <1>1, QuotesDiffer
<1> QED
  BY <1>1, <1>2, <1>3, SortFacts, SortInOrder

\* One file after another.
LEMMA Joined ==
  ASSUME NEW rows \in Seq(Candle), NEW more \in Seq(Candle)
  PROVE  /\ rows \o more \in Seq(Candle) /\ Len(rows \o more) = Len(rows) + Len(more)
         /\ \A i \in 1..Len(rows) : (rows \o more)[i] = rows[i]
OBVIOUS

\* append-candles leaves a file in order, which is empty only if both were.
LEMMA MergeSorts ==
  ASSUME NEW existing \in Seq(Candle), NEW incoming \in Seq(Candle)
  PROVE  /\ Merge(existing, incoming) \in Seq(Candle)
         /\ InOrder(Merge(existing, incoming))
         /\ Len(existing) >= 1 => Len(Merge(existing, incoming)) >= 1
<1>1. PICK known : /\ known = Normalize(existing) /\ known \in Seq(Candle)
                   /\ Len(known) = Len(existing)
  BY NormalizeKeeps
<1>2. PICK fresh : fresh = Normalize(incoming) /\ fresh \in Seq(Candle)
  BY NormalizeKeeps
<1>3. PICK all : /\ all = known \o fresh /\ all \in Seq(Candle)
                 /\ Len(all) = Len(known) + Len(fresh)
  <2>1. known \o fresh \in Seq(Candle) /\ Len(known \o fresh) = Len(known) + Len(fresh)
    BY <1>1, <1>2, Joined
  <2> QED
    BY <2>1, Zenon
<1>4. PICK kept : kept = FirstQuotes(all)
  OBVIOUS
<1>5. Merge(existing, incoming) = SortRows(all, kept)
  BY <1>1, <1>2, <1>3, <1>4 DEF Merge
<1>6. /\ kept \in SUBSET DOMAIN all
      /\ \A i, j \in kept : i # j => all[i].time # all[j].time
  BY <1>3, <1>4, QuotesDiffer
<1>7. SortRows(all, kept) \in Seq(Candle) /\ Len(SortRows(all, kept)) = Cardinality(kept)
  BY <1>3, <1>6, SortFacts
<1>8. ASSUME Len(existing) >= 1 PROVE Cardinality(kept) >= 1
  <2>1. 1 \in DOMAIN all /\ 1..(1 - 1) = {}
    BY <1>1, <1>2, <1>3, <1>8
  <2>2. 1 \in kept
    BY <1>4, <2>1 DEF FirstQuotes
  <2>3. IsFiniteSet(kept) /\ Cardinality(kept) \in Nat
    BY <1>3, <1>6, KeptFinite
  <2>4. Cardinality(kept) # 0
    BY <2>2, <2>3, FS_EmptySet
  <2> QED
    BY <2>3, <2>4
<1> QED
  BY <1>3, <1>5, <1>6, <1>7, <1>8, SortInOrder

\* If an append leaves the timestamps of the first n rows as they were, it
\* leaves the rows: a quote already in the file is never replaced.
LEMMA MergeKeepsRows ==
  ASSUME NEW existing \in Seq(Candle), NEW incoming \in Seq(Candle), NEW n \in Nat,
         SameUpTo(n, Normalize(existing), Merge(existing, incoming))
  PROVE  \A i \in 1..n : i <= Len(existing) =>
           /\ i <= Len(Merge(existing, incoming))
           /\ Merge(existing, incoming)[i] = Normalize(existing)[i]
<1>1. PICK known : /\ known = Normalize(existing) /\ known \in Seq(Candle)
                   /\ Len(known) = Len(existing)
  BY NormalizeKeeps
<1>2. PICK fresh : fresh = Normalize(incoming) /\ fresh \in Seq(Candle)
  BY NormalizeKeeps
<1>3. PICK all : /\ all = known \o fresh /\ all \in Seq(Candle)
                 /\ Len(all) = Len(known) + Len(fresh)
  <2>1. known \o fresh \in Seq(Candle) /\ Len(known \o fresh) = Len(known) + Len(fresh)
    BY <1>1, <1>2, Joined
  <2> QED
    BY <2>1, Zenon
<1>4. PICK kept : kept = FirstQuotes(all) /\ kept \in SUBSET DOMAIN all
  BY <1>3, QuotesDiffer
<1>5. PICK merged : /\ merged = Merge(existing, incoming)
                    /\ merged = SortRows(all, kept)
  BY <1>1, <1>2, <1>3, <1>4 DEF Merge
<1>6. /\ merged \in Seq(Candle) /\ InOrder(merged) /\ Len(merged) = Cardinality(kept)
  BY <1>3, <1>4, <1>5, MergeSorts, SortFacts
<1>7. \A i \in 1..Len(known) : all[i] = known[i]
  BY <1>1, <1>2, <1>3, Joined
<1>8. SameUpTo(n, known, merged)
  BY <1>1, <1>5
<1> SUFFICES ASSUME NEW i \in 1..n, i <= Len(known)
             PROVE  i <= Len(merged) /\ merged[i] = known[i]
  BY <1>1, <1>5
<1>9. i \in Nat /\ i >= 1 /\ i \in 1..Len(known) /\ Len(known) \in Nat /\ Len(merged) \in Nat
  BY <1>1, <1>6
<1>10. i \in 1..Len(merged) /\ known[i].time = merged[i].time
  BY <1>1, <1>6, <1>8, <1>9 DEF SameUpTo
<1>11. PICK m \in kept : merged[i] = all[m]
  <2>1. i \in 1..Cardinality(kept)
    BY <1>6, <1>10
  <2>2. \E m \in kept : Place(all, kept, m) = i /\ SortRows(all, kept)[i] = all[m]
    BY <1>3, <1>4, <2>1, SortFacts
  <2> QED
    BY <1>5, <2>2
<1>12. m \in Nat /\ m \in 1..Len(all) /\ all[m].time = all[i].time
  BY <1>3, <1>4, <1>7, <1>9, <1>10, <1>11
<1>13. ~(i < m)
  <2> SUFFICES ASSUME i < m PROVE FALSE
    OBVIOUS
  <2>1. i \in 1..(m - 1)
    BY <1>9, <1>12
  <2>2. all[i].time # all[m].time
    BY <1>4, <2>1 DEF FirstQuotes
  <2> QED
    BY <1>12, <2>2
<1>14. ~(m < i)
  <2> SUFFICES ASSUME m < i PROVE FALSE
    OBVIOUS
  <2>1. m \in 1..n /\ m \in 1..Len(known) /\ m \in 1..Len(merged)
    BY <1>9, <1>10, <1>12
  <2>2. known[m].time = merged[m].time
    BY <1>1, <1>8, <2>1 DEF SameUpTo
  <2>3. merged[m].time < merged[i].time
    <3>1. DOMAIN merged = 1..Len(merged)
      BY <1>6
    <3>2. \A a, b \in 1..Len(merged) : a < b => merged[a].time < merged[b].time
      BY <1>6, <3>1 DEF InOrder
    <3> QED
      BY <1>10, <2>1, <3>2
  <2>4. merged[m].time = merged[i].time
    BY <1>7, <1>11, <2>1, <2>2
  <2>5. merged[i].time \in Nat
    BY <1>6, <1>10, RowTimes
  <2> QED
    BY <2>3, <2>4, <2>5
<1>15. m = i
  BY <1>9, <1>12, <1>13, <1>14
<1> QED
  BY <1>7, <1>9, <1>10, <1>11, <1>15


-----------------------------------------------------------------------------
(* Types                                                                   *)

Windows == {<<>>} \cup (Nat \X Nat)
Cursors == [path : {Main, Other, "none"}, index : Nat, time : Nat]
Records == [planned : Windows, calm : BOOLEAN, recorded : Windows]
Plans == [mode : Modes \cup {"none"}, steps : Nat, window : Windows, calm : BOOLEAN]
Readers == [path : {Main, Other, "none"}, data : Seq(Candle), start : Nat, next : Nat,
            limit : Nat, window : Windows, calm : BOOLEAN]

\* A feed stays inside its rows and its limit; the session's has rows to read.
ReaderOK(r) == r \in Readers /\ r.start <= r.next /\ r.next <= Least(Len(r.data), r.start + r.limit)
SessionReaderOK(r) == r.path # "none" => r.start < Len(r.data) /\ r.limit >= 1

\* A session is planned over a file with rows, while no other session runs.
PlanOK ==
  plan # NoPlan => /\ plan.mode \in Modes /\ plan.steps >= 1
                   /\ Len(candles) >= 1 /\ ~IsOpen("session")

TypeInv ==
  /\ candles \in Seq(Candle) /\ collected \in Seq(Candle) /\ InOrder(collected)
  /\ cursor \in Cursors /\ history \in Seq(Records) /\ plan \in Plans
  /\ reader \in [Feeds -> Readers]
  /\ \A f \in Feeds : ReaderOK(reader[f])
  /\ SessionReaderOK(reader["session"])
  /\ PlanOK
  /\ planned \in 0..MaxSessions /\ commands \in 0..MaxCommands
  /\ consumed \in Seq(Candle) /\ disturbed \in BOOLEAN

\* The fields of a feed.
LEMMA ReaderFields ==
  ASSUME NEW r \in Readers
  PROVE  /\ r.path \in {Main, Other, "none"} /\ r.data \in Seq(Candle) /\ Len(r.data) \in Nat
         /\ r.start \in Nat /\ r.next \in Nat /\ r.limit \in Nat
         /\ r.window \in Windows /\ r.calm \in BOOLEAN
<1>1. r.data \in Seq(Candle)
  BY DEF Readers
<1> QED
  BY <1>1 DEF Readers

Advanced(r) == [r EXCEPT !.next = @ + 1]

\* get_next_candle moves a feed by one row.
LEMMA AdvancedFields ==
  ASSUME NEW r \in Readers
  PROVE  /\ Advanced(r) \in Readers
         /\ Advanced(r).path = r.path /\ Advanced(r).data = r.data
         /\ Advanced(r).start = r.start /\ Advanced(r).limit = r.limit
         /\ Advanced(r).window = r.window /\ Advanced(r).calm = r.calm
         /\ Advanced(r).next = r.next + 1
BY DEF Advanced, Readers

Unsettled(p) == [p EXCEPT !.calm = FALSE]

\* Another command unsettles a plan and changes nothing else of it.
LEMMA UnsettledFields ==
  ASSUME NEW p \in Plans
  PROVE  /\ Unsettled(p) \in Plans
         /\ Unsettled(p).mode = p.mode /\ Unsettled(p).steps = p.steps
         /\ Unsettled(p).window = p.window /\ Unsettled(p).calm = FALSE
         /\ Unsettled(p) # NoPlan => p # NoPlan
<1>1. /\ Unsettled(p) \in Plans
      /\ Unsettled(p).mode = p.mode /\ Unsettled(p).steps = p.steps
      /\ Unsettled(p).window = p.window /\ Unsettled(p).calm = FALSE
  BY DEF Unsettled, Plans
<1>2. NoPlan = [NoPlan EXCEPT !.calm = FALSE]
  <2>1. PICK c, w : c = FALSE /\ w = <<>>
    OBVIOUS
  <2>2. [[mode |-> "none", steps |-> 0, window |-> w, calm |-> c] EXCEPT !.calm = c]
        = [mode |-> "none", steps |-> 0, window |-> w, calm |-> c]
    OBVIOUS
  <2> QED
    BY <2>1, <2>2, Zenon DEF NoPlan
<1> QED
  BY <1>1, <1>2, Zenon DEF Unsettled

\* A feed that was just opened.
LEMMA OpenedFields ==
  ASSUME TypeInv, NEW path \in {Main, Other}, NEW start \in Nat, start <= Len(FileOf(path)),
         NEW limit \in Nat, NEW window \in Windows, NEW calm \in BOOLEAN
  PROVE  LET r == OpenFeed(path, start, limit, window, calm) IN
         /\ ReaderOK(r)
         /\ r.path = path /\ r.data = Normalize(FileOf(path)) /\ Len(r.data) = Len(FileOf(path))
         /\ r.start = start /\ r.next = start /\ r.limit = limit
         /\ r.window = window /\ r.calm = calm
<1>1. FileOf(path) \in Seq(Candle)
  BY FeedAssumption DEF FileOf, TypeInv
<1>2. Normalize(FileOf(path)) \in Seq(Candle)
      /\ Len(Normalize(FileOf(path))) = Len(FileOf(path))
  BY <1>1, NormalizeKeeps
<1> DEFINE r == OpenFeed(path, start, limit, window, calm)
<1>3. /\ r.path = path /\ r.data = Normalize(FileOf(path))
      /\ r.start = start /\ r.next = start /\ r.limit = limit
      /\ r.window = window /\ r.calm = calm
  BY DEF OpenFeed
<1>4. r \in Readers
  BY <1>2 DEF OpenFeed, Readers
<1> HIDE DEF r
<1>5. ReaderOK(r)
  <2>1. start <= Least(Len(Normalize(FileOf(path))), start + limit)
    BY <1>2 DEF Least
  <2> QED
    BY <1>3, <1>4, <2>1 DEF ReaderOK
<1> QED
  BY <1>2, <1>3, <1>5 DEF r

\* Where a feed starts there is a row to read, unless the file is empty.
LEMMA StartFacts ==
  ASSUME TypeInv, NEW mode \in Modes, NEW path \in {Main, Other},
         NEW start \in StartIndices(mode, path)
  PROVE  /\ start \in Nat /\ start <= Len(FileOf(path))
         /\ Len(FileOf(path)) >= 1 => start < Len(FileOf(path))
<1>1. PICK total \in Nat : total = Len(FileOf(path))
  <2>1. FileOf(path) \in Seq(Candle)
    BY FeedAssumption DEF FileOf, TypeInv
  <2> QED
    BY <2>1
<1>2. cursor.index \in Nat
  BY DEF TypeInv, Cursors
<1>3. mode \in {"resume", "reset", "random", "index"} /\ Window \in Nat /\ StartIndex \in Nat
  BY FeedAssumption
<1>4. CASE mode = "index"
  BY <1>1, <1>3, <1>4 DEF StartIndices
<1>5. CASE mode = "reset"
  BY <1>1, <1>5 DEF StartIndices
<1>6. CASE mode = "resume"
  <2>1. start = 0 \/ (start = cursor.index + 1 /\ start < total)
    BY <1>1, <1>6 DEF StartIndices
  <2> QED
    BY <1>1, <1>2, <2>1
<1>7. CASE mode = "random"
  <2> DEFINE lower == Least(Window, Most(1, total) - 1)
  <2>1. start \in (IF total = 0 THEN {0} ELSE lower..Most(lower, total - 1))
    BY <1>1, <1>7 DEF StartIndices
  <2>2. CASE total = 0
    BY <1>1, <2>1, <2>2
  <2>3. CASE total # 0
    <3>1. lower \in Nat /\ lower <= total - 1 /\ Most(lower, total - 1) = total - 1
      BY <1>1, <1>3, <2>3 DEF Least, Most
    <3> HIDE DEF lower
    <3>2. start \in lower..(total - 1)
      BY <2>1, <2>3, <3>1
    <3> QED
      BY <1>1, <3>1, <3>2
  <2> QED
    BY <2>2, <2>3
<1> QED
  BY <1>3, <1>4, <1>5, <1>6, <1>7


\* A feed replaced by another.
LEMMA ReaderReplaced ==
  ASSUME reader \in [Feeds -> Readers], NEW f \in Feeds, NEW r \in Readers
  PROVE  /\ [reader EXCEPT ![f] = r] \in [Feeds -> Readers]
         /\ [reader EXCEPT ![f] = r][f] = r
         /\ \A g \in Feeds : g # f => [reader EXCEPT ![f] = r][g] = reader[g]
OBVIOUS

\* A feed that is closed.
LEMMA ClosedFields ==
  /\ ReaderOK(Closed) /\ SessionReaderOK(Closed) /\ Closed.path = "none"
  /\ Closed.calm = FALSE
<1>1. /\ Closed.path = "none" /\ Closed.data = <<>> /\ Closed.start = 0 /\ Closed.next = 0
      /\ Closed.calm = FALSE
  BY DEF Closed
<1>2. <<>> \in Seq(Candle) /\ <<>> \in Windows /\ Len(<<>>) = 0
  BY DEF Windows
<1>3. Closed \in Readers /\ Closed.limit = 0
  BY <1>2 DEF Closed, Readers
<1> QED
  BY <1>1, <1>2, <1>3 DEF ReaderOK, SessionReaderOK, Least

\* A feed advances inside its rows.
LEMMA AdvancedOK ==
  ASSUME TypeInv, NEW f \in Feeds, HasNext(f)
  PROVE  /\ ReaderOK(Advanced(reader[f]))
         /\ SessionReaderOK(reader[f]) => SessionReaderOK(Advanced(reader[f]))
         /\ reader[f].data[reader[f].next + 1] \in Candle
         /\ reader[f].next + 1 <= Len(reader[f].data)
         /\ reader[f].next + 1 <= Least(Len(reader[f].data), reader[f].start + reader[f].limit)
<1>1. PICK r \in Readers : r = reader[f]
  BY DEF TypeInv
<1>2. r.start <= r.next
  BY <1>1 DEF TypeInv, ReaderOK
<1>3. /\ r.data \in Seq(Candle) /\ Len(r.data) \in Nat
      /\ r.start \in Nat /\ r.next \in Nat /\ r.limit \in Nat
  BY <1>1, ReaderFields
<1>4. r.next < Least(Len(r.data), r.start + r.limit)
  BY <1>1 DEF HasNext
<1>5. r.next + 1 \in 1..Len(r.data)
      /\ r.next + 1 <= Least(Len(r.data), r.start + r.limit)
  BY <1>3, <1>4 DEF Least
<1>6. r.data[r.next + 1] \in Candle
  BY <1>3, <1>5
<1>7. /\ Advanced(r) \in Readers /\ Advanced(r).start = r.start
      /\ Advanced(r).data = r.data /\ Advanced(r).next = r.next + 1
      /\ Advanced(r).path = r.path /\ Advanced(r).limit = r.limit
  BY AdvancedFields
<1>8. ReaderOK(Advanced(r))
  <2>1. r.start <= r.next + 1
    BY <1>2, <1>3
  <2> QED
    BY <1>5, <1>7, <2>1 DEF ReaderOK
<1>9. SessionReaderOK(r) => SessionReaderOK(Advanced(r))
  BY <1>7 DEF SessionReaderOK
<1> QED
  BY <1>1, <1>3, <1>5, <1>6, <1>8, <1>9

\* The window a session plans: two timestamps of the file.
LEMMA PlannedFields ==
  ASSUME TypeInv, NEW start \in Nat, start < Len(candles), NEW steps \in Nat, steps >= 1
  PROVE  LET last == Least(Len(candles), start + steps) IN
         /\ last \in 1..Len(candles) /\ start + 1 \in 1..Len(candles)
         /\ PlannedWindow(start, steps) = <<candles[start + 1].time, candles[last].time>>
         /\ PlannedWindow(start, steps) \in Windows
<1> DEFINE last == Least(Len(candles), start + steps)
           end == Least(Len(candles) - 1, start + steps - 1)
<1>1. candles \in Seq(Candle) /\ Len(candles) \in Nat
  BY DEF TypeInv
<1>2. last \in 1..Len(candles) /\ start + 1 \in 1..Len(candles) /\ end + 1 = last
  BY <1>1 DEF Least
<1>3. PlannedWindow(start, steps) = <<candles[start + 1].time, candles[end + 1].time>>
  BY DEF PlannedWindow
<1> HIDE DEF last, end
<1>4. PlannedWindow(start, steps) = <<candles[start + 1].time, candles[last].time>>
  BY <1>2, <1>3
<1>5. DOMAIN candles = 1..Len(candles)
  BY <1>1
<1>6. candles[start + 1].time \in Nat /\ candles[last].time \in Nat
  BY <1>1, <1>2, <1>5, RowTimes
<1>7. <<candles[start + 1].time, candles[last].time>> \in Windows
  BY <1>6 DEF Windows
<1> QED
  BY <1>2, <1>4, <1>7 DEF last

\* A session's step limit.
LEMMA StepsFacts ==
  ASSUME TypeInv, NEW start \in Nat
  PROVE  SessionSteps(start) \in Nat /\ SessionSteps(start) >= 1
<1>1. Len(candles) \in Nat /\ LiveMaxSteps \in Nat \ {0}
  BY FeedAssumption DEF TypeInv
<1> QED
  BY <1>1 DEF SessionSteps, Least, Most

Plan(mode, steps, window, calm) ==
  [mode |-> mode, steps |-> steps, window |-> window, calm |-> calm]

\* A new session's plan.
LEMMA PlanFields ==
  ASSUME NEW mode \in Modes, NEW steps \in Nat, NEW window \in Windows, NEW calm \in BOOLEAN
  PROVE  /\ Plan(mode, steps, window, calm) \in Plans
         /\ Plan(mode, steps, window, calm).mode = mode
         /\ Plan(mode, steps, window, calm).steps = steps
         /\ Plan(mode, steps, window, calm).window = window
         /\ Plan(mode, steps, window, calm).calm = calm
BY DEF Plan, Plans


-----------------------------------------------------------------------------
(* What each action does                                                   *)

\* A session is planned from a start that exists, over a window nobody used.
LEMMA PlanSessionEffect ==
  ASSUME TypeInv, PlanSession
  PROVE  /\ plan = NoPlan /\ ~IsOpen("session") /\ Len(candles) >= 1 /\ plan' # NoPlan
         /\ planned' = planned + 1 /\ planned < MaxSessions
         /\ UNCHANGED <<candles, collected, cursor, history, reader, commands, consumed, disturbed>>
         /\ plan' \in Plans /\ plan'.mode \in Modes /\ plan'.steps >= 1
         /\ plan'.calm => plan'.mode # "random" /\ candles = Normalize(candles)
         /\ ~WindowAlreadyUsed(plan'.window)
         /\ \E start \in StartIndices(plan'.mode, Main) :
              plan'.steps = SessionSteps(start) /\ plan'.window = PlannedWindow(start, plan'.steps)
<1>1. /\ plan = NoPlan /\ ~IsOpen("session") /\ planned < MaxSessions /\ Len(candles) >= Window
      /\ planned' = planned + 1
      /\ UNCHANGED <<candles, collected, cursor, history, reader, commands, consumed, disturbed>>
  BY DEF PlanSession
<1>2. Len(candles) \in Nat /\ Len(candles) >= 1
  BY <1>1, FeedAssumption DEF TypeInv
<1>3a. PICK mode \in Modes : \E start \in StartIndices(mode, Main) :
        LET steps == SessionSteps(start)
            window == PlannedWindow(start, steps) IN
        /\ ~WindowAlreadyUsed(window)
        /\ plan' = [mode |-> mode, steps |-> steps, window |-> window,
                    calm |-> mode # "random" /\ candles = Normalize(candles)]
  BY DEF PlanSession
<1>3. PICK start \in StartIndices(mode, Main) :
        LET steps == SessionSteps(start)
            window == PlannedWindow(start, steps) IN
        /\ ~WindowAlreadyUsed(window)
        /\ plan' = [mode |-> mode, steps |-> steps, window |-> window,
                    calm |-> mode # "random" /\ candles = Normalize(candles)]
  BY <1>3a
<1>4. PICK steps \in Nat : steps = SessionSteps(start) /\ steps >= 1
  BY StartFacts, StepsFacts
<1>5. start \in Nat /\ start < Len(candles)
  BY <1>2, StartFacts DEF FileOf
<1>6. PICK window \in Windows : window = PlannedWindow(start, steps)
  BY <1>4, <1>5, PlannedFields
<1>7. PICK calm \in BOOLEAN : calm = (mode # "random" /\ candles = Normalize(candles))
  OBVIOUS
<1>8. plan' = Plan(mode, steps, window, calm) /\ ~WindowAlreadyUsed(window)
  BY <1>3, <1>4, <1>6, <1>7, Zenon DEF Plan
<1>9. /\ plan' \in Plans /\ plan'.mode = mode /\ plan'.steps = steps /\ plan'.window = window
      /\ plan'.calm = calm
  BY <1>8, PlanFields
<1>10. plan' # NoPlan
  <2>1. NoPlan.steps = 0
    BY DEF NoPlan
  <2> QED
    BY <1>4, <1>9, <2>1
<1> HIDE <1>3
<1>11. plan'.calm => plan'.mode # "random" /\ candles = Normalize(candles)
  BY <1>7, <1>9
<1>12. plan'.steps = SessionSteps(start) /\ plan'.window = PlannedWindow(start, plan'.steps)
       /\ start \in StartIndices(plan'.mode, Main)
  BY <1>4, <1>6, <1>9, Zenon
<1> QED
  BY <1>1, <1>2, <1>4, <1>8, <1>9, <1>10, <1>11, <1>12

\* The session's feed opens where its mode says, or does not open.
LEMMA OpenSessionEffect ==
  ASSUME TypeInv, OpenSession
  PROVE  /\ plan # NoPlan /\ plan' = NoPlan
         /\ UNCHANGED <<candles, collected, cursor, history, planned, commands>>
         /\ \/ UNCHANGED <<reader, consumed, disturbed>>
            \/ /\ \E start \in StartIndices(plan.mode, Main) :
                    reader' = [reader EXCEPT !["session"] =
                                 OpenFeed(Main, start, plan.steps, plan.window, plan.calm)]
               /\ Disturb(plan.mode # "resume" \/ IsOpen("tool"))
BY DEF OpenSession

\* live-paper and collect-data open the other feed.
LEMMA OpenToolEffect ==
  ASSUME TypeInv, OpenTool
  PROVE  /\ ~IsOpen("tool") /\ OtherCommand
         /\ UNCHANGED <<candles, collected, cursor, history, planned>>
         /\ \E path \in {Main, Other}, mode \in Modes \cap {"resume", "reset"} :
              \E start \in StartIndices(mode, path) :
                /\ reader' = [reader EXCEPT !["tool"] =
                                OpenFeed(path, start, LiveMaxSteps, <<>>, FALSE)]
                /\ Disturb(path # Main \/ mode # "resume" \/ IsOpen("session"))
BY DEF OpenTool

\* A command beside the sessions.
LEMMA OtherCommandEffect ==
  ASSUME TypeInv, OtherCommand
  PROVE  /\ commands' \in 0..MaxCommands
         /\ plan' \in Plans /\ plan'.calm = FALSE
         /\ plan' # NoPlan => plan # NoPlan
         /\ plan'.mode = plan.mode /\ plan'.steps = plan.steps
<1>1. plan' = Unsettled(plan) /\ commands' = commands + 1 /\ commands < MaxCommands
  BY DEF OtherCommand, Unsettled
<1>2. plan \in Plans /\ commands \in 0..MaxCommands /\ MaxCommands \in Nat
  BY FeedAssumption DEF TypeInv
<1>3. commands' \in 0..MaxCommands
  BY <1>1, <1>2
<1> QED
  BY <1>1, <1>2, <1>3, UnsettledFields

\* A row is taken by an open feed, which advances.
LEMMA TakeEffect ==
  ASSUME TypeInv, NEW f \in Feeds, TakeCandle(f)
  PROVE  LET r == reader[f]
             row == r.data[r.next + 1] IN
         /\ IsOpen(f) /\ HasNext(f)
         /\ reader' = [reader EXCEPT ![f] = Advanced(r)]
         /\ cursor' = [path |-> r.path, index |-> r.next, time |-> row.time]
         /\ consumed' = IF disturbed THEN consumed ELSE Append(consumed, row)
         /\ collected' = IF f = "tool" THEN CleanCandles(Append(collected, row)) ELSE collected
         /\ plan' = IF f = "tool" THEN Unsettled(plan) ELSE plan
         /\ UNCHANGED <<candles, history, planned, commands, disturbed>>
<1>1. reader' = [reader EXCEPT ![f].next = @ + 1]
  BY DEF TakeCandle
<1>2. reader' = [reader EXCEPT ![f] = Advanced(reader[f])]
  BY <1>1 DEF Advanced
<1> QED
  BY <1>2 DEF TakeCandle, Unsettled


-----------------------------------------------------------------------------
(* Type correctness                                                        *)

\* A file holds nothing and nobody reads at first.
LEMMA TypeInit == Init => TypeInv
<1> SUFFICES ASSUME Init PROVE TypeInv
  OBVIOUS
<1>1. candles \in Seq(Candle) /\ collected = <<>> /\ consumed = <<>> /\ history = <<>>
  BY FeedAssumption DEF Init
<1>2. InOrder(collected)
  BY <1>1 DEF InOrder
<1>3. cursor \in Cursors
  BY DEF Init, NoCursor, Cursors
<1>4. plan = NoPlan /\ plan \in Plans
  BY DEF Init, NoPlan, Plans, Windows
<1>5. reader = [f \in Feeds |-> Closed] /\ ReaderOK(Closed) /\ SessionReaderOK(Closed)
  BY ClosedFields DEF Init
<1>6. Closed \in Readers
  BY <1>5 DEF ReaderOK
<1>7. reader \in [Feeds -> Readers] /\ \A f \in Feeds : reader[f] = Closed
  BY <1>5, <1>6
<1>8. SessionReaderOK(reader["session"]) /\ \A f \in Feeds : ReaderOK(reader[f])
  BY <1>5, <1>7 DEF Feeds
<1>9. PlanOK
  BY <1>4 DEF PlanOK
<1>10. planned = 0 /\ commands = 0 /\ MaxSessions \in Nat /\ MaxCommands \in Nat
  BY FeedAssumption DEF Init
<1>11. planned \in 0..MaxSessions /\ commands \in 0..MaxCommands
  BY <1>10
<1>12. disturbed \in BOOLEAN
  BY Zenon DEF Init
<1>13. collected \in Seq(Candle) /\ consumed \in Seq(Candle) /\ history \in Seq(Records)
  BY <1>1
<1> QED
  BY <1>1, <1>2, <1>3, <1>4, <1>7, <1>8, <1>9, <1>11, <1>12, <1>13 DEF TypeInv

\* Replacing one feed by a good one keeps the feeds good.
LEMMA ReaderStep ==
  ASSUME TypeInv, NEW f \in Feeds, NEW r, ReaderOK(r), f = "session" => SessionReaderOK(r),
         reader' = [reader EXCEPT ![f] = r]
  PROVE  /\ reader' \in [Feeds -> Readers]
         /\ reader'[f] = r /\ \A g \in Feeds : g # f => reader'[g] = reader[g]
         /\ \A g \in Feeds : ReaderOK(reader'[g])
         /\ SessionReaderOK(reader'["session"])
<1>1. r \in Readers /\ reader \in [Feeds -> Readers] /\ "session" \in Feeds
  BY DEF ReaderOK, TypeInv, Feeds
<1>2. /\ reader' \in [Feeds -> Readers]
      /\ reader'[f] = r /\ \A g \in Feeds : g # f => reader'[g] = reader[g]
  BY <1>1, ReaderReplaced, Zenon
<1>3. \A g \in Feeds : ReaderOK(reader[g])
  BY DEF TypeInv
<1>4. SessionReaderOK(reader["session"])
  BY DEF TypeInv
<1>5. \A g \in Feeds : ReaderOK(reader'[g])
  BY <1>2, <1>3, Zenon
<1>6. SessionReaderOK(reader'["session"])
  BY <1>1, <1>2, <1>4, Zenon
<1> QED
  BY <1>2, <1>5, <1>6

\* What Disturb leaves of the observations.
LEMMA DisturbTypes ==
  ASSUME TypeInv, NEW moved \in BOOLEAN, Disturb(moved)
  PROVE  consumed' \in Seq(Candle) /\ disturbed' \in BOOLEAN
BY DEF Disturb, TypeInv

\* A plan survives another command.
LEMMA PlanKept ==
  ASSUME TypeInv, OtherCommand, reader'["session"] = reader["session"],
         Len(candles) >= 1 => Len(candles') >= 1
  PROVE  PlanOK'
<1>1. /\ plan' # NoPlan => plan # NoPlan
      /\ plan'.mode = plan.mode /\ plan'.steps = plan.steps
  BY OtherCommandEffect
<1>2. PlanOK
  BY DEF TypeInv
<1>3. IsOpen("session")' <=> IsOpen("session")
  BY DEF IsOpen
<1> QED
  BY <1>1, <1>2, <1>3 DEF PlanOK


\* A feed's next row is not beyond its rows.
LEMMA NextInside ==
  ASSUME NEW r, ReaderOK(r)
  PROVE  r.next <= Len(r.data)
<1>1. Len(r.data) \in Nat /\ r.start \in Nat /\ r.next \in Nat /\ r.limit \in Nat
  BY ReaderFields DEF ReaderOK
<1>2. r.next <= Least(Len(r.data), r.start + r.limit)
  BY DEF ReaderOK
<1> QED
  BY <1>1, <1>2 DEF Least

\* A session ends at its limit or at the end of its rows, after one row at least.
LEMMA FinishFields ==
  ASSUME TypeInv, FinishSession
  PROVE  LET r == reader["session"] IN
         /\ r \in Readers /\ r.path # "none"
         /\ r.next = Least(Len(r.data), r.start + r.limit)
         /\ r.start + 1 \in 1..Len(r.data) /\ r.next \in 1..Len(r.data)
         /\ <<r.data[r.start + 1].time, r.data[r.next].time>> \in Windows
<1>1. PICK r \in Readers : r = reader["session"]
  BY DEF TypeInv, Feeds
<1>2. /\ r.data \in Seq(Candle) /\ Len(r.data) \in Nat
      /\ r.start \in Nat /\ r.next \in Nat /\ r.limit \in Nat
  BY ReaderFields
<1>3. ReaderOK(r) /\ SessionReaderOK(r)
  BY <1>1 DEF TypeInv, Feeds
<1>4. r.path # "none" /\ ~(r.next < Least(Len(r.data), r.start + r.limit))
  BY <1>1 DEF FinishSession, IsOpen, HasNext
<1>5. r.next = Least(Len(r.data), r.start + r.limit)
  BY <1>2, <1>3, <1>4 DEF ReaderOK, Least
<1>6. r.start < Len(r.data) /\ r.limit >= 1
  BY <1>3, <1>4 DEF SessionReaderOK
<1>7. r.start + 1 \in 1..Len(r.data) /\ r.next \in 1..Len(r.data)
  BY <1>2, <1>5, <1>6 DEF Least
<1>8. DOMAIN r.data = 1..Len(r.data)
  BY <1>2
<1>9. r.data[r.start + 1].time \in Nat /\ r.data[r.next].time \in Nat
  BY <1>2, <1>7, <1>8, RowTimes
<1>10. <<r.data[r.start + 1].time, r.data[r.next].time>> \in Windows
  BY <1>9 DEF Windows
<1> QED
  BY <1>1, <1>4, <1>5, <1>7, <1>10

\* Planning a session keeps the types.
LEMMA TypePlan ==
  ASSUME TypeInv, PlanSession
  PROVE  TypeInv'
<1>1. /\ ~IsOpen("session") /\ Len(candles) >= 1 /\ planned' = planned + 1 /\ planned < MaxSessions
      /\ UNCHANGED <<candles, collected, cursor, history, reader, commands, consumed, disturbed>>
      /\ plan' \in Plans /\ plan'.mode \in Modes /\ plan'.steps >= 1
  BY PlanSessionEffect
<1>2. planned' \in 0..MaxSessions
  BY <1>1, FeedAssumption DEF TypeInv
<1>3. PlanOK'
  BY <1>1 DEF PlanOK, IsOpen
<1>4. (\A f \in Feeds : ReaderOK(reader[f]))' /\ SessionReaderOK(reader["session"])'
      /\ InOrder(collected)'
  BY <1>1 DEF TypeInv
<1> QED
  BY <1>1, <1>2, <1>3, <1>4 DEF TypeInv

\* Opening the session's feed keeps the types.
LEMMA TypeOpenSession ==
  ASSUME TypeInv, OpenSession
  PROVE  TypeInv'
<1>1. /\ plan # NoPlan /\ plan' = NoPlan
      /\ UNCHANGED <<candles, collected, cursor, history, planned, commands>>
  BY OpenSessionEffect
<1>2. plan' \in Plans /\ PlanOK'
  BY <1>1 DEF NoPlan, Plans, Windows, PlanOK
<1>3. InOrder(collected)'
  BY <1>1 DEF TypeInv
<1>4. CASE UNCHANGED <<reader, consumed, disturbed>>
  <2>1. (\A f \in Feeds : ReaderOK(reader[f]))' /\ SessionReaderOK(reader["session"])'
    BY <1>4 DEF TypeInv
  <2> QED
    BY <1>1, <1>2, <1>3, <1>4, <2>1 DEF TypeInv
<1>5. CASE /\ \E start \in StartIndices(plan.mode, Main) :
                reader' = [reader EXCEPT !["session"] =
                             OpenFeed(Main, start, plan.steps, plan.window, plan.calm)]
           /\ Disturb(plan.mode # "resume" \/ IsOpen("tool"))
  <2>1. PICK start \in StartIndices(plan.mode, Main) :
          reader' = [reader EXCEPT !["session"] =
                       OpenFeed(Main, start, plan.steps, plan.window, plan.calm)]
    BY <1>5
  <2>2. /\ plan.mode \in Modes /\ plan.steps \in Nat /\ plan.steps >= 1 /\ Len(candles) >= 1
        /\ plan.window \in Windows /\ plan.calm \in BOOLEAN
    BY <1>1 DEF TypeInv, PlanOK, Plans
  <2>3. FileOf(Main) = candles
    BY DEF FileOf
  <2>4. start \in Nat /\ start < Len(candles) /\ start <= Len(FileOf(Main))
    BY <2>2, <2>3, StartFacts
  <2>5. PICK r : r = OpenFeed(Main, start, plan.steps, plan.window, plan.calm)
    OBVIOUS
  <2>6. ReaderOK(r) /\ Len(r.data) = Len(candles) /\ r.start = start /\ r.limit = plan.steps
    BY <2>2, <2>3, <2>4, <2>5, OpenedFields
  <2>7. SessionReaderOK(r)
    BY <2>2, <2>4, <2>6 DEF SessionReaderOK
  <2>8. "session" \in Feeds /\ reader' = [reader EXCEPT !["session"] = r]
    BY <2>1, <2>5 DEF Feeds
  <2>9. /\ reader' \in [Feeds -> Readers] /\ \A g \in Feeds : ReaderOK(reader'[g])
        /\ SessionReaderOK(reader'["session"])
    BY <2>6, <2>7, <2>8, ReaderStep
  <2>10. consumed' \in Seq(Candle) /\ disturbed' \in BOOLEAN
    BY <1>5, DisturbTypes
  <2> QED
    BY <1>1, <1>2, <1>3, <2>9, <2>10 DEF TypeInv
<1> QED
  BY <1>4, <1>5, OpenSessionEffect

\* Opening the other feed keeps the types.
LEMMA TypeOpenTool ==
  ASSUME TypeInv, OpenTool
  PROVE  TypeInv'
<1>1. OtherCommand /\ UNCHANGED <<candles, collected, cursor, history, planned>>
  BY OpenToolEffect
<1>2. PICK path \in {Main, Other}, mode \in Modes \cap {"resume", "reset"} :
        \E start \in StartIndices(mode, path) :
          /\ reader' = [reader EXCEPT !["tool"] = OpenFeed(path, start, LiveMaxSteps, <<>>, FALSE)]
          /\ Disturb(path # Main \/ mode # "resume" \/ IsOpen("session"))
  BY OpenToolEffect
<1>3. PICK start \in StartIndices(mode, path) :
        /\ reader' = [reader EXCEPT !["tool"] = OpenFeed(path, start, LiveMaxSteps, <<>>, FALSE)]
        /\ Disturb(path # Main \/ mode # "resume" \/ IsOpen("session"))
  BY <1>2
<1>4. start \in Nat /\ start <= Len(FileOf(path)) /\ LiveMaxSteps \in Nat /\ <<>> \in Windows
  BY StartFacts, FeedAssumption DEF Windows
<1>5. PICK r : r = OpenFeed(path, start, LiveMaxSteps, <<>>, FALSE)
  OBVIOUS
<1>6. ReaderOK(r)
  BY <1>4, <1>5, OpenedFields
<1>7. "tool" \in Feeds /\ "session" \in Feeds /\ reader' = [reader EXCEPT !["tool"] = r]
  BY <1>3, <1>5 DEF Feeds
<1>8. /\ reader' \in [Feeds -> Readers] /\ \A g \in Feeds : ReaderOK(reader'[g])
      /\ SessionReaderOK(reader'["session"]) /\ \A g \in Feeds : g # "tool" => reader'[g] = reader[g]
  BY <1>6, <1>7, ReaderStep
<1>9. reader'["session"] = reader["session"]
  BY <1>7, <1>8
<1>10. consumed' \in Seq(Candle) /\ disturbed' \in BOOLEAN
  BY <1>3, DisturbTypes
<1>11. PlanOK' /\ commands' \in 0..MaxCommands /\ plan' \in Plans
  BY <1>1, <1>9, PlanKept, OtherCommandEffect
<1>12. InOrder(collected)'
  BY <1>1 DEF TypeInv
<1> QED
  BY <1>1, <1>8, <1>10, <1>11, <1>12 DEF TypeInv


\* Taking a row keeps the types; what collect-data stores is in order.
LEMMA TypeTake ==
  ASSUME TypeInv, NEW f \in Feeds, TakeCandle(f)
  PROVE  TypeInv'
<1> DEFINE r == reader[f]
           row == r.data[r.next + 1]
<1>1. /\ IsOpen(f) /\ HasNext(f)
      /\ reader' = [reader EXCEPT ![f] = Advanced(r)]
      /\ cursor' = [path |-> r.path, index |-> r.next, time |-> row.time]
      /\ consumed' = IF disturbed THEN consumed ELSE Append(consumed, row)
      /\ collected' = IF f = "tool" THEN CleanCandles(Append(collected, row)) ELSE collected
      /\ plan' = IF f = "tool" THEN Unsettled(plan) ELSE plan
      /\ UNCHANGED <<candles, history, planned, commands, disturbed>>
  BY TakeEffect
<1>2. row \in Candle /\ ReaderOK(Advanced(r)) /\ (SessionReaderOK(r) => SessionReaderOK(Advanced(r)))
  BY <1>1, AdvancedOK
<1>3. f = "session" => SessionReaderOK(r)
  BY DEF TypeInv
<1>4. r \in Readers
  BY DEF TypeInv
<1> HIDE DEF row
<1>5. /\ reader' \in [Feeds -> Readers] /\ \A g \in Feeds : ReaderOK(reader'[g])
      /\ SessionReaderOK(reader'["session"])
      /\ reader'[f] = Advanced(r) /\ \A g \in Feeds : g # f => reader'[g] = reader[g]
  <2> HIDE DEF r
  <2>1. ReaderOK(Advanced(r)) /\ (f = "session" => SessionReaderOK(Advanced(r)))
    BY <1>2, <1>3
  <2> QED
    BY <1>1, <2>1, ReaderStep
<1>6. cursor' \in Cursors
  <2>1. r.path \in {Main, Other, "none"} /\ r.next \in Nat
    BY <1>4, ReaderFields
  <2>2. row.time \in Nat
    BY <1>2 DEF Candle
  <2> HIDE DEF r
  <2> QED
    BY <1>1, <2>1, <2>2 DEF Cursors
<1>7. consumed' \in Seq(Candle)
  BY <1>1, <1>2 DEF TypeInv
<1>8. collected' \in Seq(Candle) /\ InOrder(collected)'
  <2>1. CASE f = "tool"
    <3>1. Append(collected, row) \in Seq(Candle)
      BY <1>2 DEF TypeInv
    <3>2. PICK more \in Seq(Candle) : more = Append(collected, row)
      BY <3>1
    <3>3. collected' = CleanCandles(more)
      BY <1>1, <2>1, <3>2
    <3>4. CleanCandles(more) \in Seq(Candle) /\ InOrder(CleanCandles(more))
      BY CleanSorts
    <3> QED
      BY <3>3, <3>4 DEF InOrder
  <2>2. CASE f # "tool"
    <3>1. collected' = collected /\ collected \in Seq(Candle) /\ InOrder(collected)
      BY <1>1, <2>2 DEF TypeInv
    <3> QED
      BY <3>1 DEF InOrder
  <2> QED
    BY <2>1, <2>2
<1>9. plan' \in Plans /\ plan'.mode = plan.mode /\ plan'.steps = plan.steps
      /\ (plan' # NoPlan => plan # NoPlan)
  <2>1. plan \in Plans
    BY DEF TypeInv
  <2>2. CASE f = "tool"
    BY <1>1, <2>1, <2>2, UnsettledFields
  <2>3. CASE f # "tool"
    BY <1>1, <2>1, <2>3
  <2> QED
    BY <2>2, <2>3
<1>10. PlanOK'
  <2>1. ASSUME plan # NoPlan PROVE reader'["session"] = reader["session"]
    <3>1. ~IsOpen("session")
      BY <2>1 DEF TypeInv, PlanOK
    <3>2. f # "session"
      BY <1>1, <3>1
    <3> QED
      BY <1>5, <3>2 DEF Feeds
  <2>2. PlanOK
    BY DEF TypeInv
  <2> QED
    BY <1>1, <1>9, <2>1, <2>2 DEF PlanOK, IsOpen
<1>11. history' \in Seq(Records) /\ planned' \in 0..MaxSessions /\ commands' \in 0..MaxCommands
       /\ disturbed' \in BOOLEAN /\ candles' \in Seq(Candle)
  BY <1>1, Zenon DEF TypeInv
<1> QED
  BY <1>5, <1>6, <1>7, <1>8, <1>9, <1>10, <1>11 DEF TypeInv

\* Closing a feed keeps the types.
LEMMA TypeCloses ==
  ASSUME TypeInv, NEW f \in Feeds, reader[f].path # "none",
         reader' = [reader EXCEPT ![f] = Closed], history' \in Seq(Records),
         UNCHANGED <<candles, collected, cursor, plan, planned, commands, consumed, disturbed>>
  PROVE  TypeInv'
<1>1. ReaderOK(Closed) /\ SessionReaderOK(Closed)
  BY ClosedFields
<1>2. /\ reader' \in [Feeds -> Readers] /\ \A g \in Feeds : ReaderOK(reader'[g])
      /\ SessionReaderOK(reader'["session"])
      /\ reader'[f] = Closed /\ \A g \in Feeds : g # f => reader'[g] = reader[g]
  BY <1>1, ReaderStep
<1>3. PlanOK'
  <2>1. reader'["session"].path # "none" => reader["session"].path # "none"
    BY <1>2, ClosedFields DEF Feeds
  <2>2. PlanOK
    BY DEF TypeInv
  <2> QED
    BY <2>1, <2>2 DEF PlanOK, IsOpen
<1>4. InOrder(collected)'
  BY DEF TypeInv
<1> QED
  BY <1>2, <1>3, <1>4 DEF TypeInv

\* The end of a session keeps the types.
LEMMA TypeFinish ==
  ASSUME TypeInv, FinishSession
  PROVE  TypeInv'
<1>1. PICK r \in Readers : r = reader["session"]
  BY DEF TypeInv, Feeds
<1>2. PICK w \in Windows : w = <<r.data[r.start + 1].time, r.data[r.next].time>>
  BY <1>1, FinishFields
<1>3. history' = Append(history, [planned |-> r.window, calm |-> r.calm, recorded |-> w])
      /\ reader' = [reader EXCEPT !["session"] = Closed] /\ r.path # "none"
      /\ UNCHANGED <<candles, collected, cursor, plan, planned, commands, consumed, disturbed>>
  BY <1>1, <1>2 DEF FinishSession, IsOpen
<1>4. r.window \in Windows /\ r.calm \in BOOLEAN
  BY ReaderFields
<1>5. [planned |-> r.window, calm |-> r.calm, recorded |-> w] \in Records
  BY <1>4 DEF Records
<1>6. history' \in Seq(Records)
  BY <1>3, <1>5 DEF TypeInv
<1>7. "session" \in Feeds
  BY DEF Feeds
<1> QED
  BY <1>1, <1>3, <1>6, <1>7, TypeCloses

\* The end of any other feed keeps the types.
LEMMA TypeClose ==
  ASSUME TypeInv, NEW f \in Feeds, CloseFeed(f)
  PROVE  TypeInv'
<1>1. /\ reader[f].path # "none" /\ reader' = [reader EXCEPT ![f] = Closed] /\ history' = history
      /\ UNCHANGED <<candles, collected, cursor, plan, planned, commands, consumed, disturbed>>
  BY DEF CloseFeed, IsOpen
<1>2. history' \in Seq(Records)
  BY <1>1 DEF TypeInv
<1> QED
  BY <1>1, <1>2, TypeCloses

\* What append-candles does.
LEMMA AppendEffect ==
  ASSUME TypeInv, AppendCandles
  PROVE  /\ OtherCommand /\ UNCHANGED <<collected, cursor, history, reader, planned>>
         /\ \E incoming \in Seq(Candle) : candles' = Merge(candles, incoming)
         /\ LET known == Normalize(candles)
                taken == IF cursor.path = Main THEN cursor.index + 1 ELSE 0
                held == {Len(reader[f].data) : f \in {g \in Feeds : reader[g].path = Main}} IN
            Disturb(\E n \in {taken} \cup held : ~SameUpTo(n, known, candles'))
BY FeedAssumption DEF AppendCandles

\* append-candles keeps the types.
LEMMA TypeAppend ==
  ASSUME TypeInv, AppendCandles
  PROVE  TypeInv'
<1>1. OtherCommand /\ UNCHANGED <<collected, cursor, history, reader, planned>>
  BY AppendEffect
<1>2. PICK incoming \in Seq(Candle) : candles' = Merge(candles, incoming)
  BY AppendEffect
<1>3. candles' \in Seq(Candle) /\ (Len(candles) >= 1 => Len(candles') >= 1)
  BY <1>2, MergeSorts DEF TypeInv
<1>4. consumed' \in Seq(Candle) /\ disturbed' \in BOOLEAN
  BY AppendEffect, DisturbTypes
<1>5. PlanOK' /\ commands' \in 0..MaxCommands /\ plan' \in Plans
  BY <1>1, <1>3, PlanKept, OtherCommandEffect
<1>6. /\ (\A f \in Feeds : ReaderOK(reader[f]))' /\ SessionReaderOK(reader["session"])'
      /\ InOrder(collected)'
  BY <1>1 DEF TypeInv
<1> QED
  BY <1>1, <1>3, <1>4, <1>5, <1>6 DEF TypeInv

\* reset-feed-cursor keeps the types.
LEMMA TypeReset ==
  ASSUME TypeInv, ResetCursor
  PROVE  TypeInv'
<1>1. OtherCommand /\ cursor' = NoCursor
      /\ UNCHANGED <<candles, collected, history, reader, planned>> /\ Disturb(TRUE)
  BY DEF ResetCursor
<1>2. cursor' \in Cursors
  BY <1>1 DEF NoCursor, Cursors
<1>3. consumed' \in Seq(Candle) /\ disturbed' \in BOOLEAN
  BY <1>1, DisturbTypes
<1>4. PlanOK' /\ commands' \in 0..MaxCommands /\ plan' \in Plans
  BY <1>1, PlanKept, OtherCommandEffect
<1>5. /\ (\A f \in Feeds : ReaderOK(reader[f]))' /\ SessionReaderOK(reader["session"])'
      /\ InOrder(collected)'
  BY <1>1 DEF TypeInv
<1> QED
  BY <1>1, <1>2, <1>3, <1>4, <1>5 DEF TypeInv

\* A death inside the cursor's write keeps the types.
LEMMA TypeDie ==
  ASSUME TypeInv, NEW f \in Feeds, DieInCursorWrite(f)
  PROVE  TypeInv'
<1>1. /\ reader' = [reader EXCEPT ![f] = Closed] /\ cursor' = NoCursor
      /\ plan' = Unsettled(plan) /\ Disturb(TRUE)
      /\ UNCHANGED <<candles, collected, history, planned, commands>>
  BY DEF DieInCursorWrite, Unsettled
<1>2. cursor' \in Cursors
  BY <1>1 DEF NoCursor, Cursors
<1>3. consumed' \in Seq(Candle) /\ disturbed' \in BOOLEAN
  BY <1>1, DisturbTypes
<1>4. ReaderOK(Closed) /\ SessionReaderOK(Closed)
  BY ClosedFields
<1>5. /\ reader' \in [Feeds -> Readers] /\ \A g \in Feeds : ReaderOK(reader'[g])
      /\ SessionReaderOK(reader'["session"])
      /\ reader'[f] = Closed /\ \A g \in Feeds : g # f => reader'[g] = reader[g]
  BY <1>1, <1>4, ReaderStep
<1>6. /\ plan' \in Plans /\ (plan' # NoPlan => plan # NoPlan)
      /\ plan'.mode = plan.mode /\ plan'.steps = plan.steps
  BY <1>1, UnsettledFields DEF TypeInv
<1>7. PlanOK'
  <2>1. reader'["session"].path # "none" => reader["session"].path # "none"
    BY <1>5, ClosedFields DEF Feeds
  <2>2. PlanOK
    BY DEF TypeInv
  <2> QED
    BY <1>1, <1>6, <2>1, <2>2 DEF PlanOK, IsOpen
<1>8. InOrder(collected)'
  BY <1>1 DEF TypeInv
<1> QED
  BY <1>1, <1>2, <1>3, <1>5, <1>6, <1>7, <1>8 DEF TypeInv

\* Every step keeps the types.
LEMMA TypeStep == TypeInv /\ [Next]_vars => TypeInv'
<1> SUFFICES ASSUME TypeInv, [Next]_vars PROVE TypeInv'
  OBVIOUS
<1>1. CASE UNCHANGED vars
  <2>1. UNCHANGED <<candles, collected, cursor, history, plan, reader, planned, commands,
                    consumed, disturbed>>
    BY <1>1 DEF vars
  <2>2. PlanOK' /\ InOrder(collected)' /\ (\A f \in Feeds : ReaderOK(reader[f]))'
        /\ SessionReaderOK(reader["session"])'
    BY <2>1 DEF TypeInv, PlanOK, IsOpen
  <2> QED
    BY <2>1, <2>2 DEF TypeInv
<1> QED
  BY <1>1, TypePlan, TypeOpenSession, TypeOpenTool, TypeTake, TypeFinish, TypeClose,
     TypeDie, TypeAppend, TypeReset DEF Next

\* The types hold in every run.
THEOREM TypeInvariance == Spec => []TypeInv
BY TypeInit, TypeStep, PTL DEF Spec

\* The state is always well typed: open feeds stay inside their rows, and the
\* file collect-data rewrites is always in order without duplicates.
THEOREM TypeCorrect == Spec => []FeedTypeOK
<1>1. TypeInv => FeedTypeOK
  <2> SUFFICES ASSUME TypeInv PROVE FeedTypeOK
    OBVIOUS
  <2>1. InOrder(collected) /\ disturbed \in BOOLEAN
    BY DEF TypeInv
  <2>2. cursor.path \in {Main, Other, "none"} /\ plan.mode \in Modes \cup {"none"}
    BY DEF TypeInv, Cursors, Plans
  <2>3. \A f \in Feeds : reader[f].path \in {Main, Other, "none"}
                         /\ reader[f].start <= reader[f].next
                         /\ reader[f].next <= Len(reader[f].data)
    <3> SUFFICES ASSUME NEW f \in Feeds
                 PROVE  reader[f].path \in {Main, Other, "none"}
                        /\ reader[f].start <= reader[f].next
                        /\ reader[f].next <= Len(reader[f].data)
      OBVIOUS
    <3>1. reader[f] \in Readers /\ ReaderOK(reader[f])
      BY DEF TypeInv
    <3> QED
      BY <3>1, ReaderFields, NextInside DEF ReaderOK
  <2>4. planned <= MaxSessions /\ commands <= MaxCommands
    BY FeedAssumption DEF TypeInv
  <2> QED
    BY <2>1, <2>2, <2>3, <2>4 DEF FeedTypeOK
<1> QED
  BY <1>1, TypeInvariance, PTL


-----------------------------------------------------------------------------
(* The windows of sessions                                                 *)

\* A calm plan: its window belongs to the start its feed will get, in a file in
\* order, and no completed session has it.
CalmPlan ==
  plan.calm =>
    /\ plan # NoPlan /\ plan.mode # "random"
    /\ candles = Normalize(candles)
    /\ \E start \in StartIndices(plan.mode, Main) :
         plan.steps = SessionSteps(start) /\ plan.window = PlannedWindow(start, plan.steps)
    /\ ~WindowAlreadyUsed(plan.window)

\* A calm session: its feed reads the window it was checked for.
CalmReader ==
  LET r == reader["session"] IN
  r.path # "none" /\ r.calm =>
    /\ r.window = <<r.data[r.start + 1].time, r.data[Least(Len(r.data), r.start + r.limit)].time>>
    /\ ~WindowAlreadyUsed(r.window)

WindowsInv == CalmPlan /\ CalmReader /\ PlannedIsRecorded /\ NoWindowTwice

\* Every mode but "random" leaves a feed one start at most.
LEMMA OneStart ==
  ASSUME NEW mode \in Modes, mode # "random", NEW path \in {Main, Other},
         NEW i \in StartIndices(mode, path), NEW j \in StartIndices(mode, path)
  PROVE  i = j
<1>1. mode \in {"resume", "reset", "index"}
  BY FeedAssumption
<1> QED
  BY <1>1 DEF StartIndices

\* What a plan rests on: the file, the cursor and the log.
LEMMA CalmPlanKept ==
  ASSUME CalmPlan, UNCHANGED <<plan, candles, cursor, history>>
  PROVE  CalmPlan'
BY DEF CalmPlan, StartIndices, FileOf, SessionSteps, PlannedWindow, WindowAlreadyUsed

\* A plan another command came upon is not calm.
LEMMA UncalmPlan ==
  ASSUME plan'.calm = FALSE
  PROVE  CalmPlan'
BY DEF CalmPlan

\* What is known of the session's feed rests on its window and rows, and the log.
LEMMA CalmReaderKept ==
  ASSUME CalmReader, history' = history,
         LET r == reader["session"]
             s == reader'["session"] IN
         /\ s.path = r.path /\ s.calm = r.calm /\ s.window = r.window /\ s.data = r.data
         /\ s.start = r.start /\ s.limit = r.limit
  PROVE  CalmReader'
BY DEF CalmReader, WindowAlreadyUsed

\* The log's windows, while nothing is logged.
LEMMA LogKept ==
  ASSUME PlannedIsRecorded, NoWindowTwice, history' = history
  PROVE  PlannedIsRecorded' /\ NoWindowTwice'
BY DEF PlannedIsRecorded, NoWindowTwice

\* No session, plan or log at first.
LEMMA WindowsInit == Init => WindowsInv
<1> SUFFICES ASSUME Init PROVE WindowsInv
  OBVIOUS
<1>1. plan.calm = FALSE
  BY DEF Init, NoPlan
<1>2. reader["session"].path = "none"
  BY ClosedFields DEF Init, Feeds
<1>3. DOMAIN history = {}
  BY DEF Init
<1> QED
  BY <1>1, <1>2, <1>3 DEF WindowsInv, CalmPlan, CalmReader, PlannedIsRecorded, NoWindowTwice

\* Planning: the new plan is calm only with a window nobody used.
LEMMA WindowsPlan ==
  ASSUME TypeInv, WindowsInv, PlanSession
  PROVE  WindowsInv'
<1>1. /\ plan' # NoPlan
      /\ UNCHANGED <<candles, cursor, history, reader>>
      /\ plan'.calm => plan'.mode # "random" /\ candles = Normalize(candles)
      /\ ~WindowAlreadyUsed(plan'.window)
  BY PlanSessionEffect
<1>2. \E start \in StartIndices(plan'.mode, Main) :
        plan'.steps = SessionSteps(start) /\ plan'.window = PlannedWindow(start, plan'.steps)
  BY PlanSessionEffect
<1>3. CalmPlan'
  BY <1>1, <1>2
  DEF CalmPlan, StartIndices, FileOf, SessionSteps, PlannedWindow, WindowAlreadyUsed
<1>4. CalmReader'
  BY <1>1, CalmReaderKept DEF WindowsInv
<1> QED
  BY <1>1, <1>3, <1>4, LogKept DEF WindowsInv

\* Opening: a calm plan's feed starts where the plan said and reads its window.
LEMMA WindowsOpen ==
  ASSUME TypeInv, WindowsInv, OpenSession
  PROVE  WindowsInv'
<1>1. plan # NoPlan /\ plan' = NoPlan /\ UNCHANGED <<candles, cursor, history>>
  BY OpenSessionEffect
<1>2. CalmPlan'
  <2>1. plan'.calm = FALSE
    BY <1>1 DEF NoPlan
  <2> QED
    BY <2>1, UncalmPlan
<1>3. CASE UNCHANGED <<reader, consumed, disturbed>>
  BY <1>1, <1>2, <1>3, LogKept, CalmReaderKept DEF WindowsInv
<1>4. CASE \E start \in StartIndices(plan.mode, Main) :
             reader' = [reader EXCEPT !["session"] =
                          OpenFeed(Main, start, plan.steps, plan.window, plan.calm)]
  <2>1. PICK start \in StartIndices(plan.mode, Main) :
          reader' = [reader EXCEPT !["session"] =
                       OpenFeed(Main, start, plan.steps, plan.window, plan.calm)]
    BY <1>4
  <2>2. /\ plan.mode \in Modes /\ plan.steps \in Nat /\ plan.steps >= 1 /\ Len(candles) >= 1
        /\ plan.window \in Windows /\ plan.calm \in BOOLEAN
    BY <1>1 DEF TypeInv, PlanOK, Plans
  <2>3. FileOf(Main) = candles /\ Main \in {Main, Other}
    BY DEF FileOf
  <2>4. start \in Nat /\ start < Len(candles) /\ start <= Len(FileOf(Main))
    BY <2>2, <2>3, StartFacts
  <2>5. PICK r : r = OpenFeed(Main, start, plan.steps, plan.window, plan.calm)
    OBVIOUS
  <2>6. /\ ReaderOK(r) /\ r.data = Normalize(candles) /\ Len(r.data) = Len(candles)
        /\ r.start = start /\ r.limit = plan.steps /\ r.window = plan.window /\ r.calm = plan.calm
    BY <2>2, <2>3, <2>4, <2>5, OpenedFields
  <2>7. reader'["session"] = r
    <3>1. r \in Readers /\ "session" \in Feeds /\ reader \in [Feeds -> Readers]
      BY <2>6 DEF ReaderOK, Feeds, TypeInv
    <3>2. reader' = [reader EXCEPT !["session"] = r]
      BY <2>1, <2>5, Zenon
    <3> QED
      BY <3>1, <3>2, ReaderReplaced, Zenon
  <2>8. ASSUME r.calm
        PROVE  /\ r.window = <<r.data[r.start + 1].time,
                               r.data[Least(Len(r.data), r.start + r.limit)].time>>
               /\ ~WindowAlreadyUsed(r.window)
    <3>1. /\ plan.mode # "random" /\ candles = Normalize(candles)
          /\ ~WindowAlreadyUsed(plan.window)
      BY <2>6, <2>8 DEF WindowsInv, CalmPlan
    <3>2. PICK first \in StartIndices(plan.mode, Main) :
            plan.window = PlannedWindow(first, plan.steps)
      BY <2>6, <2>8 DEF WindowsInv, CalmPlan
    <3>3. first = start
      BY <2>2, <2>3, <3>1, OneStart
    <3>4. PlannedWindow(start, plan.steps)
          = <<candles[start + 1].time, candles[Least(Len(candles), start + plan.steps)].time>>
      BY <2>2, <2>4, PlannedFields
    <3>5. r.data = candles
      BY <2>6, <3>1
    <3>6. r.window = <<r.data[r.start + 1].time,
                       r.data[Least(Len(r.data), r.start + r.limit)].time>>
      BY <2>6, <3>2, <3>3, <3>4, <3>5, Zenon
    <3> QED
      BY <2>6, <3>1, <3>6
  <2>9. CalmReader'
    BY <1>1, <2>7, <2>8 DEF CalmReader, WindowAlreadyUsed
  <2> QED
    BY <1>1, <1>2, <2>9, LogKept DEF WindowsInv
<1> QED
  BY <1>3, <1>4, OpenSessionEffect

\* The session that ends recorded the window it was checked for.
LEMMA WindowsFinish ==
  ASSUME TypeInv, WindowsInv, FinishSession
  PROVE  WindowsInv'
<1>1. PICK r \in Readers : r = reader["session"]
  BY DEF TypeInv, Feeds
<1>2. PICK w \in Windows : w = <<r.data[r.start + 1].time, r.data[r.next].time>>
  BY <1>1, FinishFields
<1>3. PICK record \in Records :
        record.planned = r.window /\ record.calm = r.calm /\ record.recorded = w
        /\ record = [planned |-> r.window, calm |-> r.calm, recorded |-> w]
  <2>1. r.window \in Windows /\ r.calm \in BOOLEAN
    BY ReaderFields
  <2>2. PICK planned0 \in Windows, calm0 \in BOOLEAN : planned0 = r.window /\ calm0 = r.calm
    BY <2>1, Zenon
  <2>3. /\ [planned |-> planned0, calm |-> calm0, recorded |-> w] \in Records
        /\ [planned |-> planned0, calm |-> calm0, recorded |-> w].planned = planned0
        /\ [planned |-> planned0, calm |-> calm0, recorded |-> w].calm = calm0
        /\ [planned |-> planned0, calm |-> calm0, recorded |-> w].recorded = w
    BY DEF Records
  <2> QED
    BY <2>2, <2>3, Zenon
<1>4. /\ history' = Append(history, record) /\ reader' = [reader EXCEPT !["session"] = Closed]
      /\ plan' = plan /\ r.path # "none"
  BY <1>1, <1>2, <1>3 DEF FinishSession, IsOpen
<1>5. CalmPlan'
  <2>1. plan = NoPlan
    BY <1>1, <1>4 DEF TypeInv, PlanOK, IsOpen
  <2>2. plan'.calm = FALSE
    BY <1>4, <2>1 DEF NoPlan
  <2> QED
    BY <2>2, UncalmPlan
<1>6. CalmReader'
  <2>1. reader'["session"] = Closed
    BY <1>4 DEF TypeInv, Feeds
  <2> QED
    BY <2>1, ClosedFields DEF CalmReader
<1>7. record.calm => record.recorded = record.planned /\ ~WindowAlreadyUsed(record.recorded)
  <2> SUFFICES ASSUME record.calm
               PROVE  record.recorded = record.planned /\ ~WindowAlreadyUsed(record.recorded)
    OBVIOUS
  <2>1. r.calm
    BY <1>3
  <2>2. /\ r.window = <<r.data[r.start + 1].time,
                        r.data[Least(Len(r.data), r.start + r.limit)].time>>
        /\ ~WindowAlreadyUsed(r.window)
    BY <1>1, <1>4, <2>1 DEF WindowsInv, CalmReader
  <2>3. r.next = Least(Len(r.data), r.start + r.limit)
    BY <1>1, FinishFields
  <2>4. r.window = w
    BY <1>2, <2>2, <2>3, Zenon
  <2> QED
    BY <1>3, <2>2, <2>4
<1>8. /\ history \in Seq(Records) /\ DOMAIN history' = 1..(Len(history) + 1)
      /\ DOMAIN history = 1..Len(history) /\ Len(history) \in Nat
      /\ \A i \in 1..Len(history) : history'[i] = history[i]
      /\ history'[Len(history) + 1] = record
  BY <1>4 DEF TypeInv
<1>9. PlannedIsRecorded'
  BY <1>7, <1>8 DEF WindowsInv, PlannedIsRecorded
<1>10. NoWindowTwice'
  <2> SUFFICES ASSUME NEW i \in DOMAIN history', NEW j \in DOMAIN history', i < j,
                      history'[j].calm
               PROVE  history'[i].recorded # history'[j].recorded
    BY DEF NoWindowTwice
  <2>1. i \in 1..Len(history) /\ history'[i] = history[i]
    BY <1>8
  <2>2. CASE j = Len(history) + 1
    <3>1. history'[j] = record
      BY <1>8, <2>2
    <3>2. ~WindowAlreadyUsed(record.recorded)
      BY <1>7, <3>1
    <3> QED
      BY <1>8, <2>1, <3>1, <3>2 DEF WindowAlreadyUsed
  <2>3. CASE j # Len(history) + 1
    <3>1. j \in 1..Len(history) /\ history'[j] = history[j]
      BY <1>8, <2>3
    <3> QED
      BY <1>8, <2>1, <3>1 DEF WindowsInv, NoWindowTwice
  <2> QED
    BY <2>2, <2>3
<1> QED
  BY <1>5, <1>6, <1>9, <1>10 DEF WindowsInv


\* Taking a row moves neither the window of a session nor the log.
LEMMA WindowsTake ==
  ASSUME TypeInv, WindowsInv, NEW f \in Feeds, TakeCandle(f)
  PROVE  WindowsInv'
<1>1. /\ IsOpen(f) /\ reader' = [reader EXCEPT ![f] = Advanced(reader[f])]
      /\ plan' = IF f = "tool" THEN Unsettled(plan) ELSE plan
      /\ UNCHANGED <<candles, history>>
  BY TakeEffect
<1>2. "session" \in Feeds /\ reader[f] \in Readers /\ reader["session"] \in Readers
  BY DEF TypeInv, Feeds
<1>3. PICK s : s = reader["session"] /\ s \in Readers
  BY <1>2
<1>4. reader'["session"] = s \/ reader'["session"] = Advanced(s)
  BY <1>1, <1>2, <1>3 DEF TypeInv
<1>5. LET r == reader["session"]
          t == reader'["session"] IN
      /\ t.path = r.path /\ t.calm = r.calm /\ t.window = r.window /\ t.data = r.data
      /\ t.start = r.start /\ t.limit = r.limit
  BY <1>3, <1>4, AdvancedFields
<1>6. CalmReader'
  BY <1>1, <1>5, CalmReaderKept DEF WindowsInv
<1>7. CalmPlan'
  <2>1. CASE f = "tool"
    <3>1. plan'.calm = FALSE
      BY <1>1, <2>1, UnsettledFields DEF TypeInv
    <3> QED
      BY <3>1, UncalmPlan
  <2>2. CASE f # "tool"
    <3>1. plan' = plan /\ f = "session"
      BY <1>1, <2>2 DEF Feeds
    <3>2. plan = NoPlan
      BY <1>1, <3>1 DEF TypeInv, PlanOK
    <3>3. plan'.calm = FALSE
      BY <3>1, <3>2 DEF NoPlan
    <3> QED
      BY <3>3, UncalmPlan
  <2> QED
    BY <2>1, <2>2
<1> QED
  BY <1>1, <1>6, <1>7, LogKept DEF WindowsInv

\* A feed that is closed, other than by the end of its session, leaves no record.
LEMMA WindowsClose ==
  ASSUME TypeInv, WindowsInv, NEW f \in Feeds, CloseFeed(f)
  PROVE  WindowsInv'
<1>1. reader' = [reader EXCEPT ![f] = Closed] /\ UNCHANGED <<candles, cursor, history, plan>>
  BY DEF CloseFeed
<1>2. reader'["session"] = reader["session"] \/ reader'["session"] = Closed
  BY <1>1 DEF TypeInv, Feeds
<1>3. CalmReader'
  <2>1. CASE reader'["session"] = reader["session"]
    BY <1>1, <2>1, CalmReaderKept DEF WindowsInv
  <2>2. CASE reader'["session"] = Closed
    BY <2>2, ClosedFields DEF CalmReader
  <2> QED
    BY <1>2, <2>1, <2>2
<1> QED
  BY <1>1, <1>3, CalmPlanKept, LogKept DEF WindowsInv

\* Another command leaves no calm plan, and the session's feed to itself.
LEMMA WindowsOther ==
  ASSUME TypeInv, WindowsInv, OtherCommand, history' = history,
         reader'["session"] = reader["session"]
  PROVE  WindowsInv'
<1>1. CalmPlan'
  BY OtherCommandEffect, UncalmPlan
<1>2. CalmReader'
  BY CalmReaderKept DEF WindowsInv
<1> QED
  BY <1>1, <1>2, LogKept DEF WindowsInv

\* A death inside the cursor's write leaves no calm plan and no record.
LEMMA WindowsDie ==
  ASSUME TypeInv, WindowsInv, NEW f \in Feeds, DieInCursorWrite(f)
  PROVE  WindowsInv'
<1>1. /\ reader' = [reader EXCEPT ![f] = Closed] /\ history' = history
      /\ plan' = Unsettled(plan)
  BY DEF DieInCursorWrite, Unsettled
<1>2. CalmPlan'
  BY <1>1, UnsettledFields, UncalmPlan DEF TypeInv
<1>3. reader'["session"] = reader["session"] \/ reader'["session"] = Closed
  BY <1>1 DEF TypeInv, Feeds
<1>4. CalmReader'
  <2>1. CASE reader'["session"] = reader["session"]
    BY <1>1, <2>1, CalmReaderKept DEF WindowsInv
  <2>2. CASE reader'["session"] = Closed
    BY <2>2, ClosedFields DEF CalmReader
  <2> QED
    BY <1>3, <2>1, <2>2
<1> QED
  BY <1>1, <1>2, <1>4, LogKept DEF WindowsInv

\* Every step keeps the windows in order.
LEMMA WindowsStep == TypeInv /\ WindowsInv /\ [Next]_vars => WindowsInv'
<1> SUFFICES ASSUME TypeInv, WindowsInv, [Next]_vars PROVE WindowsInv'
  OBVIOUS
<1>1. CASE OpenTool
  <2>1. OtherCommand /\ history' = history
    BY <1>1, OpenToolEffect
  <2>2. PICK r : reader' = [reader EXCEPT !["tool"] = r]
    BY <1>1 DEF OpenTool
  <2>3. reader'["session"] = reader["session"]
    BY <2>2 DEF TypeInv, Feeds
  <2> QED
    BY <2>1, <2>3, WindowsOther
<1>2. CASE AppendCandles
  <2>1. OtherCommand /\ history' = history /\ reader' = reader
    BY <1>2 DEF AppendCandles
  <2> QED
    BY <2>1, WindowsOther
<1>3. CASE ResetCursor
  <2>1. OtherCommand /\ history' = history /\ reader' = reader
    BY <1>3 DEF ResetCursor
  <2> QED
    BY <2>1, WindowsOther
<1>4. CASE UNCHANGED vars
  <2>1. UNCHANGED <<plan, candles, cursor, history, reader>>
    BY <1>4 DEF vars
  <2> QED
    BY <2>1, CalmPlanKept, CalmReaderKept, LogKept DEF WindowsInv
<1> QED
  BY <1>1, <1>2, <1>3, <1>4, WindowsPlan, WindowsOpen, WindowsTake, WindowsFinish, WindowsClose,
     WindowsDie DEF Next

\* The windows of sessions are in order in every run.
THEOREM WindowsInvariance == Spec => []WindowsInv
BY TypeInvariance, WindowsInit, WindowsStep, PTL DEF Spec

\* A session that no other command came upon, on a file in order, records the
\* window it was checked for.
THEOREM PlannedRecorded == Spec => []PlannedIsRecorded
<1>1. WindowsInv => PlannedIsRecorded
  BY DEF WindowsInv
<1> QED
  BY <1>1, WindowsInvariance, PTL

\* Such a session never repeats the window of an earlier one.
THEOREM WindowsDiffer == Spec => []NoWindowTwice
<1>1. WindowsInv => NoWindowTwice
  BY DEF WindowsInv
<1> QED
  BY <1>1, WindowsInvariance, PTL

-----------------------------------------------------------------------------
(* The replay                                                              *)

\* Until an operator moves the replay, the feed that is open stands where the
\* rows taken end, over a part of the sorted file that appends have kept.
OpenFeedInv ==
  /\ \A f \in Feeds : IsOpen(f) =>
       /\ reader[f].path = Main /\ reader[f].next = Len(consumed)
       /\ Len(reader[f].data) <= Len(candles)
       /\ \A i \in 1..Len(reader[f].data) : reader[f].data[i] = Normalize(candles)[i]
  /\ ~(IsOpen("session") /\ IsOpen("tool"))

\* The rows taken are the first of the sorted file, and the cursor names the last.
ConsumedInv ==
  /\ Len(consumed) <= Len(candles)
  /\ \A i \in 1..Len(consumed) : consumed[i] = Normalize(candles)[i]
  /\ Len(consumed) = 0 => cursor.path # Main
  /\ Len(consumed) > 0 => /\ cursor.path = Main /\ cursor.index + 1 = Len(consumed)
                          /\ cursor.time = consumed[Len(consumed)].time

ReplayInv == ~disturbed => OpenFeedInv /\ ConsumedInv

\* Nothing is read at first.
LEMMA ReplayInit == Init => ReplayInv
<1> SUFFICES ASSUME Init PROVE ReplayInv
  OBVIOUS
<1>1. /\ candles \in Seq(Candle) /\ consumed = <<>> /\ cursor = NoCursor
      /\ \A f \in Feeds : reader[f].path = "none"
  BY FeedAssumption, ClosedFields DEF Init
<1>2. ~IsOpen("session") /\ \A f \in Feeds : ~IsOpen(f)
  BY <1>1 DEF IsOpen, Feeds
<1>3. Len(consumed) = 0 /\ Len(candles) \in Nat /\ 1..0 = {}
  BY <1>1
<1>4. cursor.path # Main
  BY <1>1 DEF NoCursor, Main
<1>5. Len(consumed) <= Len(candles) /\ ~(Len(consumed) > 0)
  BY <1>3
<1>6. ConsumedInv
  BY <1>3, <1>4, <1>5, Zenon DEF ConsumedInv
<1>7. OpenFeedInv
  BY <1>2, Zenon DEF OpenFeedInv
<1> QED
  BY <1>6, <1>7 DEF ReplayInv

\* The rows taken rest on the file and the cursor.
LEMMA ConsumedKept ==
  ASSUME ConsumedInv, UNCHANGED <<candles, consumed, cursor>>
  PROVE  ConsumedInv'
BY DEF ConsumedInv

\* What is known of an open feed rests on the file and the rows taken.
LEMMA OpenFeedKept ==
  ASSUME OpenFeedInv, UNCHANGED <<candles, consumed, reader>>
  PROVE  OpenFeedInv'
BY DEF OpenFeedInv, IsOpen

\* A feed that closes leaves the others as they were.
LEMMA ReplayCloses ==
  ASSUME TypeInv, ReplayInv, NEW f \in Feeds, reader' = [reader EXCEPT ![f] = Closed],
         UNCHANGED <<candles, consumed, cursor, disturbed>>
  PROVE  ReplayInv'
<1>1. \A g \in Feeds : reader'[g] = reader[g] \/ reader'[g] = Closed
  BY DEF TypeInv
<1>2. Closed.path = "none" /\ "session" \in Feeds /\ "tool" \in Feeds
  BY ClosedFields DEF Feeds
<1> SUFFICES ASSUME ~disturbed' PROVE OpenFeedInv' /\ ConsumedInv'
  BY DEF ReplayInv
<1>3. OpenFeedInv /\ ConsumedInv
  BY DEF ReplayInv
<1>4. \A g \in Feeds : reader'[g].path # "none" => reader'[g] = reader[g]
  BY <1>1, <1>2
<1>5. OpenFeedInv'
  <2>1. \A g \in Feeds : IsOpen(g)' => reader'[g] = reader[g] /\ IsOpen(g)
    BY <1>4 DEF IsOpen
  <2>2. IsOpen("session")' => IsOpen("session")
    BY <1>2, <2>1
  <2>3. IsOpen("tool")' => IsOpen("tool")
    BY <1>2, <2>1
  <2> QED
    BY <1>3, <2>1, <2>2, <2>3 DEF OpenFeedInv
<1> QED
  BY <1>3, <1>5, ConsumedKept

\* An undisturbed feed opens on the candle file, alone, at the row after the
\* last one taken.
LEMMA ReplayOpens ==
  ASSUME TypeInv, ReplayInv, NEW f \in Feeds, "resume" \in Modes,
         \A g \in Feeds : g # f => ~IsOpen(g),
         NEW start \in StartIndices("resume", Main), NEW r, ReaderOK(r),
         r.path = Main, r.data = Normalize(candles), r.next = start,
         reader' = [reader EXCEPT ![f] = r], ~disturbed,
         UNCHANGED <<candles, consumed, cursor, disturbed>>
  PROVE  ReplayInv'
<1>1. OpenFeedInv /\ ConsumedInv
  BY DEF ReplayInv
<1>2. reader'[f] = r /\ \A g \in Feeds : g # f => reader'[g] = reader[g]
  BY DEF TypeInv, ReaderOK
<1>3. candles \in Seq(Candle) /\ Len(candles) \in Nat /\ cursor.index \in Nat /\ Len(consumed) \in Nat
  BY DEF TypeInv, Cursors
<1>4. Len(r.data) = Len(candles)
  BY <1>3, NormalizeKeeps
<1>5. r.next = Len(consumed)
  <2>1. CASE cursor.path # Main
    <3>1. start = 0
      BY <2>1 DEF StartIndices
    <3>2. Len(consumed) = 0
      BY <1>1, <1>3, <2>1 DEF ConsumedInv
    <3> QED
      BY <3>1, <3>2
  <2>2. CASE cursor.path = Main
    <3>1. start = cursor.index + 1
      BY <2>2 DEF StartIndices
    <3>2. cursor.index + 1 = Len(consumed)
      BY <1>1, <1>3, <2>2 DEF ConsumedInv
    <3> QED
      BY <3>1, <3>2
  <2> QED
    BY <2>1, <2>2
<1>6. \A g \in Feeds : IsOpen(g)' => g = f
  BY <1>2 DEF IsOpen
<1>7. OpenFeedInv'
  <2>1. \A g \in Feeds : IsOpen(g)' =>
          /\ reader'[g].path = Main /\ reader'[g].next = Len(consumed)
          /\ Len(reader'[g].data) <= Len(candles)
          /\ \A i \in 1..Len(reader'[g].data) : reader'[g].data[i] = Normalize(candles)[i]
    BY <1>2, <1>3, <1>4, <1>5, <1>6
  <2>2. "session" \in Feeds /\ "tool" \in Feeds /\ "session" # "tool"
    BY DEF Feeds
  <2>3. ~(IsOpen("session")' /\ IsOpen("tool")')
    BY <1>6, <2>2
  <2> QED
    BY <2>1, <2>3 DEF OpenFeedInv
<1> QED
  BY <1>1, <1>7, ConsumedKept DEF ReplayInv


\* A replay still undisturbed was not moved, and its rows are kept.
LEMMA NotMoved ==
  ASSUME NEW moved, Disturb(moved), ~disturbed', disturbed \in BOOLEAN
  PROVE  ~moved /\ ~disturbed /\ consumed' = consumed /\ disturbed' = disturbed
<1>1. ~moved /\ ~disturbed /\ consumed' = consumed /\ disturbed' = (disturbed \/ moved)
  BY DEF Disturb
<1>2. disturbed' = disturbed
  BY <1>1, Zenon
<1> QED
  BY <1>1, <1>2

\* Opening the session's feed.
LEMMA ReplayOpenSession ==
  ASSUME TypeInv, ReplayInv, OpenSession
  PROVE  ReplayInv'
<1>1. plan # NoPlan /\ UNCHANGED <<candles, cursor>>
  BY OpenSessionEffect
<1>2. CASE UNCHANGED <<reader, consumed, disturbed>>
  BY <1>1, <1>2, ConsumedKept, OpenFeedKept DEF ReplayInv
<1>3. CASE /\ \E start \in StartIndices(plan.mode, Main) :
                reader' = [reader EXCEPT !["session"] =
                             OpenFeed(Main, start, plan.steps, plan.window, plan.calm)]
           /\ Disturb(plan.mode # "resume" \/ IsOpen("tool"))
  <2> SUFFICES ASSUME ~disturbed' PROVE ReplayInv'
    BY DEF ReplayInv
  <2>1. /\ plan.mode = "resume" /\ ~IsOpen("tool") /\ ~disturbed
        /\ consumed' = consumed /\ disturbed' = disturbed
    BY <1>3, NotMoved DEF TypeInv
  <2>2. PICK start \in StartIndices(plan.mode, Main) :
          reader' = [reader EXCEPT !["session"] =
                       OpenFeed(Main, start, plan.steps, plan.window, plan.calm)]
    BY <1>3
  <2>3. /\ plan.mode \in Modes /\ plan.steps \in Nat
        /\ plan.window \in Windows /\ plan.calm \in BOOLEAN
    BY <1>1 DEF TypeInv, PlanOK, Plans
  <2>4. FileOf(Main) = candles /\ Main \in {Main, Other}
    BY DEF FileOf
  <2>5. start \in Nat /\ start <= Len(FileOf(Main))
    BY <2>3, <2>4, StartFacts
  <2>6. PICK r : r = OpenFeed(Main, start, plan.steps, plan.window, plan.calm)
    OBVIOUS
  <2>7. ReaderOK(r) /\ r.path = Main /\ r.data = Normalize(candles) /\ r.next = start
    BY <2>3, <2>4, <2>5, <2>6, OpenedFields
  <2>8. "session" \in Feeds /\ \A g \in Feeds : g # "session" => ~IsOpen(g)
    BY <2>1 DEF Feeds
  <2>9. reader' = [reader EXCEPT !["session"] = r] /\ start \in StartIndices("resume", Main)
        /\ "resume" \in Modes
    BY <2>1, <2>2, <2>3, <2>6, Zenon
  <2>10. UNCHANGED <<candles, consumed, cursor, disturbed>>
    BY <1>1, <2>1
  <2> QED
    BY <2>1, <2>7, <2>8, <2>9, <2>10, ReplayOpens
<1> QED
  BY <1>2, <1>3, OpenSessionEffect

\* Opening the other feed.
LEMMA ReplayOpenTool ==
  ASSUME TypeInv, ReplayInv, OpenTool
  PROVE  ReplayInv'
<1> SUFFICES ASSUME ~disturbed' PROVE ReplayInv'
  BY DEF ReplayInv
<1>1. UNCHANGED <<candles, cursor>>
  BY OpenToolEffect
<1>2. PICK path \in {Main, Other}, mode \in Modes \cap {"resume", "reset"} :
        \E start \in StartIndices(mode, path) :
          /\ reader' = [reader EXCEPT !["tool"] = OpenFeed(path, start, LiveMaxSteps, <<>>, FALSE)]
          /\ Disturb(path # Main \/ mode # "resume" \/ IsOpen("session"))
  BY OpenToolEffect
<1>3. PICK start \in StartIndices(mode, path) :
        /\ reader' = [reader EXCEPT !["tool"] = OpenFeed(path, start, LiveMaxSteps, <<>>, FALSE)]
        /\ Disturb(path # Main \/ mode # "resume" \/ IsOpen("session"))
  BY <1>2
<1>4. /\ path = Main /\ mode = "resume" /\ ~IsOpen("session") /\ ~disturbed
      /\ consumed' = consumed /\ disturbed' = disturbed
  BY <1>3, NotMoved DEF TypeInv
<1>5. FileOf(Main) = candles /\ Main \in {Main, Other}
  BY DEF FileOf
<1>6. start \in Nat /\ start <= Len(FileOf(path)) /\ LiveMaxSteps \in Nat /\ <<>> \in Windows
  BY StartFacts, FeedAssumption DEF Windows
<1>0. PICK calm \in BOOLEAN : calm = FALSE
  OBVIOUS
<1>7. PICK r : /\ r = OpenFeed(path, start, LiveMaxSteps, <<>>, FALSE)
               /\ r = OpenFeed(path, start, LiveMaxSteps, <<>>, calm)
  BY <1>0, Zenon
<1>8. ReaderOK(r) /\ r.path = path /\ r.data = Normalize(FileOf(path)) /\ r.next = start
  <2>1. PICK window \in Windows : window = <<>>
    BY <1>6, Zenon
  <2>2. r = OpenFeed(path, start, LiveMaxSteps, window, calm)
    BY <1>7, <2>1, Zenon
  <2> HIDE <1>7
  <2> QED
    BY <1>6, <2>2, OpenedFields
<1>9. r.path = Main /\ r.data = Normalize(candles)
  BY <1>4, <1>5, <1>8
<1>10. "tool" \in Feeds /\ \A g \in Feeds : g # "tool" => ~IsOpen(g)
  BY <1>4 DEF Feeds
<1>11. reader' = [reader EXCEPT !["tool"] = r] /\ start \in StartIndices("resume", Main)
       /\ "resume" \in Modes
  BY <1>3, <1>4, <1>7, Zenon
<1>12. UNCHANGED <<candles, consumed, cursor, disturbed>>
  BY <1>1, <1>4
<1> QED
  BY <1>4, <1>8, <1>9, <1>10, <1>11, <1>12, ReplayOpens

\* Taking a row: it is the next of the sorted file, and the cursor names it.
LEMMA ReplayTake ==
  ASSUME TypeInv, ReplayInv, NEW f \in Feeds, TakeCandle(f)
  PROVE  ReplayInv'
<1> SUFFICES ASSUME ~disturbed' PROVE OpenFeedInv' /\ ConsumedInv'
  BY DEF ReplayInv
<1>1. PICK r \in Readers : r = reader[f]
  BY DEF TypeInv
<1>2. PICK row \in Candle : row = r.data[r.next + 1]
  BY <1>1, TakeEffect, AdvancedOK
<1>3. /\ IsOpen(f) /\ HasNext(f) /\ reader' = [reader EXCEPT ![f] = Advanced(r)]
      /\ cursor' = [path |-> r.path, index |-> r.next, time |-> row.time]
      /\ UNCHANGED <<candles, disturbed>> /\ consumed' = Append(consumed, row)
  BY <1>1, <1>2, TakeEffect
<1>4. OpenFeedInv /\ ConsumedInv
  BY <1>3 DEF ReplayInv
<1>5. /\ r.path = Main /\ r.next = Len(consumed) /\ Len(r.data) <= Len(candles)
      /\ \A i \in 1..Len(r.data) : r.data[i] = Normalize(candles)[i]
  BY <1>1, <1>3, <1>4 DEF OpenFeedInv
<1>6. /\ Len(r.data) \in Nat /\ Len(consumed) \in Nat /\ Len(candles) \in Nat
      /\ r.next + 1 <= Len(r.data)
  BY <1>1, <1>3, AdvancedOK, ReaderFields DEF TypeInv
<1>7. /\ Len(consumed') = Len(consumed) + 1
      /\ \A i \in 1..Len(consumed) : consumed'[i] = consumed[i]
      /\ consumed'[Len(consumed) + 1] = row
  BY <1>3 DEF TypeInv
<1>8. row = Normalize(candles)[Len(consumed) + 1]
  BY <1>2, <1>5, <1>6
<1>9. cursor'.path = Main /\ cursor'.index = Len(consumed) /\ cursor'.time = row.time
  BY <1>3, <1>5
<1>10. ConsumedInv'
  <2>1. \A i \in 1..(Len(consumed) + 1) : consumed'[i] = Normalize(candles)[i]
    BY <1>4, <1>6, <1>7, <1>8 DEF ConsumedInv
  <2>2. Len(consumed) + 1 <= Len(candles)
    BY <1>5, <1>6
  <2> QED
    BY <1>3, <1>6, <1>7, <1>9, <2>1, <2>2 DEF ConsumedInv
<1>11. \A g \in Feeds : g # f => ~IsOpen(g)
  BY <1>3, <1>4 DEF OpenFeedInv, Feeds
<1>12. reader'[f] = Advanced(r) /\ \A g \in Feeds : g # f => reader'[g] = reader[g]
  BY <1>3, AdvancedFields DEF TypeInv
<1>13. \A g \in Feeds : IsOpen(g)' => g = f
  BY <1>11, <1>12 DEF IsOpen
<1>14. OpenFeedInv'
  <2>1. \A g \in Feeds : IsOpen(g)' =>
          /\ reader'[g].path = Main /\ reader'[g].next = Len(consumed) + 1
          /\ Len(reader'[g].data) <= Len(candles)
          /\ \A i \in 1..Len(reader'[g].data) : reader'[g].data[i] = Normalize(candles)[i]
    BY <1>5, <1>12, <1>13, AdvancedFields
  <2>2. ~(IsOpen("session")' /\ IsOpen("tool")')
    BY <1>13 DEF Feeds
  <2> QED
    BY <1>3, <1>7, <2>1, <2>2 DEF OpenFeedInv
<1> QED
  BY <1>10, <1>14

\* An append that leaves the timestamps read as they were keeps the rows read.
LEMMA ReplayAppend ==
  ASSUME TypeInv, ReplayInv, AppendCandles
  PROVE  ReplayInv'
<1> SUFFICES ASSUME ~disturbed' PROVE OpenFeedInv' /\ ConsumedInv'
  BY DEF ReplayInv
<1> DEFINE taken == IF cursor.path = Main THEN cursor.index + 1 ELSE 0
           held == {Len(reader[f].data) : f \in {g \in Feeds : reader[g].path = Main}}
<1>1. UNCHANGED <<cursor, reader>>
  BY AppendEffect
<1>2. PICK incoming \in Seq(Candle) : candles' = Merge(candles, incoming)
  BY AppendEffect
<1>3. Disturb(\E n \in {taken} \cup held : ~SameUpTo(n, Normalize(candles), candles'))
  BY AppendEffect
<1>4. /\ \A n \in {taken} \cup held : SameUpTo(n, Normalize(candles), candles')
      /\ ~disturbed /\ consumed' = consumed
  BY <1>3, NotMoved DEF TypeInv
<1>5. OpenFeedInv /\ ConsumedInv
  BY <1>4 DEF ReplayInv
<1>6. /\ candles \in Seq(Candle) /\ Len(candles) \in Nat /\ Len(consumed) \in Nat
      /\ cursor.index \in Nat
  BY DEF TypeInv, Cursors
<1>7. candles' \in Seq(Candle) /\ InOrder(candles') /\ Normalize(candles') = candles'
  <2>1. PICK merged : merged = Merge(candles, incoming)
    OBVIOUS
  <2>2. merged \in Seq(Candle) /\ InOrder(merged)
    BY <1>6, <2>1, MergeSorts
  <2>3. Normalize(merged) = merged
    BY <2>2, NormalizeFixed
  <2> QED
    BY <1>2, <2>1, <2>2, <2>3
<1>8. ASSUME NEW n \in Nat, n \in {taken} \cup held
      PROVE  \A i \in 1..n : i <= Len(candles) =>
               i <= Len(candles') /\ Normalize(candles')[i] = Normalize(candles)[i]
  <2>1. SameUpTo(n, Normalize(candles), Merge(candles, incoming))
    BY <1>2, <1>4, <1>8
  <2>2. \A i \in 1..n : i <= Len(candles) =>
          i <= Len(Merge(candles, incoming)) /\ Merge(candles, incoming)[i] = Normalize(candles)[i]
    BY <1>6, <2>1, MergeKeepsRows
  <2> QED
    BY <1>2, <1>7, <2>2
<1>9. Len(consumed) = taken
  BY <1>5, <1>6 DEF ConsumedInv
<1>10. \A i \in 1..Len(consumed) : i <= Len(candles) =>
         i <= Len(candles') /\ Normalize(candles')[i] = Normalize(candles)[i]
  BY <1>6, <1>8, <1>9
<1>11. ConsumedInv'
  <2>1. Len(consumed) <= Len(candles')
    <3>1. CASE Len(consumed) = 0
      BY <1>7, <3>1
    <3>2. CASE Len(consumed) # 0
      <4>1. Len(consumed) \in 1..Len(consumed) /\ Len(consumed) <= Len(candles)
        BY <1>5, <1>6, <3>2 DEF ConsumedInv
      <4> QED
        BY <1>10, <4>1
    <3> QED
      BY <3>1, <3>2
  <2>2. \A i \in 1..Len(consumed) : consumed[i] = Normalize(candles')[i]
    BY <1>5, <1>6, <1>10 DEF ConsumedInv
  <2> HIDE DEF taken, held
  <2> QED
    BY <1>1, <1>4, <1>5, <2>1, <2>2 DEF ConsumedInv
<1>12. ASSUME NEW f \in Feeds, IsOpen(f)
       PROVE  /\ Len(reader[f].data) <= Len(candles')
              /\ \A i \in 1..Len(reader[f].data) : reader[f].data[i] = Normalize(candles')[i]
  <2>1. PICK n \in Nat : n = Len(reader[f].data)
    BY ReaderFields DEF TypeInv
  <2>2. reader[f].path = Main /\ n <= Len(candles)
        /\ \A i \in 1..n : reader[f].data[i] = Normalize(candles)[i]
    BY <1>5, <1>12, <2>1 DEF OpenFeedInv
  <2>3. n \in {taken} \cup held
    BY <2>1, <2>2
  <2>4. \A i \in 1..n : i <= Len(candles) =>
          i <= Len(candles') /\ Normalize(candles')[i] = Normalize(candles)[i]
    BY <1>8, <2>3
  <2>5. n <= Len(candles')
    <3>1. CASE n = 0
      BY <1>7, <3>1
    <3>2. CASE n # 0
      <4>1. n \in 1..n
        BY <3>2
      <4> QED
        BY <2>2, <2>4, <4>1
    <3> QED
      BY <3>1, <3>2
  <2>6. \A i \in 1..n : reader[f].data[i] = Normalize(candles')[i]
    BY <1>6, <2>2, <2>4
  <2> QED
    BY <2>1, <2>5, <2>6
<1>13. OpenFeedInv'
  <2> HIDE DEF taken, held
  <2> QED
    BY <1>1, <1>4, <1>5, <1>12 DEF OpenFeedInv, IsOpen
<1> QED
  BY <1>11, <1>13

\* Every step keeps the replay.
LEMMA ReplayStep == TypeInv /\ ReplayInv /\ [Next]_vars => ReplayInv'
<1> SUFFICES ASSUME TypeInv, ReplayInv, [Next]_vars PROVE ReplayInv'
  OBVIOUS
<1>1. CASE PlanSession
  BY <1>1, PlanSessionEffect, ConsumedKept, OpenFeedKept DEF ReplayInv
<1>2. CASE FinishSession
  <2>1. reader' = [reader EXCEPT !["session"] = Closed] /\ "session" \in Feeds
        /\ UNCHANGED <<candles, consumed, cursor, disturbed>>
    BY <1>2 DEF FinishSession, Feeds
  <2> QED
    BY <2>1, ReplayCloses
<1>3. ASSUME NEW f \in Feeds, CloseFeed(f) PROVE ReplayInv'
  <2>1. reader' = [reader EXCEPT ![f] = Closed]
        /\ UNCHANGED <<candles, consumed, cursor, disturbed>>
    BY <1>3 DEF CloseFeed
  <2> QED
    BY <2>1, ReplayCloses
<1>4. CASE ResetCursor
  <2>1. disturbed'
    BY <1>4 DEF ResetCursor, Disturb
  <2> QED
    BY <2>1 DEF ReplayInv
<1>5. CASE UNCHANGED vars
  <2>1. UNCHANGED <<candles, consumed, cursor, reader, disturbed>>
    BY <1>5 DEF vars
  <2> QED
    BY <2>1, ConsumedKept, OpenFeedKept DEF ReplayInv
<1>6. ASSUME NEW f \in Feeds, DieInCursorWrite(f) PROVE ReplayInv'
  <2>1. disturbed'
    BY <1>6 DEF DieInCursorWrite, Disturb
  <2> QED
    BY <2>1 DEF ReplayInv
<1> QED
  BY <1>1, <1>2, <1>3, <1>4, <1>5, <1>6, ReplayOpenSession, ReplayOpenTool, ReplayTake, ReplayAppend
  DEF Next

\* The replay is as described in every run.
THEOREM ReplayInvariance == Spec => []ReplayInv
BY TypeInvariance, ReplayInit, ReplayStep, PTL DEF Spec

\* Until an operator moves it, the replay reads the sorted file row by row,
\* whatever starts, fails, ends and is appended, and the cursor names the last
\* row read.
THEOREM ReplayCorrect == Spec => []ReplayContinues
<1>1. TypeInv /\ ReplayInv => ReplayContinues
  <2> SUFFICES ASSUME TypeInv, ReplayInv, ~disturbed
               PROVE  /\ consumed = SubSeq(Normalize(candles), 1, Len(consumed))
                      /\ consumed # <<>> => /\ cursor.path = Main
                                            /\ cursor.index + 1 = Len(consumed)
                                            /\ cursor.time = Last(consumed).time
    BY DEF ReplayContinues
  <2>1. PICK file \in Seq(Candle) : file = Normalize(candles) /\ Len(file) = Len(candles)
    BY NormalizeKeeps DEF TypeInv
  <2>2. consumed \in Seq(Candle) /\ Len(consumed) \in Nat /\ Len(consumed) <= Len(file)
        /\ \A i \in 1..Len(consumed) : consumed[i] = file[i]
    BY <2>1 DEF TypeInv, ReplayInv, ConsumedInv
  <2>3. consumed = SubSeq(file, 1, Len(consumed))
    <3>1. PICK part : part = SubSeq(file, 1, Len(consumed))
      OBVIOUS
    <3>2. part \in Seq(Candle) /\ Len(part) = Len(consumed)
          /\ \A i \in 1..Len(consumed) : part[i] = file[i]
      BY <2>2, <3>1
    <3>3. consumed = part
      BY <2>2, <3>2
    <3> QED
      BY <3>1, <3>3
  <2>4. ASSUME consumed # <<>>
        PROVE  cursor.path = Main /\ cursor.index + 1 = Len(consumed)
               /\ cursor.time = Last(consumed).time
    <3>1. Len(consumed) > 0
      BY <2>2, <2>4
    <3> QED
      BY <3>1 DEF ReplayInv, ConsumedInv, Last
  <2> QED
    BY <2>1, <2>3, <2>4
<1> QED
  BY <1>1, TypeInvariance, ReplayInvariance, PTL
=============================================================================
