---------------------------- MODULE MCTools_proofs ----------------------------
(***************************************************************************)
(* Proofs about the tools of MCTools: its replay is FeedReplay's, what is  *)
(* proved of the backtests holds of its rows, the splits of Validation     *)
(* keep the order of time for data sets of any size and any settings, a    *)
(* recommendation and a gate mean what their evidence says, the reports     *)
(* agree with each other and with the sessions on tables of any length,    *)
(* and trades.db serves the program that created it, whatever versions of  *)
(* the two programs open it.                                               *)
(***************************************************************************)
EXTENDS MCTools, Backtests_proofs, TLAPS

-----------------------------------------------------------------------------
(* Arithmetic                                                              *)

\* Multiples of a step are a step apart at least.
LEMMA Steps ==
  ASSUME NEW k \in Nat, NEW l \in Nat, NEW s \in Nat, k < l
  PROVE  k * s \in Nat /\ l * s \in Nat /\ k * s + s <= l * s
<1>1. PICK d \in Nat : l = k + 1 + d
  <2>1. l - k - 1 \in Nat /\ l = k + 1 + (l - k - 1)
    OBVIOUS
  <2> QED
    BY <2>1
<1>2. k * s \in Nat /\ d * s \in Nat
  OBVIOUS
<1>3. l * s = k * s + s + d * s
  BY <1>1
<1> QED
  BY <1>2, <1>3

\* Rows shared out among splits.
LEMMA Shares ==
  ASSUME NEW free \in Nat, NEW splits \in Nat \ {0}
  PROVE  /\ free \div splits \in Nat
         /\ splits * (free \div splits) <= free
         /\ free < splits => free \div splits = 0
         /\ free >= splits => free \div splits >= 1
OBVIOUS

\* Seventy and eighty-five percent of seven rows or more, rounded down.
LEMMA Percentages ==
  ASSUME NEW n \in Nat, n >= 7
  PROVE  /\ 0 < (70 * n) \div 100 /\ (70 * n) \div 100 < (85 * n) \div 100
         /\ (85 * n) \div 100 < n
OBVIOUS

-----------------------------------------------------------------------------
(* SafeTimeSeriesSplit                                                     *)

\* The rows between the smallest training part, its gap and the end of n rows.
Free(n, gap, minTrain) == n - minTrain - gap

\* The test rows of a fold, and its start in the fold's number.
TestSize(free, splits) == Larger(1, free \div splits)
FoldAt(k, n, size, gap, minTrain) ==
  Fold(0..(minTrain + k * size - 1),
       {i \in (minTrain + k * size + gap)..(minTrain + k * size + gap + size - 1) : i < n})

Smaller(a, b) == IF a < b THEN a ELSE b

\* With rows to test there is room for one fold, and each fold that was asked
\* for starts before the end unless there are fewer rows than folds.
LEMMA FoldsFit ==
  ASSUME NEW free \in Nat, free >= 1, NEW splits \in Nat \ {0}
  PROVE  /\ TestSize(free, splits) \in Nat /\ TestSize(free, splits) >= 1
         /\ TestSize(free, splits) <= free
         /\ \A k \in 0..(splits - 1) :
              k * TestSize(free, splits) < free <=> k < Smaller(free, splits)
<1>1. PICK share \in Nat : /\ share = free \div splits
                           /\ splits * share <= free
                           /\ free < splits => share = 0
                           /\ free >= splits => share >= 1
  BY Shares
<1>2. PICK size : size = TestSize(free, splits)
  OBVIOUS
<1>3. size = Larger(1, share)
  BY <1>1, <1>2 DEF TestSize
<1>4. CASE free < splits
  <2>1. size = 1
    BY <1>1, <1>3, <1>4 DEF Larger
  <2>2. \A k \in 0..(splits - 1) : k * size = k
    BY <2>1
  <2>3. Smaller(free, splits) = free
    BY <1>4 DEF Smaller
  <2> QED
    BY <1>2, <2>1, <2>2, <2>3
<1>5. CASE free >= splits
  <2>1. size = share /\ share >= 1
    BY <1>1, <1>3, <1>5 DEF Larger
  <2>2. Smaller(free, splits) = splits
    BY <1>5 DEF Smaller
  <2>3. ASSUME NEW k \in 0..(splits - 1) PROVE k * share < free /\ k < splits
    <3>1. k \in Nat /\ k < splits /\ splits \in Nat
      OBVIOUS
    <3>2. k * share \in Nat /\ splits * share \in Nat /\ k * share + share <= splits * share
      BY <1>1, <3>1, Steps
    <3> QED
      BY <1>1, <2>1, <3>1, <3>2
  <2>4. share <= free
    <3>1. 0 \in 0..(splits - 1) /\ splits >= 1
      OBVIOUS
    <3>2. 0 * share + share <= splits * share /\ splits * share \in Nat /\ 0 * share = 0
      BY <1>1, <3>1, Steps
    <3> QED
      BY <1>1, <3>2
  <2> QED
    BY <1>1, <1>2, <2>1, <2>2, <2>3, <2>4
<1> QED
  BY <1>4, <1>5

\* The folds of a data set, numbered from the earliest.
LEMMA SafeFolds ==
  ASSUME NEW n \in Nat, NEW splits \in Nat \ {0}, NEW gap \in Nat, NEW minTrain \in Nat
  PROVE  LET free == Free(n, gap, minTrain)
             size == TestSize(free, splits) IN
         /\ free < 1 => SafeSplit(n, splits, gap, minTrain) = {}
         /\ free >= 1 => SafeSplit(n, splits, gap, minTrain)
                         = {FoldAt(k, n, size, gap, minTrain) : k \in 0..(Smaller(free, splits) - 1)}
<1>1. PICK free \in Int : free = Free(n, gap, minTrain) /\ free = n - minTrain - gap
  BY DEF Free
<1>2. PICK size \in Int : size = TestSize(free, splits) /\ size >= 1
  <2>1. free \div splits \in Int
    OBVIOUS
  <2> QED
    BY <2>1 DEF TestSize, Larger
<1> DEFINE start(k) == minTrain + k * size + gap
           kept == {k \in 0..(splits - 1) : start(k) < n}
<1>3. SafeSplit(n, splits, gap, minTrain)
      = IF n < minTrain + gap + size THEN {}
        ELSE {Fold(0..(start(k) - gap - 1), {i \in start(k)..(start(k) + size - 1) : i < n}) :
                k \in kept}
  BY <1>1, <1>2 DEF SafeSplit, TestSize
<1>4. CASE free < 1
  <2>1. n < minTrain + gap + size
    BY <1>1, <1>2, <1>4
  <2> QED
    BY <1>1, <1>3, <1>4, <2>1
<1>5. CASE free >= 1
  <2>1. free \in Nat /\ size \in Nat /\ size <= free
        /\ \A k \in 0..(splits - 1) : k * size < free <=> k < Smaller(free, splits)
    <3>1. free \in Nat /\ size \in Nat
      BY <1>1, <1>2, <1>5
    <3>2. TestSize(free, splits) <= free
          /\ \A k \in 0..(splits - 1) :
               k * TestSize(free, splits) < free <=> k < Smaller(free, splits)
      BY <1>5, <3>1, FoldsFit
    <3> QED
      BY <1>2, <3>1, <3>2, Zenon
  <2>2. ~(n < minTrain + gap + size)
    BY <1>1, <2>1
  <2>3. \A k \in 0..(splits - 1) : start(k) < n <=> k < Smaller(free, splits)
    <3> SUFFICES ASSUME NEW k \in 0..(splits - 1)
                 PROVE  start(k) < n <=> k < Smaller(free, splits)
      OBVIOUS
    <3>1. PICK m \in Nat : m = k * size
      BY <2>1
    <3>2. start(k) < n <=> m < free
      BY <1>1, <3>1
    <3> QED
      BY <2>1, <3>1, <3>2
  <2>4. kept = 0..(Smaller(free, splits) - 1)
    <3>1. Smaller(free, splits) \in Nat /\ Smaller(free, splits) <= splits
      BY <2>1 DEF Smaller
    <3>2. \A k \in 0..(splits - 1) : k < Smaller(free, splits) <=> k \in 0..(Smaller(free, splits) - 1)
      BY <3>1
    <3>3. 0..(Smaller(free, splits) - 1) \subseteq 0..(splits - 1)
      BY <3>1
    <3> QED
      BY <2>3, <3>2, <3>3
  <2>5. \A k \in 0..(splits - 1) :
          Fold(0..(start(k) - gap - 1), {i \in start(k)..(start(k) + size - 1) : i < n})
          = FoldAt(k, n, size, gap, minTrain)
    <3> SUFFICES ASSUME NEW k \in 0..(splits - 1)
                 PROVE  Fold(0..(start(k) - gap - 1), {i \in start(k)..(start(k) + size - 1) : i < n})
                        = FoldAt(k, n, size, gap, minTrain)
      OBVIOUS
    <3>1. PICK m \in Nat : m = k * size
      BY <2>1
    <3>2. start(k) - gap - 1 = minTrain + m - 1 /\ start(k) = minTrain + m + gap
      BY <3>1
    <3>3. start(k) = minTrain + k * size + gap /\ start(k) - gap - 1 = minTrain + k * size - 1
      BY <3>1, <3>2
    <3> HIDE DEF start
    <3> QED
      BY <3>3, Zenon DEF FoldAt
  <2> HIDE DEF start
  <2>6. kept \subseteq 0..(splits - 1)
    OBVIOUS
  <2> HIDE DEF kept
  <2>7. {Fold(0..(start(k) - gap - 1), {i \in start(k)..(start(k) + size - 1) : i < n}) : k \in kept}
        = {FoldAt(k, n, size, gap, minTrain) : k \in kept}
    BY <2>5, <2>6, Zenon
  <2>8. SafeSplit(n, splits, gap, minTrain) = {FoldAt(k, n, size, gap, minTrain) : k \in kept}
    BY <1>3, <2>2, <2>7, Zenon
  <2> QED
    BY <1>1, <1>2, <1>5, <2>4, <2>8
<1> QED
  BY <1>1, <1>4, <1>5

\* One fold: rows to train on, rows to test on, and the gap between them.
LEMMA FoldFacts ==
  ASSUME NEW n \in Nat, NEW size \in Nat, size >= 1, NEW gap \in Nat,
         NEW minTrain \in Nat \ {0}, NEW k \in Nat, k * size < Free(n, gap, minTrain)
  PROVE  LET f == FoldAt(k, n, size, gap, minTrain) IN
         /\ f.train # {} /\ f.test # {} /\ f.test \subseteq 0..(n - 1)
         /\ \A i \in f.train, j \in f.test : i + gap < j
<1>1. PICK m \in Nat : m = k * size
  OBVIOUS
<1>2. PICK train, test : /\ train = 0..(minTrain + m - 1)
                         /\ test = {i \in (minTrain + m + gap)..(minTrain + m + gap + size - 1) : i < n}
  OBVIOUS
<1>3. FoldAt(k, n, size, gap, minTrain) = Fold(train, test)
  BY <1>1, <1>2 DEF FoldAt
<1>4. Fold(train, test).train = train /\ Fold(train, test).test = test
  BY DEF Fold
<1>5. 0 \in train
  BY <1>2
<1>6. minTrain + m + gap \in test
  BY <1>1, <1>2 DEF Free
<1>7. test \subseteq 0..(n - 1)
  BY <1>2
<1>8. \A i \in train, j \in test : i + gap < j
  BY <1>2
<1> QED
  BY <1>3, <1>4, <1>5, <1>6, <1>7, <1>8

\* Two folds train on different rows, and test on rows of their own.
LEMMA FoldsApart ==
  ASSUME NEW n \in Nat, NEW size \in Nat, size >= 1, NEW gap \in Nat,
         NEW minTrain \in Nat \ {0}, NEW k \in Nat, NEW l \in Nat, k < l
  PROVE  LET f == FoldAt(k, n, size, gap, minTrain)
             g == FoldAt(l, n, size, gap, minTrain) IN
         f # g /\ f.test \cap g.test = {}
<1>1. PICK m \in Nat, h \in Nat : m = k * size /\ h = l * size /\ m + size <= h
  BY Steps
<1>2. PICK trainF, testF :
        /\ trainF = 0..(minTrain + m - 1)
        /\ testF = {i \in (minTrain + m + gap)..(minTrain + m + gap + size - 1) : i < n}
  OBVIOUS
<1>3. PICK trainG, testG :
        /\ trainG = 0..(minTrain + h - 1)
        /\ testG = {i \in (minTrain + h + gap)..(minTrain + h + gap + size - 1) : i < n}
  OBVIOUS
<1>4. FoldAt(k, n, size, gap, minTrain) = Fold(trainF, testF)
  BY <1>1, <1>2 DEF FoldAt
<1>5. FoldAt(l, n, size, gap, minTrain) = Fold(trainG, testG)
  BY <1>1, <1>3 DEF FoldAt
<1>6. /\ Fold(trainF, testF).train = trainF /\ Fold(trainF, testF).test = testF
      /\ Fold(trainG, testG).train = trainG /\ Fold(trainG, testG).test = testG
  BY DEF Fold
<1>7. minTrain + h - 1 \in trainG /\ minTrain + h - 1 \notin trainF
  BY <1>1, <1>2, <1>3
<1>8. testF \cap testG = {}
  BY <1>1, <1>2, <1>3
<1> QED
  BY <1>4, <1>5, <1>6, <1>7, <1>8

\* The same of any two folds.
LEMMA FoldsDiffer ==
  ASSUME NEW n \in Nat, NEW size \in Nat, size >= 1, NEW gap \in Nat,
         NEW minTrain \in Nat \ {0}, NEW k \in Nat, NEW l \in Nat, k # l
  PROVE  LET f == FoldAt(k, n, size, gap, minTrain)
             g == FoldAt(l, n, size, gap, minTrain) IN
         f # g /\ f.test \cap g.test = {}
<1>1. PICK f, g : f = FoldAt(k, n, size, gap, minTrain) /\ g = FoldAt(l, n, size, gap, minTrain)
  OBVIOUS
<1>2. k < l => f # g /\ f.test \cap g.test = {}
  BY <1>1, FoldsApart
<1>3. l < k => g # f /\ g.test \cap f.test = {}
  BY <1>1, FoldsApart
<1>4. k < l \/ l < k
  OBVIOUS
<1>5. f # g /\ f.test \cap g.test = {}
  BY <1>2, <1>3, <1>4
<1> QED
  BY <1>1, <1>5

\* n numbers counted from 0.
LEMMA CountFrom0 ==
  ASSUME NEW m \in Nat
  PROVE  IsFiniteSet(0..(m - 1)) /\ Cardinality(0..(m - 1)) = m
<1>1. 0 \in Int /\ m - 1 \in Int /\ (0 > m - 1 => m = 0) /\ (~(0 > m - 1) => m - 1 - 0 + 1 = m)
  OBVIOUS
<1>2. IsFiniteSet(0..(m - 1))
  BY <1>1, FS_Interval
<1> QED
  BY <1>1, <1>2, FS_Interval

\* What a safe split promises.
SafeIn(n, splits, gap, minTrain) ==
  LET folds == SafeSplit(n, splits, gap, minTrain)
      free == Larger(0, n - minTrain - gap) IN
  /\ \A f \in folds :
       /\ f.train # {} /\ f.test # {} /\ f.test \subseteq 0..(n - 1)
       /\ \A i \in f.train, j \in f.test : i + gap < j
  /\ \A f, g \in folds : f # g => f.test \cap g.test = {}
  /\ Cardinality(folds) = IF free < splits THEN free ELSE splits

\* A safe split of any data set, with any settings: every test row of a fold
\* comes after all its training rows and the gap, the tests of different folds
\* share no row, and there are as many folds as were asked for or as the rows
\* allow (SafeTimeSeriesSplit.split).
THEOREM SafeSplits ==
  ASSUME NEW n \in Nat, NEW splits \in Nat \ {0}, NEW gap \in Nat, NEW minTrain \in Nat \ {0}
  PROVE  SafeIn(n, splits, gap, minTrain)
<1>1. PICK free \in Int : free = Free(n, gap, minTrain) /\ free = n - minTrain - gap
  BY DEF Free
<1>2. PICK folds : folds = SafeSplit(n, splits, gap, minTrain)
  OBVIOUS
<1>3. CASE free < 1
  <2>1. folds = {}
    BY <1>1, <1>2, <1>3, SafeFolds
  <2>2. Larger(0, n - minTrain - gap) = 0
    BY <1>1, <1>3 DEF Larger
  <2>3. Cardinality(folds) = 0
    BY <2>1, FS_EmptySet
  <2> QED
    BY <1>2, <2>1, <2>2, <2>3 DEF SafeIn
<1>4. CASE free >= 1
  <2>1. PICK size \in Nat : /\ size = TestSize(free, splits) /\ size >= 1
                            /\ \A k \in 0..(splits - 1) : k * size < free <=> k < Smaller(free, splits)
    <3>1. free \in Nat
      BY <1>1, <1>4
    <3>2. /\ TestSize(free, splits) \in Nat /\ TestSize(free, splits) >= 1
          /\ \A k \in 0..(splits - 1) :
               k * TestSize(free, splits) < free <=> k < Smaller(free, splits)
      BY <1>4, <3>1, FoldsFit
    <3> QED
      BY <3>2, Zenon
  <2>2. PICK count \in Nat : count = Smaller(free, splits) /\ count <= splits
    BY <1>1, <1>4 DEF Smaller
  <2> DEFINE numbers == 0..(count - 1)
             F(k) == FoldAt(k, n, size, gap, minTrain)
             f == [k \in numbers |-> F(k)]
  <2>3. folds = {F(k) : k \in numbers}
    <3>1. SafeSplit(n, splits, gap, minTrain)
          = {FoldAt(k, n, TestSize(free, splits), gap, minTrain) :
               k \in 0..(Smaller(free, splits) - 1)}
      <4>1. Free(n, gap, minTrain) >= 1 =>
              SafeSplit(n, splits, gap, minTrain)
              = {FoldAt(k, n, TestSize(Free(n, gap, minTrain), splits), gap, minTrain) :
                   k \in 0..(Smaller(Free(n, gap, minTrain), splits) - 1)}
        BY SafeFolds, Zenon
      <4> QED
        BY <1>1, <1>4, <4>1, Zenon
    <3>2. folds = {FoldAt(k, n, size, gap, minTrain) : k \in 0..(count - 1)}
      BY <1>2, <2>1, <2>2, <3>1, Zenon
    <3> QED
      BY <3>2
  <2>4. ASSUME NEW k \in numbers
        PROVE  /\ F(k).train # {} /\ F(k).test # {} /\ F(k).test \subseteq 0..(n - 1)
               /\ \A i \in F(k).train, j \in F(k).test : i + gap < j
    <3>1. k \in Nat /\ k \in 0..(splits - 1) /\ k < count
      BY <2>2
    <3>2. k * size < Free(n, gap, minTrain)
      BY <1>1, <2>1, <2>2, <3>1
    <3> QED
      BY <2>1, <3>1, <3>2, FoldFacts
  <2>5. ASSUME NEW k \in numbers, NEW l \in numbers, k # l
        PROVE  F(k) # F(l) /\ F(k).test \cap F(l).test = {}
    <3>1. k \in Nat /\ l \in Nat
      BY <2>2
    <3> QED
      <4>1. k # l /\ size >= 1 /\ size \in Nat
        BY <2>1, <2>5
      <4> HIDE <2>1
      <4>2. \A i, j \in Nat : i # j => F(i) # F(j) /\ F(i).test \cap F(j).test = {}
        BY <4>1, FoldsDiffer
      <4> HIDE DEF F
      <4> QED
        BY <3>1, <4>1, <4>2
  <2>6. IsFiniteSet(numbers) /\ Cardinality(numbers) = count
    BY <2>2, CountFrom0
  <2> HIDE DEF numbers, F
  <2>7. f \in Bijection(numbers, folds)
    <3>1. f \in [numbers -> folds]
      BY <2>3
    <3>2. \A k, l \in numbers : f[k] = f[l] => k = l
      BY <2>5
    <3>3. \A g \in folds : \E k \in numbers : f[k] = g
      BY <2>3
    <3> HIDE DEF f
    <3> QED
      BY <3>1, <3>2, <3>3 DEF Bijection, Injection, Surjection, IsInjective
  <2>8. Cardinality(folds) = count
    BY <2>6, <2>7, FS_Bijection DEF ExistsBijection
  <2>9. count = IF Larger(0, n - minTrain - gap) < splits THEN Larger(0, n - minTrain - gap)
                ELSE splits
    BY <1>1, <1>4, <2>2 DEF Larger, Smaller
  <2>10. \A g \in folds :
           /\ g.train # {} /\ g.test # {} /\ g.test \subseteq 0..(n - 1)
           /\ \A i \in g.train, j \in g.test : i + gap < j
    BY <2>3, <2>4
  <2>11. \A g, h \in folds : g # h => g.test \cap h.test = {}
    BY <2>3, <2>5
  <2> QED
    BY <1>2, <2>8, <2>9, <2>10, <2>11 DEF SafeIn
<1> QED
  BY <1>1, <1>3, <1>4

\* With rows to test there is a fold.
LEMMA SomeFold ==
  ASSUME NEW n \in Nat, NEW splits \in Nat \ {0}, NEW gap \in Nat, NEW minTrain \in Nat,
         Free(n, gap, minTrain) >= 1
  PROVE  SafeSplit(n, splits, gap, minTrain) # {}
<1>1. SafeSplit(n, splits, gap, minTrain)
      = {FoldAt(k, n, TestSize(Free(n, gap, minTrain), splits), gap, minTrain) :
           k \in 0..(Smaller(Free(n, gap, minTrain), splits) - 1)}
  BY SafeFolds, Zenon
<1>2. 0 \in 0..(Smaller(Free(n, gap, minTrain), splits) - 1)
  BY DEF Smaller, Free
<1> QED
  BY <1>1, <1>2

\* The search of a hundred rows or more has a fold to average over.
LEMMA SearchHasFolds ==
  ASSUME NEW n \in Nat, n >= 100, NEW splits \in 1..5, NEW gap \in 0..2
  PROVE  SearchSplit(n, splits, gap) # {}
<1>1. PICK folds \in Nat \ {0} : folds = IF splits < 3 THEN splits ELSE 3
  OBVIOUS
<1>2. PICK half \in Nat : half = n \div 2 /\ 2 * half <= n /\ half >= 50
  OBVIOUS
<1>3. Larger(50, n \div 2) = half /\ Larger(1, n - 20) = n - 20 /\ half < n - 20
  BY <1>2 DEF Larger
<1>4. SearchSplit(n, splits, gap) = SafeSplit(n, folds, gap, half)
  BY <1>1, <1>3, Zenon DEF SearchSplit
<1>5. PICK free \in Nat : free = Free(n, gap, half) /\ free >= 1
  BY <1>2 DEF Free
<1>6. gap \in Nat
  OBVIOUS
<1>7. SafeSplit(n, folds, gap, half) # {}
  BY <1>1, <1>2, <1>5, <1>6, SomeFold
<1> QED
  BY <1>4, <1>7

\* The labels of a walk-forward fold stay inside its own parts.
LEMMA WalkForwardLabels ==
  ASSUME NEW size \in Nat, NEW start \in FoldStarts(size), NEW expiration \in 1..2
  PROVE  LET f == WalkFold(start, expiration) IN
         /\ \A i \in f.train : i + expiration < start + TrainWindow
         /\ \A j \in f.test : j + expiration < size
<1>1. TrainWindow \in Nat /\ TestWindow \in Nat
  BY ValidationAssumption
<1>2. start \in Nat /\ start + TrainWindow + TestWindow <= size
  BY <1>1 DEF FoldStarts
<1>3. PICK train, test :
        /\ train = start..(start + TrainWindow - 1 - expiration)
        /\ test = (start + TrainWindow)..(start + TrainWindow + TestWindow - 1 - expiration)
  OBVIOUS
<1>4. WalkFold(start, expiration) = Fold(train, test)
  BY <1>3 DEF WalkFold
<1>5. Fold(train, test).train = train /\ Fold(train, test).test = test
  BY DEF Fold
<1>6. \A i \in train : i + expiration < start + TrainWindow
  BY <1>1, <1>2, <1>3
<1>7. \A j \in test : j + expiration < size
  BY <1>1, <1>2, <1>3
<1> QED
  BY <1>4, <1>5, <1>6, <1>7

\* Splits, search, walk-forward folds and train_model's parts keep the order of
\* time, for data sets of any size.
THEOREM SplitsKeepTime ==
  ASSUME NEW n \in Nat
  PROVE  TemporalUpTo(n)
<1>1. ASSUME NEW size \in 0..n, NEW splits \in 1..3, NEW gap \in 0..2, NEW minTrain \in 1..3
      PROVE  SafeIn(size, splits, gap, minTrain)
  <2>1. size \in Nat /\ splits \in Nat \ {0} /\ gap \in Nat /\ minTrain \in Nat \ {0}
    OBVIOUS
  <2> QED
    BY <2>1, SafeSplits
<1>2. ASSUME NEW size \in 100..(100 + n), NEW splits \in 1..5, NEW gap \in 0..2
      PROVE  SearchSplit(size, splits, gap) # {}
  <2>1. size \in Nat /\ size >= 100
    OBVIOUS
  <2> QED
    BY <2>1, SearchHasFolds
<1>3. ASSUME NEW size \in 0..n, NEW start \in FoldStarts(size), NEW expiration \in 1..2
      PROVE  LET f == WalkFold(start, expiration) IN
             /\ \A i \in f.train : i + expiration < start + TrainWindow
             /\ \A j \in f.test : j + expiration < size
  <2>1. size \in Nat
    OBVIOUS
  <2> QED
    BY <2>1, WalkForwardLabels, Zenon
<1>4. ASSUME NEW size \in 7..n
      PROVE  /\ 0 < TemporalSplit(size)[1] /\ TemporalSplit(size)[1] < TemporalSplit(size)[2]
             /\ TemporalSplit(size)[2] < size
  <2>1. size \in Nat /\ size >= 7
    OBVIOUS
  <2>2. TemporalSplit(size)[1] = (70 * size) \div 100 /\ TemporalSplit(size)[2] = (85 * size) \div 100
    BY DEF TemporalSplit
  <2> QED
    BY <2>1, <2>2, Percentages
<1> QED
  BY <1>1, <1>2, <1>3, <1>4, Zenon DEF TemporalUpTo, SafeIn

-----------------------------------------------------------------------------
(* StressTester                                                            *)

\* What survived says of the metrics at a payout.
SurvivesAt(m) == m.factor[1] >= m.factor[2] /\ Within(m.drawdown, MaxDrawdownPerMille, 1000)

\* The threshold of the scenarios that do not raise it.
PlainThreshold == IF MinConfidence < 95 THEN MinConfidence ELSE 95

\* Of a scenario that keeps the threshold only the payout matters.
LEMMA OnlyPayout ==
  ASSUME NEW data, NEW name, NEW payout, NEW scenario, scenario = Scenarios[name],
         scenario.payout = payout, scenario.threshold = MinConfidence
  PROVE  Survived(data, name) <=> SurvivesAt(MetricsOn(data, payout, PlainThreshold))
<1>1. PICK m : m = MetricsOn(data, payout, PlainThreshold)
  OBVIOUS
<1>2. StressRow(data, scenario).factor = m.factor /\ StressRow(data, scenario).drawdown = m.drawdown
  BY <1>1 DEF StressRow, PlainThreshold
<1>3. Survived(data, name) = Survives(StressRow(data, scenario))
  BY DEF Survived
<1> QED
  BY <1>1, <1>2, <1>3 DEF Survives, SurvivesAt, Within

\* The payouts of the scenarios that keep the threshold.
LEMMA PlainScenarios ==
  /\ \A name \in {"payout_normal", "slippage_light", "slippage_heavy", "latency_1_candle",
                  "latency_2_candles", "connection_loss"} :
       /\ Scenarios[name].payout = (PayoutPercent * 1000) \div 100
       /\ Scenarios[name].threshold = MinConfidence
  /\ Scenarios.payout_reduced_5.payout = (PayoutPercent * 950) \div 100
  /\ Scenarios.payout_reduced_5.threshold = MinConfidence
  /\ Scenarios.payout_reduced_10.payout = (PayoutPercent * 900) \div 100
  /\ Scenarios.payout_reduced_10.threshold = MinConfidence
<1>1. PICK c \in Nat : c = MinConfidence /\ c + 0 = c
  BY BacktestAssumption
<1> QED
  BY <1>1 DEF Scenarios, Scenario

\* The metrics at two payouts are of the same trades.
LEMMA MetricsAtPayouts ==
  ASSUME NEW data \in Seq(FeatureRow), NEW threshold
  PROVE  \E won \in Seq(BOOLEAN) : \A payout :
           MetricsOn(data, payout, threshold) = SimulatedMetrics(won, payout)
<1>1. PICK n \in Nat : n = Larger(0, Len(data) - 1)
  <2>1. Len(data) - 1 \in Int
    OBVIOUS
  <2> QED
    BY <2>1, LargerType
<1>2. PICK labels : labels = Labels(data, 1) /\ Len(labels) = n
  <2>1. Labels(data, 1) = [i \in 1..n |-> data[i + 1].close > data[i].close]
    BY <1>1 DEF Labels
  <2>2. Len([i \in 1..n |-> data[i + 1].close > data[i].close]) = n
    OBVIOUS
  <2> QED
    BY <2>1, <2>2
<1>3. PICK ups : ups = [i \in DOMAIN data |-> data[i].up]
  OBVIOUS
<1>4. PICK won \in Seq(BOOLEAN) : \A payout :
        TradingMetrics(ups, labels, payout, threshold) = SimulatedMetrics(won, payout)
  BY <1>2, TradedResults
<1> QED
  BY <1>2, <1>3, <1>4, Zenon DEF MetricsOn

\* What survives at a payout survives at a higher one.
LEMMA HigherSurvives ==
  ASSUME NEW data \in Seq(FeatureRow), NEW threshold, NEW a \in Nat, NEW b \in Nat, a <= b,
         SurvivesAt(MetricsOn(data, a, threshold))
  PROVE  SurvivesAt(MetricsOn(data, b, threshold))
<1>1. PICK won \in Seq(BOOLEAN) : \A payout :
        MetricsOn(data, payout, threshold) = SimulatedMetrics(won, payout)
  BY MetricsAtPayouts
<1>2. ASSUME NEW payout
      PROVE  /\ SimulatedMetrics(won, payout).factor = ProfitFactor(Paid(won, payout))
             /\ SimulatedMetrics(won, payout).drawdown = Drawdown(SimulatedEquity(Paid(won, payout)))
  BY DEF SimulatedMetrics, Paid
<1>3. /\ ProfitFactor(Paid(won, a))[1] >= ProfitFactor(Paid(won, a))[2]
      /\ Within(Drawdown(SimulatedEquity(Paid(won, a))), MaxDrawdownPerMille, 1000)
  BY <1>1, <1>2 DEF SurvivesAt
<1>4. ProfitFactor(Paid(won, b))[1] >= ProfitFactor(Paid(won, b))[2]
  BY <1>3, FactorHelped
<1>5. Within(Drawdown(SimulatedEquity(Paid(won, b))), MaxDrawdownPerMille, 1000)
  <2>1. MaxDrawdownPerMille \in Nat /\ MaxDrawdownPerMille <= 1000 /\ 1000 \in Nat \ {0}
    BY ValidationAssumption, SMT
  <2> QED
    BY <1>3, <2>1, PayoutHelps
<1> QED
  BY <1>1, <1>2, <1>4, <1>5 DEF SurvivesAt

\* Whatever the rows, only the payout decides a stress test, and a lower payout
\* survived is a higher one survived: slippage, latency and a lost connection
\* change nothing, and "moderate stress passed" is a payout five percent lower
\* (StressTester.run).
THEOREM StressIsPayout ==
  ASSUME NEW data \in Seq(FeatureRow)
  PROVE  StressIsPayoutIn(data)
<1>1. PICK normal \in Nat, five \in Nat, ten \in Nat :
        /\ normal = (PayoutPercent * 1000) \div 100 /\ five = (PayoutPercent * 950) \div 100
        /\ ten = (PayoutPercent * 900) \div 100 /\ ten <= five /\ five <= normal
  <2>1. PayoutPercent \in Nat
    BY RiskAssumption
  <2> QED
    BY <2>1, SMT
<1> DEFINE At(payout) == SurvivesAt(MetricsOn(data, payout, PlainThreshold))
<1>2. \A name \in {"payout_normal", "slippage_light", "slippage_heavy", "latency_1_candle",
                   "latency_2_candles", "connection_loss"} : Survived(data, name) <=> At(normal)
  BY <1>1, PlainScenarios, OnlyPayout
<1>3. Survived(data, "payout_reduced_5") <=> At(five)
  BY <1>1, PlainScenarios, OnlyPayout
<1>4. Survived(data, "payout_reduced_10") <=> At(ten)
  BY <1>1, PlainScenarios, OnlyPayout
<1>5. (At(ten) => At(five)) /\ (At(five) => At(normal))
  BY <1>1, HigherSurvives
<1>6. ModerateStressPassed(data) <=> Survived(data, "payout_reduced_5")
  BY <1>2, <1>3, <1>5 DEF ModerateStressPassed
<1>7. ASSUME NEW name \in {"slippage_light", "slippage_heavy", "latency_1_candle",
                           "latency_2_candles", "connection_loss"}
      PROVE  Survived(data, name) = Survived(data, "payout_normal")
  <2>1. Survived(data, name) <=> Survived(data, "payout_normal")
    BY <1>2
  <2> QED
    BY <2>1 DEF Survived, Survives
<1> HIDE DEF At
<1> QED
  BY <1>3, <1>4, <1>5, <1>6, <1>7, Zenon DEF StressIsPayoutIn

-----------------------------------------------------------------------------
(* MonteCarloSimulator                                                     *)

\* What it may draw has the total of the results it is drawn from.
LEMMA OrdersKeepTotal ==
  ASSUME NEW profits \in Seq(Int)
  PROVE  \A o \in Orders(profits) : Total(o) = Total(profits)
<1>1. PICK n \in Nat : n = Len(profits) /\ DOMAIN profits = 1..n /\ \A i \in 1..n : profits[i] \in Int
  OBVIOUS
<1> SUFFICES ASSUME NEW o \in Orders(profits) PROVE Total(o) = Total(profits)
  OBVIOUS
<1>2. PICK p \in Bijection(1..n, 1..n) : o = [i \in 1..n |-> profits[p[i]]]
  BY <1>1 DEF Orders
<1>3. Order(p, n)
  BY <1>2 DEF Bijection, Injection, Surjection, IsInjective, Order
<1>4. \A i \in 1..n : p[i] \in 1..n
  BY <1>3 DEF Order
<1>5. o \in Seq(Int) /\ Len(o) = n /\ \A i \in 1..n : o[i] = profits[p[i]]
  BY <1>1, <1>2, <1>4
<1>6. Reordered(profits, o, p, n)
  BY <1>1, <1>3, <1>5 DEF Reordered
<1> QED
  BY <1>5, <1>6, ReorderedTotal

\* There are finitely many, and the order they have is one.
LEMMA OrdersCounted ==
  ASSUME NEW profits \in Seq(Int)
  PROVE  IsFiniteSet(Orders(profits)) /\ Orders(profits) # {}
<1>1. PICK n \in Nat : n = Len(profits) /\ DOMAIN profits = 1..n
  OBVIOUS
<1> DEFINE values == {profits[i] : i \in 1..n}
           pairs == (1..n) \X values
           Graph(o) == {<<i, o[i]>> : i \in 1..n}
           graph == [o \in Orders(profits) |-> Graph(o)]
<1>2. IsFiniteSet(1..n)
  <2>1. 1 \in Int /\ n \in Int
    OBVIOUS
  <2> QED
    BY <2>1, FS_Interval
<1>3. IsFiniteSet(values)
  <2>1. PICK value : value = [i \in 1..n |-> profits[i]]
    OBVIOUS
  <2>2. value \in Surjection(1..n, values)
    BY <2>1 DEF Surjection
  <2> HIDE DEF values
  <2> QED
    BY <1>2, <2>2, FS_Surjection
<1>4. IsFiniteSet(SUBSET pairs)
  <2> HIDE DEF values
  <2>1. IsFiniteSet(pairs)
    BY <1>2, <1>3, FS_Product
  <2> HIDE DEF pairs
  <2> QED
    BY <2>1, FS_SUBSET
<1>5. ASSUME NEW o \in Orders(profits)
      PROVE  DOMAIN o = 1..n /\ o = [i \in 1..n |-> o[i]] /\ \A i \in 1..n : o[i] \in values
  <2>1. PICK p \in Bijection(1..n, 1..n) : o = [i \in 1..n |-> profits[p[i]]]
    BY <1>1 DEF Orders
  <2>2. \A i \in 1..n : p[i] \in 1..n
    BY DEF Bijection, Injection
  <2> QED
    BY <2>1, <2>2
<1>6. graph \in Injection(Orders(profits), SUBSET pairs)
  <2>1. ASSUME NEW o \in Orders(profits) PROVE Graph(o) \in SUBSET pairs
    BY <1>5
  <2>2. ASSUME NEW o \in Orders(profits), NEW u \in Orders(profits), Graph(o) = Graph(u) PROVE o = u
    <3>1. ASSUME NEW i \in 1..n PROVE o[i] = u[i]
      <4>1. <<i, o[i]>> \in Graph(u)
        BY <2>2
      <4>2. PICK j \in 1..n : <<i, o[i]>> = <<j, u[j]>>
        BY <4>1
      <4> QED
        BY <4>2
    <3> HIDE DEF Graph
    <3>2. o = [i \in 1..n |-> o[i]] /\ u = [i \in 1..n |-> u[i]]
      BY <1>5
    <3> QED
      BY <3>1, <3>2
  <2> HIDE DEF Graph, pairs, values
  <2>3. graph \in [Orders(profits) -> SUBSET pairs]
    BY <2>1
  <2>4. \A o, u \in Orders(profits) : graph[o] = graph[u] => o = u
    BY <2>2
  <2>5. DOMAIN graph = Orders(profits)
    OBVIOUS
  <2> HIDE DEF graph
  <2> QED
    BY <2>3, <2>4, <2>5 DEF Injection, IsInjective
<1>7. IsFiniteSet(Orders(profits))
  <2> HIDE DEF graph, pairs, values, Graph
  <2> QED
    BY <1>4, <1>6, FS_Injection
<1>8. Orders(profits) # {}
  <2>1. PICK p : p = [i \in 1..n |-> i]
    OBVIOUS
  <2>2. p \in Bijection(1..n, 1..n)
    BY <2>1 DEF Bijection, Injection, Surjection, IsInjective
  <2>3. [i \in 1..n |-> profits[p[i]]] \in Orders(profits)
    BY <1>1, <2>2 DEF Orders
  <2> QED
    BY <2>3
<1> QED
  BY <1>7, <1>8

\* All of them are a thousand per mille.
LEMMA ExactShare ==
  ASSUME NEW c \in Nat \ {0}
  PROVE  \A d : d = c => (1000 * d) \div c = 1000
OBVIOUS

\* None of them is none.
LEMMA NoShare ==
  ASSUME NEW c \in Nat \ {0}
  PROVE  \A d : d = 0 => (1000 * d) \div c = 0
OBVIOUS

\* So the probability is zero or one: whether the results made money.
LEMMA CertainProfit ==
  ASSUME NEW profits \in Seq(Int)
  PROVE  ProbabilityOfProfit(profits) = IF Total(profits) > 0 THEN 1000 ELSE 0
<1>1. CASE profits = <<>>
  <2>1. Total(profits) = 0
    <3>1. Len(profits) = 0
      BY <1>1
    <3> QED
      BY <3>1, PrefixTotals
  <2> QED
    BY <1>1, <2>1 DEF ProbabilityOfProfit
<1>2. CASE profits # <<>>
  <2>1. PICK orders : orders = Orders(profits) /\ IsFiniteSet(orders) /\ orders # {}
    BY OrdersCounted
  <2>2. PICK c \in Nat \ {0} : c = Cardinality(orders)
    BY <2>1, FS_CardinalityType, FS_EmptySet
  <2>3. PICK d : d = Cardinality({o \in orders : Total(o) > 0})
    OBVIOUS
  <2>4. ProbabilityOfProfit(profits) = (1000 * d) \div c
    BY <1>2, <2>1, <2>2, <2>3 DEF ProbabilityOfProfit
  <2>5. \A o \in orders : Total(o) = Total(profits)
    BY <2>1, OrdersKeepTotal
  <2>6. CASE Total(profits) > 0
    <3>1. {o \in orders : Total(o) > 0} = orders
      BY <2>5, <2>6
    <3>2. d = c
      BY <2>2, <2>3, <3>1
    <3>3. (1000 * d) \div c = 1000
      BY <3>2, ExactShare
    <3>4. ProbabilityOfProfit(profits) = 1000
      BY <2>4, <3>3
    <3> QED
      BY <2>6, <3>4
  <2>7. CASE ~(Total(profits) > 0)
    <3>1. {o \in orders : Total(o) > 0} = {}
      BY <2>5, <2>7
    <3>2. d = 0
      BY <2>3, <3>1, FS_EmptySet
    <3>3. (1000 * d) \div c = 0
      BY <3>2, NoShare
    <3>4. ProbabilityOfProfit(profits) = 0
      BY <2>4, <3>3
    <3> QED
      BY <2>7, <3>4
  <2> QED
    BY <2>6, <2>7
<1> QED
  BY <1>1, <1>2

\* The made-up results make money.
LEMMA MadeUpEarns ==
  <<1, -1, 1, 1, -1>> \in Seq(Int) /\ Total(<<1, -1, 1, 1, -1>>) > 0
<1>1. PICK q \in Seq(Int) : q = <<1, -1, 1, 1, -1>>
  <2>1. PICK a \in Int, b \in Int : a = 1 /\ b = -1
    OBVIOUS
  <2>2. <<a, b, a, a, b>> \in Seq(Int)
    OBVIOUS
  <2> QED
    BY <2>1, <2>2
<1>2. Len(q) = 5 /\ q[1] = 1 /\ q[2] = -1 /\ q[3] = 1 /\ q[4] = 1 /\ q[5] = -1
  BY <1>1
<1>3. PICK h \in [0..Len(q) -> Int] :
        h[0] = 0 /\ h[Len(q)] = Total(q) /\ \A k \in 1..Len(q) : h[k] = h[k - 1] + q[k]
  BY TotalRun
<1>4. h[0] = 0 /\ h[5] = Total(q) /\ \A k \in 1..5 : h[k] = h[k - 1] + q[k]
  BY <1>2, <1>3
<1>5. h[1] = h[0] + 1
  <2>1. 1 \in 1..5 /\ 1 - 1 = 0
    OBVIOUS
  <2> QED
    BY <1>2, <1>4, <2>1
<1>6. h[2] = h[1] + (-1)
  <2>1. 2 \in 1..5 /\ 2 - 1 = 1
    OBVIOUS
  <2> QED
    BY <1>2, <1>4, <2>1
<1>7. h[3] = h[2] + 1
  <2>1. 3 \in 1..5 /\ 3 - 1 = 2
    OBVIOUS
  <2> QED
    BY <1>2, <1>4, <2>1
<1>8. h[4] = h[3] + 1
  <2>1. 4 \in 1..5 /\ 4 - 1 = 3
    OBVIOUS
  <2> QED
    BY <1>2, <1>4, <2>1
<1>9. h[5] = h[4] + (-1)
  <2>1. 5 \in 1..5 /\ 5 - 1 = 4
    OBVIOUS
  <2> QED
    BY <1>2, <1>4, <2>1
<1>10. h[5] = 1
  BY <1>4, <1>5, <1>6, <1>7, <1>8, <1>9
<1> QED
  BY <1>1, <1>4, <1>10

\* The report's threshold asks whether the last ML backtest, if there was one,
\* made money.
LEMMA MonteCarloAsks ==
  ASSUME NEW data \in Seq(FeatureRow), NEW backtested \in BOOLEAN
  PROVE  /\ Profits(MLBacktest(data, 1)) \in Seq(Int)
         /\ ProbabilityOfProfit(MonteCarloProfits(data, backtested)) >= 600
              <=> (backtested => Total(Profits(MLBacktest(data, 1))) > 0)
<1>1. PICK profits \in Seq(Int) : profits = Profits(MLBacktest(data, 1))
  <2>1. MLBacktest(data, 1) \in MLRun
    <3>1. PICK n \in Nat : n = Larger(0, Len(data) - 1)
      BY LargerType
    <3> QED
      BY <3>1, MLFacts
  <2>2. MLBacktest(data, 1).trades \in Seq(Trade)
    BY <2>1 DEF MLRun
  <2> QED
    BY <2>2, ProfitsOfTrades
<1>2. CASE backtested
  <2>1. MonteCarloProfits(data, backtested) = profits
    BY <1>1, <1>2 DEF MonteCarloProfits
  <2>2. ProbabilityOfProfit(profits) = IF Total(profits) > 0 THEN 1000 ELSE 0
    BY CertainProfit
  <2>3. ProbabilityOfProfit(profits) >= 600 <=> Total(profits) > 0
    BY <2>2
  <2>4. Profits(MLBacktest(data, 1)) \in Seq(Int)
    BY <1>1
  <2>5. ProbabilityOfProfit(MonteCarloProfits(data, backtested)) >= 600
          <=> Total(Profits(MLBacktest(data, 1))) > 0
    BY <1>1, <2>1, <2>3
  <2> QED
    BY <1>2, <2>4, <2>5
<1>3. CASE ~backtested
  <2>1. MonteCarloProfits(data, backtested) = <<1, -1, 1, 1, -1>>
    BY <1>3 DEF MonteCarloProfits
  <2>2. PICK made \in Seq(Int) : made = <<1, -1, 1, 1, -1>> /\ Total(made) > 0
    BY MadeUpEarns
  <2>3. ProbabilityOfProfit(made) = IF Total(made) > 0 THEN 1000 ELSE 0
    BY CertainProfit
  <2>4. ProbabilityOfProfit(made) = 1000
    BY <2>2, <2>3
  <2> QED
    BY <1>1, <1>3, <2>1, <2>2, <2>4
<1> QED
  BY <1>2, <1>3

-----------------------------------------------------------------------------
(* WalkForwardValidator                                                    *)

\* The subsets of a finite set by size.
LEMMA SubsetSizes ==
  ASSUME NEW domain, IsFiniteSet(domain), NEW s \in SUBSET domain
  PROVE  /\ IsFiniteSet(s) /\ Cardinality(s) \in Nat /\ Cardinality(s) <= Cardinality(domain)
         /\ Cardinality(domain) \in Nat
         /\ Cardinality(s) = 0 => s = {}
         /\ \A x \in s : Cardinality(s \ {x}) = Cardinality(s) - 1
<1>1. IsFiniteSet(s) /\ Cardinality(s) <= Cardinality(domain)
  BY FS_Subset
<1>2. ASSUME NEW x \in s PROVE Cardinality(s \ {x}) = Cardinality(s) - 1
  BY <1>1, FS_RemoveElement
<1>3. Cardinality(s) \in Nat /\ Cardinality(domain) \in Nat
  BY <1>1, FS_CardinalityType
<1>4. Cardinality(s) = 0 => s = {}
  BY <1>1, FS_EmptySet
<1> QED
  BY <1>1, <1>2, <1>3, <1>4

-----------------------------------------------------------------------------
(* The report's recommendation and the gate of an artifact                 *)

\* More is won than the breakeven of a payout asks for.
Beats(wins, total, percent) == wins * (100 + percent) > 100 * total

\* Who makes money has won more than the breakeven.
LEMMA EarningBeats ==
  ASSUME NEW wins \in Nat, NEW total \in Nat, NEW net \in Int, NEW percent \in Nat,
         NEW payout \in Nat, payout = 10 * percent, Earned(wins, total, net, payout), net > 0
  PROVE  Beats(wins, total, percent)
<1>1. PICK unit \in Nat : unit = 100 + percent
  OBVIOUS
<1>2. PICK brought \in Int : brought = wins * unit
  BY <1>1
<1>3. net + 1000 * total = 10 * brought
  <2>1. payout + 1000 = 10 * unit
    BY <1>1
  <2>2. wins * (10 * unit) = 10 * brought
    BY <1>2
  <2>3. wins * (payout + 1000) = wins * (10 * unit)
    BY <2>1
  <2> QED
    BY <2>2, <2>3 DEF Earned
<1>4. brought > 100 * total
  BY <1>2, <1>3
<1> QED
  BY <1>1, <1>2, <1>4 DEF Beats

\* A stretch of rows that made money won more than the breakeven.
LEMMA FoldEarns ==
  ASSUME NEW data \in Seq(FeatureRow)
  PROVE  LET m == MetricsOn(data, 10 * PayoutPercent, MinConfidence) IN
         m.net > 0 => Beats(m.wins, m.total, PayoutPercent)
<1>1. PICK m : m = MetricsOn(data, 10 * PayoutPercent, MinConfidence)
  OBVIOUS
<1>2. PICK percent \in Nat, payout \in Nat \ {0} : percent = PayoutPercent /\ payout = 10 * percent
  BY RiskAssumption
<1>3. PICK won \in Seq(BOOLEAN) : m = SimulatedMetrics(won, payout)
  <2>1. \E won \in Seq(BOOLEAN) : \A p : MetricsOn(data, p, MinConfidence) = SimulatedMetrics(won, p)
    BY MetricsAtPayouts
  <2> QED
    BY <1>1, <1>2, <2>1
<1>4. m.total = Len(won) /\ m.wins = Wins(Paid(won, payout)) /\ m.net = Total(Paid(won, payout))
  BY <1>3 DEF SimulatedMetrics, Paid
<1>5. PICK total \in Nat, wins \in Nat, net \in Int :
        /\ total = m.total /\ wins = m.wins /\ net = m.net
        /\ Earned(wins, total, net, payout)
  BY <1>4, NetEarned
<1>6. net > 0 => Beats(wins, total, percent)
  BY <1>2, <1>5, EarningBeats
<1> QED
  BY <1>1, <1>2, <1>5, <1>6

\* A stretch of a sequence is one of its members.
LEMMA StretchOf ==
  ASSUME NEW T, NEW q \in Seq(T), NEW first \in Nat \ {0}, NEW until \in Nat, until <= Len(q)
  PROVE  SubSeq(q, first, until) \in Seq(T)
OBVIOUS

\* The members of a set of three.
LEMMA MembersOf ==
  ASSUME NEW a, NEW b, NEW c, NEW S, {a, b, c} \subseteq S
  PROVE  a \in S /\ b \in S /\ c \in S
OBVIOUS

\* Finitely many folds, of which those that made money beat their breakeven.
FoldsEarn(folds) ==
  /\ IsFiniteSet(DOMAIN folds)
  /\ \A k \in DOMAIN folds :
       folds[k].net > 0 => Beats(folds[k].wins, folds[k].total, PayoutPercent)

\* What the walk-forward folds are.
LEMMA FoldsAreStretches ==
  ASSUME NEW data \in Seq(FeatureRow), NEW fitted
  PROVE  FoldsEarn(WalkForward(data, fitted))
<1>1. PICK folds : folds = WalkForward(data, fitted)
  OBVIOUS
<1>2. PICK n \in Nat : n = Len(data)
  OBVIOUS
<1>3. TrainWindow \in Nat /\ TestWindow \in Nat
  <2>1. {TrainWindow, TestWindow, StepSize} \subseteq Nat \ {0}
    BY ValidationAssumption
  <2>2. TrainWindow \in Nat \ {0} /\ TestWindow \in Nat \ {0}
    BY <2>1, MembersOf
  <2> QED
    BY <2>2
<1>4. PICK end \in Int : end = n - TrainWindow - TestWindow
  <2>1. n - TrainWindow - TestWindow \in Int
    BY <1>3
  <2> QED
    BY <2>1
<1>5. PICK starts : starts = IF TestWindow - 1 < MinTestRows THEN {} ELSE FoldStarts(n)
  OBVIOUS
<1>6. starts \subseteq 0..end
  BY <1>5, <1>4 DEF FoldStarts
<1>7. /\ DOMAIN folds = starts \cap fitted
      /\ \A k \in starts \cap fitted :
           folds[k] = MetricsOn(SubSeq(data, k + TrainWindow + 1, k + TrainWindow + TestWindow),
                                10 * PayoutPercent, MinConfidence)
  BY <1>1, <1>2, <1>5 DEF WalkForward
<1>8. IsFiniteSet(DOMAIN folds)
  <2>1. 0 \in Int
    OBVIOUS
  <2>2. IsFiniteSet(0..end)
    BY <2>1, FS_Interval
  <2>3. DOMAIN folds \in SUBSET (0..end)
    <3>1. DOMAIN folds = starts \cap fitted
      BY <1>7
    <3> QED
      BY <1>6, <3>1
  <2> QED
    BY <2>2, <2>3, FS_Subset
<1>9. ASSUME NEW k \in DOMAIN folds
      PROVE  folds[k].net > 0 => Beats(folds[k].wins, folds[k].total, PayoutPercent)
  <2>1. k \in Nat /\ k + TrainWindow + TestWindow <= n
    <3>1. k \in starts
      BY <1>7
    <3>2. k \in 0..end
      BY <1>6, <3>1
    <3> QED
      BY <1>2, <1>3, <1>4, <3>2
  <2>2. PICK first \in Nat \ {0}, until \in Nat :
          first = k + TrainWindow + 1 /\ until = k + TrainWindow + TestWindow /\ until <= n
    BY <1>3, <2>1
  <2>3. PICK part \in Seq(FeatureRow) : part = SubSeq(data, first, until)
    <3>1. until <= Len(data)
      BY <1>2, <2>2
    <3>2. SubSeq(data, first, until) \in Seq(FeatureRow)
      BY <2>2, <3>1, StretchOf
    <3> QED
      BY <3>2
  <2>4. folds[k] = MetricsOn(part, 10 * PayoutPercent, MinConfidence)
    BY <1>7, <2>2, <2>3
  <2>5. LET m == MetricsOn(part, 10 * PayoutPercent, MinConfidence) IN
        m.net > 0 => Beats(m.wins, m.total, PayoutPercent)
    BY <2>3, FoldEarns
  <2> QED
    BY <2>4, <2>5
<1> QED
  BY <1>1, <1>8, <1>9 DEF FoldsEarn

\* At least 60% of the folds beat their breakeven if so many made money.
LEMMA ProfitableBeat ==
  ASSUME NEW folds, FoldsEarn(folds), 10 * Summary(folds).profitable >= 6 * Summary(folds).folds
  PROVE  5 * Cardinality(Beating(folds)) >= 3 * Cardinality(DOMAIN folds)
<1>1. PICK starts : starts = DOMAIN folds /\ IsFiniteSet(starts)
  BY DEF FoldsEarn
<1>2. PICK many \in SUBSET starts : many = {k \in starts : folds[k].net > 0}
  OBVIOUS
<1>3. Summary(folds).folds = Cardinality(starts) /\ Summary(folds).profitable = Cardinality(many)
  BY <1>1, <1>2 DEF Summary
<1>4. PICK beating \in SUBSET starts : beating = Beating(folds)
  BY <1>1 DEF Beating
<1>5. many \in SUBSET beating
  <2> SUFFICES ASSUME NEW k \in many PROVE k \in beating
    OBVIOUS
  <2>1. k \in DOMAIN folds /\ folds[k].net > 0
    BY <1>1, <1>2
  <2>2. Beats(folds[k].wins, folds[k].total, PayoutPercent)
    BY <2>1 DEF FoldsEarn
  <2> QED
    BY <1>4, <2>1, <2>2 DEF Beating, Beats
<1>6. PICK a \in Nat, b \in Nat, n \in Nat :
        a = Cardinality(many) /\ b = Cardinality(beating) /\ n = Cardinality(starts) /\ a <= b
  <2>1. IsFiniteSet(beating) /\ Cardinality(beating) \in Nat /\ Cardinality(starts) \in Nat
    BY <1>1, SubsetSizes
  <2>2. Cardinality(many) \in Nat /\ Cardinality(many) <= Cardinality(beating)
    BY <1>5, <2>1, SubsetSizes
  <2> QED
    BY <2>1, <2>2
<1>7. 10 * a >= 6 * n
  BY <1>3, <1>6
<1>8. 5 * b >= 3 * n
  BY <1>6, <1>7
<1> QED
  BY <1>1, <1>4, <1>6, <1>8

\* Nothing adds up to nothing.
LEMMA TotalOfNone == Total(<<>>) = 0
<1>1. PICK q \in Seq(Int) : q = <<>>
  <2>1. <<>> \in Seq(Int)
    OBVIOUS
  <2> QED
    BY <2>1
<1>2. Len(q) = 0
  BY <1>1
<1>3. PrefixTotal(q, 0) = 0 /\ PrefixTotal(q, Len(q)) = Total(q)
  BY PrefixTotals
<1> QED
  BY <1>1, <1>2, <1>3

\* The trades won at any payout are those won.
LEMMA WinsAnyPayout ==
  ASSUME NEW won \in Seq(BOOLEAN), NEW a \in Nat \ {0}, NEW b \in Nat \ {0}
  PROVE  Wins(Paid(won, a)) = Wins(Paid(won, b))
<1>1. ASSUME NEW payout \in Nat \ {0}
      PROVE  {k \in DOMAIN Paid(won, payout) : Paid(won, payout)[k] > 0} = {k \in DOMAIN won : won[k]}
  <2>1. DOMAIN Paid(won, payout) = DOMAIN won
    BY DEF Paid
  <2>2. ASSUME NEW k \in DOMAIN won PROVE Paid(won, payout)[k] > 0 <=> won[k]
    <3>1. Paid(won, payout)[k] = IF won[k] THEN payout ELSE -1000
      BY DEF Paid
    <3>2. won[k] \in BOOLEAN
      OBVIOUS
    <3> QED
      BY <3>1, <3>2
  <2> QED
    BY <2>1, <2>2
<1> QED
  BY <1>1 DEF Wins

\* A higher payout brings more, if anything was won.
LEMMA MoreEarned ==
  ASSUME NEW wins \in Nat, NEW total \in Nat, NEW less \in Int, NEW more \in Int,
         NEW a \in Nat, NEW b \in Nat, a < b, Earned(wins, total, less, a), Earned(wins, total, more, b),
         less >= 0, total > 0
  PROVE  more > 0
<1>1. PICK low \in Int, high \in Int : low = wins * a /\ high = wins * b
  OBVIOUS
<1>2. wins > 0
  <2> SUFFICES ASSUME wins = 0 PROVE FALSE
    OBVIOUS
  <2>1. less + 1000 * total = 0
    BY DEF Earned
  <2> QED
    BY <2>1
<1>3. high >= low + wins
  <2>1. PICK c \in Nat : c = a + 1 /\ c <= b
    OBVIOUS
  <2>2. wins * b = wins * c + wins * (b - c)
    BY <2>1
  <2>3. wins * (b - c) >= 0
    BY <2>1
  <2>4. wins * c = low + wins
    BY <1>1, <2>1
  <2> QED
    BY <1>1, <2>2, <2>3, <2>4
<1>4. less + 1000 * total = low + 1000 * wins
  BY <1>1 DEF Earned
<1>5. more + 1000 * total = high + 1000 * wins
  BY <1>1 DEF Earned
<1> QED
  BY <1>2, <1>3, <1>4, <1>5

\* What survives at a payout makes money at a higher one.
LEMMA SurvivorEarns ==
  ASSUME NEW won \in Seq(BOOLEAN), NEW a \in Nat \ {0}, NEW b \in Nat, a < b,
         ProfitFactor(Paid(won, a))[1] >= ProfitFactor(Paid(won, a))[2]
  PROVE  Total(Paid(won, b)) > 0
<1>1. PICK q \in Seq(Int) : q = Paid(won, a) /\ Len(q) = Len(won)
  BY PaidType
<1>2. PICK up \in Nat, down \in Nat : up = Gain(q) /\ down = Loss(q) /\ Total(q) = up - down
  BY GainLessLoss
<1>3. up >= down /\ up > 0
  <2>1. CASE down = 0
    <3>1. ProfitFactor(q) = (IF up > 0 THEN <<1, 0>> ELSE <<0, 1>>)
      BY <1>2, <2>1 DEF ProfitFactor
    <3> QED
      BY <1>1, <2>1, <3>1
  <2>2. CASE down # 0
    <3>1. ProfitFactor(q) = <<up, down>>
      BY <1>2, <2>2 DEF ProfitFactor
    <3> QED
      BY <1>1, <2>2, <3>1
  <2> QED
    BY <2>1, <2>2
<1>4. Len(won) # 0
  <2> SUFFICES ASSUME Len(won) = 0 PROVE FALSE
    OBVIOUS
  <2>1. q = <<>>
    BY <1>1
  <2>2. [k \in DOMAIN q |-> Larger(0, q[k])] = <<>>
    BY <2>1
  <2>3. Gain(q) = Total(<<>>)
    BY <2>2 DEF Gain
  <2> QED
    BY <1>2, <1>3, <2>3, TotalOfNone
<1>5. PICK wins \in Nat, total \in Nat, less \in Int, more \in Int :
        /\ less = Total(Paid(won, a)) /\ more = Total(Paid(won, b)) /\ total = Len(won)
        /\ Earned(wins, total, less, a) /\ Earned(wins, total, more, b)
  <2>1. b \in Nat \ {0}
    OBVIOUS
  <2>2. Wins(Paid(won, a)) = Wins(Paid(won, b))
    BY <2>1, WinsAnyPayout
  <2> QED
    BY <2>1, <2>2, NetEarned
<1>6. less >= 0 /\ total > 0
  BY <1>1, <1>2, <1>3, <1>4, <1>5
<1>7. more > 0
  BY <1>5, <1>6, MoreEarned
<1> QED
  BY <1>5, <1>7

\* A model that survives a payout five percent lower earns money at the full one.
LEMMA StressedEarns ==
  ASSUME NEW data \in Seq(FeatureRow), Survived(data, "payout_reduced_5")
  PROVE  StressRow(data, Scenarios.payout_normal).net > 0
<1>1. PICK five \in Nat \ {0}, normal \in Nat :
        /\ five = (PayoutPercent * 950) \div 100 /\ normal = (PayoutPercent * 1000) \div 100
        /\ five < normal
  <2>1. PayoutPercent \in Nat \ {0}
    BY RiskAssumption
  <2> QED
    BY <2>1, SMT
<1>2. SurvivesAt(MetricsOn(data, five, PlainThreshold))
  BY <1>1, PlainScenarios, OnlyPayout
<1>3. PICK won \in Seq(BOOLEAN) : \A payout :
        MetricsOn(data, payout, PlainThreshold) = SimulatedMetrics(won, payout)
  BY MetricsAtPayouts
<1>4. ProfitFactor(Paid(won, five))[1] >= ProfitFactor(Paid(won, five))[2]
  BY <1>2, <1>3 DEF SurvivesAt, SimulatedMetrics, Paid
<1>5. Total(Paid(won, normal)) > 0 /\ Total(Paid(won, normal)) \in Int
  <2>1. Total(Paid(won, normal)) > 0
    BY <1>1, <1>4, SurvivorEarns
  <2> QED
    BY <1>1, <2>1, NetEarned
<1>6. StressRow(data, Scenarios.payout_normal).net = Total(Paid(won, normal))
  <2>1. PICK m : m = MetricsOn(data, normal, PlainThreshold)
    OBVIOUS
  <2>2. m.net = Total(Paid(won, normal)) /\ m.total = Len(won)
    BY <1>3, <2>1 DEF SimulatedMetrics, Paid
  <2>3. /\ Scenarios.payout_normal.payout = normal /\ Scenarios.payout_normal.threshold = MinConfidence
        /\ Scenarios.payout_normal.penalty = 0
    BY <1>1, PlainScenarios DEF Scenarios, Scenario
  <2>4. StressRow(data, Scenarios.payout_normal).net = m.net - 0 * m.total
    BY <2>1, <2>3 DEF StressRow, PlainThreshold
  <2>5. Len(won) \in Nat
    OBVIOUS
  <2> QED
    BY <1>5, <2>2, <2>4, <2>5
<1> QED
  BY <1>5, <1>6

\* What a recommendation for demo rests on.
LEMMA RecommendMeans ==
  ASSUME NEW leak, NEW folds, NEW stability, NEW profitable, NEW stress,
         Recommend(leak, folds, stability, profitable, stress) = "DEMO_ALLOWED"
  PROVE  /\ DOMAIN folds # {} /\ profitable >= 600 /\ stress
         /\ 10 * Summary(folds).profitable >= 6 * Summary(folds).folds
BY DEF Recommend

\* What the recommendation of a whole validation guarantees.
LEMMA ValidateMeans ==
  ASSUME NEW data \in Seq(FeatureRow), NEW fitted, NEW leak, NEW backtested \in BOOLEAN, NEW stability,
         Validate(data, fitted, leak, stability, backtested) = "DEMO_ALLOWED"
  PROVE  LET folds == WalkForward(data, fitted) IN
         /\ DOMAIN folds # {}
         /\ 5 * Cardinality(Beating(folds)) >= 3 * Cardinality(DOMAIN folds)
         /\ StressRow(data, Scenarios.payout_normal).net > 0
         /\ backtested => Total(Profits(MLBacktest(data, 1))) > 0
<1>1. PICK folds : folds = WalkForward(data, fitted)
  OBVIOUS
<1>2. FoldsEarn(folds)
  BY <1>1, FoldsAreStretches
<1>3. PICK chance : chance = ProbabilityOfProfit(MonteCarloProfits(data, backtested))
  OBVIOUS
<1>4. PICK stress : stress = ModerateStressPassed(data)
  OBVIOUS
<1>5. Recommend(leak, folds, stability, chance, stress) = "DEMO_ALLOWED"
  BY <1>1, <1>3, <1>4 DEF Validate
<1>6. /\ DOMAIN folds # {} /\ chance >= 600 /\ stress
      /\ 10 * Summary(folds).profitable >= 6 * Summary(folds).folds
  BY <1>5, RecommendMeans
<1>7. 5 * Cardinality(Beating(folds)) >= 3 * Cardinality(DOMAIN folds)
  BY <1>2, <1>6, ProfitableBeat
<1>8. StressRow(data, Scenarios.payout_normal).net > 0
  <2>1. Survived(data, "payout_reduced_5")
    BY <1>4, <1>6 DEF ModerateStressPassed
  <2> QED
    BY <2>1, StressedEarns
<1>9. backtested => Total(Profits(MLBacktest(data, 1))) > 0
  BY <1>3, <1>6, MonteCarloAsks
<1> QED
  BY <1>1, <1>6, <1>7, <1>8, <1>9

\* The win rate an artifact needs: the payout's breakeven and three percent.
EligibleWins(wins, total, percent) ==
  100 * wins * (100 + percent) >= total * (10000 + 3 * (100 + percent))

\* An eligible win rate beats the payout's breakeven.
LEMMA EligibleRate ==
  ASSUME NEW wins \in Nat, NEW total \in Nat \ {0}, NEW net \in Int, NEW percent \in Nat,
         NEW payout \in Nat, payout = 10 * percent, Earned(wins, total, net, payout),
         EligibleWins(wins, total, percent)
  PROVE  net > 0
<1>1. PICK unit \in Nat : unit = 100 + percent
  OBVIOUS
<1>2. PICK brought \in Int, extra \in Nat : brought = wins * unit /\ extra = total * unit
  BY <1>1
<1>3. 100 * wins * (100 + percent) = 100 * brought
  BY <1>1, <1>2
<1>4. total * (10000 + 3 * (100 + percent)) = 10000 * total + 3 * extra
  BY <1>1, <1>2
<1>5. net + 1000 * total = 10 * brought
  <2>1. payout + 1000 = 10 * unit
    BY <1>1
  <2>2. wins * (10 * unit) = 10 * brought
    BY <1>2
  <2>3. wins * (payout + 1000) = wins * (10 * unit)
    BY <2>1
  <2> QED
    BY <2>2, <2>3 DEF Earned
<1>6. 100 * brought >= 10000 * total + 3 * extra
  BY <1>3, <1>4 DEF EligibleWins
<1> QED
  BY <1>2, <1>5, <1>6

\* An artifact eligible for demo made money in its simulated test.
LEMMA EligibleEarns ==
  ASSUME NEW data \in Seq(FeatureRow)
  PROVE  LET trained == TrainMetrics([i \in DOMAIN data |-> data[i].up], Labels(data, 1),
                                     10 * PayoutPercent) IN
         EligibleForDemo(trained, 60) /\ trained.total > 0 => trained.net > 0
<1>1. PICK m : m = TrainMetrics([i \in DOMAIN data |-> data[i].up], Labels(data, 1), 10 * PayoutPercent)
  OBVIOUS
<1>2. PICK payout \in Nat \ {0} : payout = 10 * PayoutPercent
  BY RiskAssumption
<1>3. PICK won \in Seq(BOOLEAN) : m = SimulatedMetrics(won, payout)
  <2>1. PICK n \in Nat : DOMAIN Labels(data, 1) = 1..n
    <3>1. DOMAIN Labels(data, 1) = 1..Larger(0, Len(data) - 1)
      BY DEF Labels
    <3>2. Len(data) - 1 \in Int
      OBVIOUS
    <3>3. Larger(0, Len(data) - 1) \in Nat
      BY <3>2, LargerType
    <3> QED
      BY <3>1, <3>3
  <2>2. PICK ups : ups = [i \in DOMAIN data |-> data[i].up]
    OBVIOUS
  <2>5. PICK labels : labels = Labels(data, 1)
    OBVIOUS
  <2>3. [i \in 1..n |-> ups[i] > 50 <=> labels[i]] \in Seq(BOOLEAN)
    OBVIOUS
  <2>4. m = SimulatedMetrics([i \in 1..n |-> ups[i] > 50 <=> labels[i]], payout)
    BY <1>1, <1>2, <2>1, <2>2, <2>5, Zenon DEF TrainMetrics
  <2> QED
    BY <2>3, <2>4
<1>4. m.total = Len(won) /\ m.wins = Wins(Paid(won, payout)) /\ m.net = Total(Paid(won, payout))
  BY <1>3 DEF SimulatedMetrics, Paid
<1>5. PICK total \in Nat, wins \in Nat, net \in Int :
        total = m.total /\ wins = m.wins /\ net = m.net /\ Earned(wins, total, net, payout)
  BY <1>4, NetEarned
<1>6. ASSUME EligibleForDemo(m, 60), total > 0 PROVE net > 0
  <2>1. EligibleWins(wins, total, PayoutPercent)
    BY <1>5, <1>6 DEF EligibleForDemo, EligibleWins
  <2>2. PICK percent \in Nat : percent = PayoutPercent
    BY RiskAssumption
  <2>3. /\ wins \in Nat /\ total \in Nat \ {0} /\ net \in Int /\ payout \in Nat
        /\ payout = 10 * percent /\ Earned(wins, total, net, payout) /\ EligibleWins(wins, total, percent)
    BY <1>2, <1>5, <1>6, <2>1, <2>2
  <2> HIDE <1>1, <1>2, <1>5, <2>2
  <2> QED
    BY <2>3, EligibleRate
<1> QED
  BY <1>1, <1>5, <1>6

\* Whatever the rows, a DEMO_ALLOWED report and an eligible artifact guarantee
\* what DemoMeansIn says: enough folds above breakeven and a model that earns on
\* the whole data set (ValidationReportBuilder._recommend,
\* evaluate_demo_promotion).
THEOREM DemoMeaning ==
  ASSUME NEW data \in Seq(FeatureRow)
  PROVE  DemoMeansIn(data)
<1>1. \A o \in Orders(Profits(MLBacktest(data, 1))) : Total(o) = Total(Profits(MLBacktest(data, 1)))
  <2>1. TRUE \in BOOLEAN
    OBVIOUS
  <2>2. Profits(MLBacktest(data, 1)) \in Seq(Int)
    BY <2>1, MonteCarloAsks
  <2> QED
    BY <2>2, OrdersKeepTotal
<1>2. \A fitted \in SUBSET FoldStarts(Len(data)), leak, backtested \in BOOLEAN,
         stability \in {399, 599, 600} :
        Validate(data, fitted, leak, stability, backtested) = "DEMO_ALLOWED" =>
          LET folds == WalkForward(data, fitted) IN
          /\ DOMAIN folds # {}
          /\ 5 * Cardinality(Beating(folds)) >= 3 * Cardinality(DOMAIN folds)
          /\ StressRow(data, Scenarios.payout_normal).net > 0
          /\ backtested => Total(Profits(MLBacktest(data, 1))) > 0
  BY ValidateMeans
<1>3. LET trained == TrainMetrics([i \in DOMAIN data |-> data[i].up], Labels(data, 1),
                                  10 * PayoutPercent) IN
      EligibleForDemo(trained, 60) /\ trained.total > 0 => trained.net > 0
  BY EligibleEarns
<1> QED
  BY <1>1, <1>2, <1>3 DEF DemoMeansIn

-----------------------------------------------------------------------------
(* The reports                                                             *)

\* One more row of the table.
Kept(table, ids, found, id) == IF id \in ids THEN Append(found, table[id]) ELSE found

\* The rows found after every row of the table.
RowsAtRunOf(table, ids, h) ==
  /\ h[0] = <<>> /\ RowsAt(table, ids) = h[Len(table)]
  /\ \A k \in 1..Len(table) : h[k] = Kept(table, ids, h[k - 1], k)

\* There is such a run.
LEMMA RowsAtRun ==
  ASSUME NEW T, NEW table \in Seq(T), NEW ids
  PROVE  \E h \in [0..Len(table) -> Seq(T)] : RowsAtRunOf(table, ids, h)
<1>0. PICK n \in Nat : n = Len(table) /\ DOMAIN table = 1..n /\ \A k \in 1..n : table[k] \in T
  OBVIOUS
<1> DEFINE places == [id \in DOMAIN table |-> id]
<1>1. n = Len(table) /\ DOMAIN places = 1..n /\ \A k \in 1..n : places[k] = k /\ table[k] \in T
  BY <1>0
<1> DEFINE IsFold(it) == it = [s \in SUBSET DOMAIN places |->
                                 IF s = {} THEN <<>> ELSE Kept(table, ids, it[s \ {Max(s)}], places[Max(s)])]
           fold == CHOOSE it : IsFold(it)
<1>2. RowsAt(table, ids) = fold[DOMAIN places]
  BY DEF RowsAt, Kept, FoldLeft, MapThenFoldSet
<1>3. PICK g : g = [k \in 1..n |-> [v \in Seq(T) |-> Kept(table, ids, v, k)]]
  OBVIOUS
<1>4. <<>> \in Seq(T) /\ g \in [1..n -> [Seq(T) -> Seq(T)]]
  <2>1. <<>> \in Seq(T)
    OBVIOUS
  <2>2. \A v \in Seq(T), k \in 1..n : Kept(table, ids, v, k) \in Seq(T)
    BY <1>1, Appended DEF Kept
  <2> QED
    BY <1>1, <1>3, <2>1, <2>2
<1>5. PICK it \in [SUBSET (1..n) -> Seq(T)] : Folded(it, n, <<>>, g)
  BY <1>4, FoldExists
<1>6. IsFold(it)
  <2>1. ASSUME NEW s \in SUBSET (1..n), s # {}
        PROVE  it[s] = Kept(table, ids, it[s \ {Max(s)}], places[Max(s)])
    <3>1. Max(s) \in 1..n /\ s \ {Max(s)} \in SUBSET (1..n)
      BY <2>1, MaxOf
    <3>2. PICK m \in 1..n, v \in Seq(T) : m = Max(s) /\ v = it[s \ {Max(s)}]
      BY <3>1
    <3>3. it[s] = g[m][v]
      BY <1>5, <2>1, <3>2 DEF Folded
    <3>4. g[m][v] = Kept(table, ids, v, places[m])
      BY <1>1, <1>3
    <3> QED
      BY <3>2, <3>3, <3>4
  <2>2. it[{}] = <<>> /\ {} \in SUBSET (1..n)
    BY <1>5 DEF Folded
  <2>3. DOMAIN it = SUBSET DOMAIN places
    BY <1>1
  <2> QED
    BY <1>1, <1>5, <2>1, <2>2, <2>3
<1>7. IsFold(fold)
  BY <1>6
<1> HIDE DEF fold
<1>8. fold[1..0] = <<>>
  <2>1. 1..0 = {} /\ {} \in SUBSET DOMAIN places
    OBVIOUS
  <2> QED
    BY <1>7, <2>1
<1>9. ASSUME NEW k \in 1..n PROVE fold[1..k] = Kept(table, ids, fold[1..(k - 1)], k)
  <2>1. 1..k \in SUBSET DOMAIN places /\ 1..k # {} /\ Max(1..k) = k /\ (1..k) \ {Max(1..k)} = 1..(k - 1)
    BY <1>1, Prefix
  <2>2. fold[1..k] = Kept(table, ids, fold[(1..k) \ {Max(1..k)}], places[Max(1..k)])
    BY <1>7, <2>1
  <2> QED
    BY <1>1, <2>1, <2>2
<1> DEFINE S == {k \in 0..n : fold[1..k] \in Seq(T)}
<1>10. \A k \in 0..n : k \in S
  <2>1. ASSUME NEW k \in 1..n, fold[1..(k - 1)] \in Seq(T) PROVE fold[1..k] \in Seq(T)
    <3>1. PICK v \in Seq(T) : v = fold[1..(k - 1)]
      BY <2>1
    <3>2. fold[1..k] = g[k][v]
      BY <1>3, <1>9, <3>1
    <3> QED
      BY <1>4, <3>2
  <2>2. 0 \in S
    <3>1. fold[1..0] \in Seq(T)
      BY <1>4, <1>8, Zenon
    <3> QED
      BY <3>1
  <2>3. \A k \in 1..n : k - 1 \in S => k \in S
    BY <2>1
  <2> HIDE DEF S
  <2> QED
    BY <2>2, <2>3, IntervalInduction
<1>11. PICK h : h = [k \in 0..n |-> fold[1..k]]
  OBVIOUS
<1>12. h \in [0..n -> Seq(T)]
  BY <1>10, <1>11
<1>13. h[0] = <<>> /\ h[n] = fold[1..n]
  BY <1>8, <1>11
<1>14. ASSUME NEW k \in 1..n PROVE h[k] = Kept(table, ids, h[k - 1], k)
  <2>1. h[k] = fold[1..k] /\ h[k - 1] = fold[1..(k - 1)]
    BY <1>11
  <2> QED
    BY <1>9, <2>1
<1>15. h[0] = <<>> /\ RowsAt(table, ids) = h[n]
  BY <1>1, <1>2, <1>13
<1> QED
  BY <1>1, <1>12, <1>14, <1>15 DEF RowsAtRunOf

\* One more result.
TrailingStep(n, p) == IF p < 0 THEN n + 1 ELSE 0

\* The losses in a row that end at each result.
TrailingRunOf(q, h) ==
  /\ h[0] = 0 /\ TrailingLosses(q) = h[Len(q)]
  /\ \A k \in 1..Len(q) : h[k] = TrailingStep(h[k - 1], q[k])

\* There is such a run.
LEMMA TrailingRun ==
  ASSUME NEW q \in Seq(Int)
  PROVE  \E h \in [0..Len(q) -> Nat] : TrailingRunOf(q, h)
<1>1. PICK n \in Nat : n = Len(q) /\ DOMAIN q = 1..n /\ \A k \in 1..n : q[k] \in Int
  OBVIOUS
<1> DEFINE IsFold(it) == it = [s \in SUBSET DOMAIN q |->
                                 IF s = {} THEN 0 ELSE TrailingStep(it[s \ {Max(s)}], q[Max(s)])]
           fold == CHOOSE it : IsFold(it)
<1>2. TrailingLosses(q) = fold[DOMAIN q]
  BY DEF TrailingLosses, TrailingStep, FoldLeft, MapThenFoldSet
<1>3. PICK g : g = [k \in 1..n |-> [v \in Nat |-> TrailingStep(v, q[k])]]
  OBVIOUS
<1>4. 0 \in Nat /\ g \in [1..n -> [Nat -> Nat]]
  <2>1. \A v \in Nat, x \in Int : TrailingStep(v, x) \in Nat
    BY DEF TrailingStep
  <2> QED
    BY <1>1, <1>3, <2>1
<1>5. PICK it \in [SUBSET (1..n) -> Nat] : Folded(it, n, 0, g)
  BY <1>4, FoldExists
<1>6. IsFold(it)
  <2>1. ASSUME NEW s \in SUBSET (1..n), s # {}
        PROVE  it[s] = TrailingStep(it[s \ {Max(s)}], q[Max(s)])
    <3>1. Max(s) \in 1..n /\ s \ {Max(s)} \in SUBSET (1..n)
      BY <2>1, MaxOf
    <3>2. PICK m \in 1..n, v \in Nat : m = Max(s) /\ v = it[s \ {Max(s)}]
      BY <3>1
    <3>3. it[s] = g[m][v]
      BY <1>5, <2>1, <3>2 DEF Folded
    <3>4. g[m][v] = TrailingStep(v, q[m])
      BY <1>1, <1>3
    <3> QED
      BY <3>2, <3>3, <3>4
  <2>2. it[{}] = 0 /\ {} \in SUBSET (1..n)
    BY <1>5 DEF Folded
  <2>3. DOMAIN it = SUBSET DOMAIN q
    BY <1>1
  <2> QED
    BY <1>1, <1>5, <2>1, <2>2, <2>3
<1>7. IsFold(fold)
  BY <1>6
<1> HIDE DEF fold
<1>8. fold[1..0] = 0
  <2>1. 1..0 = {} /\ {} \in SUBSET DOMAIN q
    OBVIOUS
  <2> QED
    BY <1>7, <2>1
<1>9. ASSUME NEW k \in 1..n PROVE fold[1..k] = TrailingStep(fold[1..(k - 1)], q[k])
  <2>1. 1..k \in SUBSET DOMAIN q /\ 1..k # {} /\ Max(1..k) = k /\ (1..k) \ {Max(1..k)} = 1..(k - 1)
    BY <1>1, Prefix
  <2>2. fold[1..k] = TrailingStep(fold[(1..k) \ {Max(1..k)}], q[Max(1..k)])
    BY <1>7, <2>1
  <2> QED
    BY <1>1, <2>1, <2>2
<1> DEFINE S == {k \in 0..n : fold[1..k] \in Nat}
<1>10. \A k \in 0..n : k \in S
  <2>1. ASSUME NEW k \in 1..n, fold[1..(k - 1)] \in Nat PROVE fold[1..k] \in Nat
    <3>1. PICK v \in Nat : v = fold[1..(k - 1)]
      BY <2>1
    <3>2. fold[1..k] = g[k][v]
      BY <1>3, <1>9, <3>1
    <3> QED
      BY <1>4, <3>2
  <2>2. 0 \in S
    <3>1. fold[1..0] \in Nat
      BY <1>4, <1>8, Zenon
    <3> QED
      BY <3>1
  <2>3. \A k \in 1..n : k - 1 \in S => k \in S
    BY <2>1
  <2> HIDE DEF S
  <2> QED
    BY <2>2, <2>3, IntervalInduction
<1>11. PICK h : h = [k \in 0..n |-> fold[1..k]]
  OBVIOUS
<1>12. h \in [0..n -> Nat]
  BY <1>10, <1>11
<1>13. h[0] = 0 /\ h[n] = fold[1..n]
  BY <1>8, <1>11
<1>14. ASSUME NEW k \in 1..n PROVE h[k] = TrailingStep(h[k - 1], q[k])
  <2>1. h[k] = fold[1..k] /\ h[k - 1] = fold[1..(k - 1)]
    BY <1>11
  <2> QED
    BY <1>9, <2>1
<1>15. h[0] = 0 /\ TrailingLosses(q) = h[n]
  BY <1>1, <1>2, <1>13
<1> QED
  BY <1>1, <1>12, <1>14, <1>15 DEF TrailingRunOf

\* The risk record of a process after its results.
RiskAfter(q) == FoldLeft(RegisterResult, FreshRisk, q)

\* A result keeps it one.
LEMMA RegisterType ==
  ASSUME NEW r \in RiskState, NEW p \in Int
  PROVE  RegisterResult(r, p) \in RiskState
<1>1. r.balance + p \in Int /\ r.dailyPnl + p \in Int /\ (IF p < 0 THEN r.losses + 1 ELSE 0) \in Nat
  BY DEF RiskState
<1> QED
  BY <1>1, UpdatedRisk DEF RegisterResult

\* The risk record after every result.
RiskRunOf(q, h) ==
  /\ h[0] = FreshRisk /\ RiskAfter(q) = h[Len(q)]
  /\ \A k \in 1..Len(q) : h[k] = RegisterResult(h[k - 1], q[k])

\* There is such a run.
LEMMA RiskRun ==
  ASSUME NEW q \in Seq(Int)
  PROVE  \E h \in [0..Len(q) -> RiskState] : RiskRunOf(q, h)
<1>1. PICK n \in Nat : n = Len(q) /\ DOMAIN q = 1..n /\ \A k \in 1..n : q[k] \in Int
  OBVIOUS
<1> DEFINE IsFold(it) == it = [s \in SUBSET DOMAIN q |->
                                 IF s = {} THEN FreshRisk ELSE RegisterResult(it[s \ {Max(s)}], q[Max(s)])]
           fold == CHOOSE it : IsFold(it)
<1>2. RiskAfter(q) = fold[DOMAIN q]
  BY DEF RiskAfter, FoldLeft, MapThenFoldSet
<1>3. PICK g : g = [k \in 1..n |-> [v \in RiskState |-> RegisterResult(v, q[k])]]
  OBVIOUS
<1>4. FreshRisk \in RiskState /\ g \in [1..n -> [RiskState -> RiskState]]
  <2>1. FreshRisk \in RiskState
    BY RiskAssumption DEF FreshRisk, RiskState
  <2>2. \A v \in RiskState, x \in Int : RegisterResult(v, x) \in RiskState
    BY RegisterType
  <2> QED
    BY <1>1, <1>3, <2>1, <2>2
<1>5. PICK it \in [SUBSET (1..n) -> RiskState] : Folded(it, n, FreshRisk, g)
  BY <1>4, FoldExists
<1>6. IsFold(it)
  <2>1. ASSUME NEW s \in SUBSET (1..n), s # {}
        PROVE  it[s] = RegisterResult(it[s \ {Max(s)}], q[Max(s)])
    <3>1. Max(s) \in 1..n /\ s \ {Max(s)} \in SUBSET (1..n)
      BY <2>1, MaxOf
    <3>2. PICK m \in 1..n, v \in RiskState : m = Max(s) /\ v = it[s \ {Max(s)}]
      BY <3>1
    <3>3. it[s] = g[m][v]
      BY <1>5, <2>1, <3>2 DEF Folded
    <3>4. g[m][v] = RegisterResult(v, q[m])
      BY <1>1, <1>3
    <3> QED
      BY <3>2, <3>3, <3>4
  <2>2. it[{}] = FreshRisk /\ {} \in SUBSET (1..n)
    BY <1>5 DEF Folded
  <2>3. DOMAIN it = SUBSET DOMAIN q
    BY <1>1
  <2> QED
    BY <1>1, <1>5, <2>1, <2>2, <2>3
<1>7. IsFold(fold)
  BY <1>6
<1> HIDE DEF fold
<1>8. fold[1..0] = FreshRisk
  <2>1. 1..0 = {} /\ {} \in SUBSET DOMAIN q
    OBVIOUS
  <2> QED
    BY <1>7, <2>1
<1>9. ASSUME NEW k \in 1..n PROVE fold[1..k] = RegisterResult(fold[1..(k - 1)], q[k])
  <2>1. 1..k \in SUBSET DOMAIN q /\ 1..k # {} /\ Max(1..k) = k /\ (1..k) \ {Max(1..k)} = 1..(k - 1)
    BY <1>1, Prefix
  <2>2. fold[1..k] = RegisterResult(fold[(1..k) \ {Max(1..k)}], q[Max(1..k)])
    BY <1>7, <2>1
  <2> QED
    BY <1>1, <2>1, <2>2
<1> DEFINE S == {k \in 0..n : fold[1..k] \in RiskState}
<1>10. \A k \in 0..n : k \in S
  <2>1. ASSUME NEW k \in 1..n, fold[1..(k - 1)] \in RiskState PROVE fold[1..k] \in RiskState
    <3>1. PICK v \in RiskState : v = fold[1..(k - 1)]
      BY <2>1
    <3>2. fold[1..k] = g[k][v]
      BY <1>3, <1>9, <3>1
    <3> QED
      BY <1>4, <3>2
  <2>2. 0 \in S
    <3>1. fold[1..0] \in RiskState
      BY <1>4, <1>8, Zenon
    <3> QED
      BY <3>1
  <2>3. \A k \in 1..n : k - 1 \in S => k \in S
    BY <2>1
  <2> HIDE DEF S
  <2> QED
    BY <2>2, <2>3, IntervalInduction
<1>11. PICK h : h = [k \in 0..n |-> fold[1..k]]
  OBVIOUS
<1>12. h \in [0..n -> RiskState]
  BY <1>10, <1>11
<1>13. h[0] = FreshRisk /\ h[n] = fold[1..n]
  BY <1>8, <1>11
<1>14. ASSUME NEW k \in 1..n PROVE h[k] = RegisterResult(h[k - 1], q[k])
  <2>1. h[k] = fold[1..k] /\ h[k - 1] = fold[1..(k - 1)]
    BY <1>11
  <2> QED
    BY <1>9, <2>1
<1>15. h[0] = FreshRisk /\ RiskAfter(q) = h[n]
  BY <1>1, <1>2, <1>13
<1> QED
  BY <1>1, <1>12, <1>14, <1>15 DEF RiskRunOf

\* A sequence that has one more element.
OneMoreThan(more, q, x, n) ==
  /\ more = Append(q, x) /\ Len(more) = n + 1 /\ more[n + 1] = x
  /\ \A k \in 1..n : more[k] = q[k]

\* What appending makes of a sequence.
LEMMA AppendTo ==
  ASSUME NEW T, NEW q \in Seq(T), NEW x \in T, NEW n \in Nat, n = Len(q)
  PROVE  \E more \in Seq(T) : OneMoreThan(more, q, x, n)
<1>1. /\ Append(q, x) \in Seq(T) /\ Len(Append(q, x)) = Len(q) + 1
      /\ Append(q, x)[Len(q) + 1] = x
      /\ \A k \in 1..Len(q) : Append(q, x)[k] = q[k]
  BY Appended
<1>2. OneMoreThan(Append(q, x), q, x, n)
  BY <1>1 DEF OneMoreThan
<1> QED
  BY <1>1, <1>2

\* What a selection finds in a table with one more row.
LEMMA RowsAtAppend ==
  ASSUME NEW T, NEW table \in Seq(T), NEW x \in T, NEW old, NEW new,
         \A k \in 1..Len(table) : k \in new <=> k \in old
  PROVE  RowsAt(Append(table, x), new) =
           IF Len(table) + 1 \in new THEN Append(RowsAt(table, old), x) ELSE RowsAt(table, old)
<1>1. PICK n \in Nat : n = Len(table)
  OBVIOUS
<1>2. PICK more \in Seq(T) : /\ more = Append(table, x) /\ Len(more) = n + 1 /\ more[n + 1] = x
                             /\ \A k \in 1..n : more[k] = table[k]
  <2>1. PICK more \in Seq(T) : OneMoreThan(more, table, x, n)
    BY <1>1, AppendTo
  <2> QED
    BY <2>1 DEF OneMoreThan
<1>3. PICK h \in [0..n -> Seq(T)] : RowsAtRunOf(table, old, h)
  BY <1>1, RowsAtRun
<1>4. PICK g \in [0..(n + 1) -> Seq(T)] : RowsAtRunOf(more, new, g)
  BY <1>2, RowsAtRun
<1>5. /\ h[0] = <<>> /\ RowsAt(table, old) = h[n]
      /\ \A k \in 1..n : h[k] = IF k \in old THEN Append(h[k - 1], table[k]) ELSE h[k - 1]
  BY <1>1, <1>3 DEF RowsAtRunOf, Kept
<1>6. /\ g[0] = <<>> /\ RowsAt(more, new) = g[n + 1]
      /\ \A k \in 1..(n + 1) : g[k] = IF k \in new THEN Append(g[k - 1], more[k]) ELSE g[k - 1]
  BY <1>2, <1>4 DEF RowsAtRunOf, Kept
<1> DEFINE S == {k \in 0..n : g[k] = h[k]}
<1>7. 0 \in S
  BY <1>5, <1>6
<1>8. ASSUME NEW k \in 1..n, k - 1 \in S PROVE k \in S
  <2>1. k \in 0..n /\ k \in 1..(n + 1) /\ g[k - 1] = h[k - 1]
    BY <1>8
  <2>2. (k \in new <=> k \in old) /\ more[k] = table[k]
    BY <1>1, <1>2
  <2>3. g[k] = h[k]
    BY <1>5, <1>6, <2>1, <2>2
  <2> QED
    BY <2>1, <2>3
<1>9. g[n] = h[n]
  <2>1. n \in 0..n
    OBVIOUS
  <2>2. n \in S
    <3> HIDE DEF S
    <3> QED
      BY <1>7, <1>8, <2>1, IntervalInduction
  <2> QED
    BY <2>2
<1>10. g[n + 1] = IF n + 1 \in new THEN Append(g[n], x) ELSE g[n]
  <2>1. n + 1 \in 1..(n + 1) /\ (n + 1) - 1 = n
    OBVIOUS
  <2> QED
    BY <1>2, <1>6, <2>1
<1> QED
  BY <1>1, <1>2, <1>5, <1>6, <1>9, <1>10

\* Rows of the table at some ids.
Selected(q, table, ids) ==
  \A i \in 1..Len(q) : \E k \in 1..Len(table) : k \in ids /\ q[i] = table[k]

\* What a selection finds are rows of the table it selects.
LEMMA RowsAtMembers ==
  ASSUME NEW T, NEW table \in Seq(T), NEW ids
  PROVE  RowsAt(table, ids) \in Seq(T) /\ Selected(RowsAt(table, ids), table, ids)
<1>1. PICK n \in Nat : n = Len(table)
  OBVIOUS
<1>2. PICK h \in [0..n -> Seq(T)] : RowsAtRunOf(table, ids, h)
  BY <1>1, RowsAtRun
<1>3. /\ h[0] = <<>> /\ RowsAt(table, ids) = h[n]
      /\ \A k \in 1..n : h[k] = IF k \in ids THEN Append(h[k - 1], table[k]) ELSE h[k - 1]
  BY <1>1, <1>2 DEF RowsAtRunOf, Kept
<1> DEFINE S == {k \in 0..n : Selected(h[k], table, ids)}
<1>4. 0 \in S
  <2>1. Len(h[0]) = 0
    BY <1>3
  <2>2. Selected(h[0], table, ids)
    BY <2>1 DEF Selected
  <2> QED
    BY <2>2
<1>5. ASSUME NEW k \in 1..n, k - 1 \in S PROVE k \in S
  <2>1. k \in 0..n /\ k - 1 \in 0..n /\ Selected(h[k - 1], table, ids)
    BY <1>5
  <2> HIDE DEF S
  <2>2. CASE k \notin ids
    <3>1. h[k] = h[k - 1]
      BY <1>3, <2>2
    <3> QED
      BY <2>1, <3>1 DEF S
  <2>3. CASE k \in ids
    <3>1. PICK q \in Seq(T), x \in T : q = h[k - 1] /\ x = table[k]
      BY <1>1, <2>1
    <3>2. PICK m \in Nat : m = Len(q)
      OBVIOUS
    <3>3. PICK more \in Seq(T) : /\ more = Append(q, x) /\ Len(more) = m + 1 /\ more[m + 1] = x
                                 /\ \A i \in 1..m : more[i] = q[i]
      <4>1. PICK more \in Seq(T) : OneMoreThan(more, q, x, m)
        BY <3>2, AppendTo
      <4> QED
        BY <4>1 DEF OneMoreThan
    <3>4. h[k] = more
      BY <1>3, <2>3, <3>1, <3>3
    <3>5. ASSUME NEW i \in 1..Len(more) PROVE \E j \in 1..Len(table) : j \in ids /\ more[i] = table[j]
      <4>1. CASE i = m + 1
        <5>1. more[i] = table[k] /\ k \in 1..Len(table)
          BY <1>1, <3>1, <3>3, <4>1
        <5> QED
          BY <2>3, <5>1
      <4>2. CASE i # m + 1
        <5>1. i \in 1..m
          BY <3>3, <4>2
        <5>2. \E j \in 1..Len(table) : j \in ids /\ q[i] = table[j]
          BY <2>1, <3>1, <3>2, <5>1 DEF Selected
        <5>3. more[i] = q[i]
          BY <3>3, <5>1
        <5> QED
          BY <5>2, <5>3
      <4> QED
        BY <4>1, <4>2
    <3>6. Selected(more, table, ids)
      BY <3>5 DEF Selected
    <3> QED
      BY <2>1, <3>4, <3>6 DEF S
  <2> QED
    BY <2>2, <2>3
<1>6. Selected(h[n], table, ids)
  <2>1. n \in 0..n
    OBVIOUS
  <2>2. n \in S
    <3> HIDE DEF S
    <3> QED
      BY <1>4, <1>5, <2>1, IntervalInduction
  <2> QED
    BY <2>2
<1>7. h[n] \in Seq(T)
  <2>1. n \in 0..n
    OBVIOUS
  <2> QED
    BY <1>2, <2>1
<1> QED
  BY <1>1, <1>3, <1>6, <1>7

\* One more result in a total.
LEMMA TotalAppend ==
  ASSUME NEW q \in Seq(Int), NEW x \in Int
  PROVE  Total(Append(q, x)) = Total(q) + x /\ Total(q) \in Int
<1>1. PICK n \in Nat : n = Len(q)
  OBVIOUS
<1>2. PICK more \in Seq(Int) : /\ more = Append(q, x) /\ Len(more) = n + 1 /\ more[n + 1] = x
                               /\ \A k \in 1..n : more[k] = q[k]
  <2>1. PICK more \in Seq(Int) : OneMoreThan(more, q, x, n)
    BY <1>1, AppendTo
  <2> QED
    BY <2>1 DEF OneMoreThan
<1>3. SubSeq(more, 1, n) = q
  BY <1>1, <1>2
<1>4. PrefixTotal(more, n) = Total(q)
  BY <1>3 DEF PrefixTotal
<1>5. /\ PrefixTotal(more, n + 1) = PrefixTotal(more, (n + 1) - 1) + more[n + 1]
      /\ PrefixTotal(more, n + 1) = Total(more)
  <2>1. n + 1 \in 1..Len(more)
    BY <1>2
  <2> QED
    BY <1>2, <2>1, PrefixTotals
<1>6. Total(q) \in Int
  <2>1. Len(q) \in 0..Len(q)
    OBVIOUS
  <2> QED
    BY <2>1, PrefixTotals
<1>7. (n + 1) - 1 = n
  OBVIOUS
<1> QED
  BY <1>2, <1>4, <1>5, <1>6, <1>7

\* One more result in the losses.
LEMMA LossAppend ==
  ASSUME NEW q \in Seq(Int), NEW x \in Int
  PROVE  /\ Loss(Append(q, x)) = Loss(q) + Larger(0, -x)
         /\ Loss(q) \in Nat /\ Larger(0, -x) \in Nat
<1>1. PICK n \in Nat : n = Len(q) /\ DOMAIN q = 1..n /\ \A k \in 1..n : q[k] \in Int
  OBVIOUS
<1>2. PICK more \in Seq(Int) : /\ more = Append(q, x) /\ Len(more) = n + 1 /\ more[n + 1] = x
                               /\ \A k \in 1..n : more[k] = q[k]
  <2>1. PICK more \in Seq(Int) : OneMoreThan(more, q, x, n)
    BY <1>1, AppendTo
  <2> QED
    BY <2>1 DEF OneMoreThan
<1>3. PICK y \in Nat : y = Larger(0, -x)
  BY LargerType
<1>4. PICK lost \in Seq(Int) : /\ lost = [k \in DOMAIN q |-> Larger(0, -q[k])] /\ Len(lost) = n
                               /\ \A k \in 1..n : lost[k] = Larger(0, -q[k])
  <2>1. ASSUME NEW k \in 1..n PROVE Larger(0, -q[k]) \in Nat
    <3>1. -q[k] \in Int
      BY <1>1
    <3> QED
      BY <3>1, LargerType
  <2>2. /\ [k \in 1..n |-> Larger(0, -q[k])] \in Seq(Int)
        /\ Len([k \in 1..n |-> Larger(0, -q[k])]) = n
    BY <2>1
  <2> QED
    BY <1>1, <2>2
<1>5. [k \in DOMAIN more |-> Larger(0, -more[k])] = Append(lost, y)
  <2>1. DOMAIN more = 1..(n + 1)
    BY <1>2
  <2>2. /\ Append(lost, y) \in Seq(Int) /\ Len(Append(lost, y)) = n + 1 /\ Append(lost, y)[n + 1] = y
        /\ \A k \in 1..n : Append(lost, y)[k] = lost[k]
    BY <1>4, Appended
  <2>3. \A k \in 1..(n + 1) : Larger(0, -more[k]) = Append(lost, y)[k]
    <3> TAKE k \in 1..(n + 1)
    <3>1. CASE k = n + 1
      BY <1>2, <1>3, <2>2, <3>1
    <3>2. CASE k # n + 1
      <4>1. k \in 1..n
        BY <3>2
      <4> QED
        BY <1>2, <1>4, <2>2, <4>1
    <3> QED
      BY <3>1, <3>2
  <2>4. PICK r \in Seq(Int) : r = Append(lost, y) /\ Len(r) = n + 1
    BY <2>2
  <2>5. DOMAIN r = 1..(n + 1)
    BY <2>4
  <2>6. r = [k \in 1..(n + 1) |-> r[k]]
    BY <2>5
  <2>7. \A k \in 1..(n + 1) : Larger(0, -more[k]) = r[k]
    BY <2>3, <2>4
  <2>8. [k \in 1..(n + 1) |-> Larger(0, -more[k])] = [k \in 1..(n + 1) |-> r[k]]
    BY <2>7
  <2> QED
    BY <2>1, <2>4, <2>6, <2>8
<1>6. Total(Append(lost, y)) = Total(lost) + y
  BY TotalAppend
<1>7. Loss(q) = Total(lost) /\ Loss(more) = Total(Append(lost, y))
  BY <1>4, <1>5 DEF Loss
<1> QED
  BY <1>2, <1>3, <1>6, <1>7, GainLessLoss

\* One more result in the losses that end a list.
LEMMA TrailingAppend ==
  ASSUME NEW q \in Seq(Int), NEW x \in Int
  PROVE  /\ TrailingLosses(Append(q, x)) = IF x < 0 THEN TrailingLosses(q) + 1 ELSE 0
         /\ TrailingLosses(q) \in Nat
<1>1. PICK n \in Nat : n = Len(q)
  OBVIOUS
<1>2. PICK more \in Seq(Int) : /\ more = Append(q, x) /\ Len(more) = n + 1 /\ more[n + 1] = x
                               /\ \A k \in 1..n : more[k] = q[k]
  <2>1. PICK more \in Seq(Int) : OneMoreThan(more, q, x, n)
    BY <1>1, AppendTo
  <2> QED
    BY <2>1 DEF OneMoreThan
<1>3. PICK h \in [0..n -> Nat] : TrailingRunOf(q, h)
  BY <1>1, TrailingRun
<1>4. PICK g \in [0..(n + 1) -> Nat] : TrailingRunOf(more, g)
  BY <1>2, TrailingRun
<1>5. h[0] = 0 /\ TrailingLosses(q) = h[n] /\ \A k \in 1..n : h[k] = TrailingStep(h[k - 1], q[k])
  BY <1>1, <1>3 DEF TrailingRunOf
<1>6. /\ g[0] = 0 /\ TrailingLosses(more) = g[n + 1]
      /\ \A k \in 1..(n + 1) : g[k] = TrailingStep(g[k - 1], more[k])
  BY <1>2, <1>4 DEF TrailingRunOf
<1> DEFINE S == {k \in 0..n : g[k] = h[k]}
<1>7. 0 \in S
  BY <1>5, <1>6
<1>8. ASSUME NEW k \in 1..n, k - 1 \in S PROVE k \in S
  <2>1. k \in 0..n /\ k \in 1..(n + 1) /\ g[k - 1] = h[k - 1] /\ more[k] = q[k]
    BY <1>2, <1>8
  <2>2. g[k] = h[k]
    BY <1>5, <1>6, <2>1
  <2> QED
    BY <2>1, <2>2
<1>9. g[n] = h[n] /\ h[n] \in Nat
  <2>1. n \in 0..n
    OBVIOUS
  <2>2. n \in S
    <3> HIDE DEF S
    <3> QED
      BY <1>7, <1>8, <2>1, IntervalInduction
  <2> QED
    BY <1>3, <2>1, <2>2
<1>10. g[n + 1] = TrailingStep(g[n], x)
  <2>1. n + 1 \in 1..(n + 1) /\ (n + 1) - 1 = n
    OBVIOUS
  <2> QED
    BY <1>2, <1>6, <2>1
<1> QED
  BY <1>2, <1>5, <1>6, <1>9, <1>10 DEF TrailingStep

\* What register_result makes of the losses in a row.
LEMMA RegisteredLosses ==
  ASSUME NEW r \in RiskState, NEW p \in Int
  PROVE  RegisterResult(r, p).losses = TrailingStep(r.losses, p)
<1> DEFINE b == r.balance + p   d == r.dailyPnl + p   l == IF p < 0 THEN r.losses + 1 ELSE 0
<1>1. RegisterResult(r, p) = [r EXCEPT !.balance = b, !.dailyPnl = d, !.losses = l]
  BY DEF RegisterResult
<1>2. DOMAIN r = {"balance", "initial", "dailyPnl", "losses"}
  BY DEF RiskState
<1> HIDE DEF b, d
<1> QED
  BY <1>1, <1>2 DEF TrailingStep

\* The risk record of a process says what its results add up to, and how many
\* losses end them.
LEMMA RiskMeans ==
  ASSUME NEW q \in Seq(Int)
  PROVE  /\ RiskAfter(q) \in RiskState
         /\ RiskAfter(q).balance = InitialBalance + Total(q)
         /\ RiskAfter(q).initial = InitialBalance
         /\ RiskAfter(q).dailyPnl = Total(q)
         /\ RiskAfter(q).losses = TrailingLosses(q)
<1>1. PICK n \in Nat : n = Len(q) /\ \A k \in 1..n : q[k] \in Int
  OBVIOUS
<1>2. PICK h \in [0..n -> RiskState] :
        h[0] = FreshRisk /\ RiskAfter(q) = h[n] /\ \A k \in 1..n : h[k] = RegisterResult(h[k - 1], q[k])
  <2>1. PICK h \in [0..n -> RiskState] : RiskRunOf(q, h)
    BY <1>1, RiskRun
  <2> QED
    BY <1>1, <2>1 DEF RiskRunOf
<1>3. PICK g \in [0..n -> Nat] :
        g[0] = 0 /\ TrailingLosses(q) = g[n] /\ \A k \in 1..n : g[k] = TrailingStep(g[k - 1], q[k])
  <2>1. PICK g \in [0..n -> Nat] : TrailingRunOf(q, g)
    BY <1>1, TrailingRun
  <2> QED
    BY <1>1, <2>1 DEF TrailingRunOf
<1>4. PICK t \in [0..n -> Int] : t[0] = 0 /\ t[n] = Total(q) /\ \A k \in 1..n : t[k] = t[k - 1] + q[k]
  BY <1>1, TotalRun
<1>5. PICK initial \in Int : initial = InitialBalance
  BY RiskAssumption
<1> DEFINE S == {k \in 0..n : /\ h[k].balance = initial + t[k] /\ h[k].initial = initial
                              /\ h[k].dailyPnl = t[k] /\ h[k].losses = g[k]}
<1>6. 0 \in S
  BY <1>2, <1>3, <1>4, <1>5 DEF FreshRisk
<1>7. ASSUME NEW k \in 1..n, k - 1 \in S PROVE k \in S
  <2>1. k \in 0..n /\ k - 1 \in 0..n
    OBVIOUS
  <2>2. PICK r \in RiskState, p \in Int, a \in Int, l \in Nat :
          r = h[k - 1] /\ p = q[k] /\ a = t[k - 1] /\ l = g[k - 1]
    BY <1>1, <2>1
  <2>3. r.balance = initial + a /\ r.initial = initial /\ r.dailyPnl = a /\ r.losses = l
    BY <1>7, <2>2
  <2>4. h[k] = RegisterResult(r, p) /\ t[k] = a + p /\ g[k] = TrailingStep(l, p)
    BY <1>2, <1>3, <1>4, <2>2
  <2>5. /\ RegisterResult(r, p).balance = r.balance + p
        /\ RegisterResult(r, p).initial = r.initial
        /\ RegisterResult(r, p).dailyPnl = r.dailyPnl + p
        /\ RegisterResult(r, p).losses = TrailingStep(r.losses, p)
    BY RegisteredResult, RegisteredLosses
  <2>6. (initial + a) + p = initial + (a + p)
    OBVIOUS
  <2> QED
    BY <2>1, <2>3, <2>4, <2>5, <2>6
<1>8. n \in S
  <2>1. n \in 0..n
    OBVIOUS
  <2> HIDE DEF S
  <2> QED
    BY <1>6, <1>7, <2>1, IntervalInduction
<1>9. h[n] \in RiskState
  <2>1. n \in 0..n
    OBVIOUS
  <2> QED
    BY <2>1
<1> QED
  BY <1>2, <1>3, <1>4, <1>5, <1>8, <1>9

\* The losses that end a list are among its longest streak.
LEMMA StreakIncludesTrailing ==
  ASSUME NEW q \in Seq(Int)
  PROVE  TrailingLosses(q) <= LosingStreak(q)
<1>1. PICK n \in Nat : n = Len(q) /\ \A k \in 1..n : q[k] \in Int
  OBVIOUS
<1>2. PICK h \in [0..n -> Streaks] :
        /\ h[0] = [now |-> 0, longest |-> 0] /\ LosingStreak(q) = h[n].longest
        /\ \A k \in 1..n : h[k] = StreakStep(h[k - 1], q[k])
  BY <1>1, StreakRun
<1>3. PICK g \in [0..n -> Nat] :
        g[0] = 0 /\ TrailingLosses(q) = g[n] /\ \A k \in 1..n : g[k] = TrailingStep(g[k - 1], q[k])
  <2>1. PICK g \in [0..n -> Nat] : TrailingRunOf(q, g)
    BY <1>1, TrailingRun
  <2> QED
    BY <1>1, <2>1 DEF TrailingRunOf
<1> DEFINE S == {k \in 0..n : h[k].now = g[k] /\ g[k] <= h[k].longest}
<1>4. 0 \in S
  BY <1>2, <1>3
<1>5. ASSUME NEW k \in 1..n, k - 1 \in S PROVE k \in S
  <2>1. k \in 0..n /\ k - 1 \in 0..n
    OBVIOUS
  <2>2. PICK r \in Streaks, p \in Int, l \in Nat : r = h[k - 1] /\ p = q[k] /\ l = g[k - 1]
    BY <1>1, <2>1
  <2>3. r.now = l /\ l <= r.longest /\ r.longest \in Nat
    BY <1>5, <2>2 DEF Streaks
  <2>4. PICK now \in Nat : now = TrailingStep(l, p)
    BY DEF TrailingStep
  <2>5. h[k] = [now |-> now, longest |-> Larger(r.longest, now)]
    BY <1>2, <2>2, <2>3, <2>4 DEF StreakStep, TrailingStep
  <2>6. now <= Larger(r.longest, now)
    BY <2>3 DEF Larger
  <2>7. g[k] = now
    BY <1>3, <2>2, <2>4
  <2> QED
    BY <2>1, <2>5, <2>6, <2>7
<1>6. n \in S
  <2>1. n \in 0..n
    OBVIOUS
  <2> HIDE DEF S
  <2> QED
    BY <1>4, <1>5, <2>1, IntervalInduction
<1> QED
  BY <1>2, <1>3, <1>6

\* Every number of a list is the same.
AllAre(q, c) == \A k \in 1..Len(q) : q[k] = c
SameTotal(q, c) == Total(q) = c * Len(q)

\* A list of one number has its multiple as total.
LEMMA TotalOfSame ==
  ASSUME NEW q \in Seq(Int), NEW c \in Int, AllAre(q, c)
  PROVE  SameTotal(q, c)
<1>1. PICK n \in Nat : n = Len(q) /\ \A k \in 1..n : q[k] = c
  BY DEF AllAre
<1>2. PICK t \in [0..n -> Int] : t[0] = 0 /\ t[n] = Total(q) /\ \A k \in 1..n : t[k] = t[k - 1] + q[k]
  BY <1>1, TotalRun
<1> DEFINE S == {k \in 0..n : t[k] = c * k}
<1>3. 0 \in S
  BY <1>2
<1>4. ASSUME NEW k \in 1..n, k - 1 \in S PROVE k \in S
  <2>1. k \in 0..n /\ t[k] = t[k - 1] + c /\ t[k - 1] = c * (k - 1)
    BY <1>1, <1>2, <1>4
  <2>2. c * (k - 1) + c = c * k
    <3>1. PICK j \in Nat : j = k - 1
      OBVIOUS
    <3>2. k = j + 1
      BY <3>1
    <3>3. c * (j + 1) = c * j + c
      OBVIOUS
    <3> QED
      BY <3>1, <3>2, <3>3
  <2> QED
    BY <2>1, <2>2
<1>5. n \in S
  <2>1. n \in 0..n
    OBVIOUS
  <2> HIDE DEF S
  <2> QED
    BY <1>3, <1>4, <2>1, IntervalInduction
<1> QED
  BY <1>1, <1>2, <1>5 DEF SameTotal


\* A row of the trades table.
TableRow == [session : Nat, result : {"HOLD", "REFUSED", "WON", "LOST", "PENDING", "ERROR"},
             profit : Int, confidence : Int, balance : Int]

\* The closed trades of a table with one more row.
LEMMA ClosedAppend ==
  ASSUME NEW table \in Seq(TableRow), NEW x \in TableRow
  PROVE  ClosedOf(Append(table, x)) =
           IF IsClosed(x) THEN Append(ClosedOf(table), x) ELSE ClosedOf(table)
<1>1. PICK n \in Nat : n = Len(table) /\ DOMAIN table = 1..n
  OBVIOUS
<1>2. PICK more \in Seq(TableRow) : OneMoreThan(more, table, x, n)
  BY <1>1, AppendTo
<1>3. /\ more = Append(table, x) /\ Len(more) = n + 1 /\ more[n + 1] = x /\ DOMAIN more = 1..(n + 1)
      /\ \A k \in 1..n : more[k] = table[k]
  BY <1>2 DEF OneMoreThan
<1> DEFINE old == {k \in DOMAIN table : IsClosed(table[k])}
           new == {k \in DOMAIN more : IsClosed(more[k])}
<1>4. \A k \in 1..n : k \in new <=> k \in old
  <2> TAKE k \in 1..n
  <2>1. k \in DOMAIN table /\ k \in DOMAIN more /\ more[k] = table[k]
    BY <1>1, <1>3
  <2> QED
    BY <2>1
<1>5. n + 1 \in new <=> IsClosed(x)
  BY <1>3
<1>6. ClosedOf(table) = RowsAt(table, old) /\ ClosedOf(more) = RowsAt(more, new)
  BY DEF ClosedOf
<1> HIDE DEF old, new
<1>7. RowsAt(Append(table, x), new) = IF n + 1 \in new THEN Append(RowsAt(table, old), x) ELSE RowsAt(table, old)
  BY <1>1, <1>4, RowsAtAppend
<1> QED
  BY <1>3, <1>5, <1>6, <1>7

\* The rows of a session in a table with one more row.
LEMMA SessionAppend ==
  ASSUME NEW table \in Seq(TableRow), NEW x \in TableRow, NEW s
  PROVE  OfSession(Append(table, x), s) =
           IF x.session = s THEN Append(OfSession(table, s), x) ELSE OfSession(table, s)
<1>1. PICK n \in Nat : n = Len(table) /\ DOMAIN table = 1..n
  OBVIOUS
<1>2. PICK more \in Seq(TableRow) : OneMoreThan(more, table, x, n)
  BY <1>1, AppendTo
<1>3. /\ more = Append(table, x) /\ Len(more) = n + 1 /\ more[n + 1] = x /\ DOMAIN more = 1..(n + 1)
      /\ \A k \in 1..n : more[k] = table[k]
  BY <1>2 DEF OneMoreThan
<1> DEFINE old == {k \in DOMAIN table : table[k].session = s}
           new == {k \in DOMAIN more : more[k].session = s}
<1>4. \A k \in 1..n : k \in new <=> k \in old
  <2> TAKE k \in 1..n
  <2>1. k \in DOMAIN table /\ k \in DOMAIN more /\ more[k] = table[k]
    BY <1>1, <1>3
  <2> QED
    BY <2>1
<1>5. n + 1 \in new <=> x.session = s
  BY <1>3
<1>6. OfSession(table, s) = RowsAt(table, old) /\ OfSession(more, s) = RowsAt(more, new)
  BY DEF OfSession
<1> HIDE DEF old, new
<1>7. RowsAt(Append(table, x), new) = IF n + 1 \in new THEN Append(RowsAt(table, old), x) ELSE RowsAt(table, old)
  BY <1>1, <1>4, RowsAtAppend
<1> QED
  BY <1>3, <1>5, <1>6, <1>7

\* Its closed trades and its sessions are rows of the table.
LEMMA PartsAreRows ==
  ASSUME NEW table \in Seq(TableRow)
  PROVE  /\ ClosedOf(table) \in Seq(TableRow)
         /\ \A s : OfSession(table, s) \in Seq(TableRow)
BY RowsAtMembers DEF ClosedOf, OfSession

\* A function on the first numbers is a list.
LEMMA Listed ==
  ASSUME NEW n \in Nat, NEW f \in [1..n -> Int]
  PROVE  f \in Seq(Int) /\ Len(f) = n
OBVIOUS

\* The profits and balances of a table are numbers, one for each closed trade.
LEMMA FiguresType ==
  ASSUME NEW table \in Seq(TableRow)
  PROVE  /\ ProfitsOf(table) \in Seq(Int) /\ BalancesOf(table) \in Seq(Int)
         /\ Len(ProfitsOf(table)) = Len(ClosedOf(table))
         /\ Len(BalancesOf(table)) = Len(ClosedOf(table))
         /\ \A k \in 1..Len(ClosedOf(table)) :
              ProfitsOf(table)[k] = ClosedOf(table)[k].profit /\ BalancesOf(table)[k] = ClosedOf(table)[k].balance
<1>1. PICK c \in Seq(TableRow) : c = ClosedOf(table)
  BY PartsAreRows
<1>2. PICK n \in Nat : n = Len(c) /\ DOMAIN c = 1..n /\ \A k \in 1..n : c[k] \in TableRow
  OBVIOUS
<1>3. \A k \in 1..n : c[k].profit \in Int /\ c[k].balance \in Int
  BY <1>2 DEF TableRow
<1>4. PICK p \in [1..n -> Int] : p = [k \in 1..n |-> c[k].profit] /\ \A k \in 1..n : p[k] = c[k].profit
  <2>1. [k \in 1..n |-> c[k].profit] \in [1..n -> Int]
    BY <1>3
  <2>2. \A j \in 1..n : [k \in 1..n |-> c[k].profit][j] = c[j].profit
    OBVIOUS
  <2> QED
    BY <2>1, <2>2
<1>5. PICK b \in [1..n -> Int] : b = [k \in 1..n |-> c[k].balance] /\ \A k \in 1..n : b[k] = c[k].balance
  <2>1. [k \in 1..n |-> c[k].balance] \in [1..n -> Int]
    BY <1>3
  <2>2. \A j \in 1..n : [k \in 1..n |-> c[k].balance][j] = c[j].balance
    OBVIOUS
  <2> QED
    BY <2>1, <2>2
<1>6. ProfitsOf(table) = p /\ BalancesOf(table) = b
  BY <1>1, <1>2, <1>4, <1>5 DEF ProfitsOf, BalancesOf
<1>7. p \in Seq(Int) /\ Len(p) = n
  BY <1>4, Listed
<1>8. b \in Seq(Int) /\ Len(b) = n
  BY <1>5, Listed
<1> QED
  BY <1>1, <1>2, <1>4, <1>5, <1>6, <1>7, <1>8

\* Sequences with the same elements are one.
LEMMA SameElements ==
  ASSUME NEW q \in Seq(Int), NEW r \in Seq(Int), NEW n \in Nat, Len(q) = n, Len(r) = n,
         \A k \in 1..n : q[k] = r[k]
  PROVE  q = r
<1>1. DOMAIN q = 1..n /\ DOMAIN r = 1..n
  OBVIOUS
<1>2. q = [k \in 1..n |-> q[k]] /\ r = [k \in 1..n |-> r[k]]
  BY <1>1
<1>3. [k \in 1..n |-> q[k]] = [k \in 1..n |-> r[k]]
  OBVIOUS
<1> QED
  BY <1>2, <1>3

\* Of a table with one more row.
LEMMA FiguresAppend ==
  ASSUME NEW table \in Seq(TableRow), NEW x \in TableRow
  PROVE  /\ ProfitsOf(Append(table, x)) =
              IF IsClosed(x) THEN Append(ProfitsOf(table), x.profit) ELSE ProfitsOf(table)
         /\ BalancesOf(Append(table, x)) =
              IF IsClosed(x) THEN Append(BalancesOf(table), x.balance) ELSE BalancesOf(table)
<1>1. CASE ~IsClosed(x)
  BY <1>1, ClosedAppend DEF ProfitsOf, BalancesOf
<1>2. CASE IsClosed(x)
  <2>1. PICK c \in Seq(TableRow) : c = ClosedOf(table)
    BY PartsAreRows
  <2>2. PICK n \in Nat : n = Len(c)
    OBVIOUS
  <2>3. PICK more \in Seq(TableRow) : OneMoreThan(more, c, x, n)
    BY <2>2, AppendTo
  <2>4. ClosedOf(Append(table, x)) = more
    BY <1>2, <2>1, <2>3, ClosedAppend DEF OneMoreThan
  <2>5. x.profit \in Int /\ x.balance \in Int
    BY DEF TableRow
  <2>6. PICK p \in Seq(Int), b \in Seq(Int) :
          /\ p = ProfitsOf(table) /\ b = BalancesOf(table) /\ Len(p) = n /\ Len(b) = n
          /\ \A k \in 1..n : p[k] = c[k].profit /\ b[k] = c[k].balance
    BY <2>1, <2>2, FiguresType
  <2>7. PICK y \in Int, z \in Int : y = x.profit /\ z = x.balance
    BY <2>5
  <2>8. PICK pp \in Seq(Int) : OneMoreThan(pp, p, y, n)
    BY <2>6, AppendTo
  <2>9. PICK bb \in Seq(Int) : OneMoreThan(bb, b, z, n)
    BY <2>6, AppendTo
  <2>10. Append(table, x) \in Seq(TableRow)
    OBVIOUS
  <2>11. PICK p2 \in Seq(Int), b2 \in Seq(Int) :
           /\ p2 = ProfitsOf(Append(table, x)) /\ b2 = BalancesOf(Append(table, x))
           /\ Len(p2) = n + 1 /\ Len(b2) = n + 1
           /\ \A k \in 1..(n + 1) : p2[k] = more[k].profit /\ b2[k] = more[k].balance
    <3>1. Len(more) = n + 1
      BY <2>3 DEF OneMoreThan
    <3>2. PICK big \in Seq(TableRow) : big = Append(table, x)
      BY <2>10
    <3>3. ClosedOf(big) = more
      BY <2>4, <3>2
    <3>4. /\ ProfitsOf(big) \in Seq(Int) /\ BalancesOf(big) \in Seq(Int)
          /\ Len(ProfitsOf(big)) = n + 1 /\ Len(BalancesOf(big)) = n + 1
          /\ \A k \in 1..(n + 1) : ProfitsOf(big)[k] = more[k].profit /\ BalancesOf(big)[k] = more[k].balance
      BY <3>1, <3>3, FiguresType
    <3> QED
      BY <3>2, <3>4
  <2>12. \A k \in 1..(n + 1) : p2[k] = pp[k] /\ b2[k] = bb[k]
    <3> TAKE k \in 1..(n + 1)
    <3>1. CASE k = n + 1
      <4>1. more[n + 1] = x
        BY <2>3 DEF OneMoreThan
      <4>2. pp[n + 1] = y /\ bb[n + 1] = z
        BY <2>8, <2>9 DEF OneMoreThan
      <4>3. p2[k] = more[k].profit /\ b2[k] = more[k].balance
        BY <2>11
      <4> QED
        BY <2>7, <3>1, <4>1, <4>2, <4>3
    <3>2. CASE k # n + 1
      <4>1. k \in 1..n
        BY <3>2
      <4>2. more[k] = c[k]
        BY <2>3, <4>1 DEF OneMoreThan
      <4>3. pp[k] = p[k] /\ bb[k] = b[k]
        BY <2>8, <2>9, <4>1 DEF OneMoreThan
      <4>4. p[k] = c[k].profit /\ b[k] = c[k].balance
        BY <2>6, <4>1
      <4>5. p2[k] = more[k].profit /\ b2[k] = more[k].balance
        BY <2>11
      <4> QED
        BY <4>2, <4>3, <4>4, <4>5
    <3> QED
      BY <3>1, <3>2
  <2>13. Len(pp) = n + 1 /\ Len(bb) = n + 1 /\ pp = Append(p, y) /\ bb = Append(b, z)
    BY <2>8, <2>9 DEF OneMoreThan
  <2>14. p2 = pp /\ b2 = bb
    <3>1. Len(p2) = n + 1 /\ Len(pp) = n + 1 /\ Len(b2) = n + 1 /\ Len(bb) = n + 1 /\ n + 1 \in Nat
      BY <2>11, <2>13
    <3>2. p2 = pp
      BY <2>12, <3>1, SameElements
    <3>3. b2 = bb
      BY <2>12, <3>1, SameElements
    <3> QED
      BY <3>2, <3>3
  <2> QED
    BY <1>2, <2>6, <2>7, <2>11, <2>13, <2>14
<1> QED
  BY <1>1, <1>2

\* An empty table has no closed trades and no sessions.
LEMMA NoRows ==
  /\ <<>> \in Seq(TableRow) /\ ClosedOf(<<>>) = <<>> /\ ProfitsOf(<<>>) = <<>> /\ BalancesOf(<<>>) = <<>>
  /\ \A s : OfSession(<<>>, s) = <<>>
<1>1. PICK table \in Seq(TableRow) : table = <<>>
  <2>1. <<>> \in Seq(TableRow)
    OBVIOUS
  <2> QED
    BY <2>1
<1>2. \A ids : RowsAt(table, ids) = <<>>
  <2> TAKE ids
  <2>1. PICK h \in [0..Len(table) -> Seq(TableRow)] : RowsAtRunOf(table, ids, h)
    BY RowsAtRun
  <2>2. Len(table) = 0
    BY <1>1
  <2> QED
    BY <2>1, <2>2 DEF RowsAtRunOf
<1>3. ClosedOf(table) = <<>> /\ \A s : OfSession(table, s) = <<>>
  BY <1>2 DEF ClosedOf, OfSession
<1>4. Len(ProfitsOf(table)) = 0 /\ Len(BalancesOf(table)) = 0
  BY <1>3, FiguresType
<1>5. ProfitsOf(table) = <<>> /\ BalancesOf(table) = <<>>
  BY <1>4, FiguresType
<1> QED
  BY <1>1, <1>3, <1>5

\* The stake the risk manager allows never takes the whole balance, which is at
\* least nine tenths of the initial one.
LEMMA StakeLeaves ==
  ASSUME NEW r \in RiskState, InitialBalance > 1, CanTrade(r), NEW won \in BOOLEAN,
         r.initial = InitialBalance, r.balance = InitialBalance + r.dailyPnl
  PROVE  Profit(PositionSize(r), won) \in Int /\ r.balance + Profit(PositionSize(r), won) > 0
<1>1. PICK i \in Nat, limit \in 0..100, b \in Int, d \in Int :
        i = InitialBalance /\ limit = DailyLossPerMille /\ b = r.balance /\ d = r.dailyPnl
  BY RiskAssumption DEF RiskState
<1>2. 1000 * d > -(i * limit) /\ b > 0 /\ b = i + d /\ i > 1
  BY <1>1 DEF CanTrade
<1>3. i * limit <= 100 * i
  <2>1. limit * i <= 100 * i
    BY ProductOrder
  <2> QED
    BY <2>1
<1>4. b >= 2
  <2>1. PICK z \in Int : z = i * limit
    OBVIOUS
  <2> QED
    BY <1>2, <1>3, <2>1
<1>5. CeilDiv(2 * RiskRate, 1000) <= 1
  <2>1. RiskRate \in 0..10
    BY RiskAssumption DEF RiskRate
  <2> QED
    BY <2>1 DEF CeilDiv
<1>6. CeilDiv(b * RiskRate, 1000) <= CeilDiv(2 * RiskRate, 1000) + (b - 2)
  BY <1>4, StakeGrowth
<1>7. PICK a \in Nat : a = CeilDiv(b * RiskRate, 1000)
  <2>1. b \in Nat
    BY <1>2
  <2> QED
    BY <2>1, StakeSign
<1>8. PICK c \in Nat : c = CeilDiv(2 * RiskRate, 1000)
  BY StakeSign
<1>9. a <= b - 1
  BY <1>5, <1>6, <1>7, <1>8
<1>10. PositionSize(r) = a
  BY <1>1, <1>7 DEF PositionSize
<1>11. PICK p \in Int : p = Profit(a, won) /\ p >= -a
  BY StakeResult
<1> QED
  BY <1>1, <1>9, <1>10, <1>11

\* The net profit of a session.
NetOf(table, s) == Total(ProfitsOf(OfSession(table, s)))

\* A row a session may store next, when its results add up to net.
StoredBy(x, s, net) ==
  /\ x \in TableRow /\ x.session = s
  /\ x.balance = InitialBalance + IF x.result = "ERROR" THEN 0 ELSE net + x.profit
  /\ ~IsClosed(x) => x.profit = 0
  /\ InitialBalance + net + x.profit > 0
  /\ x.result # "HOLD" => x.confidence = MinConfidence

\* The row NextRow makes is one.
LEMMA NextIsStored ==
  ASSUME NEW table \in Seq(TableRow), NEW s \in Nat, InitialBalance > 1,
         InitialBalance + NetOf(table, s) > 0,
         NEW result, result \in {"HOLD", "REFUSED", "WON", "LOST", "PENDING", "ERROR"},
         result \in {"WON", "LOST"} => CanTrade(SessionRisk(table, s))
  PROVE  StoredBy(NextRow(table, s, result), s, NetOf(table, s))
<1>1. OfSession(table, s) \in Seq(TableRow)
  BY PartsAreRows
<1>2. ProfitsOf(OfSession(table, s)) \in Seq(Int)
  BY <1>1, FiguresType
<1>3. PICK q \in Seq(Int) : q = ProfitsOf(OfSession(table, s))
  BY <1>2
<1>4. SessionRisk(table, s) = RiskAfter(q) /\ NetOf(table, s) = Total(q)
  BY <1>3 DEF SessionRisk, RiskAfter, NetOf
<1>5. PICK r \in RiskState : /\ r = RiskAfter(q) /\ r.balance = InitialBalance + Total(q)
                             /\ r.initial = InitialBalance /\ r.dailyPnl = Total(q)
  BY RiskMeans
<1>6. PICK net \in Int : net = Total(q)
  BY <1>5 DEF RiskState
<1>7. PICK initial \in Nat : initial = InitialBalance
  BY RiskAssumption
<1>8. r.balance = initial + net /\ initial + net > 0
  BY <1>4, <1>5, <1>6, <1>7
<1> DEFINE profit == IF result \in {"WON", "LOST"} THEN Profit(PositionSize(r), result = "WON") ELSE 0
<1>9. profit \in Int /\ initial + net + profit > 0 /\ (result \notin {"WON", "LOST"} => profit = 0)
  <2>1. CASE result \in {"WON", "LOST"}
    <3>1. CanTrade(r) /\ (result = "WON") \in BOOLEAN
      BY <1>4, <1>5, <2>1
    <3>2. Profit(PositionSize(r), result = "WON") \in Int /\ r.balance + Profit(PositionSize(r), result = "WON") > 0
      BY <1>5, <3>1, StakeLeaves
    <3> QED
      BY <1>8, <2>1, <3>2
  <2>2. CASE result \notin {"WON", "LOST"}
    BY <1>8, <2>2
  <2> QED
    BY <2>1, <2>2
<1> DEFINE sure == IF result = "HOLD" THEN 50 ELSE MinConfidence
           balance == IF result = "ERROR" THEN InitialBalance ELSE r.balance + profit
           x == [session |-> s, result |-> result, profit |-> profit, confidence |-> sure, balance |-> balance]
<1>10. NextRow(table, s, result) = x
  BY <1>4, <1>5 DEF NextRow
<1>11. sure \in Int /\ balance \in Int
  BY <1>7, <1>8, <1>9, BacktestAssumption
<1> HIDE DEF profit
<1>12. balance = InitialBalance + IF result = "ERROR" THEN 0 ELSE net + profit
  BY <1>7, <1>8, <1>9
<1>13. result # "HOLD" => sure = MinConfidence
  OBVIOUS
<1> HIDE DEF sure, balance
<1>14. x \in TableRow
  BY <1>9, <1>11 DEF TableRow
<1>15. IsClosed(x) <=> result \in {"WON", "LOST"}
  BY DEF IsClosed
<1> QED
  BY <1>4, <1>6, <1>7, <1>9, <1>10, <1>12, <1>13, <1>14, <1>15 DEF StoredBy

\* A total without the last number.
LEMMA TotalSplit ==
  ASSUME NEW m \in Nat, NEW f \in [1..(m + 1) -> Int], NEW e \in [1..m -> Int],
         \A k \in 1..m : e[k] = f[k]
  PROVE  Total(f) = Total(e) + f[m + 1] /\ Total(e) \in Int
<1>1. e \in Seq(Int) /\ Len(e) = m
  BY Listed
<1>2. m + 1 \in Nat /\ m + 1 \in 1..(m + 1)
  OBVIOUS
<1>3. f \in Seq(Int) /\ Len(f) = m + 1
  BY <1>2, Listed
<1>4. PICK x \in Int : x = f[m + 1]
  BY <1>2
<1>5. PICK more \in Seq(Int) : OneMoreThan(more, e, x, m)
  BY <1>1, AppendTo
<1>6. /\ more = Append(e, x) /\ Len(more) = m + 1 /\ more[m + 1] = x
      /\ \A k \in 1..m : more[k] = e[k]
  BY <1>5 DEF OneMoreThan
<1>7. \A k \in 1..(m + 1) : more[k] = f[k]
  <2> TAKE k \in 1..(m + 1)
  <2>1. CASE k = m + 1
    BY <1>4, <1>6, <2>1
  <2>2. CASE k # m + 1
    <3>1. k \in 1..m
      BY <2>2
    <3> QED
      BY <1>6, <3>1
  <2> QED
    BY <2>1, <2>2
<1>8. more = f
  BY <1>2, <1>3, <1>6, <1>7, SameElements
<1>9. Total(Append(e, x)) = Total(e) + x /\ Total(e) \in Int
  BY <1>1, TotalAppend
<1> QED
  BY <1>4, <1>6, <1>8, <1>9

\* Of m parts the last is x more than that of n old parts, or new.
LastMore(new, m, old, n, x) ==
  /\ m = n \/ m = n + 1
  /\ \A k \in 1..(m - 1) : new[k] = old[k]
  /\ new[m] = x + IF m = n THEN old[n] ELSE 0

MoreBy(new, old, x) == Total(new) = Total(old) + x

\* So is their total.
LEMMA PartGrows ==
  ASSUME NEW n \in Nat, NEW old \in [1..n -> Int], NEW m \in Nat \ {0},
         NEW new \in [1..m -> Int], NEW x \in Int, LastMore(new, m, old, n, x)
  PROVE  MoreBy(new, old, x)
<1>0. /\ m = n \/ m = n + 1
      /\ \A k \in 1..(m - 1) : new[k] = old[k]
      /\ new[m] = x + IF m = n THEN old[n] ELSE 0
  BY DEF LastMore
<1>1. PICK j \in Nat : m = j + 1
  <2>1. m - 1 \in Nat /\ m = (m - 1) + 1
    OBVIOUS
  <2> QED
    BY <2>1
<1>2. PICK e \in [1..j -> Int] : e = [k \in 1..j |-> new[k]] /\ \A k \in 1..j : e[k] = new[k]
  <2>1. [k \in 1..j |-> new[k]] \in [1..j -> Int]
    BY <1>1
  <2> QED
    BY <2>1
<1>3. Total(new) = Total(e) + new[j + 1] /\ Total(e) \in Int
  BY <1>1, <1>2, TotalSplit
<1>4. \A k \in 1..j : e[k] = old[k]
  BY <1>0, <1>1, <1>2
<1>5. CASE m = n
  <2>1. Total(old) = Total(e) + old[j + 1]
    BY <1>1, <1>4, <1>5, TotalSplit
  <2>2. old[n] \in Int /\ n = j + 1
    BY <1>1, <1>5
  <2>3. new[j + 1] = x + old[n]
    BY <1>0, <1>1, <1>5
  <2> QED
    BY <1>3, <2>1, <2>2, <2>3 DEF MoreBy
<1>6. CASE m = n + 1
  <2>1. j = n
    BY <1>1, <1>6
  <2>2. old \in Seq(Int) /\ e \in Seq(Int) /\ Len(old) = n /\ Len(e) = n
    BY <2>1, Listed
  <2>3. e = old
    BY <1>4, <2>1, <2>2, SameElements
  <2>4. new[j + 1] = x
    BY <1>0, <1>1, <1>6
  <2> QED
    BY <1>3, <2>3, <2>4 DEF MoreBy
<1> QED
  BY <1>0, <1>5, <1>6

\* The elements of q are elements of r, in the same order.
Places(q, n, r, m) ==
  \A j, k \in 1..n : j <= k => \E a, b \in 1..m : a <= b /\ r[a] = q[j] /\ r[b] = q[k]
Embedded(q, r) == Places(q, Len(q), r, Len(r))

\* They stay so when r, or both, grow.
LEMMA EmbeddedGrows ==
  ASSUME NEW q \in Seq(Int), NEW r \in Seq(Int), NEW x \in Int, Embedded(q, r)
  PROVE  Embedded(q, Append(r, x)) /\ Embedded(Append(q, x), Append(r, x))
<1>1. PICK n \in Nat, m \in Nat : n = Len(q) /\ m = Len(r)
  OBVIOUS
<1>2. PICK qq \in Seq(Int) : OneMoreThan(qq, q, x, n)
  BY <1>1, AppendTo
<1>3. PICK rr \in Seq(Int) : OneMoreThan(rr, r, x, m)
  BY <1>1, AppendTo
<1>4. /\ qq = Append(q, x) /\ Len(qq) = n + 1 /\ qq[n + 1] = x /\ \A k \in 1..n : qq[k] = q[k]
      /\ rr = Append(r, x) /\ Len(rr) = m + 1 /\ rr[m + 1] = x /\ \A k \in 1..m : rr[k] = r[k]
  BY <1>2, <1>3 DEF OneMoreThan
<1>5. ASSUME NEW j \in 1..n, NEW k \in 1..n, j <= k
      PROVE  \E a, b \in 1..m : a <= b /\ rr[a] = q[j] /\ rr[b] = q[k]
  <2>1. PICK a \in 1..m, b \in 1..m : a <= b /\ r[a] = q[j] /\ r[b] = q[k]
    BY <1>1, <1>5 DEF Embedded, Places
  <2>2. rr[a] = r[a] /\ rr[b] = r[b]
    BY <1>4
  <2> QED
    BY <2>1, <2>2
<1>6. \A a \in 1..m : a \in 1..(m + 1) /\ a <= m + 1
  OBVIOUS
<1>7. Embedded(q, rr)
  <2>1. ASSUME NEW j \in 1..n, NEW k \in 1..n, j <= k
        PROVE  \E a, b \in 1..(m + 1) : a <= b /\ rr[a] = q[j] /\ rr[b] = q[k]
    <3>1. PICK a \in 1..m, b \in 1..m : a <= b /\ rr[a] = q[j] /\ rr[b] = q[k]
      BY <1>5, <2>1
    <3>2. a \in 1..(m + 1) /\ b \in 1..(m + 1)
      BY <1>6
    <3> QED
      BY <3>1, <3>2
  <2>2. Len(q) = n /\ Len(rr) = m + 1
    BY <1>1, <1>4
  <2>3. Places(q, n, rr, m + 1)
    BY <2>1, Zenon DEF Places
  <2> QED
    BY <2>2, <2>3 DEF Embedded
<1>8. Embedded(qq, rr)
  <2>1. ASSUME NEW j \in 1..(n + 1), NEW k \in 1..(n + 1), j <= k
        PROVE  \E a, b \in 1..(m + 1) : a <= b /\ rr[a] = qq[j] /\ rr[b] = qq[k]
    <3>1. CASE k \in 1..n
      <4>1. j \in 1..n /\ qq[j] = q[j] /\ qq[k] = q[k]
        BY <1>4, <2>1, <3>1
      <4>2. PICK a \in 1..m, b \in 1..m : a <= b /\ rr[a] = q[j] /\ rr[b] = q[k]
        BY <1>5, <2>1, <3>1, <4>1
      <4>3. a \in 1..(m + 1) /\ b \in 1..(m + 1)
        BY <1>6
      <4> QED
        BY <4>1, <4>2, <4>3
    <3>2. CASE k = n + 1 /\ j \in 1..n
      <4>1. PICK a \in 1..m, b \in 1..m : a <= b /\ rr[a] = q[j] /\ rr[b] = q[j]
        <5>1. j \in 1..n /\ j <= j
          BY <3>2
        <5> QED
          BY <1>5, <5>1
      <4>2. a \in 1..(m + 1) /\ a <= m + 1 /\ m + 1 \in 1..(m + 1)
        BY <1>6
      <4>3. qq[j] = q[j] /\ qq[k] = x /\ rr[m + 1] = x
        BY <1>4, <3>2
      <4> QED
        BY <4>1, <4>2, <4>3
    <3>3. CASE k = n + 1 /\ j = n + 1
      <4>1. m + 1 \in 1..(m + 1) /\ m + 1 <= m + 1
        OBVIOUS
      <4>2. qq[j] = x /\ qq[k] = x /\ rr[m + 1] = x
        BY <1>4, <3>3
      <4> QED
        BY <4>1, <4>2
    <3>4. (j \in 1..n \/ j = n + 1) /\ (k \in 1..n \/ k = n + 1)
      OBVIOUS
    <3> QED
      BY <3>1, <3>2, <3>3, <3>4
  <2>2. Len(qq) = n + 1 /\ Len(rr) = m + 1
    BY <1>4
  <2>3. Places(qq, n + 1, rr, m + 1)
    BY <2>1, Zenon DEF Places
  <2> QED
    BY <2>2, <2>3 DEF Embedded
<1> QED
  BY <1>4, <1>7, <1>8

\* No fall is deeper among some of the balances than among all.
LEMMA PartFallsLess ==
  ASSUME NEW q \in Seq(Int), NEW r \in Seq(Int), Embedded(q, r),
         \A k \in 1..Len(r) : r[k] > 0
  PROVE  ~Exceeds(Drawdown(q), Drawdown(r))
<1>1. CASE Len(q) = 0
  <2>1. Drawdown(q) = <<0, 1>>
    <3>1. PICK h \in [0..Len(q) -> Peaks] :
            /\ h[0] = [peak |-> 0, worst |-> <<0, 1>>] /\ Drawdown(q) = h[Len(q)].worst
      BY DrawdownRun
    <3> QED
      BY <1>1, <3>1
  <2>2. Drawdown(r)[1] >= 0 /\ Drawdown(r) \in Int \X Nat
    <3>1. CASE Len(r) = 0
      <4>1. PICK h \in [0..Len(r) -> Peaks] :
              /\ h[0] = [peak |-> 0, worst |-> <<0, 1>>] /\ Drawdown(r) = h[Len(r)].worst
        BY DrawdownRun
      <4> QED
        BY <3>1, <4>1
    <3>2. CASE Len(r) > 0
      <4>1. 1 \in 1..Len(r)
        BY <3>2
      <4>2. r[1] > 0
        BY <4>1
      <4>3. Drawdown(r) \in Nat \X (Nat \ {0})
        BY <3>2, <4>2, DrawdownIsDeepest
      <4> QED
        BY <4>3
    <3> QED
      BY <3>1, <3>2
  <2>3. PICK a \in Int, b \in Nat : Drawdown(r) = <<a, b>> /\ a >= 0
    BY <2>2
  <2>4. ~Exceeds(<<0, 1>>, <<a, b>>)
    <3>1. 0 * b = 0 /\ a * 1 = a
      OBVIOUS
    <3> QED
      BY <2>3, <3>1 DEF Exceeds
  <2> QED
    BY <2>1, <2>3, <2>4
<1>2. CASE Len(q) > 0
  <2>1. \A k \in 1..Len(q) : q[k] > 0 /\ Len(r) > 0
    <3> TAKE k \in 1..Len(q)
    <3>1. PICK a \in 1..Len(r), b \in 1..Len(r) : a <= b /\ r[a] = q[k] /\ r[b] = q[k]
      BY DEF Embedded, Places
    <3> QED
      BY <3>1
  <2>2. 1 \in 1..Len(q)
    BY <1>2
  <2>3. q[1] > 0 /\ Len(r) > 0
    BY <2>1, <2>2
  <2>4. 1 \in 1..Len(r)
    BY <2>3
  <2>5. r[1] > 0
    BY <2>4
  <2>6. /\ Drawdown(r) \in Nat \X (Nat \ {0})
        /\ \A j, k \in 1..Len(r) : j <= k /\ r[j] > 0 /\ r[k] >= 0 =>
             ~Exceeds(<<r[j] - r[k], r[j]>>, Drawdown(r))
    BY <2>3, <2>5, DrawdownIsDeepest
  <2>7. \/ Drawdown(q) = <<0, 1>>
        \/ \E j, k \in 1..Len(q) : j <= k /\ Drawdown(q) = <<q[j] - q[k], q[j]>>
    BY <1>2, <2>3, DrawdownIsDeepest
  <2>8. CASE Drawdown(q) = <<0, 1>>
    <3>1. PICK a \in Nat, b \in Nat : Drawdown(r) = <<a, b>>
      BY <2>6
    <3>2. 0 * b = 0 /\ a * 1 = a
      OBVIOUS
    <3> QED
      BY <2>8, <3>1, <3>2 DEF Exceeds
  <2>9. ASSUME NEW j \in 1..Len(q), NEW k \in 1..Len(q), j <= k, Drawdown(q) = <<q[j] - q[k], q[j]>>
        PROVE  ~Exceeds(Drawdown(q), Drawdown(r))
    <3>1. PICK a \in 1..Len(r), b \in 1..Len(r) : a <= b /\ r[a] = q[j] /\ r[b] = q[k]
      BY <2>9 DEF Embedded, Places
    <3>2. r[a] > 0 /\ r[b] >= 0
      OBVIOUS
    <3>3. ~Exceeds(<<r[a] - r[b], r[a]>>, Drawdown(r))
      BY <2>6, <3>1, <3>2, Zenon
    <3> QED
      BY <2>9, <3>1, <3>3
  <2> QED
    BY <2>7, <2>8, <2>9
<1>3. Len(q) = 0 \/ Len(q) > 0
  OBVIOUS
<1> QED
  BY <1>1, <1>2, <1>3

\* The last session of a table, 0 before the first.
LastOf(table) == IF table = <<>> THEN 0 ELSE LastSession(table)

\* A table with one more row, of its last session or of the next one.
Grown(more, table, x, s) ==
  /\ more \in Seq(TableRow) /\ more = Append(table, x) /\ Len(more) = Len(table) + 1
  /\ more[Len(table) + 1] = x /\ \A k \in 1..Len(table) : more[k] = table[k]
  /\ s \in Nat \ {0} /\ (s = LastOf(table) \/ s = LastOf(table) + 1)
  /\ StoredBy(x, s, NetOf(table, s))

\* Its parts: only those of session s change.
Carried(more, table, x, s) ==
  /\ LastOf(more) = s /\ OfSession(more, s) = Append(OfSession(table, s), x)
  /\ \A u : u # s => OfSession(more, u) = OfSession(table, u)
  /\ IF IsClosed(x)
     THEN /\ ProfitsOf(more) = Append(ProfitsOf(table), x.profit)
          /\ BalancesOf(more) = Append(BalancesOf(table), x.balance)
          /\ ProfitsOf(OfSession(more, s)) = Append(ProfitsOf(OfSession(table, s)), x.profit)
          /\ BalancesOf(OfSession(more, s)) = Append(BalancesOf(OfSession(table, s)), x.balance)
     ELSE /\ ProfitsOf(more) = ProfitsOf(table) /\ BalancesOf(more) = BalancesOf(table)
          /\ ProfitsOf(OfSession(more, s)) = ProfitsOf(OfSession(table, s))
          /\ BalancesOf(OfSession(more, s)) = BalancesOf(OfSession(table, s))

\* The last row of a table is the one appended last.
LEMMA LastAppended ==
  ASSUME NEW T, NEW q \in Seq(T), NEW x \in T
  PROVE  Last(Append(q, x)) = x /\ Append(q, x) # <<>>
BY Appended DEF Last

\* The parts of a table that has grown.
LEMMA PartsCarried ==
  ASSUME NEW table \in Seq(TableRow), NEW more, NEW x \in TableRow, NEW s, Grown(more, table, x, s)
  PROVE  Carried(more, table, x, s)
<1>1. more = Append(table, x) /\ x.session = s
  BY DEF Grown, StoredBy
<1>2. LastOf(more) = s
  <2>1. Last(more) = x
    BY <1>1, LastAppended
  <2>2. Append(table, x) # <<>>
    BY Appended
  <2> QED
    BY <1>1, <2>1, <2>2 DEF LastOf, LastSession
<1>3. OfSession(more, s) = Append(OfSession(table, s), x) /\ \A u : u # s => OfSession(more, u) = OfSession(table, u)
  BY <1>1, SessionAppend
<1>4. OfSession(table, s) \in Seq(TableRow)
  BY PartsAreRows
<1>5. PICK q \in Seq(TableRow) : q = OfSession(table, s)
  BY <1>4
<1>6. /\ ProfitsOf(more) = IF IsClosed(x) THEN Append(ProfitsOf(table), x.profit) ELSE ProfitsOf(table)
      /\ BalancesOf(more) = IF IsClosed(x) THEN Append(BalancesOf(table), x.balance) ELSE BalancesOf(table)
  BY <1>1, FiguresAppend
<1>7. /\ ProfitsOf(Append(q, x)) = IF IsClosed(x) THEN Append(ProfitsOf(q), x.profit) ELSE ProfitsOf(q)
      /\ BalancesOf(Append(q, x)) = IF IsClosed(x) THEN Append(BalancesOf(q), x.balance) ELSE BalancesOf(q)
  BY FiguresAppend
<1> QED
  BY <1>2, <1>3, <1>5, <1>6, <1>7 DEF Carried

\* The figures of a session are numbers.
LEMMA SessionFigures ==
  ASSUME NEW table \in Seq(TableRow), NEW s
  PROVE  /\ OfSession(table, s) \in Seq(TableRow) /\ NetOf(table, s) \in Int
         /\ ProfitsOf(OfSession(table, s)) \in Seq(Int) /\ BalancesOf(OfSession(table, s)) \in Seq(Int)
<1>1. OfSession(table, s) \in Seq(TableRow)
  BY PartsAreRows
<1>2. ProfitsOf(OfSession(table, s)) \in Seq(Int) /\ BalancesOf(OfSession(table, s)) \in Seq(Int)
  BY <1>1, FiguresType
<1>3. 0 \in Int
  OBVIOUS
<1>4. Total(ProfitsOf(OfSession(table, s))) \in Int
  BY <1>2, <1>3, TotalAppend
<1> QED
  BY <1>1, <1>2, <1>4 DEF NetOf

\* Their net profits.
NetsMoved(more, table, x, s) ==
  /\ NetOf(more, s) = NetOf(table, s) + x.profit
  /\ \A u : u # s => NetOf(more, u) = NetOf(table, u)
  /\ Total(ProfitsOf(more)) = Total(ProfitsOf(table)) + x.profit
  /\ NetOf(table, s) \in Int /\ x.profit \in Int /\ Total(ProfitsOf(table)) \in Int

LEMMA NetCarried ==
  ASSUME NEW table \in Seq(TableRow), NEW more, NEW x \in TableRow, NEW s, Grown(more, table, x, s)
  PROVE  NetsMoved(more, table, x, s)
<1>1. Carried(more, table, x, s)
  BY PartsCarried
<1>2. x.profit \in Int /\ (~IsClosed(x) => x.profit = 0)
  BY DEF Grown, StoredBy, TableRow
<1>3. PICK p \in Int : p = x.profit
  BY <1>2
<1>4. PICK q \in Seq(Int), r \in Seq(Int) : q = ProfitsOf(table) /\ r = ProfitsOf(OfSession(table, s))
  BY SessionFigures, FiguresType
<1>5. Total(Append(q, p)) = Total(q) + p /\ Total(q) \in Int
  BY TotalAppend
<1>6. Total(Append(r, p)) = Total(r) + p /\ Total(r) \in Int
  BY TotalAppend
<1>7. CASE IsClosed(x)
  <2>1. ProfitsOf(more) = Append(q, p) /\ ProfitsOf(OfSession(more, s)) = Append(r, p)
    BY <1>1, <1>3, <1>4, <1>7 DEF Carried
  <2>2. \A u : u # s => OfSession(more, u) = OfSession(table, u)
    BY <1>1 DEF Carried
  <2> QED
    BY <1>3, <1>4, <1>5, <1>6, <2>1, <2>2 DEF NetOf, NetsMoved
<1>8. CASE ~IsClosed(x)
  <2>1. ProfitsOf(more) = q /\ ProfitsOf(OfSession(more, s)) = r /\ p = 0
    BY <1>1, <1>2, <1>3, <1>4, <1>8 DEF Carried
  <2>2. \A u : u # s => OfSession(more, u) = OfSession(table, u)
    BY <1>1 DEF Carried
  <2> QED
    BY <1>3, <1>4, <1>5, <1>6, <2>1, <2>2 DEF NetOf, NetsMoved
<1> QED
  BY <1>7, <1>8

\* The sessions of a table are numbered from 1.
Numbered(table) ==
  /\ LastOf(table) \in Nat /\ (table # <<>> => LastOf(table) > 0)
  /\ \A k \in 1..Len(table) : table[k].session \in 1..LastOf(table)
  /\ \A s \in 1..LastOf(table) : \E k \in 1..Len(table) : table[k].session = s
  /\ \A s \in Nat : s > LastOf(table) => OfSession(table, s) = <<>>

\* A session's last row shows the balance it ends with, or reconcile's.
Closing(table) ==
  \A s \in 1..LastOf(table) :
    /\ OfSession(table, s) # <<>>
    /\ Last(OfSession(table, s)).balance =
         InitialBalance + IF Last(OfSession(table, s)).result = "ERROR" THEN 0 ELSE NetOf(table, s)

\* No session loses all its money, and a row that is no HOLD is sure enough.
Solvent(table) ==
  /\ \A s \in Nat : InitialBalance + NetOf(table, s) > 0
  /\ \A k \in 1..Len(table) : /\ table[k].balance > 0
                              /\ table[k].result # "HOLD" => table[k].confidence = MinConfidence

\* The sessions start at 1 and go on one by one.
LEMMA NumberedGrows ==
  ASSUME NEW table \in Seq(TableRow), NEW more, NEW x \in TableRow, NEW s, Grown(more, table, x, s),
         Numbered(table)
  PROVE  Numbered(more)
<1>1. Carried(more, table, x, s)
  BY PartsCarried
<1>2. PICK n \in Nat : n = Len(table)
  OBVIOUS
<1>3. /\ Len(more) = n + 1 /\ more[n + 1] = x /\ \A k \in 1..n : more[k] = table[k]
      /\ s \in Nat \ {0} /\ x.session = s
  BY <1>2 DEF Grown, StoredBy
<1>4. PICK until \in Nat : until = LastOf(table) /\ (s = until \/ s = until + 1)
  BY DEF Numbered, Grown
<1>5. LastOf(more) = s
  BY <1>1 DEF Carried
<1>6. ASSUME NEW k \in 1..(n + 1) PROVE more[k].session \in 1..s
  <2>1. CASE k = n + 1
    BY <1>3, <2>1
  <2>2. CASE k # n + 1
    <3>1. k \in 1..n
      BY <2>2
    <3>2. table[k].session \in 1..until
      BY <1>2, <1>4, <3>1 DEF Numbered
    <3> QED
      BY <1>3, <1>4, <3>1, <3>2
  <2> QED
    BY <2>1, <2>2
<1>7. ASSUME NEW u \in 1..s PROVE \E k \in 1..(n + 1) : more[k].session = u
  <2>1. CASE u = s
    <3>1. n + 1 \in 1..(n + 1)
      OBVIOUS
    <3> QED
      BY <1>3, <2>1, <3>1
  <2>2. CASE u # s
    <3>1. u \in 1..until
      BY <1>3, <1>4, <2>2
    <3>2. PICK k \in 1..n : table[k].session = u
      BY <1>2, <1>4, <3>1 DEF Numbered
    <3>3. k \in 1..(n + 1) /\ more[k] = table[k]
      BY <1>3
    <3> QED
      BY <3>2, <3>3
  <2> QED
    BY <2>1, <2>2
<1>8. ASSUME NEW u \in Nat, u > s PROVE OfSession(more, u) = <<>>
  <2>1. u > until /\ u # s
    BY <1>3, <1>4, <1>8
  <2> QED
    BY <1>1, <1>4, <2>1 DEF Carried, Numbered
<1> QED
  BY <1>3, <1>5, <1>6, <1>7, <1>8 DEF Numbered

\* What the rows show of the balance.
LEMMA ClosingGrows ==
  ASSUME NEW table \in Seq(TableRow), NEW more, NEW x \in TableRow, NEW s, Grown(more, table, x, s),
         Numbered(table), Closing(table)
  PROVE  Closing(more)
<1>1. Carried(more, table, x, s)
  BY PartsCarried
<1>2. PICK until \in Nat : until = LastOf(table) /\ (s = until \/ s = until + 1)
  BY DEF Numbered, Grown
<1>3. LastOf(more) = s /\ s \in Nat \ {0}
  BY <1>1 DEF Carried, Grown
<1>4. ASSUME NEW u \in 1..s, u # s
      PROVE  /\ OfSession(more, u) # <<>>
             /\ Last(OfSession(more, u)).balance =
                  InitialBalance + IF Last(OfSession(more, u)).result = "ERROR" THEN 0 ELSE NetOf(more, u)
  <2>1. u \in 1..until
    BY <1>2, <1>3, <1>4
  <2>2. OfSession(more, u) = OfSession(table, u)
    BY <1>1, <1>4 DEF Carried
  <2>3. NetOf(more, u) = NetOf(table, u)
    BY <2>2 DEF NetOf
  <2> QED
    BY <1>2, <2>1, <2>2, <2>3 DEF Closing
<1>5. /\ OfSession(more, s) # <<>>
      /\ Last(OfSession(more, s)).balance =
           InitialBalance + IF Last(OfSession(more, s)).result = "ERROR" THEN 0 ELSE NetOf(more, s)
  <2>1. OfSession(table, s) \in Seq(TableRow)
    BY SessionFigures
  <2>2. Last(Append(OfSession(table, s), x)) = x /\ Append(OfSession(table, s), x) # <<>>
    BY <2>1, LastAppended, Appended
  <2>3. NetsMoved(more, table, x, s)
    BY NetCarried
  <2>4. PICK net \in Int, p \in Int : net = NetOf(table, s) /\ p = x.profit /\ NetOf(more, s) = net + p
    BY <2>3 DEF NetsMoved
  <2>5. x.balance = InitialBalance + IF x.result = "ERROR" THEN 0 ELSE net + p
    BY <2>4 DEF Grown, StoredBy
  <2>6. OfSession(more, s) = Append(OfSession(table, s), x)
    BY <1>1 DEF Carried
  <2> QED
    BY <2>2, <2>4, <2>5, <2>6
<1> QED
  BY <1>3, <1>4, <1>5 DEF Closing

\* Money and confidence.
LEMMA SolventGrows ==
  ASSUME NEW table \in Seq(TableRow), NEW more, NEW x \in TableRow, NEW s, Grown(more, table, x, s),
         Solvent(table), InitialBalance > 1
  PROVE  Solvent(more)
<1>1. PICK n \in Nat : n = Len(table)
  OBVIOUS
<1>2. Len(more) = n + 1 /\ more[n + 1] = x /\ \A k \in 1..n : more[k] = table[k]
  BY <1>1 DEF Grown
<1>3. PICK initial \in Nat, net \in Int, p \in Int :
        initial = InitialBalance /\ net = NetOf(table, s) /\ p = x.profit /\ NetOf(more, s) = net + p
  <2>1. NetsMoved(more, table, x, s)
    BY NetCarried
  <2> QED
    BY <2>1, RiskAssumption DEF NetsMoved
<1>4. initial + net + p > 0 /\ initial > 0 /\ x.balance = initial + IF x.result = "ERROR" THEN 0 ELSE net + p
  BY <1>3 DEF Grown, StoredBy
<1>5. x.balance > 0 /\ (x.result # "HOLD" => x.confidence = MinConfidence)
  BY <1>3, <1>4 DEF Grown, StoredBy
<1>6. ASSUME NEW k \in 1..(n + 1)
      PROVE  more[k].balance > 0 /\ (more[k].result # "HOLD" => more[k].confidence = MinConfidence)
  <2>1. CASE k = n + 1
    BY <1>2, <1>5, <2>1
  <2>2. CASE k # n + 1
    <3>1. k \in 1..n
      BY <2>2
    <3> QED
      BY <1>1, <1>2, <3>1 DEF Solvent
  <2> QED
    BY <2>1, <2>2
<1>7. ASSUME NEW u \in Nat PROVE InitialBalance + NetOf(more, u) > 0
  <2>1. CASE u = s
    BY <1>3, <1>4, <2>1
  <2>2. CASE u # s
    <3>1. OfSession(more, u) = OfSession(table, u)
      <4>1. Carried(more, table, x, s)
        BY PartsCarried
      <4> QED
        BY <2>2, <4>1 DEF Carried
    <3>2. NetOf(more, u) = NetOf(table, u)
      BY <3>1 DEF NetOf
    <3> QED
      BY <3>2 DEF Solvent
  <2> QED
    BY <2>1, <2>2
<1> QED
  BY <1>2, <1>6, <1>7 DEF Solvent

\* The sessions add up to the table.
TradesIn(table, s) == Len(ProfitsOf(OfSession(table, s)))
NetsOf(table, n) == [s \in 1..n |-> NetOf(table, s)]
CountsOf(table, n) == [s \in 1..n |-> TradesIn(table, s)]
AddedUp(table) ==
  /\ Total(ProfitsOf(table)) = Total(NetsOf(table, LastOf(table)))
  /\ Len(ProfitsOf(table)) = Total(CountsOf(table, LastOf(table)))

\* The closed trades of a table that has grown.
LEMMA TradesCarried ==
  ASSUME NEW table \in Seq(TableRow), NEW more, NEW x \in TableRow, NEW s, Grown(more, table, x, s)
  PROVE  \E p \in 0..1 :
           /\ TradesIn(more, s) = TradesIn(table, s) + p
           /\ \A u : u # s => TradesIn(more, u) = TradesIn(table, u)
           /\ Len(ProfitsOf(more)) = Len(ProfitsOf(table)) + p
           /\ TradesIn(table, s) \in Nat /\ Len(ProfitsOf(table)) \in Nat
<1>1. Carried(more, table, x, s)
  BY PartsCarried
<1>2. PICK y \in Int : y = x.profit
  BY DEF TableRow
<1>3. PICK q \in Seq(Int), r \in Seq(Int) : q = ProfitsOf(table) /\ r = ProfitsOf(OfSession(table, s))
  BY SessionFigures, FiguresType
<1>4. Len(Append(q, y)) = Len(q) + 1 /\ Len(q) \in Nat
  OBVIOUS
<1>5. Len(Append(r, y)) = Len(r) + 1 /\ Len(r) \in Nat
  OBVIOUS
<1>6. \A u : u # s => TradesIn(more, u) = TradesIn(table, u)
  BY <1>1 DEF Carried, TradesIn
<1>7. CASE IsClosed(x)
  <2>1. ProfitsOf(more) = Append(q, y) /\ ProfitsOf(OfSession(more, s)) = Append(r, y)
    BY <1>1, <1>2, <1>3, <1>7 DEF Carried
  <2>2. TradesIn(more, s) = TradesIn(table, s) + 1 /\ Len(ProfitsOf(more)) = Len(ProfitsOf(table)) + 1
    BY <1>3, <1>4, <1>5, <2>1 DEF TradesIn
  <2>3. TradesIn(table, s) \in Nat /\ Len(ProfitsOf(table)) \in Nat /\ 1 \in 0..1
    BY <1>3, <1>4, <1>5 DEF TradesIn
  <2> QED
    BY <1>6, <2>2, <2>3
<1>8. CASE ~IsClosed(x)
  <2>1. ProfitsOf(more) = q /\ ProfitsOf(OfSession(more, s)) = r
    BY <1>1, <1>3, <1>8 DEF Carried
  <2>2. TradesIn(table, s) \in Nat /\ Len(ProfitsOf(table)) \in Nat /\ 0 \in 0..1
    BY <1>3, <1>4, <1>5 DEF TradesIn
  <2>3. TradesIn(more, s) = TradesIn(table, s) + 0 /\ Len(ProfitsOf(more)) = Len(ProfitsOf(table)) + 0
    BY <1>3, <2>1, <2>2 DEF TradesIn
  <2> QED
    BY <1>6, <2>2, <2>3
<1> QED
  BY <1>7, <1>8

\* A session without rows has no profits.
LEMMA EmptySession ==
  ASSUME NEW table, NEW s, OfSession(table, s) = <<>>
  PROVE  NetOf(table, s) = 0 /\ TradesIn(table, s) = 0 /\ ProfitsOf(OfSession(table, s)) = <<>>
<1>1. ProfitsOf(OfSession(table, s)) = <<>>
  BY NoRows
<1>2. Total(<<>>) = 0 /\ Len(<<>>) = 0
  BY TotalOfNone
<1> QED
  BY <1>1, <1>2 DEF NetOf, TradesIn

\* The sums keep up.
LEMMA AddedUpGrows ==
  ASSUME NEW table \in Seq(TableRow), NEW more, NEW x \in TableRow, NEW s, Grown(more, table, x, s),
         more \in Seq(TableRow), Numbered(table), AddedUp(table)
  PROVE  AddedUp(more)
<1>1. Carried(more, table, x, s)
  BY PartsCarried
<1>2. PICK until \in Nat : until = LastOf(table) /\ (s = until \/ s = until + 1)
  BY DEF Numbered, Grown
<1>3. LastOf(more) = s /\ s \in Nat \ {0}
  BY <1>1 DEF Carried, Grown
<1>4. s = until + 1 => OfSession(table, s) = <<>>
  BY <1>2 DEF Numbered
<1>5. \A k \in 1..(s - 1) : OfSession(more, k) = OfSession(table, k)
  BY <1>1, <1>3 DEF Carried
<1>6. Total(NetsOf(more, s)) = Total(NetsOf(table, until)) + x.profit
  <2>1. NetsMoved(more, table, x, s)
    BY NetCarried
  <2>2. PICK net \in Int, p \in Int : net = NetOf(table, s) /\ p = x.profit /\ NetOf(more, s) = net + p
    BY <2>1 DEF NetsMoved
  <2>3. PICK old \in [1..until -> Int] : old = NetsOf(table, until) /\ \A k \in 1..until : old[k] = NetOf(table, k)
    <3>1. \A k \in 1..until : NetOf(table, k) \in Int
      BY SessionFigures
    <3>2. [k \in 1..until |-> NetOf(table, k)] \in [1..until -> Int]
      BY <3>1
    <3> QED
      BY <3>2 DEF NetsOf
  <2>4. PICK new \in [1..s -> Int] : new = NetsOf(more, s) /\ \A k \in 1..s : new[k] = NetOf(more, k)
    <3>1. \A k \in 1..s : NetOf(more, k) \in Int
      BY SessionFigures
    <3>2. [k \in 1..s |-> NetOf(more, k)] \in [1..s -> Int]
      BY <3>1
    <3> QED
      BY <3>2 DEF NetsOf
  <2>5. \A k \in 1..(s - 1) : new[k] = old[k]
    <3> TAKE k \in 1..(s - 1)
    <3>1. k \in 1..s /\ k \in 1..until
      BY <1>2, <1>3
    <3>2. NetOf(more, k) = NetOf(table, k)
      BY <1>5 DEF NetOf
    <3> QED
      BY <2>3, <2>4, <3>1, <3>2
  <2>6. new[s] = p + IF s = until THEN old[until] ELSE 0
    <3>1. s \in 1..s
      BY <1>3
    <3>2. CASE s = until
      BY <1>3, <2>2, <2>3, <2>4, <3>1, <3>2
    <3>3. CASE s # until
      <4>1. net = 0
        BY <1>2, <1>4, <2>2, <3>3, EmptySession
      <4> QED
        BY <2>2, <2>4, <3>1, <3>3, <4>1
    <3> QED
      BY <3>2, <3>3
  <2>7. Total(new) = Total(old) + p
    <3>1. LastMore(new, s, old, until, p) /\ s \in Nat \ {0}
      BY <1>2, <1>3, <2>5, <2>6 DEF LastMore
    <3>2. p \in Int
      OBVIOUS
    <3>3. MoreBy(new, old, p)
      BY <3>1, <3>2, PartGrows
    <3> QED
      BY <3>3 DEF MoreBy
  <2> QED
    BY <2>2, <2>3, <2>4, <2>7
<1>7. PICK p \in 0..1 :
        /\ TradesIn(more, s) = TradesIn(table, s) + p
        /\ \A u : u # s => TradesIn(more, u) = TradesIn(table, u)
        /\ Len(ProfitsOf(more)) = Len(ProfitsOf(table)) + p
        /\ TradesIn(table, s) \in Nat /\ Len(ProfitsOf(table)) \in Nat
  BY TradesCarried
<1>8. Total(CountsOf(more, s)) = Total(CountsOf(table, until)) + p
  <2>0. \A k \in Nat : TradesIn(table, k) \in Int /\ TradesIn(more, k) \in Int
    <3> TAKE k \in Nat
    <3>1. ProfitsOf(OfSession(table, k)) \in Seq(Int) /\ ProfitsOf(OfSession(more, k)) \in Seq(Int)
      BY SessionFigures
    <3> QED
      BY <3>1 DEF TradesIn
  <2>3. PICK old \in [1..until -> Int] : old = CountsOf(table, until) /\ \A k \in 1..until : old[k] = TradesIn(table, k)
    <3>1. [k \in 1..until |-> TradesIn(table, k)] \in [1..until -> Int]
      BY <2>0
    <3> QED
      BY <3>1 DEF CountsOf
  <2>4. PICK new \in [1..s -> Int] : new = CountsOf(more, s) /\ \A k \in 1..s : new[k] = TradesIn(more, k)
    <3>1. [k \in 1..s |-> TradesIn(more, k)] \in [1..s -> Int]
      BY <2>0
    <3> QED
      BY <3>1 DEF CountsOf
  <2>5. \A k \in 1..(s - 1) : new[k] = old[k]
    <3> TAKE k \in 1..(s - 1)
    <3>1. k \in 1..s /\ k \in 1..until /\ k # s
      BY <1>2, <1>3
    <3>2. TradesIn(more, k) = TradesIn(table, k)
      BY <1>7, <3>1
    <3> QED
      BY <2>3, <2>4, <3>1, <3>2
  <2>6. new[s] = p + IF s = until THEN old[until] ELSE 0
    <3>1. s \in 1..s
      BY <1>3
    <3>2. CASE s = until
      BY <1>3, <1>7, <2>3, <2>4, <3>1, <3>2
    <3>3. CASE s # until
      <4>1. TradesIn(table, s) = 0
        BY <1>2, <1>4, <3>3, EmptySession
      <4> QED
        BY <1>7, <2>4, <3>1, <3>3, <4>1
    <3> QED
      BY <3>2, <3>3
  <2>7. Total(new) = Total(old) + p
    <3>1. LastMore(new, s, old, until, p) /\ s \in Nat \ {0}
      BY <1>2, <1>3, <2>5, <2>6 DEF LastMore
    <3>2. p \in Int
      OBVIOUS
    <3>3. MoreBy(new, old, p)
      BY <3>1, <3>2, PartGrows
    <3> QED
      BY <3>3 DEF MoreBy
  <2> QED
    BY <2>3, <2>4, <2>7
<1>9. Total(ProfitsOf(more)) = Total(ProfitsOf(table)) + x.profit
  <2>1. NetsMoved(more, table, x, s)
    BY NetCarried
  <2> QED
    BY <2>1 DEF NetsMoved
<1> QED
  BY <1>2, <1>3, <1>6, <1>7, <1>8, <1>9 DEF AddedUp

\* All trades together lost no less than those of a session.
LostTogether(table) ==
  \A s \in Nat : Loss(ProfitsOf(OfSession(table, s))) <= Loss(ProfitsOf(table))

\* A session's balances are among all, in their order.
ShownInOrder(table) ==
  \A s \in Nat : Embedded(BalancesOf(OfSession(table, s)), BalancesOf(table))

\* The last session's losses in a row end the table's, its last row is the
\* table's, and so is the balance of its last closed trade.
CurrentLast(table) ==
  LET s == LastOf(table) IN
  /\ TrailingLosses(ProfitsOf(OfSession(table, s))) <= TrailingLosses(ProfitsOf(table))
  /\ table # <<>> => Last(OfSession(table, s)) = Last(table)
  /\ ProfitsOf(OfSession(table, s)) # <<>> =>
       BalancesOf(table) # <<>> /\ Last(BalancesOf(table)) = InitialBalance + NetOf(table, s)

\* The losses.
LEMMA LostGrows ==
  ASSUME NEW table \in Seq(TableRow), NEW more, NEW x \in TableRow, NEW s, Grown(more, table, x, s),
         LostTogether(table)
  PROVE  LostTogether(more)
<1>1. Carried(more, table, x, s)
  BY PartsCarried
<1>2. PICK p \in Int : p = x.profit
  BY DEF TableRow
<1>3. PICK q \in Seq(Int) : q = ProfitsOf(table)
  BY FiguresType
<1>4. PICK lost \in Nat, y \in Nat : lost = Loss(q) /\ y = Larger(0, -p) /\ Loss(Append(q, p)) = lost + y
  BY LossAppend
<1>5. PICK after \in Nat : after = Loss(ProfitsOf(more)) /\ after = lost + IF IsClosed(x) THEN y ELSE 0
  <2>1. ProfitsOf(more) = IF IsClosed(x) THEN Append(q, p) ELSE q
    BY <1>1, <1>2, <1>3 DEF Carried
  <2> QED
    BY <1>4, <2>1
<1>6. ASSUME NEW u \in Nat PROVE Loss(ProfitsOf(OfSession(more, u))) <= after
  <2>1. PICK r \in Seq(Int) : r = ProfitsOf(OfSession(table, u))
    BY SessionFigures
  <2>2. PICK own \in Nat : own = Loss(r) /\ Loss(Append(r, p)) = own + y
    BY <1>4, LossAppend
  <2>3. own <= lost
    BY <1>3, <1>4, <2>1, <2>2 DEF LostTogether
  <2>4. CASE u = s /\ IsClosed(x)
    <3>1. ProfitsOf(OfSession(more, u)) = Append(r, p)
      BY <1>1, <1>2, <2>1, <2>4 DEF Carried
    <3> QED
      BY <1>5, <2>2, <2>3, <2>4, <3>1
  <2>5. CASE u = s /\ ~IsClosed(x)
    <3>1. ProfitsOf(OfSession(more, u)) = r
      BY <1>1, <2>1, <2>5 DEF Carried
    <3> QED
      BY <1>5, <2>2, <2>3, <3>1
  <2>6. CASE u # s
    <3>1. ProfitsOf(OfSession(more, u)) = r
      BY <1>1, <2>1, <2>6 DEF Carried
    <3> QED
      BY <1>5, <2>2, <2>3, <3>1
  <2> QED
    BY <2>4, <2>5, <2>6
<1> QED
  BY <1>5, <1>6 DEF LostTogether

\* The balances.
LEMMA ShownGrows ==
  ASSUME NEW table \in Seq(TableRow), NEW more, NEW x \in TableRow, NEW s, Grown(more, table, x, s),
         ShownInOrder(table)
  PROVE  ShownInOrder(more)
<1>1. Carried(more, table, x, s)
  BY PartsCarried
<1>2. PICK b \in Int : b = x.balance
  BY DEF TableRow
<1>3. PICK q \in Seq(Int) : q = BalancesOf(table)
  BY FiguresType
<1>4. ASSUME NEW u \in Nat PROVE Embedded(BalancesOf(OfSession(more, u)), BalancesOf(more))
  <2>1. PICK r \in Seq(Int) : r = BalancesOf(OfSession(table, u))
    BY SessionFigures
  <2>2. Embedded(r, q)
    BY <1>3, <2>1 DEF ShownInOrder
  <2>3. Embedded(r, Append(q, b)) /\ Embedded(Append(r, b), Append(q, b))
    BY <2>2, EmbeddedGrows
  <2>4. BalancesOf(more) = IF IsClosed(x) THEN Append(q, b) ELSE q
    BY <1>1, <1>2, <1>3 DEF Carried
  <2>5. BalancesOf(OfSession(more, u)) = IF u = s /\ IsClosed(x) THEN Append(r, b) ELSE r
    <3>1. CASE u = s
      BY <1>1, <1>2, <2>1, <3>1 DEF Carried
    <3>2. CASE u # s
      BY <1>1, <2>1, <3>2 DEF Carried
    <3> QED
      BY <3>1, <3>2
  <2> QED
    BY <2>2, <2>3, <2>4, <2>5
<1> QED
  BY <1>4 DEF ShownInOrder

\* No profits end with no loss.
LEMMA NoTrailing == TrailingLosses(<<>>) = 0
<1>1. PICK q \in Seq(Int) : q = <<>>
  <2>1. <<>> \in Seq(Int)
    OBVIOUS
  <2> QED
    BY <2>1
<1>2. PICK h \in [0..Len(q) -> Nat] : TrailingRunOf(q, h)
  BY TrailingRun
<1>3. Len(q) = 0
  BY <1>1
<1> QED
  BY <1>1, <1>2, <1>3 DEF TrailingRunOf

\* The end of the table.
LEMMA CurrentGrows ==
  ASSUME NEW table \in Seq(TableRow), NEW more, NEW x \in TableRow, NEW s, Grown(more, table, x, s),
         Numbered(table), CurrentLast(table)
  PROVE  CurrentLast(more)
<1>1. Carried(more, table, x, s)
  BY PartsCarried
<1>2. PICK until \in Nat : until = LastOf(table) /\ (s = until \/ s = until + 1)
  BY DEF Numbered, Grown
<1>3. LastOf(more) = s /\ OfSession(more, s) = Append(OfSession(table, s), x)
  BY <1>1 DEF Carried
<1>4. PICK p \in Int, b \in Int : p = x.profit /\ b = x.balance
  BY DEF TableRow
<1>5. PICK q \in Seq(Int), r \in Seq(Int) : q = ProfitsOf(table) /\ r = ProfitsOf(OfSession(table, s))
  BY SessionFigures, FiguresType
<1>6. s # until => OfSession(table, s) = <<>>
  <2>1. s # until => s \in Nat /\ s > until
    BY <1>2
  <2>2. \A u \in Nat : u > until => OfSession(table, u) = <<>>
    BY <1>2 DEF Numbered
  <2> QED
    BY <2>1, <2>2
<1>7. TrailingLosses(r) <= TrailingLosses(q)
  <2>1. CASE s = until
    BY <1>2, <1>5, <2>1 DEF CurrentLast
  <2>2. CASE s # until
    <3>1. TrailingLosses(r) = 0
      BY <1>5, <1>6, <2>2, EmptySession, NoTrailing
    <3>2. TrailingLosses(q) \in Nat
      <4>1. 0 \in Int
        OBVIOUS
      <4> QED
        BY <4>1, TrailingAppend
    <3> QED
      BY <3>1, <3>2
  <2> QED
    BY <2>1, <2>2
<1>8. /\ ProfitsOf(more) = IF IsClosed(x) THEN Append(q, p) ELSE q
      /\ ProfitsOf(OfSession(more, s)) = IF IsClosed(x) THEN Append(r, p) ELSE r
  BY <1>1, <1>4, <1>5 DEF Carried
<1>9. TrailingLosses(ProfitsOf(OfSession(more, s))) <= TrailingLosses(ProfitsOf(more))
  <2>1. PICK m \in Nat, n \in Nat :
          /\ m = TrailingLosses(r) /\ TrailingLosses(Append(r, p)) = IF p < 0 THEN m + 1 ELSE 0
          /\ n = TrailingLosses(q) /\ TrailingLosses(Append(q, p)) = IF p < 0 THEN n + 1 ELSE 0
    BY TrailingAppend
  <2> QED
    BY <1>7, <1>8, <2>1
<1>10. Last(OfSession(more, s)) = Last(more)
  <2>1. OfSession(table, s) \in Seq(TableRow)
    BY SessionFigures
  <2>2. Last(Append(OfSession(table, s), x)) = x
    BY <2>1, LastAppended
  <2>3. Last(Append(table, x)) = x /\ more = Append(table, x)
    BY LastAppended DEF Grown
  <2> QED
    BY <1>3, <2>2, <2>3
<1>11. ASSUME ProfitsOf(OfSession(more, s)) # <<>>
       PROVE  BalancesOf(more) # <<>> /\ Last(BalancesOf(more)) = InitialBalance + NetOf(more, s)
  <2>1. PICK net \in Int : net = NetOf(table, s) /\ NetOf(more, s) = net + p
    <3>1. NetsMoved(more, table, x, s)
      BY NetCarried
    <3> QED
      BY <1>4, <3>1 DEF NetsMoved
  <2>2. PICK d \in Seq(Int) : d = BalancesOf(table)
    BY FiguresType
  <2>3. CASE IsClosed(x)
    <3>1. BalancesOf(more) = Append(d, b)
      BY <1>1, <1>4, <2>2, <2>3 DEF Carried
    <3>2. Last(Append(d, b)) = b
      BY LastAppended
    <3>4. Append(d, b) # <<>>
      BY LastAppended
    <3>3. b = InitialBalance + (net + p)
      <4>1. x.result # "ERROR"
        BY <2>3 DEF IsClosed
      <4> QED
        BY <1>4, <2>1, <4>1 DEF Grown, StoredBy
    <3> QED
      BY <2>1, <3>1, <3>2, <3>3, <3>4
  <2>4. CASE ~IsClosed(x)
    <3>1. r # <<>> /\ p = 0 /\ BalancesOf(more) = d
      <4>1. x.profit = 0
        BY <2>4 DEF Grown, StoredBy
      <4>2. BalancesOf(more) = d
        BY <1>1, <2>2, <2>4 DEF Carried
      <4> QED
        BY <1>4, <1>8, <1>11, <2>4, <4>1, <4>2
    <3>2. s = until
      BY <1>5, <1>6, <3>1, EmptySession
    <3>3. d # <<>> /\ Last(d) = InitialBalance + net
      BY <1>2, <1>5, <2>1, <2>2, <3>1, <3>2 DEF CurrentLast
    <3>4. net + p = net
      BY <3>1
    <3> QED
      BY <2>1, <3>1, <3>3, <3>4
  <2> QED
    BY <2>3, <2>4
<1> QED
  BY <1>3, <1>9, <1>10, <1>11 DEF CurrentLast

\* What is true of every table the sessions write.
Told(table) ==
  /\ table \in Seq(TableRow)
  /\ Numbered(table)
  /\ Closing(table)
  /\ Solvent(table)
  /\ AddedUp(table)
  /\ LostTogether(table)
  /\ ShownInOrder(table)
  /\ CurrentLast(table)

\* It is true of the empty table.
LEMMA ToldOfNone == InitialBalance > 1 => Told(<<>>)
<1> SUFFICES ASSUME InitialBalance > 1 PROVE Told(<<>>)
  OBVIOUS
<1>1. /\ <<>> \in Seq(TableRow) /\ ProfitsOf(<<>>) = <<>> /\ BalancesOf(<<>>) = <<>>
      /\ \A s : OfSession(<<>>, s) = <<>>
  BY NoRows
<1>2. Len(<<>>) = 0 /\ 1..0 = {} /\ LastOf(<<>>) = 0
  BY DEF LastOf
<1>3. \A s : NetOf(<<>>, s) = 0
  BY <1>1, EmptySession
<1>4. Numbered(<<>>)
  BY <1>1, <1>2 DEF Numbered
<1>5. Closing(<<>>)
  BY <1>2 DEF Closing
<1>6. Solvent(<<>>)
  <2>1. PICK initial \in Nat : initial = InitialBalance /\ initial + 0 > 0
    BY RiskAssumption
  <2> QED
    BY <1>2, <1>3, <2>1 DEF Solvent
<1>7. AddedUp(<<>>)
  <2>1. ASSUME NEW f \in [1..0 -> Int] PROVE Total(f) = 0
    <3>1. f \in Seq(Int) /\ Len(f) = 0
      BY Listed
    <3>2. PICK t \in [0..Len(f) -> Int] : t[0] = 0 /\ t[Len(f)] = Total(f)
      BY <3>1, TotalRun
    <3> QED
      BY <3>1, <3>2
  <2>2. NetsOf(<<>>, 0) \in [1..0 -> Int] /\ CountsOf(<<>>, 0) \in [1..0 -> Int]
    BY <1>2 DEF NetsOf, CountsOf
  <2> QED
    BY <1>1, <1>2, <2>1, <2>2, TotalOfNone DEF AddedUp
<1>8. LostTogether(<<>>)
  <2>1. PICK q \in Seq(Int) : q = ProfitsOf(<<>>)
    BY <1>1, FiguresType
  <2>2. Loss(q) <= Loss(q)
    BY GainLessLoss
  <2> QED
    BY <1>1, <2>1, <2>2 DEF LostTogether
<1>9. ShownInOrder(<<>>)
  <2>1. Places(<<>>, 0, <<>>, 0)
    BY <1>2 DEF Places
  <2>2. Embedded(<<>>, <<>>)
    BY <1>2, <2>1 DEF Embedded
  <2> QED
    BY <1>1, <2>2 DEF ShownInOrder
<1>10. CurrentLast(<<>>)
  <2>1. TrailingLosses(<<>>) <= TrailingLosses(<<>>)
    BY NoTrailing
  <2> QED
    BY <1>1, <2>1 DEF CurrentLast
<1> QED
  BY <1>1, <1>4, <1>5, <1>6, <1>7, <1>8, <1>9, <1>10 DEF Told

\* A row the sessions may add makes the table grow.
LEMMA NextGrows ==
  ASSUME NEW table, Told(table), InitialBalance > 1, NEW x \in NextRows(table)
  PROVE  x \in TableRow /\ Grown(Append(table, x), table, x, x.session)
<1>0. table \in Seq(TableRow) /\ Numbered(table) /\ Solvent(table)
  BY DEF Told
<1>1. PICK until \in Nat : until = LastOf(table) /\ (table # <<>> => until > 0)
  BY <1>0 DEF Numbered
<1>2. PICK s, result : /\ x = NextRow(table, s, result)
                       /\ s \in Nat \ {0} /\ (s = until \/ s = until + 1)
                       /\ result \in {"HOLD", "REFUSED", "WON", "LOST", "PENDING", "ERROR"}
                       /\ result \in {"WON", "LOST"} => CanTrade(SessionRisk(table, s))
  <2> DEFINE running == IF table # <<>> /\ Last(table).result \notin {"PENDING", "ERROR"}
                        THEN {until} ELSE {}
             stored(s) == {"HOLD", "REFUSED"} \cup
                          IF CanTrade(SessionRisk(table, s)) THEN {"WON", "LOST", "PENDING", "ERROR"} ELSE {}
  <2>1. NextRows(table) = UNION {{NextRow(table, s, result) : result \in stored(s)} : s \in running \cup {until + 1}}
    BY <1>1 DEF NextRows, LastOf
  <2>2. PICK s \in running \cup {until + 1} : x \in {NextRow(table, s, result) : result \in stored(s)}
    BY <2>1
  <2>3. PICK result \in stored(s) : x = NextRow(table, s, result)
    BY <2>2
  <2>4. s \in Nat \ {0} /\ (s = until \/ s = until + 1)
    BY <1>1, <2>2
  <2>5. /\ result \in {"HOLD", "REFUSED", "WON", "LOST", "PENDING", "ERROR"}
        /\ result \in {"WON", "LOST"} => CanTrade(SessionRisk(table, s))
    BY <2>3
  <2> QED
    BY <2>3, <2>4, <2>5
<1>3. s \in Nat /\ InitialBalance + NetOf(table, s) > 0
  BY <1>0, <1>2 DEF Solvent
<1>4. StoredBy(x, s, NetOf(table, s))
  BY <1>0, <1>2, <1>3, NextIsStored
<1>5. x \in TableRow /\ x.session = s
  BY <1>4 DEF StoredBy
<1>6. PICK n \in Nat : n = Len(table)
  BY <1>0
<1>7. PICK more \in Seq(TableRow) : OneMoreThan(more, table, x, n)
  BY <1>0, <1>5, <1>6, AppendTo
<1>8. Grown(more, table, x, s)
  <2>1. /\ more = Append(table, x) /\ Len(more) = Len(table) + 1
        /\ more[Len(table) + 1] = x /\ \A k \in 1..Len(table) : more[k] = table[k]
    BY <1>6, <1>7 DEF OneMoreThan
  <2> QED
    BY <1>1, <1>2, <1>4, <2>1 DEF Grown
<1>9. more = Append(table, x)
  BY <1>7 DEF OneMoreThan
<1> QED
  BY <1>5, <1>8, <1>9

\* A row the sessions add keeps it true.
LEMMA ToldGrows ==
  ASSUME NEW table, Told(table), InitialBalance > 1, NEW x \in NextRows(table)
  PROVE  Told(Append(table, x))
<1>1. /\ table \in Seq(TableRow) /\ Numbered(table) /\ Closing(table) /\ Solvent(table)
      /\ AddedUp(table) /\ LostTogether(table) /\ ShownInOrder(table) /\ CurrentLast(table)
  BY DEF Told
<1>2. PICK s, more : s = x.session /\ more = Append(table, x)
  OBVIOUS
<1>3. x \in TableRow /\ Grown(more, table, x, s)
  BY <1>2, NextGrows
<1>4. more \in Seq(TableRow)
  BY <1>3 DEF Grown
<1>5. Numbered(more)
  BY <1>1, <1>3, NumberedGrows
<1>6. Closing(more)
  BY <1>1, <1>3, ClosingGrows
<1>7. Solvent(more)
  BY <1>1, <1>3, SolventGrows
<1>8. AddedUp(more)
  BY <1>1, <1>3, <1>4, AddedUpGrows
<1>9. LostTogether(more)
  BY <1>1, <1>3, LostGrows
<1>10. ShownInOrder(more)
  BY <1>1, <1>3, ShownGrows
<1>11. CurrentLast(more)
  BY <1>1, <1>3, CurrentGrows
<1> QED
  BY <1>2, <1>4, <1>5, <1>6, <1>7, <1>8, <1>9, <1>10, <1>11 DEF Told

\* What a summary says.
LEMMA SummaryMeans ==
  ASSUME NEW q
  PROVE  /\ GetSummary(q).net = Total(ProfitsOf(q)) /\ GetSummary(q).total = Len(ClosedOf(q))
         /\ q = <<>> => GetSummary(q).current = 0
         /\ q # <<>> => /\ GetSummary(q).current = Last(q).balance
                        /\ GetSummary(q).initial = Last(q).balance - Total(ProfitsOf(q))
BY DEF GetSummary

\* What the daily report says.
LEMMA ReportMeans ==
  ASSUME NEW table
  PROVE  LET report == DailyReport(table, 0)
             summary == GetSummary(OfSession(table, LastOf(table))) IN
         /\ report.net = Total(ProfitsOf(table)) /\ report.sessionNet = summary.net
         /\ report.start = summary.initial /\ report.end = summary.current
         /\ report.streak = LosingStreak(ProfitsOf(table))
         /\ report.drawdown = Drawdown(BalancesOf(table)) /\ report.drift = DriftRisk(table)
<1>1. LastOf(table) = IF 0 # 0 \/ table = <<>> THEN 0 ELSE LastSession(table)
  BY DEF LastOf
<1> QED
  BY <1>1 DEF DailyReport

\* What runtime-status says.
LEMMA RuntimeMeans ==
  ASSUME NEW table, NEW s
  PROVE  LET metrics == RuntimeMetrics(table, s)
             summary == GetSummary(OfSession(table, s)) IN
         /\ metrics.net = GetSummary(table).net /\ metrics.sessionNet = summary.net
         /\ metrics.balance = IF summary.current # 0 THEN summary.current ELSE GetSummary(table).current
BY DEF RuntimeMetrics

\* The sessions of a table are those from 1 to the last.
LEMMA SessionsMean ==
  ASSUME NEW table, Told(table)
  PROVE  /\ DOMAIN SessionsSummary(table) = 1..LastOf(table)
         /\ \A s \in 1..LastOf(table) : SessionsSummary(table)[s] = GetSummary(OfSession(table, s))
<1>1. table \in Seq(TableRow) /\ Numbered(table)
  BY DEF Told
<1>2. PICK n \in Nat, until \in Nat : n = Len(table) /\ DOMAIN table = 1..n /\ until = LastOf(table)
  BY <1>1 DEF Numbered
<1>3. {table[k].session : k \in DOMAIN table} = 1..until
  <2>1. \A k \in 1..n : table[k].session \in 1..until
    BY <1>1, <1>2 DEF Numbered
  <2>2. \A s \in 1..until : \E k \in 1..n : table[k].session = s
    BY <1>1, <1>2 DEF Numbered
  <2> QED
    BY <1>2, <2>1, <2>2
<1> QED
  BY <1>2, <1>3 DEF SessionsSummary

\* Profits and trades add up.
LEMMA SumsAgree ==
  ASSUME NEW table, Told(table)
  PROVE  LET sessions == SessionsSummary(table) IN
         /\ GetSummary(table).net = Total([s \in DOMAIN sessions |-> sessions[s].net])
         /\ GetSummary(table).total = Total([s \in DOMAIN sessions |-> sessions[s].total])
<1>1. table \in Seq(TableRow) /\ AddedUp(table)
  BY DEF Told
<1>2. PICK sessions, until : sessions = SessionsSummary(table) /\ until = LastOf(table)
  OBVIOUS
<1>3. DOMAIN sessions = 1..until /\ \A s \in 1..until : sessions[s] = GetSummary(OfSession(table, s))
  BY <1>2, SessionsMean
<1>4. \A s \in 1..until : sessions[s].net = NetOf(table, s) /\ sessions[s].total = TradesIn(table, s)
  <2> TAKE s \in 1..until
  <2>1. sessions[s].net = Total(ProfitsOf(OfSession(table, s))) /\ sessions[s].total = Len(ClosedOf(OfSession(table, s)))
    BY <1>3, SummaryMeans
  <2>2. OfSession(table, s) \in Seq(TableRow)
    BY <1>1, SessionFigures
  <2>3. Len(ProfitsOf(OfSession(table, s))) = Len(ClosedOf(OfSession(table, s)))
    BY <2>2, FiguresType
  <2> QED
    BY <2>1, <2>3 DEF NetOf, TradesIn
<1>5. /\ [s \in 1..until |-> sessions[s].net] = NetsOf(table, until)
      /\ [s \in 1..until |-> sessions[s].total] = CountsOf(table, until)
  BY <1>4 DEF NetsOf, CountsOf
<1>6. GetSummary(table).net = Total(ProfitsOf(table)) /\ GetSummary(table).total = Len(ClosedOf(table))
  BY SummaryMeans
<1>7. Len(ProfitsOf(table)) = Len(ClosedOf(table))
  BY <1>1, FiguresType
<1>8. Total(ProfitsOf(table)) = Total(NetsOf(table, until)) /\ Len(ProfitsOf(table)) = Total(CountsOf(table, until))
  BY <1>1, <1>2 DEF AddedUp
<1>9. /\ GetSummary(table).net = Total([s \in 1..until |-> sessions[s].net])
      /\ GetSummary(table).total = Total([s \in 1..until |-> sessions[s].total])
  BY <1>5, <1>6, <1>7, <1>8
<1> QED
  BY <1>2, <1>3, <1>9

\* A session's initial balance is the one it opened with.
LEMMA InitialBalances ==
  ASSUME NEW table, Told(table), NEW s \in 1..LastOf(table)
  PROVE  LET summary == GetSummary(OfSession(table, s)) IN
         summary.initial =
           InitialBalance - IF Last(OfSession(table, s)).result = "ERROR" THEN summary.net ELSE 0
<1>1. PICK q : q = OfSession(table, s)
  OBVIOUS
<1>2. PICK initial \in Int, net \in Int : initial = InitialBalance /\ net = NetOf(table, s)
  BY RiskAssumption, SessionFigures DEF Told
<1>3. q # <<>> /\ Last(q).balance = initial + IF Last(q).result = "ERROR" THEN 0 ELSE net
  BY <1>1, <1>2 DEF Told, Closing
<1>4. Total(ProfitsOf(q)) = net
  BY <1>1, <1>2 DEF NetOf
<1>5. GetSummary(q).net = net /\ GetSummary(q).initial = Last(q).balance - net
  BY <1>3, <1>4, SummaryMeans
<1>6. GetSummary(q).initial = initial - IF Last(q).result = "ERROR" THEN net ELSE 0
  BY <1>3, <1>5
<1> QED
  BY <1>1, <1>2, <1>5, <1>6

\* Drawdowns and streaks.
LEMMA DeepestAgree ==
  ASSUME NEW table, Told(table)
  PROVE  /\ \A s \in Nat : ~Exceeds(Drawdown(BalancesOf(OfSession(table, s))), Drawdown(BalancesOf(table)))
         /\ LosingStreak(ProfitsOf(table)) >= TrailingLosses(ProfitsOf(table))
<1>1. table \in Seq(TableRow) /\ Solvent(table) /\ ShownInOrder(table)
  BY DEF Told
<1>2. PICK b \in Seq(Int), p \in Seq(Int) : b = BalancesOf(table) /\ p = ProfitsOf(table)
  BY <1>1, FiguresType
<1>3. \A k \in 1..Len(b) : b[k] > 0
  <2> TAKE k \in 1..Len(b)
  <2>1. PICK c \in Seq(TableRow) : c = ClosedOf(table) /\ Len(c) = Len(b) /\ b[k] = c[k].balance
    BY <1>1, <1>2, FiguresType, PartsAreRows
  <2>2. PICK j \in 1..Len(table) : c[k] = table[j]
    <3>1. PICK ids : c = RowsAt(table, ids)
      BY <2>1 DEF ClosedOf
    <3>2. Selected(c, table, ids)
      BY <1>1, <3>1, RowsAtMembers
    <3>3. k \in 1..Len(c)
      BY <2>1
    <3> QED
      BY <3>2, <3>3 DEF Selected
  <2> QED
    BY <1>1, <2>1, <2>2 DEF Solvent
<1>4. ASSUME NEW s \in Nat PROVE ~Exceeds(Drawdown(BalancesOf(OfSession(table, s))), Drawdown(b))
  <2>1. PICK q \in Seq(Int) : q = BalancesOf(OfSession(table, s))
    BY <1>1, SessionFigures
  <2>2. Embedded(q, b)
    BY <1>1, <1>2, <2>1 DEF ShownInOrder
  <2>3. ~Exceeds(Drawdown(q), Drawdown(b))
    BY <1>3, <2>2, PartFallsLess
  <2> QED
    BY <2>1, <2>3
<1>5. TrailingLosses(p) <= LosingStreak(p)
  BY StreakIncludesTrailing
<1>6. LosingStreak(p) >= TrailingLosses(p)
  BY <1>5
<1> QED
  BY <1>2, <1>4, <1>6

\* The balance a monitor compares the losses with is positive and no more than
\* the initial one, when a session has lost its share of that.
LEMMA ShareLost ==
  ASSUME NEW i \in Nat, NEW net \in Int, NEW lost \in Nat, NEW share \in Nat,
         i > 0, share > 0, i + net > 0, -net <= lost, 1000 * net <= -(i * share)
  PROVE  net < 0 /\ i + net # 0 /\ 1000 * lost >= (i + net) * share
<1>1. PICK limit \in Nat : limit = i * share
  OBVIOUS
<1>2. limit > 0
  <2>1. PICK j \in Nat : share = j + 1
    <3>1. share - 1 \in Nat /\ share = (share - 1) + 1
      OBVIOUS
    <3> QED
      BY <3>1
  <2>2. i * (j + 1) = i * j + i /\ i * j \in Nat
    OBVIOUS
  <2> QED
    BY <1>1, <2>1, <2>2
<1>3. net < 0 /\ -(1000 * net) >= limit
  BY <1>1, <1>2
<1>4. (i + net) * share <= i * share
  BY <1>3, ProductOrder
<1>5. PICK z \in Int : z = (i + net) * share
  OBVIOUS
<1> QED
  BY <1>1, <1>3, <1>4, <1>5

\* The monitor stops when the last session's risk manager does.
LEMMA StopsAgree ==
  ASSUME NEW table, Told(table), table # <<>>, InitialBalance > 1, DailyLossPerMille > 0
  PROVE  LET risk == SessionRisk(table, LastSession(table)) IN
         (risk.losses >= MaxConsecutiveLosses
            \/ 1000 * risk.dailyPnl <= -(risk.initial * DailyLossPerMille)) => ShouldStop(table)
<1>1. table \in Seq(TableRow) /\ Numbered(table) /\ Solvent(table) /\ LostTogether(table) /\ CurrentLast(table)
  BY DEF Told
<1>2. PICK s \in Nat : s = LastOf(table) /\ s = LastSession(table)
  BY <1>1 DEF Numbered, LastOf
<1>3. PICK q \in Seq(Int), r \in Seq(Int), b \in Seq(Int) :
        q = ProfitsOf(table) /\ r = ProfitsOf(OfSession(table, s)) /\ b = BalancesOf(table)
  BY <1>1, SessionFigures, FiguresType
<1>4. SessionRisk(table, s) = RiskAfter(r)
  BY <1>3 DEF SessionRisk, RiskAfter
<1>5. PICK net \in Int : net = NetOf(table, s) /\ net = Total(r)
  BY <1>1, <1>3, SessionFigures DEF NetOf
<1>6. PICK i \in Nat, share \in Nat : i = InitialBalance /\ share = DailyLossPerMille /\ i > 0 /\ share > 0
  BY RiskAssumption
<1>7. /\ RiskAfter(r).losses = TrailingLosses(r) /\ RiskAfter(r).dailyPnl = net
      /\ RiskAfter(r).initial = i
  BY <1>5, <1>6, RiskMeans
<1>8. ASSUME RiskAfter(r).losses >= MaxConsecutiveLosses PROVE ShouldStop(table)
  <2>1. 0 \in Int
    OBVIOUS
  <2>2. TrailingLosses(q) \in Nat /\ TrailingLosses(r) \in Nat
    BY <2>1, TrailingAppend
  <2>3. TrailingLosses(r) <= TrailingLosses(q)
    BY <1>1, <1>2, <1>3 DEF CurrentLast
  <2>4. MaxConsecutiveLosses \in Nat
    BY RiskAssumption
  <2>5. TrailingLosses(r) >= MaxConsecutiveLosses
    BY <1>7, <1>8
  <2>6. TrailingLosses(q) >= MaxConsecutiveLosses
    BY <2>2, <2>3, <2>4, <2>5
  <2> QED
    BY <1>3, <2>6 DEF ShouldStop
<1>9. ASSUME 1000 * RiskAfter(r).dailyPnl <= -(RiskAfter(r).initial * DailyLossPerMille)
      PROVE  ShouldStop(table)
  <2>0. 1000 * net <= -(i * share)
    <3>1. 1000 * net <= -(i * DailyLossPerMille)
      BY <1>7, <1>9
    <3>2. share = DailyLossPerMille
      BY <1>6
    <3> QED
      BY <3>1, <3>2
  <2>1. PICK lost \in Nat, own \in Nat : lost = Loss(q) /\ own = Loss(r) /\ net = Gain(r) - own /\ Gain(r) \in Nat
    BY <1>5, GainLessLoss
  <2>2. own <= lost
    BY <1>1, <1>3, <2>1 DEF LostTogether
  <2>3. -net <= lost
    BY <2>1, <2>2
  <2>4. i + net > 0
    BY <1>1, <1>5, <1>6 DEF Solvent
  <2>5. net < 0 /\ i + net # 0 /\ 1000 * lost >= (i + net) * share
    BY <1>6, <2>0, <2>3, <2>4, ShareLost
  <2>6. r # <<>>
    BY <1>5, <2>5, TotalOfNone
  <2>7. b # <<>> /\ Last(b) = i + net
    BY <1>1, <1>2, <1>3, <1>5, <1>6, <2>6 DEF CurrentLast
  <2>8. Len(q) = Len(b) /\ Len(b) # 0
    <3>1. Len(q) = Len(b)
      BY <1>1, <1>3, FiguresType
    <3>2. Len(b) # 0
      BY <2>7
    <3> QED
      BY <3>1, <3>2
  <2>9. GrossLoss(table) = lost
    BY <1>3, <2>1 DEF GrossLoss
  <2> DEFINE balance == IF Len(q) = 0 THEN 0 ELSE Last(b)
  <2>10. balance = i + net
    BY <2>7, <2>8
  <2>11. balance # 0 /\ 1000 * GrossLoss(table) >= balance * DailyLossPerMille
    BY <1>6, <2>5, <2>9, <2>10
  <2> QED
    BY <1>3, <2>11 DEF ShouldStop
<1>10. ASSUME \/ RiskAfter(r).losses >= MaxConsecutiveLosses
              \/ 1000 * RiskAfter(r).dailyPnl <= -(RiskAfter(r).initial * DailyLossPerMille)
       PROVE  ShouldStop(table)
  BY <1>8, <1>9, <1>10, Zenon
<1> QED
  BY <1>2, <1>4, <1>10

\* runtime-status and the daily report.
LEMMA RuntimeAgrees ==
  ASSUME NEW table, Told(table)
  PROVE  /\ LET fresh == RuntimeMetrics(table, LastOf(table) + 1) IN
            /\ fresh.net = Total(ProfitsOf(table)) /\ fresh.sessionNet = 0
            /\ fresh.balance = GetSummary(table).current
         /\ table # <<>> =>
              LET shown == RuntimeMetrics(table, LastOf(table))
                  summary == GetSummary(OfSession(table, LastOf(table))) IN
              shown.sessionNet = summary.net /\ shown.balance = summary.current
<1>1. table \in Seq(TableRow) /\ Numbered(table) /\ Solvent(table) /\ CurrentLast(table) /\ Closing(table)
  BY DEF Told
<1>2. PICK s \in Nat : s = LastOf(table)
  BY <1>1 DEF Numbered
<1>3. OfSession(table, s + 1) = <<>>
  <2>1. s + 1 \in Nat /\ s + 1 > s
    OBVIOUS
  <2> QED
    BY <1>1, <1>2, <2>1 DEF Numbered
<1>4. GetSummary(OfSession(table, s + 1)).net = 0 /\ GetSummary(OfSession(table, s + 1)).current = 0
  <2>1. Total(ProfitsOf(OfSession(table, s + 1))) = 0
    BY <1>3, EmptySession DEF NetOf
  <2> QED
    BY <1>3, <2>1, SummaryMeans
<1>5. GetSummary(table).net = Total(ProfitsOf(table))
  BY SummaryMeans
<1>6. /\ RuntimeMetrics(table, s + 1).net = Total(ProfitsOf(table))
      /\ RuntimeMetrics(table, s + 1).sessionNet = 0
      /\ RuntimeMetrics(table, s + 1).balance = GetSummary(table).current
  BY <1>4, <1>5, RuntimeMeans
<1>7. ASSUME table # <<>>
      PROVE  /\ RuntimeMetrics(table, s).sessionNet = GetSummary(OfSession(table, s)).net
             /\ RuntimeMetrics(table, s).balance = GetSummary(OfSession(table, s)).current
  <2>1. PICK q : q = OfSession(table, s)
    OBVIOUS
  <2>2. Last(q) = Last(table) /\ q # <<>>
    <3>1. s \in 1..LastOf(table)
      BY <1>1, <1>2, <1>7 DEF Numbered
    <3> QED
      BY <1>1, <1>2, <1>7, <2>1, <3>1 DEF CurrentLast, Closing
  <2>3. Last(table).balance > 0
    <3>1. PICK n \in 1..Len(table) : n = Len(table)
      <4>1. Len(table) # 0
        BY <1>1, <1>7
      <4> QED
        BY <1>1, <4>1
    <3>2. table[n].balance > 0
      BY <1>1, <3>1 DEF Solvent
    <3> QED
      BY <3>1, <3>2 DEF Last
  <2>4. GetSummary(q).current # 0
    <3>1. GetSummary(q).current = Last(table).balance
      BY <2>2, SummaryMeans
    <3>2. Last(table).balance # 0
      BY <2>3
    <3> QED
      BY <3>1, <3>2
  <2> QED
    BY <2>1, <2>4, RuntimeMeans
<1> QED
  BY <1>2, <1>6, <1>7

\* Without HOLD rows neither the confidence nor the ratio of HOLD rows warns.
LEMMA OrdersWarnLess ==
  ASSUME NEW table, Told(table), With(table, "HOLD") = 0
  PROVE  DriftWarnings(table) \subseteq {"win_rate", "profit_factor"}
<1>1. table \in Seq(TableRow) /\ Solvent(table)
  BY DEF Told
<1>2. PICK n \in Nat : n = Len(table) /\ DOMAIN table = 1..n
  BY <1>1
<1>3. \A k \in 1..n : table[k].result # "HOLD"
  <2>1. IsFiniteSet(1..n)
    BY FS_Interval
  <2>2. IsFiniteSet({k \in 1..n : table[k].result = "HOLD"})
    BY <2>1, FS_Subset
  <2>3. Cardinality({k \in 1..n : table[k].result = "HOLD"}) = 0
    BY <1>2 DEF With
  <2>4. {k \in 1..n : table[k].result = "HOLD"} = {}
    BY <2>2, <2>3, FS_EmptySet
  <2> QED
    BY <2>4
<1> DEFINE ids == {k \in DOMAIN table : IsClosed(table[k]) \/ table[k].result = "HOLD"}
<1>4. PICK seen \in Seq(TableRow) : seen = RowsAt(table, ids) /\ Selected(seen, table, ids)
  <2>1. PICK all : all = ids
    OBVIOUS
  <2> HIDE DEF ids
  <2>2. RowsAt(table, all) \in Seq(TableRow) /\ Selected(RowsAt(table, all), table, all)
    BY <1>1, RowsAtMembers
  <2> QED
    BY <2>1, <2>2
<1>5. PICK m \in Nat : m = Len(seen) /\ DOMAIN seen = 1..m
  OBVIOUS
<1>6. \A i \in 1..m : seen[i].result # "HOLD" /\ seen[i].confidence = MinConfidence
  <2> TAKE i \in 1..m
  <2>1. PICK k \in 1..n : seen[i] = table[k]
    BY <1>2, <1>4, <1>5 DEF Selected
  <2>2. table[k].result # "HOLD" /\ table[k].confidence = MinConfidence
    BY <1>1, <1>2, <1>3 DEF Solvent
  <2> QED
    BY <2>1, <2>2
<1>7. PICK least \in Nat : least = MinConfidence
  BY BacktestAssumption
<1>8. PICK sure \in [1..m -> Int] : sure = [k \in DOMAIN seen |-> seen[k].confidence] /\ \A k \in 1..m : sure[k] = least
  <2>1. \A k \in 1..m : seen[k].confidence = least /\ least \in Int
    BY <1>6, <1>7
  <2>2. [k \in 1..m |-> seen[k].confidence] \in [1..m -> Int]
    BY <2>1
  <2> QED
    BY <1>5, <2>1, <2>2
<1>9. Total(sure) = least * m
  <2>1. sure \in Seq(Int) /\ Len(sure) = m
    BY Listed
  <2>2. AllAre(sure, least)
    BY <1>8, <2>1 DEF AllAre
  <2>3. SameTotal(sure, least)
    BY <2>1, <2>2, TotalOfSame
  <2> QED
    BY <2>1, <2>3 DEF SameTotal
<1>10. With(seen, "HOLD") = 0
  <2>1. {k \in DOMAIN seen : seen[k].result = "HOLD"} = {}
    BY <1>5, <1>6
  <2>2. Cardinality({}) = 0
    BY FS_EmptySet
  <2> QED
    BY <2>1, <2>2 DEF With
<1>11. ~(4 * With(seen, "HOLD") > 3 * Len(seen))
  BY <1>5, <1>10
<1>12. ~(Total([k \in DOMAIN seen |-> seen[k].confidence]) < MinConfidence * Len(seen))
  <2>1. PICK z \in Int : z = least * m
    OBVIOUS
  <2>2. Total([k \in DOMAIN seen |-> seen[k].confidence]) = z /\ MinConfidence * Len(seen) = z
    BY <1>5, <1>7, <1>8, <1>9, <2>1
  <2> QED
    BY <2>2
<1>13. "hold_ratio" \notin DriftWarnings(table) /\ "confidence" \notin DriftWarnings(table)
  BY <1>4, <1>11, <1>12 DEF DriftWarnings
<1>14. DriftWarnings(table) \subseteq {"win_rate", "profit_factor", "hold_ratio", "confidence"}
  BY DEF DriftWarnings
<1> QED
  BY <1>13, <1>14

\* The drift risk of a table of orders alone.
LEMMA OrdersRiskLess ==
  ASSUME NEW table, Told(table),
         "confidence" \in DriftWarnings(table) \/ DriftRisk(table) = "HIGH"
  PROVE  With(table, "HOLD") > 0
<1>1. table \in Seq(TableRow)
  BY DEF Told
<1>2. With(table, "HOLD") \in Nat
  <2>1. PICK n \in Nat : DOMAIN table = 1..n
    BY <1>1
  <2>2. IsFiniteSet({k \in 1..n : table[k].result = "HOLD"})
    <3>1. IsFiniteSet(1..n)
      BY FS_Interval
    <3> QED
      BY <3>1, FS_Subset
  <2>3. Cardinality({k \in 1..n : table[k].result = "HOLD"}) \in Nat
    BY <2>2, FS_CardinalityType
  <2> QED
    BY <2>1, <2>3 DEF With
<1>3. ASSUME With(table, "HOLD") = 0 PROVE FALSE
  <2>1. DriftWarnings(table) \subseteq {"win_rate", "profit_factor"}
    BY <1>3, OrdersWarnLess
  <2>2. "confidence" \notin DriftWarnings(table)
    BY <2>1
  <2>3. IsFiniteSet({"win_rate", "profit_factor"}) /\ Cardinality({"win_rate", "profit_factor"}) <= 2
    <3>1. IsFiniteSet({"win_rate"}) /\ Cardinality({"win_rate"}) = 1
      BY FS_Singleton
    <3>2. /\ IsFiniteSet({"win_rate"} \cup {"profit_factor"})
          /\ Cardinality({"win_rate"} \cup {"profit_factor"}) = Cardinality({"win_rate"}) + 1
      BY <3>1, FS_AddElement
    <3>3. {"win_rate", "profit_factor"} = {"win_rate"} \cup {"profit_factor"}
      OBVIOUS
    <3> QED
      BY <3>1, <3>2, <3>3
  <2>4. IsFiniteSet(DriftWarnings(table)) /\ Cardinality(DriftWarnings(table)) <= Cardinality({"win_rate", "profit_factor"})
    BY <2>1, <2>3, FS_Subset
  <2>5. Cardinality(DriftWarnings(table)) \in Nat /\ Cardinality({"win_rate", "profit_factor"}) \in Nat
    BY <2>3, <2>4, FS_CardinalityType
  <2>6. ~(Cardinality(DriftWarnings(table)) >= 3)
    BY <2>3, <2>4, <2>5
  <2>7. DriftRisk(table) # "HIGH"
    BY <2>6 DEF DriftRisk
  <2> QED
    BY <2>2, <2>7
<1> QED
  BY <1>2, <1>3

\* The reports agree on every table the sessions write.
LEMMA ReportsOfTold ==
  ASSUME NEW table, Told(table), InitialBalance > 1, DailyLossPerMille > 0
  PROVE  ReportsAgreeIn(table)
<1>1. Numbered(table)
  BY DEF Told
<1>2. PICK s \in Nat : s = LastOf(table) /\ (table # <<>> => s \in 1..s /\ s = LastSession(table))
                       /\ s = IF table = <<>> THEN 0 ELSE LastSession(table)
  BY <1>1 DEF Numbered, LastOf
<1>3. PICK sessions, report, all, fresh, shown :
        /\ sessions = SessionsSummary(table) /\ report = DailyReport(table, 0) /\ all = GetSummary(table)
        /\ fresh = RuntimeMetrics(table, s + 1) /\ shown = RuntimeMetrics(table, s)
  OBVIOUS
<1>4. DOMAIN sessions = 1..s /\ \A u \in 1..s : sessions[u] = GetSummary(OfSession(table, u))
  BY <1>2, <1>3, SessionsMean
<1>5. /\ all.net = Total([u \in DOMAIN sessions |-> sessions[u].net])
      /\ all.total = Total([u \in DOMAIN sessions |-> sessions[u].total])
  BY <1>3, SumsAgree
<1>6. \A u \in DOMAIN sessions : sessions[u].initial =
        InitialBalance - IF Last(OfSession(table, u)).result = "ERROR" THEN sessions[u].net ELSE 0
  <2> TAKE u \in DOMAIN sessions
  <2>1. u \in 1..LastOf(table) /\ sessions[u] = GetSummary(OfSession(table, u))
    BY <1>2, <1>4
  <2>2. GetSummary(OfSession(table, u)).initial =
          InitialBalance - IF Last(OfSession(table, u)).result = "ERROR"
                           THEN GetSummary(OfSession(table, u)).net ELSE 0
    BY <2>1, InitialBalances
  <2> QED
    BY <2>1, <2>2
<1>7. /\ report.net = Total(ProfitsOf(table)) /\ report.sessionNet = GetSummary(OfSession(table, s)).net
      /\ report.start = GetSummary(OfSession(table, s)).initial
      /\ report.end = GetSummary(OfSession(table, s)).current
      /\ report.streak = LosingStreak(ProfitsOf(table))
      /\ report.drawdown = Drawdown(BalancesOf(table)) /\ report.drift = DriftRisk(table)
  BY <1>2, <1>3, ReportMeans
<1>8. table # <<>> => report.start = sessions[LastSession(table)].initial
  BY <1>2, <1>4, <1>7
<1>9. table # <<>> =>
        LET risk == SessionRisk(table, LastSession(table)) IN
        (risk.losses >= MaxConsecutiveLosses
           \/ 1000 * risk.dailyPnl <= -(risk.initial * DailyLossPerMille)) => ShouldStop(table)
  BY StopsAgree
<1>10. \A u \in DOMAIN sessions : ~Exceeds(Drawdown(BalancesOf(OfSession(table, u))), report.drawdown)
  <2>1. \A u \in 1..s : u \in Nat
    OBVIOUS
  <2> QED
    BY <1>4, <1>7, <2>1, DeepestAgree
<1>11. report.streak >= TrailingLosses(ProfitsOf(table))
  BY <1>7, DeepestAgree
<1>12. /\ fresh.net = report.net /\ fresh.sessionNet = 0 /\ fresh.balance = all.current
       /\ table # <<>> => shown.sessionNet = report.sessionNet /\ shown.balance = report.end
  BY <1>2, <1>3, <1>7, RuntimeAgrees
<1>13. "confidence" \in DriftWarnings(table) \/ report.drift = "HIGH" => With(table, "HOLD") > 0
  BY <1>7, OrdersRiskLess
<1> QED
  BY <1>2, <1>3, <1>5, <1>6, <1>8, <1>9, <1>10, <1>11, <1>12, <1>13 DEF ReportsAgreeIn

-----------------------------------------------------------------------------
(* The trades table                                                        *)

\* What a program finds of its own table, and what it never finds in it.
Own(table, owner) ==
  /\ owner \in {"nobody", "session", "backtest"}
  /\ owner = "nobody" => table = {}
  /\ owner = "session" => /\ "id" \in table
                          /\ LiveColumns \ {"session_id", "order_id"} \subseteq table
                          /\ table \subseteq LiveColumns \cup {"strategy", "won"}
  /\ owner = "backtest" => /\ "id" \in table
                           /\ BacktestColumns \ {"strategy", "won"} \subseteq table
                           /\ table \subseteq BacktestColumns \cup {"session_id", "order_id"}

TableInv == Own(columns, creator) /\ ServesItsCreator

\* The table of either program, or none, serves nobody yet.
LEMMA TableStarts == TableInit => TableInv
<1> SUFFICES ASSUME TableInit PROVE TableInv
  OBVIOUS
<1>1. last.operation = "none"
  BY DEF TableInit
<1>2. ServesItsCreator
  BY <1>1 DEF ServesItsCreator
<1>3. ASSUME columns = {}, creator = "nobody" PROVE Own(columns, creator)
  BY <1>3 DEF Own
<1>4. ASSUME NEW lacking \in SUBSET {"session_id", "order_id"}, columns = LiveColumns \ lacking,
             creator = "session"
      PROVE  Own(columns, creator)
  <2>1. "id" \in LiveColumns /\ "id" \notin {"session_id", "order_id"}
    BY DEF LiveColumns, Both
  <2> QED
    BY <1>4, <2>1 DEF Own
<1>5. ASSUME NEW lacking \in SUBSET {"strategy", "won"}, columns = BacktestColumns \ lacking,
             creator = "backtest"
      PROVE  Own(columns, creator)
  <2>1. "id" \in BacktestColumns /\ "id" \notin {"strategy", "won"}
    BY DEF BacktestColumns, Both
  <2> QED
    BY <1>5, <2>1 DEF Own
<1>6. Own(columns, creator)
  BY <1>3, <1>4, <1>5 DEF TableInit
<1> QED
  BY <1>2, <1>6 DEF TableInv

\* An operation leaves these columns and this creator, and tells how it ended.
LEMMA OperateEffect ==
  ASSUME NEW owner, NEW operation, NEW opened, NEW needed,
         Operate(owner, operation, opened, needed)
  PROVE  /\ columns' = opened /\ creator' = IF columns = {} THEN owner ELSE creator
         /\ last'.operation = operation /\ (last'.ok <=> needed \subseteq opened)
BY DEF Operate

\* A session opens a table it created, or creates one; the other program's
\* keeps its own columns.
LEMMA RepositoryOpens ==
  ASSUME NEW table, NEW owner, Own(table, owner)
  PROVE  LET opened == OpenRepository(table)
             now == IF table = {} THEN "session" ELSE owner IN
         /\ Own(opened, now) /\ now \in {"session", "backtest"}
         /\ now = "session" => LiveColumns \subseteq opened
<1>1. CASE table = {}
  BY <1>1 DEF Own, OpenRepository, LiveColumns, Both
<1>2. CASE table # {} /\ owner = "session"
  BY <1>2 DEF Own, OpenRepository, LiveColumns, Both
<1>3. CASE table # {} /\ owner = "backtest"
  BY <1>3 DEF Own, OpenRepository, BacktestColumns, Both
<1> QED
  BY <1>1, <1>2, <1>3 DEF Own

\* The API opens a table it created, or creates one; the sessions' keeps its own
\* columns.
LEMMA ApiOpens ==
  ASSUME NEW table, NEW owner, Own(table, owner)
  PROVE  LET opened == ConnectSqlite(table)
             now == IF table = {} THEN "backtest" ELSE owner IN
         /\ Own(opened, now) /\ now \in {"session", "backtest"}
         /\ now = "backtest" => BacktestColumns \subseteq opened
<1>1. CASE table = {}
  BY <1>1 DEF Own, ConnectSqlite, BacktestColumns, Both
<1>2. CASE table # {} /\ owner = "session"
  BY <1>2 DEF Own, ConnectSqlite, LiveColumns, Both
<1>3. CASE table # {} /\ owner = "backtest"
  BY <1>3 DEF Own, ConnectSqlite, BacktestColumns, Both
<1> QED
  BY <1>1, <1>2, <1>3 DEF Own

\* Each program's rows name a column that the other's table never has, and a
\* comparison's one that neither has.
LEMMA ForeignColumns ==
  ASSUME NEW table, NEW owner, Own(table, owner)
  PROVE  /\ owner = "backtest" => "asset" \notin table /\ "result" \notin table
         /\ owner = "session" => "stake" \notin table
         /\ owner \in {"session", "backtest"} => "probability_up" \notin table
<1>1. {"asset", "result", "probability_up"} \cap (BacktestColumns \cup {"session_id", "order_id"}) = {}
  BY DEF BacktestColumns, Both
<1>2. {"stake", "probability_up"} \cap (LiveColumns \cup {"strategy", "won"}) = {}
  BY DEF LiveColumns, Both
<1>3. CASE owner = "session"
  BY <1>2, <1>3 DEF Own
<1>4. CASE owner = "backtest"
  BY <1>1, <1>4 DEF Own
<1> QED
  BY <1>3, <1>4

\* Every operation keeps the table its creator's.
LEMMA TableStep == TableInv /\ [TableNext]_tableVars => TableInv'
<1> SUFFICES ASSUME TableInv, [TableNext]_tableVars PROVE TableInv'
  OBVIOUS
<1>1. Own(columns, creator)
  BY DEF TableInv
<1>2. CASE Open
  <2>1. /\ columns' = OpenRepository(columns) /\ last'.operation = "open"
        /\ creator' = IF columns = {} THEN "session" ELSE creator
    BY <1>2, OperateEffect DEF Open
  <2> QED
    BY <1>1, <2>1, RepositoryOpens DEF TableInv, ServesItsCreator
<1>3. CASE InsertTrade
  <2>1. /\ columns' = OpenRepository(columns) /\ last'.operation = "insert_trade"
        /\ creator' = IF columns = {} THEN "session" ELSE creator
        /\ last'.ok <=> TradeFields \subseteq columns'
    BY <1>3, OperateEffect DEF InsertTrade
  <2>2. /\ Own(columns', creator') /\ creator' \in {"session", "backtest"}
        /\ creator' = "session" => LiveColumns \subseteq columns'
    BY <1>1, <2>1, RepositoryOpens
  <2>3. creator' = "backtest" => "asset" \notin columns'
    BY <2>2, ForeignColumns
  <2>4. last'.ok <=> creator' = "session"
    BY <2>1, <2>2, <2>3 DEF TradeFields, LiveColumns, Both
  <2> QED
    BY <2>1, <2>2, <2>4 DEF TableInv, ServesItsCreator
<1>4. CASE Reconcile
  <2>1. /\ columns' = OpenRepository(columns) /\ last'.operation = "reconcile"
        /\ creator' = IF columns = {} THEN "session" ELSE creator
        /\ last'.ok <=> {"result"} \subseteq columns'
    BY <1>4, OperateEffect DEF Reconcile
  <2>2. /\ Own(columns', creator') /\ creator' \in {"session", "backtest"}
        /\ creator' = "session" => LiveColumns \subseteq columns'
    BY <1>1, <2>1, RepositoryOpens
  <2>3. creator' = "backtest" => "result" \notin columns'
    BY <2>2, ForeignColumns
  <2>4. last'.ok <=> creator' = "session"
    BY <2>1, <2>2, <2>3 DEF LiveColumns, Both
  <2> QED
    BY <2>1, <2>2, <2>4 DEF TableInv, ServesItsCreator
<1>5. CASE SaveBacktest
  <2>1. /\ columns' = ConnectSqlite(columns) /\ last'.operation = "backtest"
        /\ creator' = IF columns = {} THEN "backtest" ELSE creator
        /\ last'.ok <=> TradeColumns \subseteq columns'
    BY <1>5, OperateEffect DEF SaveBacktest
  <2>2. /\ Own(columns', creator') /\ creator' \in {"session", "backtest"}
        /\ creator' = "backtest" => BacktestColumns \subseteq columns'
    BY <1>1, <2>1, ApiOpens
  <2>3. creator' = "session" => "stake" \notin columns'
    BY <2>2, ForeignColumns
  <2>4. last'.ok <=> creator' = "backtest"
    BY <2>1, <2>2, <2>3 DEF TradeColumns, BacktestColumns, Both
  <2> QED
    BY <2>1, <2>2, <2>4 DEF TableInv, ServesItsCreator
<1>6. CASE SaveComparison
  <2>1. /\ columns' = ConnectSqlite(columns) /\ last'.operation = "comparison"
        /\ creator' = IF columns = {} THEN "backtest" ELSE creator
        /\ last'.ok <=> ComparedColumns \subseteq columns'
    BY <1>6, OperateEffect DEF SaveComparison
  <2>2. Own(columns', creator') /\ creator' \in {"session", "backtest"}
    BY <1>1, <2>1, ApiOpens
  <2>3. "probability_up" \notin columns'
    BY <2>2, ForeignColumns
  <2>4. ~last'.ok
    BY <2>1, <2>3 DEF ComparedColumns
  <2> QED
    BY <2>1, <2>2, <2>4 DEF TableInv, ServesItsCreator
<1>7. CASE ResetPaperLogs
  <2>1. columns' = OpenRepository({}) /\ creator' = "session" /\ last'.operation = "reset"
    BY <1>7 DEF ResetPaperLogs
  <2>2. Own(columns', creator')
    BY <2>1 DEF Own, OpenRepository, LiveColumns, Both
  <2> QED
    BY <2>1, <2>2 DEF TableInv, ServesItsCreator
<1>8. CASE UNCHANGED tableVars
  BY <1>8 DEF tableVars, TableInv, Own, ServesItsCreator
<1> QED
  BY <1>2, <1>3, <1>4, <1>5, <1>6, <1>7, <1>8 DEF TableNext

-----------------------------------------------------------------------------
(* The run of MCTools                                                      *)

\* In every run the sessions store and reconcile their rows exactly when a
\* session created trades.db, the backtests of the API exactly when the API
\* did, and a comparison never.
THEOREM TableServes == MCSpec => []TableServesItsCreator
<1> DEFINE Inv == tool = "table" => TableInv
<1>1. MCInit => Inv
  BY TableStarts DEF MCInit
<1>2. Inv /\ [MCNext]_<<vars, tableVars, tool, rows, trades>> => Inv'
  <2> SUFFICES ASSUME Inv, [MCNext]_<<vars, tableVars, tool, rows, trades>>, tool' = "table"
               PROVE  TableInv'
    OBVIOUS
  <2>1. tool = "table"
    BY DEF MCNext, Replay, AddRow, AddTrade, ShareTable
  <2>2. [TableNext]_tableVars
    BY DEF MCNext, Replay, AddRow, AddTrade, ShareTable
  <2> QED
    BY <2>1, <2>2, TableStep
<1>3. Inv => TableServesItsCreator
  BY DEF TableInv, TableServesItsCreator
<1> QED
  BY <1>1, <1>2, <1>3, PTL DEF MCSpec

\* The replay of this run is that of FeedReplay, so what is proved of it holds
\* here: the tools beside it do not touch its files.
THEOREM ReplayIsTheFeeds == MCSpec => Spec
<1>1. MCInit => Init
  BY DEF MCInit
<1>2. [MCNext]_<<vars, tableVars, tool, rows, trades>> => [Next]_vars
  BY DEF MCNext, Replay, AddRow, AddTrade, ShareTable
<1> QED
  BY <1>1, <1>2, PTL DEF MCSpec, Spec

\* The splits of validation and training keep the order of time.
THEOREM SplitsTemporal == MCSpec => []SplitsAreTemporal
<1>1. TemporalUpTo(12)
  BY SplitsKeepTime
<1>2. SplitsAreTemporal
  BY <1>1 DEF SplitsAreTemporal
<1> QED
  BY <1>2, PTL

\* The rows of this run are rows of its market.
LEMMA RowsAreRows == MCSpec => [](rows \in Seq(FeatureRow))
<1> USE DEF FeatureRow
<1>1. Market \subseteq FeatureRow
  BY DEF Market
<1> HIDE DEF FeatureRow
<1> DEFINE Inv == rows \in Seq(FeatureRow)
<1>2. MCInit => Inv
  BY DEF MCInit
<1>3. Inv /\ [MCNext]_<<vars, tableVars, tool, rows, trades>> => Inv'
  BY <1>1 DEF MCNext, Replay, AddRow, AddTrade, ShareTable
<1> QED
  BY <1>2, <1>3, PTL DEF MCSpec

\* The metrics of both backtests of any rows say of the trades what their names
\* promise, with settings whose stake is not zero.
THEOREM MetricsOfRows == InitialBalance > 0 /\ RiskPerMille > 0 /\ MCSpec => []MetricsAgree
<1> SUFFICES ASSUME InitialBalance > 0, RiskPerMille > 0 PROVE MCSpec => []MetricsAgree
  OBVIOUS
<1>1. rows \in Seq(FeatureRow) => MetricsAgree
  BY MetricsAgreement DEF MetricsAgree
<1> QED
  BY <1>1, RowsAreRows, PTL

\* The tools trade the same of any rows, and differ only on SELL trades that
\* close flat.
THEOREM SimulationOfRows == MCSpec => []SimulationAgrees
<1>1. rows \in Seq(FeatureRow) => SimulationAgrees
  BY SimulationAgreement DEF SimulationAgrees
<1> QED
  BY <1>1, RowsAreRows, PTL

\* The decisions of a backtest of any rows see no later candle, and its risk
\* manager the results of expiration - 1 rows later, none with one candle.
THEOREM LookAheadOfRows == MCSpec => []LookAheadBounded
<1>1. Market \in SUBSET FeatureRow
  BY DEF Market, FeatureRow
<1>2. rows \in Seq(FeatureRow) => LookAheadBounded
  BY <1>1, LookAheadIsBounded DEF LookAheadBounded
<1> QED
  BY <1>2, RowsAreRows, PTL

\* What the recommendation and the gate guarantee, of any rows.
THEOREM DemoMeansOfRows == MCSpec => []DemoMeans
<1>1. rows \in Seq(FeatureRow) => DemoMeans
  BY StressIsPayout, DemoMeaning DEF DemoMeans
<1> QED
  BY <1>1, RowsAreRows, PTL

\* Every table of the run is one the sessions write: sessions are numbered from
\* 1, each shows in its last row the balance it ends with, none loses all its
\* money, and what they won, lost and held is found again in the whole table.
THEOREM TablesAreTold == InitialBalance > 1 /\ MCSpec => [](tool = "report" => Told(trades))
<1> SUFFICES ASSUME InitialBalance > 1 PROVE MCSpec => [](tool = "report" => Told(trades))
  OBVIOUS
<1> DEFINE Inv == tool = "report" => Told(trades)
<1>1. MCInit => Inv
  BY ToldOfNone DEF MCInit
<1>2. Inv /\ [MCNext]_<<vars, tableVars, tool, rows, trades>> => Inv'
  <2> SUFFICES ASSUME Inv, [MCNext]_<<vars, tableVars, tool, rows, trades>>, tool' = "report"
               PROVE  Told(trades')
    BY DEF Told, Numbered, Closing, Solvent, AddedUp, LostTogether, ShownInOrder, CurrentLast
  <2>1. tool = "report" /\ Told(trades)
    BY DEF MCNext, Replay, AddRow, AddTrade, ShareTable
  <2>2. CASE trades' = trades
    BY <2>1, <2>2
  <2>3. CASE AddTrade
    <3>1. PICK row \in NextRows(trades) : trades' = Append(trades, row)
      BY <2>3 DEF AddTrade
    <3> QED
      BY <2>1, <3>1, ToldGrows
  <2>4. trades' = trades \/ AddTrade
    BY DEF MCNext, Replay, AddRow, ShareTable
  <2> QED
    BY <2>2, <2>3, <2>4
<1> QED
  BY <1>1, <1>2, PTL DEF MCSpec

\* Summaries, monitor, drift check, daily report and runtime-status agree on
\* tables of any length, with a balance of two units at least, as one unit would
\* be staked whole, and a daily limit above zero, at which the risk manager
\* stops before any trade.
THEOREM ReportsOfTables == InitialBalance > 1 /\ DailyLossPerMille > 0 /\ MCSpec => []ReportsAgree
<1> SUFFICES ASSUME InitialBalance > 1, DailyLossPerMille > 0 PROVE MCSpec => []ReportsAgree
  OBVIOUS
<1>1. (tool = "report" => Told(trades)) => ReportsAgree
  BY ReportsOfTold DEF ReportsAgree
<1>2. MCSpec => [](tool = "report" => Told(trades))
  BY TablesAreTold
<1> QED
  BY <1>1, <1>2, PTL
=============================================================================
