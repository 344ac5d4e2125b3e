-------------------------- MODULE Backtests_proofs --------------------------
(***************************************************************************)
(* Proofs about the backtests, for rows of any number and content and any  *)
(* settings: what their metrics say of their trades, that validation       *)
(* simulates the ML backtest's, and that no trade depends on a later row.  *)
(*                                                                         *)
(* The backtests, the metrics and the simulation are folds over the rows.  *)
(* Each fold is first shown to be the end of a run h[0], ..., h[n] of its  *)
(* step (FoldExists and the lemmas named ...Run and ...Loop), and what is  *)
(* to be shown of it is then shown of every h[k], by induction on k.  The  *)
(* induction is on a set of numbers, so that no operator is a parameter    *)
(* (IntervalInduction, from the well-foundedness of <).                    *)
(***************************************************************************)
EXTENDS Backtests, RiskManager_proofs, WellFoundedInduction, FiniteSetTheorems,
        FunctionTheorems

-----------------------------------------------------------------------------
(* Induction and folds                                                     *)

\* The natural numbers are well ordered.
LEMMA LeastNumber ==
  ASSUME NEW T \in SUBSET Nat, T # {}
  PROVE  \E k \in T : \A m \in T : ~(m < k)
<1> DEFINE R == OpToRel(<, Nat)
<1>1. R = {ss \in Nat \X Nat : ss[1] < ss[2]}
  BY DEF OpToRel
<1>2. IsWellFoundedOn(R, Nat)
  BY NatLessThanWellFounded
<1> HIDE DEF R
<1>3. \E k \in T : \A m \in T : ~(<<m, k>> \in R)
  BY <1>2, WFMin
<1> QED
  BY <1>1, <1>3

\* What holds of the start and is kept up to n holds up to n.
LEMMA IntervalInduction ==
  ASSUME NEW n \in Nat, NEW S, 0 \in S, \A k \in 1..n : k - 1 \in S => k \in S
  PROVE  \A k \in 0..n : k \in S
<1> DEFINE T == {k \in 0..n : k \notin S}
<1> SUFFICES ASSUME T # {} PROVE FALSE
  OBVIOUS
<1>1. PICK k \in T : \A m \in T : ~(m < k)
  <2>1. T \in SUBSET Nat
    OBVIOUS
  <2> HIDE DEF T
  <2> QED
    BY <2>1, LeastNumber
<1>2. k # 0 /\ k \in 1..n /\ k - 1 \in 0..n
  OBVIOUS
<1>3. k - 1 \in S
  BY <1>1, <1>2
<1> QED
  BY <1>2, <1>3

\* The largest of a nonempty set of numbers up to n.
LEMMA MaxOf ==
  ASSUME NEW n \in Nat, NEW s \in SUBSET (1..n), s # {}
  PROVE  /\ Max(s) \in s /\ \A k \in s : k <= Max(s)
         /\ \A m \in s : (\A k \in s : k <= m) => Max(s) = m
<1> DEFINE T == {n - k : k \in s}
<1>0. \A k \in s : k \in Nat /\ k <= n
  OBVIOUS
<1>1. T \in SUBSET Nat /\ T # {}
  <2>1. PICK k \in s : TRUE
    OBVIOUS
  <2>2. n - k \in T
    BY <2>1
  <2> QED
    BY <1>0, <2>2
<1>2. PICK j \in T : \A m \in T : ~(m < j)
  <2> HIDE DEF T
  <2> QED
    BY <1>1, LeastNumber
<1>3. PICK x \in s : j = n - x
  OBVIOUS
<1>4. \A k \in s : x >= k
  BY <1>0, <1>2, <1>3
<1>5. Max(s) \in s /\ \A k \in s : Max(s) >= k
  BY <1>4 DEF Max
<1>6. \A a, b \in Nat : (a >= b <=> b <= a) /\ (a <= b /\ b <= a => a = b)
  OBVIOUS
<1> HIDE DEF T
<1> QED
  BY <1>0, <1>5, <1>6

\* The equation of a fold over the numbers up to n, one function per number.
Folded(it, n, base, g) ==
  it = [s \in SUBSET (1..n) |-> IF s = {} THEN base ELSE g[Max(s)][it[s \ {Max(s)}]]]

\* The equation has a solution.
LEMMA FoldExists ==
  ASSUME NEW n \in Nat, NEW V, NEW base \in V, NEW g \in [1..n -> [V -> V]]
  PROVE  \E it \in [SUBSET (1..n) -> V] : Folded(it, n, base, g)
<1> DEFINE P(m) == \E it \in [SUBSET (1..m) -> V] : Folded(it, m, base, g)
<1>1. P(0)
  <2> DEFINE it == [s \in SUBSET (1..0) |-> base]
  <2>1. it \in [SUBSET (1..0) -> V]
    OBVIOUS
  <2>2. \A s \in SUBSET (1..0) : s = {}
    OBVIOUS
  <2>3. Folded(it, 0, base, g)
    BY <2>2 DEF Folded
  <2> QED
    BY <2>1, <2>3
<1>2. ASSUME NEW m \in 1..n, P(m - 1) PROVE P(m)
  <2>1. PICK old \in [SUBSET (1..(m - 1)) -> V] : Folded(old, m - 1, base, g)
    BY <1>2
  <2> DEFINE it == [s \in SUBSET (1..m) |-> IF m \in s THEN g[m][old[s \ {m}]] ELSE old[s]]
  <2>2. \A s \in SUBSET (1..m) : s \ {m} \in SUBSET (1..(m - 1))
    OBVIOUS
  <2>3. \A s \in SUBSET (1..m) : m \notin s => s \in SUBSET (1..(m - 1))
    OBVIOUS
  <2>4. it \in [SUBSET (1..m) -> V]
    BY <2>2, <2>3
  <2>5. ASSUME NEW s \in SUBSET (1..m)
        PROVE  it[s] = IF s = {} THEN base ELSE g[Max(s)][it[s \ {Max(s)}]]
    <3>1. CASE m \in s
      <4>1. \A k \in s : k <= m
        OBVIOUS
      <4>2. m \in Nat /\ s # {}
        BY <3>1
      <4>3. Max(s) = m
        BY <3>1, <4>1, <4>2, MaxOf
      <4>4. it[s \ {m}] = old[s \ {m}]
        BY <2>2
      <4> QED
        BY <3>1, <4>3, <4>4
    <3>2. CASE m \notin s /\ s # {}
      <4>1. s \in SUBSET (1..(m - 1)) /\ m - 1 \in Nat
        BY <2>3, <3>2
      <4>2. old[s] = g[Max(s)][old[s \ {Max(s)}]]
        BY <2>1, <3>2, <4>1 DEF Folded
      <4>3. s \ {Max(s)} \in SUBSET (1..m) /\ m \notin s \ {Max(s)}
        BY <3>2
      <4> QED
        BY <3>2, <4>2, <4>3
    <3>3. CASE s = {}
      BY <2>1, <3>3 DEF Folded
    <3> QED
      BY <3>1, <3>2, <3>3
  <2>6. Folded(it, m, base, g)
    BY <2>5 DEF Folded
  <2> QED
    BY <2>4, <2>6
<1> DEFINE S == {m \in 0..n : P(m)}
<1>3. 0 \in S /\ \A m \in 1..n : m - 1 \in S => m \in S
  <2> HIDE DEF P
  <2> QED
    BY <1>1, <1>2
<1>4. \A m \in 0..n : m \in S
  <2> HIDE DEF S
  <2> QED
    BY <1>3, IntervalInduction
<1>5. P(n)
  <2>1. n \in 0..n
    OBVIOUS
  <2>2. n \in S
    <3> HIDE DEF S
    <3> QED
      BY <1>4, <2>1
  <2> HIDE DEF P
  <2> QED
    BY <2>2
<1> QED
  BY <1>5

\* The numbers up to k, of which k is the largest.
LEMMA Prefix ==
  ASSUME NEW n \in Nat, NEW k \in 1..n
  PROVE  /\ 1..k \in SUBSET (1..n) /\ 1..k # {}
         /\ Max(1..k) = k /\ (1..k) \ {Max(1..k)} = 1..(k - 1)
<1>1. 1..k \in SUBSET (1..n) /\ k \in 1..k /\ \A j \in 1..k : j <= k
  OBVIOUS
<1>2. Max(1..k) = k
  BY <1>1, MaxOf
<1> QED
  BY <1>1, <1>2

\* Products of numbers that are not negative keep the order.
LEMMA ProductOrder ==
  ASSUME NEW x \in Int, NEW y \in Int, NEW z \in Nat, x <= y
  PROVE  x * z <= y * z
<1>1. PICK d \in Nat : y = x + d
  <2>1. y - x \in Nat /\ y = x + (y - x)
    OBVIOUS
  <2> QED
    BY <2>1
<1>2. d * z \in Nat /\ y * z = x * z + d * z
  BY <1>1
<1>3. x * z \in Int
  OBVIOUS
<1> QED
  BY <1>2, <1>3

\* The states of the two loops.
Streaks == [now : Nat, longest : Nat]
Peaks == [peak : Nat, worst : Int \X Nat]

\* A step of Drawdown keeps its state one.
LEMMA PeakType ==
  ASSUME NEW v \in Peaks, NEW x \in Int
  PROVE  PeakStep(v, x) \in Peaks
<1> DEFINE peak == Larger(v.peak, x)
           worst == IF Exceeds(<<peak - x, peak>>, v.worst) THEN <<peak - x, peak>> ELSE v.worst
<1>1. peak \in Nat /\ v.worst \in Int \X Nat
  BY DEF Peaks, Larger
<1>2. <<peak - x, peak>> \in Int \X Nat
  BY <1>1
<1>3. worst \in Int \X Nat
  BY <1>1, <1>2
<1>4. PeakStep(v, x) = [peak |-> peak, worst |-> worst]
  BY DEF PeakStep
<1> HIDE DEF peak, worst
<1> QED
  BY <1>1, <1>3, <1>4 DEF Peaks

\* Total adds profit after profit.
LEMMA TotalRun ==
  ASSUME NEW q \in Seq(Int)
  PROVE  \E h \in [0..Len(q) -> Int] :
           /\ h[0] = 0 /\ h[Len(q)] = Total(q)
           /\ \A k \in 1..Len(q) : h[k] = h[k - 1] + q[k]
<1>1. PICK n \in Nat : n = Len(q) /\ DOMAIN q = 1..n /\ \A k \in 1..n : q[k] \in Int
  OBVIOUS
<1> DEFINE IsFold(it) == it = [s \in SUBSET DOMAIN q |->
                                 IF s = {} THEN 0 ELSE it[s \ {Max(s)}] + q[Max(s)]]
           fold == CHOOSE it : IsFold(it)
<1>2. fold[DOMAIN q] = Total(q)
  BY DEF Total, FoldLeft, MapThenFoldSet
<1>3. PICK g : g = [k \in 1..n |-> [v \in Int |-> v + q[k]]]
  OBVIOUS
<1>4. 0 \in Int /\ g \in [1..n -> [Int -> Int]]
  BY <1>1, <1>3
<1>5. PICK it \in [SUBSET (1..n) -> Int] : Folded(it, n, 0, g)
  BY <1>4, FoldExists
<1>6. IsFold(it)
  <2>1. ASSUME NEW s \in SUBSET (1..n), s # {}
        PROVE  it[s] = it[s \ {Max(s)}] + q[Max(s)]
    <3>1. Max(s) \in 1..n /\ s \ {Max(s)} \in SUBSET (1..n)
      BY <2>1, MaxOf
    <3>2. PICK m \in 1..n, v \in Int : m = Max(s) /\ v = it[s \ {Max(s)}]
      BY <3>1
    <3>3. it[s] = g[m][v]
      BY <1>5, <2>1, <3>2 DEF Folded
    <3>4. g[m][v] = v + q[m]
      BY <1>1, <1>3
    <3> QED
      BY <3>2, <3>3, <3>4
  <2>2. it[{}] = 0 /\ {} \in SUBSET (1..n)
    BY <1>5 DEF Folded
  <2>3. DOMAIN it = SUBSET DOMAIN q
    BY <1>1
  <2> QED
    BY <1>1, <1>5, <2>1, <2>2, <2>3
<1>7. IsFold(fold)
  BY <1>6
<1> HIDE DEF fold
<1>8. fold[1..0] = 0
  <2>1. 1..0 = {} /\ {} \in SUBSET DOMAIN q
    OBVIOUS
  <2> QED
    BY <1>7, <2>1
<1>9. ASSUME NEW k \in 1..n PROVE fold[1..k] = fold[1..(k - 1)] + q[k]
  <2>1. 1..k \in SUBSET DOMAIN q /\ 1..k # {} /\ Max(1..k) = k /\ (1..k) \ {Max(1..k)} = 1..(k - 1)
    BY <1>1, Prefix
  <2>2. fold[1..k] = fold[(1..k) \ {Max(1..k)}] + q[Max(1..k)]
    BY <1>7, <2>1
  <2> QED
    BY <1>1, <2>1, <2>2
<1> DEFINE S == {k \in 0..n : fold[1..k] \in Int}
<1>10. \A k \in 0..n : k \in S
  <2>1. ASSUME NEW k \in 1..n, fold[1..(k - 1)] \in Int PROVE fold[1..k] \in Int
    <3>1. PICK v \in Int : v = fold[1..(k - 1)]
      BY <2>1
    <3>2. fold[1..k] = g[k][v]
      BY <1>3, <1>9, <3>1
    <3> QED
      BY <1>4, <3>2
  <2>2. 0 \in S
    <3>1. fold[1..0] \in Int
      BY <1>4, <1>8, Zenon
    <3> QED
      BY <3>1
  <2>3. \A k \in 1..n : k - 1 \in S => k \in S
    BY <2>1
  <2> HIDE DEF S
  <2> QED
    BY <2>2, <2>3, IntervalInduction
<1>11. PICK h : h = [k \in 0..n |-> fold[1..k]]
  OBVIOUS
<1>12. h \in [0..n -> Int]
  BY <1>10, <1>11
<1>13. h[0] = 0 /\ h[n] = fold[1..n]
  BY <1>8, <1>11
<1>14. ASSUME NEW k \in 1..n PROVE h[k] = h[k - 1] + q[k]
  <2>1. h[k] = fold[1..k] /\ h[k - 1] = fold[1..(k - 1)]
    BY <1>11
  <2> QED
    BY <1>9, <2>1
<1>15. h[0] = 0 /\ h[n] = Total(q)
  BY <1>1, <1>2, <1>13
<1> QED
  BY <1>1, <1>12, <1>14, <1>15

\* The streak after every profit.
LEMMA StreakRun ==
  ASSUME NEW q \in Seq(Int)
  PROVE  \E h \in [0..Len(q) -> Streaks] :
           /\ h[0] = [now |-> 0, longest |-> 0] /\ LosingStreak(q) = h[Len(q)].longest
           /\ \A k \in 1..Len(q) : h[k] = StreakStep(h[k - 1], q[k])
<1>1. PICK n \in Nat : n = Len(q) /\ DOMAIN q = 1..n /\ \A k \in 1..n : q[k] \in Int
  OBVIOUS
<1> DEFINE IsFold(it) == it = [s \in SUBSET DOMAIN q |->
                                 IF s = {} THEN [now |-> 0, longest |-> 0] ELSE StreakStep(it[s \ {Max(s)}], q[Max(s)])]
           fold == CHOOSE it : IsFold(it)
<1>2. LosingStreak(q) = fold[DOMAIN q].longest
  BY DEF LosingStreak, FoldLeft, MapThenFoldSet
<1>3. PICK g : g = [k \in 1..n |-> [v \in Streaks |-> StreakStep(v, q[k])]]
  OBVIOUS
<1>4. [now |-> 0, longest |-> 0] \in Streaks /\ g \in [1..n -> [Streaks -> Streaks]]
  <2>1. [now |-> 0, longest |-> 0] \in Streaks
    BY DEF Streaks
  <2>2. \A v \in Streaks, x \in Int : StreakStep(v, x) \in Streaks
    BY DEF Streaks, StreakStep, Larger
  <2> QED
    BY <1>1, <1>3, <2>1, <2>2
<1>5. PICK it \in [SUBSET (1..n) -> Streaks] : Folded(it, n, [now |-> 0, longest |-> 0], g)
  BY <1>4, FoldExists
<1>6. IsFold(it)
  <2>1. ASSUME NEW s \in SUBSET (1..n), s # {}
        PROVE  it[s] = StreakStep(it[s \ {Max(s)}], q[Max(s)])
    <3>1. Max(s) \in 1..n /\ s \ {Max(s)} \in SUBSET (1..n)
      BY <2>1, MaxOf
    <3>2. PICK m \in 1..n, v \in Streaks : m = Max(s) /\ v = it[s \ {Max(s)}]
      BY <3>1
    <3>3. it[s] = g[m][v]
      BY <1>5, <2>1, <3>2 DEF Folded
    <3>4. g[m][v] = StreakStep(v, q[m])
      BY <1>1, <1>3
    <3> QED
      BY <3>2, <3>3, <3>4
  <2>2. it[{}] = [now |-> 0, longest |-> 0] /\ {} \in SUBSET (1..n)
    BY <1>5 DEF Folded
  <2>3. DOMAIN it = SUBSET DOMAIN q
    BY <1>1
  <2> QED
    BY <1>1, <1>5, <2>1, <2>2, <2>3
<1>7. IsFold(fold)
  BY <1>6
<1> HIDE DEF fold
<1>8. fold[1..0] = [now |-> 0, longest |-> 0]
  <2>1. 1..0 = {} /\ {} \in SUBSET DOMAIN q
    OBVIOUS
  <2> QED
    BY <1>7, <2>1
<1>9. ASSUME NEW k \in 1..n PROVE fold[1..k] = StreakStep(fold[1..(k - 1)], q[k])
  <2>1. 1..k \in SUBSET DOMAIN q /\ 1..k # {} /\ Max(1..k) = k /\ (1..k) \ {Max(1..k)} = 1..(k - 1)
    BY <1>1, Prefix
  <2>2. fold[1..k] = StreakStep(fold[(1..k) \ {Max(1..k)}], q[Max(1..k)])
    BY <1>7, <2>1
  <2> QED
    BY <1>1, <2>1, <2>2
<1> DEFINE S == {k \in 0..n : fold[1..k] \in Streaks}
<1>10. \A k \in 0..n : k \in S
  <2>1. ASSUME NEW k \in 1..n, fold[1..(k - 1)] \in Streaks PROVE fold[1..k] \in Streaks
    <3>1. PICK v \in Streaks : v = fold[1..(k - 1)]
      BY <2>1
    <3>2. fold[1..k] = g[k][v]
      BY <1>3, <1>9, <3>1
    <3> QED
      BY <1>4, <3>2
  <2>2. 0 \in S
    <3>1. fold[1..0] \in Streaks
      BY <1>4, <1>8, Zenon
    <3> QED
      BY <3>1
  <2>3. \A k \in 1..n : k - 1 \in S => k \in S
    BY <2>1
  <2> HIDE DEF S
  <2> QED
    BY <2>2, <2>3, IntervalInduction
<1>11. PICK h : h = [k \in 0..n |-> fold[1..k]]
  OBVIOUS
<1>12. h \in [0..n -> Streaks]
  BY <1>10, <1>11
<1>13. h[0] = [now |-> 0, longest |-> 0] /\ h[n] = fold[1..n]
  BY <1>8, <1>11
<1>14. ASSUME NEW k \in 1..n PROVE h[k] = StreakStep(h[k - 1], q[k])
  <2>1. h[k] = fold[1..k] /\ h[k - 1] = fold[1..(k - 1)]
    BY <1>11
  <2> QED
    BY <1>9, <2>1
<1>15. h[0] = [now |-> 0, longest |-> 0] /\ LosingStreak(q) = h[n].longest
  BY <1>1, <1>2, <1>13
<1> QED
  BY <1>1, <1>12, <1>14, <1>15

\* The peak and the deepest fall after every point of an equity.
LEMMA DrawdownRun ==
  ASSUME NEW q \in Seq(Int)
  PROVE  \E h \in [0..Len(q) -> Peaks] :
           /\ h[0] = [peak |-> 0, worst |-> <<0, 1>>] /\ Drawdown(q) = h[Len(q)].worst
           /\ \A k \in 1..Len(q) : h[k] = PeakStep(h[k - 1], q[k])
<1>1. PICK n \in Nat : n = Len(q) /\ DOMAIN q = 1..n /\ \A k \in 1..n : q[k] \in Int
  OBVIOUS
<1> DEFINE IsFold(it) == it = [s \in SUBSET DOMAIN q |->
                                 IF s = {} THEN [peak |-> 0, worst |-> <<0, 1>>] ELSE PeakStep(it[s \ {Max(s)}], q[Max(s)])]
           fold == CHOOSE it : IsFold(it)
<1>2. Drawdown(q) = fold[DOMAIN q].worst
  BY DEF Drawdown, FoldLeft, MapThenFoldSet
<1>3. PICK g : g = [k \in 1..n |-> [v \in Peaks |-> PeakStep(v, q[k])]]
  OBVIOUS
<1>4. [peak |-> 0, worst |-> <<0, 1>>] \in Peaks /\ g \in [1..n -> [Peaks -> Peaks]]
  <2>1. [peak |-> 0, worst |-> <<0, 1>>] \in Peaks
    BY DEF Peaks
  <2>2. \A v \in Peaks, x \in Int : PeakStep(v, x) \in Peaks
    BY PeakType
  <2> QED
    BY <1>1, <1>3, <2>1, <2>2
<1>5. PICK it \in [SUBSET (1..n) -> Peaks] : Folded(it, n, [peak |-> 0, worst |-> <<0, 1>>], g)
  BY <1>4, FoldExists
<1>6. IsFold(it)
  <2>1. ASSUME NEW s \in SUBSET (1..n), s # {}
        PROVE  it[s] = PeakStep(it[s \ {Max(s)}], q[Max(s)])
    <3>1. Max(s) \in 1..n /\ s \ {Max(s)} \in SUBSET (1..n)
      BY <2>1, MaxOf
    <3>2. PICK m \in 1..n, v \in Peaks : m = Max(s) /\ v = it[s \ {Max(s)}]
      BY <3>1
    <3>3. it[s] = g[m][v]
      BY <1>5, <2>1, <3>2 DEF Folded
    <3>4. g[m][v] = PeakStep(v, q[m])
      BY <1>1, <1>3
    <3> QED
      BY <3>2, <3>3, <3>4
  <2>2. it[{}] = [peak |-> 0, worst |-> <<0, 1>>] /\ {} \in SUBSET (1..n)
    BY <1>5 DEF Folded
  <2>3. DOMAIN it = SUBSET DOMAIN q
    BY <1>1
  <2> QED
    BY <1>1, <1>5, <2>1, <2>2, <2>3
<1>7. IsFold(fold)
  BY <1>6
<1> HIDE DEF fold
<1>8. fold[1..0] = [peak |-> 0, worst |-> <<0, 1>>]
  <2>1. 1..0 = {} /\ {} \in SUBSET DOMAIN q
    OBVIOUS
  <2> QED
    BY <1>7, <2>1
<1>9. ASSUME NEW k \in 1..n PROVE fold[1..k] = PeakStep(fold[1..(k - 1)], q[k])
  <2>1. 1..k \in SUBSET DOMAIN q /\ 1..k # {} /\ Max(1..k) = k /\ (1..k) \ {Max(1..k)} = 1..(k - 1)
    BY <1>1, Prefix
  <2>2. fold[1..k] = PeakStep(fold[(1..k) \ {Max(1..k)}], q[Max(1..k)])
    BY <1>7, <2>1
  <2> QED
    BY <1>1, <2>1, <2>2
<1> DEFINE S == {k \in 0..n : fold[1..k] \in Peaks}
<1>10. \A k \in 0..n : k \in S
  <2>1. ASSUME NEW k \in 1..n, fold[1..(k - 1)] \in Peaks PROVE fold[1..k] \in Peaks
    <3>1. PICK v \in Peaks : v = fold[1..(k - 1)]
      BY <2>1
    <3>2. fold[1..k] = g[k][v]
      BY <1>3, <1>9, <3>1
    <3> QED
      BY <1>4, <3>2
  <2>2. 0 \in S
    <3>1. fold[1..0] \in Peaks
      BY <1>4, <1>8, Zenon
    <3> QED
      BY <3>1
  <2>3. \A k \in 1..n : k - 1 \in S => k \in S
    BY <2>1
  <2> HIDE DEF S
  <2> QED
    BY <2>2, <2>3, IntervalInduction
<1>11. PICK h : h = [k \in 0..n |-> fold[1..k]]
  OBVIOUS
<1>12. h \in [0..n -> Peaks]
  BY <1>10, <1>11
<1>13. h[0] = [peak |-> 0, worst |-> <<0, 1>>] /\ h[n] = fold[1..n]
  BY <1>8, <1>11
<1>14. ASSUME NEW k \in 1..n PROVE h[k] = PeakStep(h[k - 1], q[k])
  <2>1. h[k] = fold[1..k] /\ h[k - 1] = fold[1..(k - 1)]
    BY <1>11
  <2> QED
    BY <1>9, <2>1
<1>15. h[0] = [peak |-> 0, worst |-> <<0, 1>>] /\ Drawdown(q) = h[n].worst
  BY <1>1, <1>2, <1>13
<1> QED
  BY <1>1, <1>12, <1>14, <1>15

-----------------------------------------------------------------------------
(* The metrics of a sequence of results                                    *)

\* Profits and losses are counted apart, and together are the results that are
\* not zero.
LEMMA WinsAndLosses ==
  ASSUME NEW q \in Seq(Int)
  PROVE  /\ Wins(q) \in Nat /\ Losses(q) \in Nat
         /\ Wins(q) + Losses(q) <= Len(q)
         /\ (\A k \in 1..Len(q) : q[k] # 0) => Wins(q) + Losses(q) = Len(q)
<1>1. PICK n \in Nat : n = Len(q) /\ DOMAIN q = 1..n /\ \A k \in 1..n : q[k] \in Int
  OBVIOUS
<1> DEFINE up == {k \in DOMAIN q : q[k] > 0}
           down == {k \in DOMAIN q : q[k] < 0}
<1>2. IsFiniteSet(1..n) /\ Cardinality(1..n) = n
  <2>1. 1 \in Int /\ n \in Int
    OBVIOUS
  <2>2. IsFiniteSet(1..n) /\ Cardinality(1..n) = IF 1 > n THEN 0 ELSE n - 1 + 1
    BY <2>1, FS_Interval
  <2> QED
    BY <2>2
<1>3. up \subseteq 1..n /\ down \subseteq 1..n /\ up \cap down = {}
  BY <1>1
<1>4. (\A k \in 1..n : q[k] # 0) => up \cup down = 1..n
  BY <1>1
<1> HIDE DEF up, down
<1>5. IsFiniteSet(up) /\ IsFiniteSet(down)
  BY <1>2, <1>3, FS_Subset
<1>6. Cardinality(up) \in Nat /\ Cardinality(down) \in Nat
  BY <1>5, FS_CardinalityType
<1>7. Cardinality(up \cup down) = Cardinality(up) + Cardinality(down)
  <2>1. Cardinality(up \cup down) = Cardinality(up) + Cardinality(down) - Cardinality(up \cap down)
    BY <1>5, FS_Union
  <2>2. Cardinality(up \cap down) = 0
    BY <1>3, FS_EmptySet
  <2> QED
    BY <1>6, <2>1, <2>2
<1>8. Cardinality(up \cup down) <= n
  <2>1. up \cup down \subseteq 1..n
    BY <1>3
  <2> QED
    BY <1>2, <2>1, FS_Subset
<1>9. Wins(q) = Cardinality(up) /\ Losses(q) = Cardinality(down)
  BY DEF Wins, Losses, up, down
<1> QED
  BY <1>1, <1>2, <1>4, <1>6, <1>7, <1>8, <1>9

\* The streak is the longest run of losses.
LEMMA StreakIsLongest ==
  ASSUME NEW q \in Seq(Int)
  PROVE  /\ LosingStreak(q) \in Nat
         /\ \A j, k \in 1..Len(q) :
              j <= k /\ (\A l \in j..k : q[l] < 0) => k - j + 1 <= LosingStreak(q)
         /\ LosingStreak(q) > 0 => \E j \in 1..Len(q) :
              /\ j + LosingStreak(q) - 1 \in 1..Len(q)
              /\ \A l \in j..(j + LosingStreak(q) - 1) : q[l] < 0
<1>1. PICK n \in Nat : n = Len(q) /\ DOMAIN q = 1..n /\ \A k \in 1..n : q[k] \in Int
  OBVIOUS
<1>2. PICK h \in [0..n -> Streaks] :
        /\ h[0] = [now |-> 0, longest |-> 0] /\ LosingStreak(q) = h[n].longest
        /\ \A k \in 1..n : h[k] = StreakStep(h[k - 1], q[k])
  BY <1>1, StreakRun
<1> DEFINE Longest(k) == \A i, j \in 1..k :
                           i <= j /\ (\A l \in i..j : q[l] < 0) => j - i + 1 <= h[k].longest
           Reached(k) == h[k].longest > 0 => \E j \in 1..k :
                           /\ j + h[k].longest - 1 \in 1..k
                           /\ \A l \in j..(j + h[k].longest - 1) : q[l] < 0
           Now(k) == /\ h[k].now \in 0..k /\ h[k].now <= h[k].longest
                     /\ \A l \in (k - h[k].now + 1)..k : q[l] < 0
                     /\ h[k].now < k => q[k - h[k].now] >= 0
           S == {k \in 0..n : Longest(k) /\ Reached(k) /\ Now(k)}
<1>3. \A k \in 0..n : h[k].now \in Nat /\ h[k].longest \in Nat
  BY <1>2 DEF Streaks
<1>4. 0 \in S
  <2>1. h[0].now = 0 /\ h[0].longest = 0
    BY <1>2
  <2> QED
    BY <2>1
<1>5. ASSUME NEW k \in 1..n, k - 1 \in S PROVE k \in S
  <2>1. PICK a \in Nat, b \in Nat, c \in Nat, d \in Nat, p \in Int :
          /\ a = h[k - 1].now /\ b = h[k - 1].longest /\ c = h[k].now /\ d = h[k].longest
          /\ p = q[k] /\ k - 1 \in 0..n
    <3>1. k \in 0..n /\ k - 1 \in 0..n /\ q[k] \in Int
      BY <1>1
    <3>2. h[k - 1].now \in Nat /\ h[k - 1].longest \in Nat /\ h[k].now \in Nat /\ h[k].longest \in Nat
      BY <1>3, <3>1
    <3> HIDE DEF S
    <3> QED
      BY <3>1, <3>2
  <2>9. /\ \A i, j \in 1..(k - 1) : i <= j /\ (\A l \in i..j : q[l] < 0) => j - i + 1 <= b
        /\ b > 0 => \E j \in 1..(k - 1) :
                      j + b - 1 \in 1..(k - 1) /\ \A l \in j..(j + b - 1) : q[l] < 0
    BY <1>5, <2>1
  <2>2. c = (IF p < 0 THEN a + 1 ELSE 0) /\ d = Larger(b, c)
    <3>1. h[k] = StreakStep(h[k - 1], q[k])
      BY <1>2
    <3> QED
      BY <2>1, <3>1 DEF StreakStep
  <2>3. d >= b /\ d >= c /\ (d = b \/ d = c)
    BY <2>2 DEF Larger
  <2>4. Now(k)
    <3>1. /\ a \in 0..(k - 1) /\ \A l \in (k - 1 - a + 1)..(k - 1) : q[l] < 0
          /\ a < k - 1 => q[k - 1 - a] >= 0
      BY <1>5, <2>1
    <3>2. CASE p < 0
      <4>1. c = a + 1
        BY <2>2, <3>2
      <4>2. c \in 0..k /\ c <= d
        BY <2>3, <3>1, <4>1
      <4>3. ASSUME NEW l \in (k - c + 1)..k PROVE q[l] < 0
        <5>1. l = k \/ l \in (k - 1 - a + 1)..(k - 1)
          BY <4>1
        <5> QED
          BY <2>1, <3>1, <3>2, <5>1
      <4>4. c < k => q[k - c] >= 0
        BY <3>1, <4>1
      <4> QED
        BY <2>1, <4>2, <4>3, <4>4
    <3>3. CASE ~(p < 0)
      BY <2>1, <2>2, <2>3, <3>3
    <3> QED
      BY <3>2, <3>3
  <2>5. Longest(k)
    <3> SUFFICES ASSUME NEW i \in 1..k, NEW j \in 1..k, i <= j, \A l \in i..j : q[l] < 0
                 PROVE  j - i + 1 <= d
      BY <2>1
    <3>1. CASE j <= k - 1
      <4>1. j - i + 1 <= b
        <5>1. i \in 1..(k - 1) /\ j \in 1..(k - 1)
          BY <3>1
        <5> QED
          BY <2>9, <5>1
      <4> QED
        BY <2>3, <4>1
    <3>2. CASE j = k
      <4>1. c >= k - i + 1
        <5> SUFFICES ASSUME c < k - i + 1 PROVE FALSE
          BY <2>1
        <5>1. c < k /\ k - c \in i..j
          <6>1. c \in Nat
            BY <2>1
          <6> QED
            BY <3>2, <6>1
        <5>2. q[k - c] < 0 /\ q[k - c] >= 0
          BY <2>1, <2>4, <5>1
        <5>3. q[k - c] \in Int
          BY <1>1, <5>1
        <5> QED
          BY <5>2, <5>3
      <4> QED
        BY <2>3, <3>2, <4>1
    <3> QED
      BY <3>1, <3>2
  <2>6. Reached(k)
    <3> SUFFICES ASSUME d > 0
                 PROVE  \E j \in 1..k : j + d - 1 \in 1..k /\ \A l \in j..(j + d - 1) : q[l] < 0
      BY <2>1
    <3>1. CASE d = b
      <4>1. PICK j \in 1..(k - 1) : j + b - 1 \in 1..(k - 1) /\ \A l \in j..(j + b - 1) : q[l] < 0
        BY <2>9, <3>1
      <4> QED
        BY <3>1, <4>1
    <3>2. CASE d = c
      <4>1. c \in 1..k /\ \A l \in (k - c + 1)..k : q[l] < 0
        BY <2>1, <2>4, <3>2
      <4>2. PICK j \in 1..k : j = k - c + 1
        BY <4>1
      <4>3. j + d - 1 = k
        BY <3>2, <4>1, <4>2
      <4>4. k \in 1..k
        OBVIOUS
      <4> QED
        BY <4>1, <4>2, <4>3, <4>4
    <3> QED
      BY <2>3, <3>1, <3>2
  <2> QED
    BY <2>4, <2>5, <2>6
<1>6. \A k \in 0..n : k \in S
  <2> HIDE DEF S
  <2> QED
    BY <1>4, <1>5, IntervalInduction
<1>7. n \in S /\ h[n].longest \in Nat
  <2>1. n \in 0..n
    OBVIOUS
  <2> HIDE DEF S
  <2> QED
    BY <1>3, <1>6, <2>1
<1> HIDE DEF Now
<1> QED
  BY <1>1, <1>2, <1>7

\* A ratio not above one that is not above a third is not above the third.
LEMMA RatioTransitive ==
  ASSUME NEW a \in Int, NEW b \in Nat \ {0}, NEW c \in Int, NEW d \in Nat \ {0},
         NEW x \in Int, NEW y \in Nat \ {0}, a * d <= c * b, c * y <= x * d
  PROVE  a * y <= x * b
<1>1. PICK ad \in Int, cb \in Int, cy \in Int, xd \in Int, ay \in Int, xb \in Int :
        ad = a * d /\ cb = c * b /\ cy = c * y /\ xd = x * d /\ ay = a * y /\ xb = x * b
  OBVIOUS
<1>2. ad * y <= cb * y /\ cy * b <= xd * b
  BY <1>1, ProductOrder
<1>3. cb * y = cy * b
  BY <1>1
<1>4. ad * y = ay * d /\ xd * b = xb * d
  BY <1>1
<1>5. ay * d \in Int /\ xb * d \in Int /\ cb * y \in Int
  OBVIOUS
<1>6. ay * d <= xb * d
  BY <1>2, <1>3, <1>4, <1>5
<1>7. ay <= xb
  <2> SUFFICES ASSUME xb + 1 <= ay PROVE FALSE
    OBVIOUS
  <2>1. (xb + 1) * d <= ay * d
    BY ProductOrder
  <2>2. (xb + 1) * d = xb * d + d
    OBVIOUS
  <2> QED
    BY <1>5, <1>6, <2>1, <2>2
<1> QED
  BY <1>1, <1>7

\* Falling to the same value from higher is a deeper fall.
LEMMA HigherFallsDeeper ==
  ASSUME NEW e \in Nat \ {0}, NEW peak \in Nat \ {0}, NEW now \in Nat, e <= peak
  PROVE  (e - now) * peak <= (peak - now) * e
<1>1. now * e <= now * peak
  <2>1. e * now <= peak * now
    BY ProductOrder
  <2> QED
    BY <2>1
<1>2. PICK a \in Int, b \in Int, c \in Int : a = e * peak /\ b = now * e /\ c = now * peak
  OBVIOUS
<1>3. (e - now) * peak = a - c /\ (peak - now) * e = a - b
  BY <1>2
<1> QED
  BY <1>1, <1>2, <1>3

\* The drawdown of an equity that starts positive is the deepest of its falls,
\* while there is money.
LEMMA DrawdownIsDeepest ==
  ASSUME NEW e \in Seq(Int), Len(e) > 0, e[1] > 0
  PROVE  /\ Drawdown(e) \in Nat \X (Nat \ {0})
         /\ \A j, k \in 1..Len(e) : j <= k /\ e[j] > 0 /\ e[k] >= 0 =>
              ~Exceeds(<<e[j] - e[k], e[j]>>, Drawdown(e))
         /\ \/ Drawdown(e) = <<0, 1>>
            \/ \E j, k \in 1..Len(e) : j <= k /\ Drawdown(e) = <<e[j] - e[k], e[j]>>
<1>1. PICK n \in Nat : n = Len(e) /\ n > 0 /\ \A k \in 1..n : e[k] \in Int
  OBVIOUS
<1>2. PICK h \in [0..n -> Peaks] :
        /\ h[0] = [peak |-> 0, worst |-> <<0, 1>>] /\ Drawdown(e) = h[n].worst
        /\ \A k \in 1..n : h[k] = PeakStep(h[k - 1], e[k])
  BY <1>1, DrawdownRun
<1> DEFINE Top(k) == /\ \A j \in 1..k : e[j] <= h[k].peak
                     /\ k > 0 => h[k].peak > 0 /\ \E j \in 1..k : h[k].peak = e[j]
           Deepest(k) == \A i, j \in 1..k : i <= j /\ e[i] > 0 /\ e[j] >= 0 =>
                           ~Exceeds(<<e[i] - e[j], e[i]>>, h[k].worst)
           Found(k) == /\ h[k].worst[1] >= 0 /\ h[k].worst[2] > 0
                       /\ \/ h[k].worst = <<0, 1>>
                          \/ \E i, j \in 1..k : i <= j /\ h[k].worst = <<e[i] - e[j], e[i]>>
           S == {k \in 0..n : Top(k) /\ Deepest(k) /\ Found(k)}
<1>3. \A k \in 0..n : h[k].peak \in Nat /\ h[k].worst \in Int \X Nat
  BY <1>2 DEF Peaks
<1>4. 0 \in S
  <2>1. h[0].peak = 0 /\ h[0].worst = <<0, 1>>
    BY <1>2
  <2> QED
    BY <2>1
<1>5. ASSUME NEW k \in 1..n, k - 1 \in S PROVE k \in S
  <2>1. k \in 0..n /\ k - 1 \in 0..n
    OBVIOUS
  <2>2. PICK before \in Nat, peak \in Nat, old \in Int \X Nat, new \in Int \X Nat, x \in Int :
          /\ before = h[k - 1].peak /\ peak = h[k].peak /\ old = h[k - 1].worst
          /\ new = h[k].worst /\ x = e[k]
    <3>1. e[k] \in Int
      BY <1>1
    <3>2. /\ h[k - 1].peak \in Nat /\ h[k].peak \in Nat
          /\ h[k - 1].worst \in Int \X Nat /\ h[k].worst \in Int \X Nat
      BY <1>3, <2>1
    <3> HIDE DEF S
    <3> QED
      BY <3>1, <3>2
  <2>3. PICK fall \in Int \X Nat : fall = <<peak - x, peak>>
    <3>1. peak \in Nat /\ peak - x \in Int
      BY <2>2
    <3>2. <<peak - x, peak>> \in Int \X Nat
      BY <3>1
    <3> QED
      BY <3>2
  <2>4. peak = Larger(before, x) /\ new = IF Exceeds(fall, old) THEN fall ELSE old
    <3>1. h[k] = PeakStep(h[k - 1], e[k])
      BY <1>2
    <3> QED
      BY <2>2, <2>3, <3>1 DEF PeakStep
  <2>5. /\ \A j \in 1..(k - 1) : e[j] <= before
        /\ k - 1 > 0 => before > 0 /\ \E j \in 1..(k - 1) : before = e[j]
        /\ \A i, j \in 1..(k - 1) : i <= j /\ e[i] > 0 /\ e[j] >= 0 =>
             ~Exceeds(<<e[i] - e[j], e[i]>>, old)
        /\ old[1] >= 0 /\ old[2] > 0
        /\ old = <<0, 1>> \/ \E i, j \in 1..(k - 1) : i <= j /\ old = <<e[i] - e[j], e[i]>>
    BY <1>5, <2>2
  <2> HIDE DEF S
  <2>6. peak >= before /\ peak >= x /\ (peak = before \/ peak = x)
    BY <2>4 DEF Larger
  <2>7. Top(k)
    <3>1. \A j \in 1..k : e[j] <= peak
      <4> SUFFICES ASSUME NEW j \in 1..k PROVE e[j] <= peak
        OBVIOUS
      <4>1. e[j] \in Int
        BY <1>1
      <4>2. CASE j = k
        BY <2>2, <2>6, <4>2
      <4>3. CASE j \in 1..(k - 1)
        <5>1. e[j] <= before
          BY <2>5, <4>3
        <5> QED
          BY <2>6, <4>1, <5>1, SMTT(20)
      <4> QED
        BY <4>2, <4>3
    <3>2. peak > 0
      <4>1. CASE k = 1
        BY <2>2, <2>6, <4>1
      <4>2. CASE k > 1
        BY <2>5, <2>6, <4>2
      <4> QED
        BY <4>1, <4>2
    <3>3. \E j \in 1..k : peak = e[j]
      <4>1. CASE peak = x
        <5>1. k \in 1..k /\ peak = e[k]
          BY <2>2, <4>1
        <5> QED
          BY <5>1, Zenon
      <4>2. CASE peak = before /\ k > 1
        <5>1. PICK j \in 1..(k - 1) : before = e[j]
          BY <2>5, <4>2
        <5>2. j \in 1..k
          OBVIOUS
        <5> QED
          BY <4>2, <5>1, <5>2
      <4>3. CASE k = 1
        <5>1. before = 0
          BY <1>2, <2>2, <4>3
        <5> QED
          BY <2>2, <2>6, <3>2, <4>1, <4>3, <5>1
      <4> QED
        BY <2>6, <4>1, <4>2, <4>3
    <3> QED
      BY <2>2, <3>1, <3>2, <3>3
  <2>8. PICK f \in Nat, a \in Nat, b \in Nat \ {0}, c \in Nat, d \in Nat \ {0} :
          f = peak - x /\ old = <<a, b>> /\ new = <<c, d>>
    <3>1. peak - x \in Nat /\ peak > 0
      <4>1. h[k].peak > 0
        BY <2>7
      <4>2. peak > 0 /\ peak \in Nat /\ x \in Int
        BY <2>2, <4>1
      <4> QED
        BY <2>6, <4>2
    <3>2. old[1] \in Nat /\ old[2] \in Nat \ {0} /\ old = <<old[1], old[2]>>
      BY <2>5
    <3>3. fall[1] \in Nat /\ fall[2] \in Nat \ {0} /\ fall = <<fall[1], fall[2]>>
      BY <2>3, <3>1
    <3>4. new[1] \in Nat /\ new[2] \in Nat \ {0} /\ new = <<new[1], new[2]>>
      BY <2>4, <3>2, <3>3
    <3> QED
      BY <3>1, <3>2, <3>4
  <2>9. fall = <<f, peak>> /\ peak > 0
    BY <2>2, <2>3, <2>7, <2>8
  <2>10. a * d <= c * b /\ f * d <= c * peak
    <3>1. f * b \in Int /\ a * peak \in Int /\ a * b \in Int /\ f * peak \in Int
      OBVIOUS
    <3>2. CASE f * b > a * peak
      <4>1. Exceeds(fall, old)
        BY <2>8, <2>9, <3>2 DEF Exceeds
      <4>2. c = f /\ d = peak
        BY <2>4, <2>8, <2>9, <4>1
      <4> QED
        BY <3>1, <3>2, <4>2
    <3>3. CASE f * b <= a * peak
      <4>1. ~Exceeds(fall, old)
        BY <2>8, <2>9, <3>1, <3>3 DEF Exceeds
      <4>2. c = a /\ d = b
        BY <2>4, <2>8, <4>1
      <4> QED
        BY <3>1, <3>3, <4>2
    <3> QED
      BY <3>1, <3>2, <3>3
  <2>11. Deepest(k)
    <3> SUFFICES ASSUME NEW i \in 1..k, NEW j \in 1..k, i <= j, e[i] > 0, e[j] >= 0
                 PROVE  ~Exceeds(<<e[i] - e[j], e[i]>>, new)
      BY <2>2
    <3>1. PICK u \in Nat \ {0}, v \in Nat : u = e[i] /\ v = e[j]
      <4>1. e[i] \in Int /\ e[j] \in Int
        BY <1>1
      <4>2. e[i] \in Nat \ {0} /\ e[j] \in Nat
        BY <4>1, SMTT(20)
      <4> QED
        BY <4>2
    <3>2. (u - v) * d <= c * u
      <4>1. CASE j \in 1..(k - 1)
        <5>1. i \in 1..(k - 1)
          BY <4>1
        <5>2. ~Exceeds(<<u - v, u>>, <<a, b>>)
          BY <2>5, <2>8, <3>1, <4>1, <5>1
        <5>3. (u - v) * b \in Int /\ a * u \in Int /\ u - v \in Int
          <6>1. PICK w \in Int : w = u - v
            <7>1. u \in Int /\ v \in Int
              BY <3>1, SMTT(20)
            <7> QED
              BY <7>1
          <6>2. a \in Int /\ b \in Int /\ u \in Int
            BY <2>8, <3>1, SMTT(20)
          <6>3. w * b \in Int /\ a * u \in Int
            BY <6>1, <6>2
          <6> QED
            BY <6>1, <6>3
        <5>4. (u - v) * b <= a * u
          BY <5>2, <5>3 DEF Exceeds
        <5> QED
          <6>1. PICK w \in Int : w = u - v
            BY <5>3
          <6>2. w * b <= a * u /\ a * d <= c * b /\ a \in Int /\ c \in Int
            BY <2>8, <2>10, <5>4, <6>1
          <6>3. w * d <= c * u
            BY <2>8, <3>1, <6>1, <6>2, RatioTransitive
          <6> QED
            BY <6>1, <6>3
      <4>2. CASE j = k
        <5>1. v = x /\ u <= peak /\ f = peak - v /\ peak \in Nat \ {0}
          <6>1. u <= peak
            BY <2>2, <2>7, <3>1, <4>2
          <6>2. v = x
            BY <2>2, <3>1, <4>2
          <6> QED
            BY <2>2, <2>8, <2>9, <6>1, <6>2, SMTT(20)
        <5>2. (u - v) * peak <= (peak - v) * u
          BY <5>1, HigherFallsDeeper
        <5>3. u - v \in Int /\ (u - v) * peak <= f * u
          BY <3>1, <5>1, <5>2, SMTT(20)
        <5> QED
          <6>1. PICK w \in Int : w = u - v
            BY <5>3
          <6>2. w * peak <= f * u /\ f * d <= c * peak /\ f \in Int /\ c \in Int
            BY <2>8, <2>10, <5>3, <6>1
          <6>3. w * d <= c * u
            BY <2>8, <3>1, <5>1, <6>1, <6>2, RatioTransitive
          <6> QED
            BY <6>1, <6>3
      <4> QED
        BY <4>1, <4>2
    <3>3. (u - v) * d \in Int /\ c * u \in Int
      OBVIOUS
    <3>4. ~Exceeds(<<u - v, u>>, <<c, d>>)
      BY <3>2, <3>3 DEF Exceeds
    <3> QED
      BY <2>8, <3>1, <3>4
  <2>12. Found(k)
    <3>1. CASE new = old
      <4>1. CASE old = <<0, 1>>
        BY <2>2, <2>5, <3>1, <4>1
      <4>2. CASE \E i, j \in 1..(k - 1) : i <= j /\ old = <<e[i] - e[j], e[i]>>
        <5>1. PICK i \in 1..(k - 1), j \in 1..(k - 1) : i <= j /\ old = <<e[i] - e[j], e[i]>>
          BY <4>2
        <5>2. i \in 1..k /\ j \in 1..k
          OBVIOUS
        <5> QED
          BY <2>2, <2>5, <3>1, <5>1, <5>2
      <4> QED
        BY <2>5, <4>1, <4>2
    <3>2. CASE new = fall
      <4>1. PICK i \in 1..k : peak = e[i]
        BY <2>2, <2>7
      <4>2. new = <<e[i] - e[k], e[i]>> /\ k \in 1..k /\ i <= k
        BY <2>2, <2>3, <3>2, <4>1
      <4>3. new[1] >= 0 /\ new[2] > 0
        BY <2>8
      <4> QED
        BY <2>2, <4>2, <4>3
    <3> QED
      BY <2>4, <3>1, <3>2
  <2> QED
    BY <2>1, <2>7, <2>11, <2>12 DEF S
<1>6. \A k \in 0..n : k \in S
  <2> HIDE DEF S
  <2> QED
    BY <1>4, <1>5, IntervalInduction
<1>7. Deepest(n) /\ Found(n) /\ h[n].worst \in Int \X Nat
  <2>1. n \in 0..n
    OBVIOUS
  <2>2. n \in S
    <3> HIDE DEF S
    <3> QED
      BY <1>6, <2>1
  <2> QED
    BY <1>3, <2>1, <2>2
<1> HIDE DEF S, Top
<1> QED
  BY <1>1, <1>2, <1>7

-----------------------------------------------------------------------------
(* The two loops over the rows                                             *)

FeatureRow == [close : Int, ema9 : Int, ema21 : Int, rsi : Int, macd : Int,
               atr : Int, adx : Int, up : 0..100]
Trade == [index : Nat, signal : {"BUY", "SELL"}, stake : Nat, pnl : Int]
RuleRun == [risk : RiskState, equity : Seq(Int) \ {<<>>}, trades : Seq(Trade)]
MLRun == [equity : Seq(Int) \ {<<>>}, trades : Seq(Trade), holds : Nat]

\* What is not below zero is a natural number.
LEMMA LargerType ==
  ASSUME NEW x \in Int
  PROVE  Larger(0, x) \in Nat
BY DEF Larger

\* A stake that is not zero brings something or is lost.
LEMMA StakePays ==
  ASSUME NEW a \in Nat \ {0}, NEW won \in BOOLEAN
  PROVE  /\ Profit(a, won) \in Int
         /\ won => Profit(a, won) > 0
         /\ ~won => Profit(a, won) < 0
<1>1. PICK p \in Nat \ {0} : p = PayoutPercent
  BY RiskAssumption
<1>2. PICK b \in Nat : a = b + 1
  <2>1. a - 1 \in Nat /\ a = (a - 1) + 1
    OBVIOUS
  <2> QED
    BY <2>1
<1>3. a * p \in Nat /\ a * p > 0
  <2>1. b * p \in Nat /\ a * p = b * p + p
    BY <1>1, <1>2
  <2> QED
    BY <1>1, <2>1
<1>4. PICK x \in Nat : x = a * p /\ x > 0
  BY <1>3
<1>5. CeilDiv(x, 100) \in Int /\ CeilDiv(x, 100) > 0
  BY <1>4 DEF CeilDiv
<1>6. CASE won
  BY <1>1, <1>4, <1>5, <1>6 DEF Profit
<1>7. CASE ~won
  BY <1>7 DEF Profit
<1> QED
  BY <1>6, <1>7

\* The rules buy, sell or hold.
LEMMA RuleSignals ==
  ASSUME NEW row \in FeatureRow
  PROVE  RuleSignal(row).signal \in {"BUY", "SELL", "HOLD"}
<1>1. CASE row.rsi \notin 30..70 \/ row.atr = 0
  BY <1>1 DEF RuleSignal
<1>2. CASE ~(row.rsi \notin 30..70 \/ row.atr = 0) /\ row.adx < LateralThreshold
  BY <1>2 DEF RuleSignal
<1>3. CASE ~(row.rsi \notin 30..70 \/ row.atr = 0) /\ ~(row.adx < LateralThreshold)
  BY <1>3 DEF RuleSignal
<1> QED
  BY <1>1, <1>2, <1>3

\* The fixed stake of the ML backtest is not zero.
LEMMA MLStakeType == MLStake \in Nat \ {0}
<1>1. InitialBalance \in Nat
  BY RiskAssumption
<1>2. CeilDiv(InitialBalance * RiskRate, 1000) \in Nat
  BY <1>1, StakeSign
<1> QED
  BY <1>2 DEF MLStake, Larger

\* The stake of the rule-based backtest.
LEMMA RiskStakeType ==
  ASSUME NEW r \in RiskState
  PROVE  RiskStake(r) \in Nat
<1>1. Larger(0, r.balance) \in Nat
  BY DEF RiskState, Larger
<1> QED
  BY <1>1, StakeSign DEF RiskStake

\* A trade is a record of its four fields.
LEMMA MadeTrade ==
  ASSUME NEW i \in Nat, NEW s, s = "BUY" \/ s = "SELL", NEW a \in Nat, NEW p \in Int,
         NEW t, t = [index |-> i, signal |-> s, stake |-> a, pnl |-> p]
  PROVE  t \in Trade /\ t.index = i /\ t.signal = s /\ t.stake = a /\ t.pnl = p
BY DEF Trade

\* Appending to a sequence of a kind.
LEMMA Appended ==
  ASSUME NEW T, NEW s \in Seq(T), NEW x \in T
  PROVE  /\ Append(s, x) \in Seq(T) /\ Append(s, x) # <<>>
         /\ Len(Append(s, x)) = Len(s) + 1 /\ Append(s, x)[Len(s) + 1] = x
         /\ \A k \in 1..Len(s) : Append(s, x)[k] = s[k]
<1>1. /\ Append(s, x) \in Seq(T) /\ Len(Append(s, x)) = Len(s) + 1
      /\ Append(s, x)[Len(s) + 1] = x
      /\ \A k \in 1..Len(s) : Append(s, x)[k] = s[k]
  OBVIOUS
<1>2. Len(s) + 1 # 0 /\ Len(<<>>) = 0
  OBVIOUS
<1> QED
  BY <1>1, <1>2

\* What one iteration of the ML backtest makes of a run: nothing at a HOLD, or
\* one more trade.
MLDone(rows, e, run, i, after) ==
  /\ MLSignal(rows[i].up) = "HOLD" => after.trades = run.trades /\ after.equity = run.equity
  /\ MLSignal(rows[i].up) # "HOLD" => \E t \in Trade :
       /\ t.index = i /\ t.signal = MLSignal(rows[i].up) /\ t.stake = MLStake
       /\ t.pnl = Profit(MLStake, Won(t.signal, rows[i].close, rows[i + e].close))
       /\ after.trades = Append(run.trades, t)
       /\ after.equity = Append(run.equity, Last(run.equity) + t.pnl)

\* What one iteration of the rule-based backtest makes of a run.
RuleDone(rows, e, run, i, after) ==
  /\ ~Allowed(run.risk, RuleSignal(rows[i]), History(rows, i)) => after = run
  /\ Allowed(run.risk, RuleSignal(rows[i]), History(rows, i)) => \E t \in Trade :
       /\ t.index = i /\ t.signal = RuleSignal(rows[i]).signal /\ t.stake = RiskStake(run.risk)
       /\ t.pnl = Profit(t.stake, Won(t.signal, rows[i].close, rows[i + e].close))
       /\ after.trades = Append(run.trades, t)
       /\ after.risk = RegisterResult(run.risk, t.pnl)
       /\ after.equity = Append(run.equity, RegisterResult(run.risk, t.pnl).balance)

\* An iteration of the ML backtest.
LEMMA MLStepEffect ==
  ASSUME NEW rows \in Seq(FeatureRow), NEW e \in Nat, NEW run \in MLRun,
         NEW i \in 1..Len(rows), i + e \in 1..Len(rows)
  PROVE  MLStep(rows, e, run, i) \in MLRun /\ MLDone(rows, e, run, i, MLStep(rows, e, run, i))
<1>1. /\ run.equity \in Seq(Int) /\ run.equity # <<>> /\ run.trades \in Seq(Trade) /\ run.holds \in Nat
      /\ run = [equity |-> run.equity, trades |-> run.trades, holds |-> run.holds]
  BY DEF MLRun
<1>2. CASE MLSignal(rows[i].up) = "HOLD"
  <2>1. PICK c \in Nat : c = run.holds + 1
    BY <1>1
  <2>2. MLStep(rows, e, run, i) = [run EXCEPT !.holds = c]
    BY <1>2, <2>1 DEF MLStep
  <2>3. /\ [run EXCEPT !.holds = c] \in MLRun
        /\ [run EXCEPT !.holds = c].trades = run.trades
        /\ [run EXCEPT !.holds = c].equity = run.equity
    BY DEF MLRun
  <2> QED
    BY <1>2, <2>2, <2>3 DEF MLDone
<1>3. CASE MLSignal(rows[i].up) # "HOLD"
  <2>1. PICK s \in {"BUY", "SELL"} : s = MLSignal(rows[i].up)
    BY <1>3 DEF MLSignal
  <2>2. PICK p \in Int : p = Profit(MLStake, Won(s, rows[i].close, rows[i + e].close))
    <3>1. Won(s, rows[i].close, rows[i + e].close) \in BOOLEAN
      BY DEF Won
    <3> QED
      BY <3>1, MLStakeType, StakePays
  <2>3. PICK t : t = [index |-> i, signal |-> s, stake |-> MLStake, pnl |-> p]
    OBVIOUS
  <2>9. t \in Trade /\ t.index = i /\ t.signal = s /\ t.stake = MLStake /\ t.pnl = p
    <3>1. i \in Nat /\ MLStake \in Nat /\ p \in Int /\ (s = "BUY" \/ s = "SELL")
      BY <2>1, <2>2, MLStakeType
    <3> QED
      BY <2>3, <3>1, MadeTrade
  <2>4. PICK eq \in Seq(Int) \ {<<>>} : eq = Append(run.equity, Last(run.equity) + p)
    <3>1. Last(run.equity) \in Int
      BY <1>1 DEF Last
    <3>2. PICK x \in Int : x = Last(run.equity) + p
      BY <2>2, <3>1
    <3>3. Append(run.equity, x) \in Seq(Int) /\ Append(run.equity, x) # <<>>
      BY <1>1, <3>2, Appended
    <3> QED
      BY <3>2, <3>3
  <2>5. PICK tr \in Seq(Trade) : tr = Append(run.trades, t)
    BY <1>1, <2>9, Appended
  <2>6. MLStep(rows, e, run, i) = [run EXCEPT !.equity = eq, !.trades = tr]
    BY <1>3, <2>1, <2>2, <2>3, <2>4, <2>5 DEF MLStep
  <2>7. /\ [run EXCEPT !.equity = eq, !.trades = tr] \in MLRun
        /\ [run EXCEPT !.equity = eq, !.trades = tr].trades = tr
        /\ [run EXCEPT !.equity = eq, !.trades = tr].equity = eq
    BY DEF MLRun
  <2> QED
    BY <1>3, <2>1, <2>2, <2>4, <2>5, <2>6, <2>7, <2>9 DEF MLDone
<1> QED
  BY <1>2, <1>3

\* An iteration of the rule-based backtest.
LEMMA RuleStepEffect ==
  ASSUME NEW rows \in Seq(FeatureRow), NEW e \in Nat, NEW run \in RuleRun,
         NEW i \in 1..Len(rows), i + e \in 1..Len(rows)
  PROVE  /\ BacktestStep(rows, e, run, i) \in RuleRun
         /\ RuleDone(rows, e, run, i, BacktestStep(rows, e, run, i))
<1>1. /\ run.equity \in Seq(Int) /\ run.equity # <<>> /\ run.trades \in Seq(Trade)
      /\ run.risk \in RiskState
  BY DEF RuleRun
<1>2. CASE ~Allowed(run.risk, RuleSignal(rows[i]), History(rows, i))
  BY <1>2 DEF BacktestStep, RuleDone
<1>3. CASE Allowed(run.risk, RuleSignal(rows[i]), History(rows, i))
  <2>1. PICK s \in {"BUY", "SELL"} : s = RuleSignal(rows[i]).signal
    <3>1. rows[i] \in FeatureRow
      OBVIOUS
    <3>2. RuleSignal(rows[i]).signal \in {"BUY", "SELL", "HOLD"}
      BY <3>1, RuleSignals
    <3>3. RuleSignal(rows[i]).signal # "HOLD"
      BY <1>3 DEF Allowed
    <3> QED
      BY <3>2, <3>3
  <2>2. PICK a \in Nat : a = RiskStake(run.risk)
    BY <1>1, RiskStakeType
  <2>3. PICK p \in Int : p = Profit(a, Won(s, rows[i].close, rows[i + e].close))
    <3>1. Won(s, rows[i].close, rows[i + e].close) \in BOOLEAN
      BY DEF Won
    <3>2. a \in Int
      BY <2>2
    <3> QED
      BY <3>1, <3>2, ProfitType
  <2>4. PICK t : t = [index |-> i, signal |-> s, stake |-> a, pnl |-> p]
    OBVIOUS
  <2>10. t \in Trade /\ t.index = i /\ t.signal = s /\ t.stake = a /\ t.pnl = p
    <3>1. i \in Nat /\ a \in Nat /\ p \in Int /\ (s = "BUY" \/ s = "SELL")
      BY <2>1, <2>2, <2>3
    <3> QED
      BY <2>4, <3>1, MadeTrade
  <2>5. PICK r \in RiskState : r = RegisterResult(run.risk, p)
    BY <1>1, <2>3, RiskTypes
  <2>6. PICK eq \in Seq(Int) \ {<<>>} : eq = Append(run.equity, r.balance)
    <3>1. PICK b \in Int : b = r.balance
      BY <2>5 DEF RiskState
    <3>2. PICK old \in Seq(Int) : old = run.equity
      BY <1>1
    <3>3. Append(old, b) \in Seq(Int) /\ Append(old, b) # <<>>
      <4>1. Append(old, b) \in Seq(Int) /\ Len(Append(old, b)) = Len(old) + 1 /\ Len(old) \in Nat
        BY <3>1, <3>2
      <4>2. Len(<<>>) = 0
        OBVIOUS
      <4>3. Len(Append(old, b)) # 0
        BY <4>1
      <4> QED
        BY <4>1, <4>2, <4>3, Zenon
    <3> QED
      BY <3>1, <3>2, <3>3
  <2>7. PICK tr \in Seq(Trade) : tr = Append(run.trades, t)
    BY <1>1, <2>10, Appended
  <2>8. BacktestStep(rows, e, run, i) = [risk |-> r, equity |-> eq, trades |-> tr]
    BY <1>3, <2>1, <2>2, <2>3, <2>4, <2>5, <2>6, <2>7 DEF BacktestStep
  <2>9. /\ [risk |-> r, equity |-> eq, trades |-> tr] \in RuleRun
        /\ [risk |-> r, equity |-> eq, trades |-> tr].risk = r
        /\ [risk |-> r, equity |-> eq, trades |-> tr].trades = tr
        /\ [risk |-> r, equity |-> eq, trades |-> tr].equity = eq
    BY <2>5, <2>6, <2>7 DEF RuleRun
  <2> QED
    BY <1>3, <2>1, <2>2, <2>3, <2>5, <2>6, <2>7, <2>8, <2>9, <2>10 DEF RuleDone
<1> QED
  BY <1>2, <1>3

\* Both loops start with the initial balance and no trade.
LEMMA FreshRuns ==
  /\ [equity |-> <<InitialBalance>>, trades |-> <<>>, holds |-> 0] \in MLRun
  /\ [risk |-> FreshRisk, equity |-> <<InitialBalance>>, trades |-> <<>>] \in RuleRun
<1>1. InitialBalance \in Int
  BY RiskAssumption
<1>2. PICK eq \in Seq(Int) \ {<<>>} : eq = <<InitialBalance>>
  <2>1. <<InitialBalance>> \in Seq(Int) /\ Len(<<InitialBalance>>) = 1
    BY <1>1
  <2>2. <<InitialBalance>> # <<>>
    OBVIOUS
  <2> QED
    BY <2>1, <2>2
<1>3. PICK tr \in Seq(Trade) : tr = <<>>
  <2>1. <<>> \in Seq(Trade)
    OBVIOUS
  <2> QED
    BY <2>1
<1>4. PICK r \in RiskState : r = FreshRisk
  <2>1. FreshRisk \in RiskState
    BY RiskAssumption DEF FreshRisk, RiskState
  <2> QED
    BY <2>1
<1>5. [equity |-> eq, trades |-> tr, holds |-> 0] \in MLRun
  BY <1>2, <1>3 DEF MLRun
<1>6. [risk |-> r, equity |-> eq, trades |-> tr] \in RuleRun
  BY <1>2, <1>3, <1>4 DEF RuleRun
<1> QED
  BY <1>2, <1>3, <1>4, <1>5, <1>6

\* The ML backtest row by row.
LEMMA MLLoop ==
  ASSUME NEW rows \in Seq(FeatureRow), NEW e \in Nat, NEW n \in Nat, n = Larger(0, Len(rows) - e)
  PROVE  \E h \in [0..n -> MLRun] :
           /\ h[0] = [equity |-> <<InitialBalance>>, trades |-> <<>>, holds |-> 0] /\ MLBacktest(rows, e) = h[n]
           /\ \A k \in 1..n : h[k] = MLStep(rows, e, h[k - 1], k)
<1> DEFINE places == [i \in 1..n |-> i]
<1>1. DOMAIN places = 1..n /\ \A k \in 1..n : places[k] = k
  OBVIOUS
<1> DEFINE IsFold(it) == it = [s \in SUBSET DOMAIN places |->
                                 IF s = {} THEN [equity |-> <<InitialBalance>>, trades |-> <<>>, holds |-> 0] ELSE MLStep(rows, e, it[s \ {Max(s)}], places[Max(s)])]
           fold == CHOOSE it : IsFold(it)
<1>2. MLBacktest(rows, e) = fold[DOMAIN places]
  BY DEF MLBacktest, FoldLeft, MapThenFoldSet
<1>3. PICK g : g = [k \in 1..n |-> [v \in MLRun |-> MLStep(rows, e, v, k)]]
  OBVIOUS
<1>4. [equity |-> <<InitialBalance>>, trades |-> <<>>, holds |-> 0] \in MLRun /\ g \in [1..n -> [MLRun -> MLRun]]
  <2>1. [equity |-> <<InitialBalance>>, trades |-> <<>>, holds |-> 0] \in MLRun
    BY FreshRuns
  <2>2. \A k \in 1..n : k \in 1..Len(rows) /\ k + e \in 1..Len(rows)
    BY DEF Larger
  <2>3. \A v \in MLRun, k \in 1..n : MLStep(rows, e, v, k) \in MLRun
    BY <2>2, MLStepEffect
  <2> QED
    BY <1>1, <1>3, <2>1, <2>3
<1>5. PICK it \in [SUBSET (1..n) -> MLRun] : Folded(it, n, [equity |-> <<InitialBalance>>, trades |-> <<>>, holds |-> 0], g)
  BY <1>4, FoldExists
<1>6. IsFold(it)
  <2>1. ASSUME NEW s \in SUBSET (1..n), s # {}
        PROVE  it[s] = MLStep(rows, e, it[s \ {Max(s)}], places[Max(s)])
    <3>1. Max(s) \in 1..n /\ s \ {Max(s)} \in SUBSET (1..n)
      BY <2>1, MaxOf
    <3>2. PICK m \in 1..n, v \in MLRun : m = Max(s) /\ v = it[s \ {Max(s)}]
      BY <3>1
    <3>3. it[s] = g[m][v]
      BY <1>5, <2>1, <3>2 DEF Folded
    <3>4. g[m][v] = MLStep(rows, e, v, places[m])
      BY <1>1, <1>3
    <3> QED
      BY <3>2, <3>3, <3>4
  <2>2. it[{}] = [equity |-> <<InitialBalance>>, trades |-> <<>>, holds |-> 0] /\ {} \in SUBSET (1..n)
    BY <1>5 DEF Folded
  <2>3. DOMAIN it = SUBSET DOMAIN places
    BY <1>1
  <2> QED
    BY <1>1, <1>5, <2>1, <2>2, <2>3
<1>7. IsFold(fold)
  BY <1>6
<1> HIDE DEF fold
<1>8. fold[1..0] = [equity |-> <<InitialBalance>>, trades |-> <<>>, holds |-> 0]
  <2>1. 1..0 = {} /\ {} \in SUBSET DOMAIN places
    OBVIOUS
  <2> QED
    BY <1>7, <2>1
<1>9. ASSUME NEW k \in 1..n PROVE fold[1..k] = MLStep(rows, e, fold[1..(k - 1)], k)
  <2>1. 1..k \in SUBSET DOMAIN places /\ 1..k # {} /\ Max(1..k) = k /\ (1..k) \ {Max(1..k)} = 1..(k - 1)
    BY <1>1, Prefix
  <2>2. fold[1..k] = MLStep(rows, e, fold[(1..k) \ {Max(1..k)}], places[Max(1..k)])
    BY <1>7, <2>1
  <2> QED
    BY <1>1, <2>1, <2>2
<1> DEFINE S == {k \in 0..n : fold[1..k] \in MLRun}
<1>10. \A k \in 0..n : k \in S
  <2>1. ASSUME NEW k \in 1..n, fold[1..(k - 1)] \in MLRun PROVE fold[1..k] \in MLRun
    <3>1. PICK v \in MLRun : v = fold[1..(k - 1)]
      BY <2>1
    <3>2. fold[1..k] = g[k][v]
      BY <1>3, <1>9, <3>1
    <3> QED
      BY <1>4, <3>2
  <2>2. 0 \in S
    <3>1. fold[1..0] \in MLRun
      BY <1>4, <1>8, Zenon
    <3> QED
      BY <3>1
  <2>3. \A k \in 1..n : k - 1 \in S => k \in S
    BY <2>1
  <2> HIDE DEF S
  <2> QED
    BY <2>2, <2>3, IntervalInduction
<1>11. PICK h : h = [k \in 0..n |-> fold[1..k]]
  OBVIOUS
<1>12. h \in [0..n -> MLRun]
  BY <1>10, <1>11
<1>13. h[0] = [equity |-> <<InitialBalance>>, trades |-> <<>>, holds |-> 0] /\ h[n] = fold[1..n]
  BY <1>8, <1>11
<1>14. ASSUME NEW k \in 1..n PROVE h[k] = MLStep(rows, e, h[k - 1], k)
  <2>1. h[k] = fold[1..k] /\ h[k - 1] = fold[1..(k - 1)]
    BY <1>11
  <2> QED
    BY <1>9, <2>1
<1>15. h[0] = [equity |-> <<InitialBalance>>, trades |-> <<>>, holds |-> 0] /\ MLBacktest(rows, e) = h[n]
  BY <1>1, <1>2, <1>13
<1> QED
  BY <1>1, <1>12, <1>14, <1>15

\* The rule-based backtest row by row, from the second.
RuleLoopOf(rows, e, n, h) ==
  /\ h[0] = [risk |-> FreshRisk, equity |-> <<InitialBalance>>, trades |-> <<>>] /\ Backtest(rows, e) = h[n]
  /\ \A k \in 1..n : h[k] = BacktestStep(rows, e, h[k - 1], k + 1)

\* The backtest runs that way.
LEMMA RuleLoop ==
  ASSUME NEW rows \in Seq(FeatureRow), NEW e \in Nat, NEW n \in Nat, n = Larger(0, Len(rows) - e - 1)
  PROVE  \E h \in [0..n -> RuleRun] : RuleLoopOf(rows, e, n, h)
<1> DEFINE places == [i \in 1..n |-> i + 1]
<1>1. DOMAIN places = 1..n /\ \A k \in 1..n : places[k] = k + 1
  OBVIOUS
<1> DEFINE IsFold(it) == it = [s \in SUBSET DOMAIN places |->
                                 IF s = {} THEN [risk |-> FreshRisk, equity |-> <<InitialBalance>>, trades |-> <<>>] ELSE BacktestStep(rows, e, it[s \ {Max(s)}], places[Max(s)])]
           fold == CHOOSE it : IsFold(it)
<1>2. Backtest(rows, e) = fold[DOMAIN places]
  BY DEF Backtest, FoldLeft, MapThenFoldSet
<1>3. PICK g : g = [k \in 1..n |-> [v \in RuleRun |-> BacktestStep(rows, e, v, k + 1)]]
  OBVIOUS
<1>4. [risk |-> FreshRisk, equity |-> <<InitialBalance>>, trades |-> <<>>] \in RuleRun /\ g \in [1..n -> [RuleRun -> RuleRun]]
  <2>1. [risk |-> FreshRisk, equity |-> <<InitialBalance>>, trades |-> <<>>] \in RuleRun
    BY FreshRuns
  <2>2. \A k \in 1..n : k + 1 \in 1..Len(rows) /\ (k + 1) + e \in 1..Len(rows)
    BY DEF Larger
  <2>3. \A v \in RuleRun, k \in 1..n : BacktestStep(rows, e, v, k + 1) \in RuleRun
    BY <2>2, RuleStepEffect
  <2> QED
    BY <1>1, <1>3, <2>1, <2>3
<1>5. PICK it \in [SUBSET (1..n) -> RuleRun] : Folded(it, n, [risk |-> FreshRisk, equity |-> <<InitialBalance>>, trades |-> <<>>], g)
  BY <1>4, FoldExists
<1>6. IsFold(it)
  <2>1. ASSUME NEW s \in SUBSET (1..n), s # {}
        PROVE  it[s] = BacktestStep(rows, e, it[s \ {Max(s)}], places[Max(s)])
    <3>1. Max(s) \in 1..n /\ s \ {Max(s)} \in SUBSET (1..n)
      BY <2>1, MaxOf
    <3>2. PICK m \in 1..n, v \in RuleRun : m = Max(s) /\ v = it[s \ {Max(s)}]
      BY <3>1
    <3>3. it[s] = g[m][v]
      BY <1>5, <2>1, <3>2 DEF Folded
    <3>4. g[m][v] = BacktestStep(rows, e, v, places[m])
      BY <1>1, <1>3
    <3> QED
      BY <3>2, <3>3, <3>4
  <2>2. it[{}] = [risk |-> FreshRisk, equity |-> <<InitialBalance>>, trades |-> <<>>] /\ {} \in SUBSET (1..n)
    BY <1>5 DEF Folded
  <2>3. DOMAIN it = SUBSET DOMAIN places
    BY <1>1
  <2> QED
    BY <1>1, <1>5, <2>1, <2>2, <2>3
<1>7. IsFold(fold)
  BY <1>6
<1> HIDE DEF fold
<1>8. fold[1..0] = [risk |-> FreshRisk, equity |-> <<InitialBalance>>, trades |-> <<>>]
  <2>1. 1..0 = {} /\ {} \in SUBSET DOMAIN places
    OBVIOUS
  <2> QED
    BY <1>7, <2>1
<1>9. ASSUME NEW k \in 1..n PROVE fold[1..k] = BacktestStep(rows, e, fold[1..(k - 1)], k + 1)
  <2>1. 1..k \in SUBSET DOMAIN places /\ 1..k # {} /\ Max(1..k) = k /\ (1..k) \ {Max(1..k)} = 1..(k - 1)
    BY <1>1, Prefix
  <2>2. fold[1..k] = BacktestStep(rows, e, fold[(1..k) \ {Max(1..k)}], places[Max(1..k)])
    BY <1>7, <2>1
  <2> QED
    BY <1>1, <2>1, <2>2
<1> DEFINE S == {k \in 0..n : fold[1..k] \in RuleRun}
<1>10. \A k \in 0..n : k \in S
  <2>1. ASSUME NEW k \in 1..n, fold[1..(k - 1)] \in RuleRun PROVE fold[1..k] \in RuleRun
    <3>1. PICK v \in RuleRun : v = fold[1..(k - 1)]
      BY <2>1
    <3>2. fold[1..k] = g[k][v]
      BY <1>3, <1>9, <3>1
    <3> QED
      BY <1>4, <3>2
  <2>2. 0 \in S
    <3>1. fold[1..0] \in RuleRun
      BY <1>4, <1>8, Zenon
    <3> QED
      BY <3>1
  <2>3. \A k \in 1..n : k - 1 \in S => k \in S
    BY <2>1
  <2> HIDE DEF S
  <2> QED
    BY <2>2, <2>3, IntervalInduction
<1>11. PICK h : h = [k \in 0..n |-> fold[1..k]]
  OBVIOUS
<1>12. h \in [0..n -> RuleRun]
  BY <1>10, <1>11
<1>13. h[0] = [risk |-> FreshRisk, equity |-> <<InitialBalance>>, trades |-> <<>>] /\ h[n] = fold[1..n]
  BY <1>8, <1>11
<1>14. ASSUME NEW k \in 1..n PROVE h[k] = BacktestStep(rows, e, h[k - 1], k + 1)
  <2>1. h[k] = fold[1..k] /\ h[k - 1] = fold[1..(k - 1)]
    BY <1>11
  <2> QED
    BY <1>9, <2>1
<1>15. h[0] = [risk |-> FreshRisk, equity |-> <<InitialBalance>>, trades |-> <<>>] /\ Backtest(rows, e) = h[n]
  BY <1>1, <1>2, <1>13
<1> QED
  BY <1>1, <1>12, <1>14, <1>15 DEF RuleLoopOf

\* The rows traded so far, row by row.
TradedLoopOf(ups, n, threshold, h) ==
  /\ Len(h[0]) = 0 /\ Traded(ups, n, threshold) = h[n]
  /\ \A k \in 1..n : h[k] = TradedStep(ups, threshold, h[k - 1], k)

\* The rows past the threshold, row by row.
LEMMA TradedLoop ==
  ASSUME NEW ups, NEW threshold, NEW n \in Nat
  PROVE  \E h \in [0..n -> Seq(Nat)] : TradedLoopOf(ups, n, threshold, h)
<1> DEFINE places == [i \in 1..n |-> i]
<1>1. DOMAIN places = 1..n /\ \A k \in 1..n : places[k] = k /\ k \in Nat
  OBVIOUS
<1> DEFINE IsFold(it) == it = [s \in SUBSET DOMAIN places |->
                                 IF s = {} THEN <<>> ELSE TradedStep(ups, threshold, it[s \ {Max(s)}], places[Max(s)])]
           fold == CHOOSE it : IsFold(it)
<1>2. Traded(ups, n, threshold) = fold[DOMAIN places]
  BY DEF Traded, FoldLeft, MapThenFoldSet
<1>3. PICK g : g = [k \in 1..n |-> [v \in Seq(Nat) |-> TradedStep(ups, threshold, v, k)]]
  OBVIOUS
<1>4. <<>> \in Seq(Nat) /\ g \in [1..n -> [Seq(Nat) -> Seq(Nat)]]
  <2>1. <<>> \in Seq(Nat)
    OBVIOUS
  <2>2. \A v \in Seq(Nat), k \in Nat : TradedStep(ups, threshold, v, k) \in Seq(Nat)
    BY Appended DEF TradedStep
  <2> QED
    BY <1>1, <1>3, <2>1, <2>2
<1>5. PICK it \in [SUBSET (1..n) -> Seq(Nat)] : Folded(it, n, <<>>, g)
  BY <1>4, FoldExists
<1>6. IsFold(it)
  <2>1. ASSUME NEW s \in SUBSET (1..n), s # {}
        PROVE  it[s] = TradedStep(ups, threshold, it[s \ {Max(s)}], places[Max(s)])
    <3>1. Max(s) \in 1..n /\ s \ {Max(s)} \in SUBSET (1..n)
      BY <2>1, MaxOf
    <3>2. PICK m \in 1..n, v \in Seq(Nat) : m = Max(s) /\ v = it[s \ {Max(s)}]
      BY <3>1
    <3>3. it[s] = g[m][v]
      BY <1>5, <2>1, <3>2 DEF Folded
    <3>4. g[m][v] = TradedStep(ups, threshold, v, places[m])
      BY <1>1, <1>3
    <3> QED
      BY <3>2, <3>3, <3>4
  <2>2. it[{}] = <<>> /\ {} \in SUBSET (1..n)
    BY <1>5 DEF Folded
  <2>3. DOMAIN it = SUBSET DOMAIN places
    BY <1>1
  <2> QED
    BY <1>1, <1>5, <2>1, <2>2, <2>3
<1>7. IsFold(fold)
  BY <1>6
<1> HIDE DEF fold
<1>8. fold[1..0] = <<>>
  <2>1. 1..0 = {} /\ {} \in SUBSET DOMAIN places
    OBVIOUS
  <2> QED
    BY <1>7, <2>1
<1>9. ASSUME NEW k \in 1..n PROVE fold[1..k] = TradedStep(ups, threshold, fold[1..(k - 1)], k)
  <2>1. 1..k \in SUBSET DOMAIN places /\ 1..k # {} /\ Max(1..k) = k /\ (1..k) \ {Max(1..k)} = 1..(k - 1)
    BY <1>1, Prefix
  <2>2. fold[1..k] = TradedStep(ups, threshold, fold[(1..k) \ {Max(1..k)}], places[Max(1..k)])
    BY <1>7, <2>1
  <2> QED
    BY <1>1, <2>1, <2>2
<1> DEFINE S == {k \in 0..n : fold[1..k] \in Seq(Nat)}
<1>10. \A k \in 0..n : k \in S
  <2>1. ASSUME NEW k \in 1..n, fold[1..(k - 1)] \in Seq(Nat) PROVE fold[1..k] \in Seq(Nat)
    <3>1. PICK v \in Seq(Nat) : v = fold[1..(k - 1)]
      BY <2>1
    <3>2. fold[1..k] = g[k][v]
      BY <1>3, <1>9, <3>1
    <3> QED
      BY <1>4, <3>2
  <2>2. 0 \in S
    <3>1. fold[1..0] \in Seq(Nat)
      BY <1>4, <1>8, Zenon
    <3> QED
      BY <3>1
  <2>3. \A k \in 1..n : k - 1 \in S => k \in S
    BY <2>1
  <2> HIDE DEF S
  <2> QED
    BY <2>2, <2>3, IntervalInduction
<1>11. PICK h : h = [k \in 0..n |-> fold[1..k]]
  OBVIOUS
<1>12. h \in [0..n -> Seq(Nat)]
  BY <1>10, <1>11
<1>13. h[0] = <<>> /\ h[n] = fold[1..n]
  BY <1>8, <1>11
<1>14. ASSUME NEW k \in 1..n PROVE h[k] = TradedStep(ups, threshold, h[k - 1], k)
  <2>1. h[k] = fold[1..k] /\ h[k - 1] = fold[1..(k - 1)]
    BY <1>11
  <2> QED
    BY <1>9, <2>1
<1>15. Len(h[0]) = 0 /\ Traded(ups, n, threshold) = h[n]
  BY <1>1, <1>2, <1>13
<1> QED
  BY <1>1, <1>12, <1>14, <1>15 DEF TradedLoopOf

-----------------------------------------------------------------------------
(* What the loops keep                                                     *)

\* The equity starts at the initial balance and moves by the results.
Balanced(equity, trades) ==
  /\ Len(equity) = Len(trades) + 1 /\ equity[1] = InitialBalance
  /\ \A m \in 1..Len(trades) : equity[m + 1] = equity[m] + trades[m].pnl

\* One more result.
LEMMA BalancedStep ==
  ASSUME NEW eq \in Seq(Int), NEW tr \in Seq(Trade), NEW t \in Trade, Balanced(eq, tr)
  PROVE  /\ Last(eq) = eq[Len(tr) + 1] /\ Last(eq) \in Int
         /\ Balanced(Append(eq, Last(eq) + t.pnl), Append(tr, t))
         /\ Last(Append(eq, Last(eq) + t.pnl)) = Last(eq) + t.pnl
<1>1. PICK n \in Nat : n = Len(tr)
  OBVIOUS
<1>10. Len(eq) = n + 1
  BY <1>1 DEF Balanced
<1>2. PICK last \in Int : last = Last(eq) /\ last = eq[n + 1]
  <2>1. Last(eq) = eq[n + 1] /\ n + 1 \in 1..Len(eq)
    BY <1>1, <1>10 DEF Last
  <2> QED
    BY <2>1
<1>3. PICK x \in Int : x = last + t.pnl
  BY <1>2 DEF Trade
<1>4. /\ Append(eq, x) \in Seq(Int) /\ Len(Append(eq, x)) = n + 2 /\ Append(eq, x)[n + 2] = x
      /\ \A m \in 1..(n + 1) : Append(eq, x)[m] = eq[m]
  <2>1. Append(eq, x)[Len(eq) + 1] = x /\ Len(eq) + 1 = n + 2
    BY <1>1, <1>3, <1>10, Appended
  <2> QED
    BY <1>1, <1>3, <1>10, <2>1, Appended
<1>5. /\ Append(tr, t) \in Seq(Trade) /\ Len(Append(tr, t)) = n + 1 /\ Append(tr, t)[n + 1] = t
      /\ \A m \in 1..n : Append(tr, t)[m] = tr[m]
  BY <1>1, Appended
<1>6. Append(eq, x)[1] = InitialBalance
  BY <1>1, <1>4 DEF Balanced
<1>7. ASSUME NEW m \in 1..(n + 1)
      PROVE  Append(eq, x)[m + 1] = Append(eq, x)[m] + Append(tr, t)[m].pnl
  <2>1. CASE m = n + 1
    <3>1. Append(eq, x)[n + 1] = last
      BY <1>2, <1>4
    <3> QED
      BY <1>3, <1>4, <1>5, <2>1, <3>1
  <2>2. CASE m \in 1..n
    <3>1. eq[m + 1] = eq[m] + tr[m].pnl
      BY <1>1, <2>2 DEF Balanced
    <3> QED
      BY <1>4, <1>5, <2>2, <3>1
  <2>3. m = n + 1 \/ m \in 1..n
    BY <1>1
  <2> QED
    BY <2>1, <2>2, <2>3
<1>8. Balanced(Append(eq, x), Append(tr, t))
  BY <1>4, <1>5, <1>6, <1>7 DEF Balanced
<1>9. Last(Append(eq, x)) = x
  BY <1>4 DEF Last
<1> QED
  BY <1>1, <1>2, <1>3, <1>8, <1>9

\* A run that has not traded.
LEMMA FreshBalanced == Balanced(<<InitialBalance>>, <<>>) /\ Last(<<InitialBalance>>) = InitialBalance
BY DEF Balanced, Last

\* A trade of the ML backtest.
MLTrade(rows, e, t) ==
  /\ t.signal = MLSignal(rows[t.index].up) /\ t.stake = MLStake
  /\ t.pnl = Profit(MLStake, Won(t.signal, rows[t.index].close, rows[t.index + e].close))

\* The ML backtest trades every row whose signal is not HOLD once, in order.
LEMMA MLFacts ==
  ASSUME NEW rows \in Seq(FeatureRow), NEW e \in Nat, NEW n \in Nat, n = Larger(0, Len(rows) - e),
         NEW run, run = MLBacktest(rows, e)
  PROVE  /\ run \in MLRun /\ Balanced(run.equity, run.trades)
         /\ \A m \in 1..Len(run.trades) : /\ run.trades[m].index \in 1..n
                                          /\ MLTrade(rows, e, run.trades[m])
         /\ \A m, o \in 1..Len(run.trades) : m < o => run.trades[m].index < run.trades[o].index
         /\ \A i \in 1..n : MLSignal(rows[i].up) # "HOLD" =>
              \E m \in 1..Len(run.trades) : run.trades[m].index = i
<1>1. PICK h \in [0..n -> MLRun] :
        /\ h[0] = [equity |-> <<InitialBalance>>, trades |-> <<>>, holds |-> 0]
        /\ MLBacktest(rows, e) = h[n]
        /\ \A k \in 1..n : h[k] = MLStep(rows, e, h[k - 1], k)
  BY MLLoop
<1> DEFINE Made(k) == \A m \in 1..Len(h[k].trades) : /\ h[k].trades[m].index \in 1..k
                                                     /\ MLTrade(rows, e, h[k].trades[m])
           Ordered(k) == \A m, o \in 1..Len(h[k].trades) :
                           m < o => h[k].trades[m].index < h[k].trades[o].index
           Complete(k) == \A i \in 1..k : MLSignal(rows[i].up) # "HOLD" =>
                            \E m \in 1..Len(h[k].trades) : h[k].trades[m].index = i
           S == {k \in 0..n : /\ Balanced(h[k].equity, h[k].trades)
                              /\ Made(k) /\ Ordered(k) /\ Complete(k)}
<1>2. 0 \in S
  <2>1. h[0].equity = <<InitialBalance>> /\ h[0].trades = <<>>
    BY <1>1
  <2>2. Balanced(h[0].equity, h[0].trades)
    BY <2>1, FreshBalanced
  <2>3. Len(h[0].trades) = 0
    BY <2>1
  <2> QED
    BY <2>2, <2>3
<1>3. ASSUME NEW k \in 1..n, k - 1 \in S PROVE k \in S
  <2>1. /\ Balanced(h[k - 1].equity, h[k - 1].trades)
        /\ Made(k - 1) /\ Ordered(k - 1) /\ Complete(k - 1) /\ k \in 0..n /\ k - 1 \in 0..n
    BY <1>3, SMTT(20)
  <2> HIDE DEF S
  <2>2. PICK old \in MLRun, new \in MLRun : old = h[k - 1] /\ new = h[k]
    BY <2>1
  <2>3. PICK a \in Seq(Int), tr \in Seq(Trade) : a = old.equity /\ tr = old.trades
    BY DEF MLRun
  <2>4. k \in 1..Len(rows) /\ k + e \in 1..Len(rows)
    BY DEF Larger
  <2>5. new = MLStep(rows, e, old, k)
    BY <1>1, <2>2
  <2>6. /\ MLSignal(rows[k].up) = "HOLD" => new.trades = tr /\ new.equity = a
        /\ MLSignal(rows[k].up) # "HOLD" => \E t \in Trade :
             /\ t.index = k /\ t.signal = MLSignal(rows[k].up) /\ t.stake = MLStake
             /\ t.pnl = Profit(MLStake, Won(t.signal, rows[k].close, rows[k + e].close))
             /\ new.trades = Append(tr, t) /\ new.equity = Append(a, Last(a) + t.pnl)
    <3>1. MLDone(rows, e, old, k, MLStep(rows, e, old, k))
      BY <2>2, <2>4, MLStepEffect
    <3> QED
      BY <2>3, <2>5, <3>1 DEF MLDone
  <2>7. CASE MLSignal(rows[k].up) = "HOLD"
    <3>1. new.trades = tr /\ new.equity = a
      BY <2>6, <2>7
    <3>2. Made(k)
      BY <2>1, <2>2, <2>3, <3>1
    <3>3. Ordered(k)
      BY <2>1, <2>2, <2>3, <3>1
    <3>4. Complete(k)
      <4> SUFFICES ASSUME NEW i \in 1..k, MLSignal(rows[i].up) # "HOLD"
                   PROVE  \E m \in 1..Len(tr) : tr[m].index = i
        BY <2>2, <2>3, <3>1
      <4>1. i \in 1..(k - 1)
        BY <2>7
      <4> QED
        BY <2>1, <2>2, <2>3, <4>1
    <3> QED
      BY <2>1, <2>2, <2>3, <3>1, <3>2, <3>3, <3>4 DEF S
  <2>8. CASE MLSignal(rows[k].up) # "HOLD"
    <3>1. PICK t \in Trade :
             /\ t.index = k /\ t.signal = MLSignal(rows[k].up) /\ t.stake = MLStake
             /\ t.pnl = Profit(MLStake, Won(t.signal, rows[k].close, rows[k + e].close))
             /\ new.trades = Append(tr, t) /\ new.equity = Append(a, Last(a) + t.pnl)
      BY <2>6, <2>8
    <3>2. PICK l \in Nat : l = Len(tr)
      BY <2>3
    <3>3. PICK all \in Seq(Trade) : /\ all = new.trades /\ Len(all) = l + 1 /\ all[l + 1] = t
                                    /\ \A m \in 1..l : all[m] = tr[m]
      <4>1. /\ Append(tr, t) \in Seq(Trade) /\ Len(Append(tr, t)) = l + 1
            /\ Append(tr, t)[l + 1] = t /\ \A m \in 1..l : Append(tr, t)[m] = tr[m]
        BY <2>3, <3>1, <3>2, Appended, SMTT(20)
      <4> QED
        BY <3>1, <4>1
    <3>10. t.index = k
      BY <3>1
    <3>4. Balanced(new.equity, new.trades)
      BY <2>1, <2>2, <2>3, <3>1, BalancedStep, SMTT(20)
    <3>5. \A m \in 1..l : tr[m].index \in 1..(k - 1) /\ MLTrade(rows, e, tr[m])
      BY <2>1, <2>2, <2>3, <3>2
    <3>6. MLTrade(rows, e, t)
      BY <3>1 DEF MLTrade
    <3>7. \A m \in 1..(l + 1) : all[m].index \in 1..k /\ MLTrade(rows, e, all[m])
      <4> SUFFICES ASSUME NEW m \in 1..(l + 1)
                   PROVE  all[m].index \in 1..k /\ MLTrade(rows, e, all[m])
        OBVIOUS
      <4>1. CASE m = l + 1
        BY <3>3, <3>6, <3>10, <4>1
      <4>2. CASE m \in 1..l
        <5>1. all[m] = tr[m]
          BY <3>3, <4>2
        <5>2. tr[m].index \in 1..(k - 1) /\ MLTrade(rows, e, tr[m])
          BY <3>5, <4>2
        <5> QED
          BY <5>1, <5>2
      <4> QED
        BY <3>2, <4>1, <4>2
    <3>8. \A m, o \in 1..(l + 1) : m < o => all[m].index < all[o].index
      <4> SUFFICES ASSUME NEW m \in 1..(l + 1), NEW o \in 1..(l + 1), m < o
                   PROVE  all[m].index < all[o].index
        OBVIOUS
      <4>1. m \in 1..l /\ all[m].index \in 1..(k - 1)
        BY <3>2, <3>3, <3>5, SMTT(20)
      <4>2. CASE o = l + 1
        <5>1. all[o] = t
          BY <3>3, <4>2
        <5> QED
          BY <3>10, <4>1, <5>1, SMTT(20)
      <4>3. CASE o \in 1..l
        <5>1. tr[m].index < tr[o].index
          BY <2>1, <2>2, <2>3, <3>2, <4>1, <4>3
        <5> QED
          BY <3>3, <4>1, <4>3, <5>1
      <4>4. o = l + 1 \/ o \in 1..l
        BY <3>2
      <4> QED
        BY <4>2, <4>3, <4>4
    <3>9. ASSUME NEW i \in 1..k, MLSignal(rows[i].up) # "HOLD"
          PROVE  \E m \in 1..(l + 1) : all[m].index = i
      <4>1. CASE i = k
        <5>1. l + 1 \in 1..(l + 1)
          BY <3>2
        <5> QED
          BY <3>1, <3>3, <4>1, <5>1
      <4>2. CASE i \in 1..(k - 1)
        <5>1. PICK m \in 1..l : tr[m].index = i
          BY <2>1, <2>2, <2>3, <3>2, <3>9, <4>2
        <5>2. m \in 1..(l + 1) /\ all[m].index = i
          BY <3>2, <3>3, <5>1
        <5> QED
          BY <5>2
      <4>3. i = k \/ i \in 1..(k - 1)
        OBVIOUS
      <4> QED
        BY <4>1, <4>2, <4>3
    <3> QED
      BY <2>1, <2>2, <3>3, <3>4, <3>7, <3>8, <3>9 DEF S
  <2> QED
    BY <2>7, <2>8
<1>4. \A k \in 0..n : k \in S
  <2> HIDE DEF S
  <2> QED
    BY <1>2, <1>3, IntervalInduction
<1>5. n \in S /\ h[n] \in MLRun
  <2>1. n \in 0..n
    OBVIOUS
  <2> HIDE DEF S
  <2> QED
    BY <1>4, <2>1
<1> QED
  BY <1>1, <1>5

\* The losses that end a run's results.
LossesEnd(trades, j) == \A l \in j..Len(trades) : trades[l].pnl < 0

\* What the rule-based backtest keeps: the risk state is that of its results,
\* and the risk manager has counted every loss that ends them.
RuleKept(run) ==
  /\ Balanced(run.equity, run.trades) /\ Last(run.equity) = run.risk.balance
  /\ run.risk.initial = InitialBalance
  /\ run.risk.dailyPnl = run.risk.balance - InitialBalance
  /\ \A j \in 1..Len(run.trades) :
       LossesEnd(run.trades, j) => Len(run.trades) - j + 1 <= run.risk.losses
  /\ \A j, k \in 1..Len(run.trades) :
       j <= k /\ (\A l \in j..k : run.trades[l].pnl < 0) => k - j + 1 <= MaxConsecutiveLosses
  /\ InitialBalance > 0 /\ RiskPerMille > 0 => \A m \in 1..Len(run.trades) : run.trades[m].pnl # 0

\* Within the daily limit there is money for a stake.
LEMMA StakeWithinLimit ==
  ASSUME NEW r \in RiskState, InitialBalance > 0, RiskPerMille > 0,
         r.initial = InitialBalance, r.dailyPnl = r.balance - InitialBalance,
         1000 * r.dailyPnl > -(r.initial * DailyLossPerMille)
  PROVE  RiskStake(r) \in Nat \ {0}
<1>1. PICK i \in Nat \ {0}, d \in 0..100, b \in Int :
        i = InitialBalance /\ d = DailyLossPerMille /\ b = r.balance
  BY RiskAssumption DEF RiskState
<1>2. i * d <= i * 100 /\ i * d \in Nat
  <2>1. d * i <= 100 * i
    BY <1>1, ProductOrder
  <2> QED
    BY <1>1, <2>1
<1>3. 1000 * (b - i) > -(i * d)
  BY <1>1
<1>4. b > 0
  <2>1. PICK x \in Nat : x = i * d /\ x <= i * 100
    BY <1>2
  <2> QED
    BY <1>1, <1>3, <2>1
<1>5. PICK a \in Nat \ {0} : a = Larger(0, b)
  BY <1>1, <1>4 DEF Larger
<1>6. RiskRate \in Nat /\ RiskRate > 0
  BY RiskAssumption DEF RiskRate
<1>7. PICK x \in Nat \ {0} : x = a * RiskRate
  <2>1. 1 * RiskRate <= a * RiskRate
    BY <1>5, <1>6, ProductOrder
  <2>2. a * RiskRate \in Nat
    BY <1>5, <1>6
  <2> QED
    BY <1>6, <2>1, <2>2
<1>8. CeilDiv(x, 1000) \in Nat \ {0}
  BY <1>7 DEF CeilDiv
<1> QED
  BY <1>1, <1>5, <1>7, <1>8 DEF RiskStake

\* A result the risk manager allowed keeps them.
LEMMA RuleKeeps ==
  ASSUME NEW run \in RuleRun, RuleKept(run), NEW t \in Trade, NEW after \in RuleRun,
         run.risk.losses < MaxConsecutiveLosses,
         InitialBalance > 0 /\ RiskPerMille > 0 => t.pnl # 0,
         after.trades = Append(run.trades, t),
         after.risk = RegisterResult(run.risk, t.pnl),
         after.equity = Append(run.equity, RegisterResult(run.risk, t.pnl).balance)
  PROVE  RuleKept(after)
<1>1. PICK tr \in Seq(Trade), eq \in Seq(Int), r \in RiskState, p \in Int, s \in RiskState :
        /\ tr = run.trades /\ eq = run.equity /\ r = run.risk /\ p = t.pnl
        /\ s = RegisterResult(r, p)
  <2>1. run.trades \in Seq(Trade) /\ run.equity \in Seq(Int) /\ run.risk \in RiskState /\ t.pnl \in Int
    BY DEF RuleRun, Trade
  <2>2. RegisterResult(run.risk, t.pnl) \in RiskState
    BY <2>1, RiskTypes
  <2> QED
    BY <2>1, <2>2
<1>2. PICK n \in Nat, all \in Seq(Trade) :
        /\ n = Len(tr) /\ all = Append(tr, t) /\ Len(all) = n + 1 /\ all[n + 1] = t
        /\ \A m \in 1..n : all[m] = tr[m]
  <2>1. PICK n \in Nat : n = Len(tr)
    BY <1>1
  <2>2. /\ Append(tr, t) \in Seq(Trade) /\ Len(Append(tr, t)) = n + 1 /\ Append(tr, t)[n + 1] = t
        /\ \A m \in 1..n : Append(tr, t)[m] = tr[m]
    BY <1>1, <2>1, Appended
  <2> QED
    BY <2>1, <2>2
<1>3. after.trades = all /\ after.risk = s /\ after.equity = Append(eq, s.balance)
  BY <1>1, <1>2
<1>4. /\ s.balance = r.balance + p /\ s.initial = r.initial /\ s.dailyPnl = r.dailyPnl + p
      /\ s.losses = IF p < 0 THEN r.losses + 1 ELSE 0
  <2>1. /\ s.balance = r.balance + p /\ s.initial = r.initial /\ s.dailyPnl = r.dailyPnl + p
    BY <1>1, RegisteredResult
  <2>2. s.losses = IF p < 0 THEN r.losses + 1 ELSE 0
    BY <1>1 DEF RegisterResult, RiskState
  <2> QED
    BY <2>1, <2>2
<1>5. r.balance \in Int /\ r.dailyPnl \in Int /\ r.losses \in Nat /\ s.losses \in Nat
  BY <1>1 DEF RiskState
<1>6. /\ Balanced(eq, tr) /\ Last(eq) = r.balance /\ r.initial = InitialBalance
      /\ r.dailyPnl = r.balance - InitialBalance
  BY <1>1 DEF RuleKept
<1>7. \A j \in 1..n : (\A l \in j..n : tr[l].pnl < 0) => n - j + 1 <= r.losses
  BY <1>1, <1>2 DEF RuleKept, LossesEnd
<1>8. \A j, k \in 1..n : j <= k /\ (\A l \in j..k : tr[l].pnl < 0) => k - j + 1 <= MaxConsecutiveLosses
  BY <1>1, <1>2 DEF RuleKept
<1>9. InitialBalance > 0 /\ RiskPerMille > 0 => \A m \in 1..n : tr[m].pnl # 0
  BY <1>1, <1>2 DEF RuleKept
<1>10. Balanced(Append(eq, s.balance), all) /\ Last(Append(eq, s.balance)) = s.balance
  <2>1. /\ Balanced(Append(eq, Last(eq) + t.pnl), Append(tr, t))
        /\ Last(Append(eq, Last(eq) + t.pnl)) = Last(eq) + t.pnl
    BY <1>1, <1>6, BalancedStep
  <2>2. s.balance = Last(eq) + t.pnl
    BY <1>1, <1>4, <1>6
  <2> QED
    BY <1>2, <2>1, <2>2
<1>11. s.initial = InitialBalance /\ s.dailyPnl = s.balance - InitialBalance
  <2>1. InitialBalance \in Int
    BY RiskAssumption
  <2> QED
    BY <1>1, <1>4, <1>5, <1>6, <2>1
<1>12. ASSUME NEW j \in 1..(n + 1), \A l \in j..(n + 1) : all[l].pnl < 0
       PROVE  (n + 1) - j + 1 <= s.losses
  <2>1. p < 0
    <3>1. n + 1 \in j..(n + 1)
      BY <1>2
    <3> QED
      BY <1>1, <1>2, <1>12, <3>1
  <2>2. s.losses = r.losses + 1
    BY <1>4, <2>1
  <2>3. CASE j = n + 1
    BY <1>2, <1>5, <2>2, <2>3
  <2>4. CASE j \in 1..n
    <3>1. ASSUME NEW l \in j..n PROVE tr[l].pnl < 0
      <4>1. l \in 1..n /\ l \in j..(n + 1)
        BY <1>2, <2>4
      <4> QED
        BY <1>2, <1>12, <4>1
    <3>2. n - j + 1 <= r.losses
      BY <1>7, <2>4, <3>1
    <3> QED
      BY <1>2, <1>5, <2>2, <2>4, <3>2
  <2>5. j = n + 1 \/ j \in 1..n
    BY <1>2
  <2> QED
    BY <2>3, <2>4, <2>5
<1>13. ASSUME NEW j \in 1..(n + 1), NEW k \in 1..(n + 1), j <= k, \A l \in j..k : all[l].pnl < 0
       PROVE  k - j + 1 <= MaxConsecutiveLosses
  <2>1. CASE k = n + 1
    <3>1. k - j + 1 <= s.losses
      BY <1>12, <1>13, <2>1
    <3>2. s.losses <= MaxConsecutiveLosses
      <4>1. r.losses < MaxConsecutiveLosses /\ MaxConsecutiveLosses \in Nat
        BY <1>1, RiskAssumption
      <4> QED
        BY <1>4, <1>5, <4>1
    <3>3. MaxConsecutiveLosses \in Nat
      BY RiskAssumption
    <3> QED
      BY <1>2, <1>5, <3>1, <3>2, <3>3
  <2>2. CASE k \in 1..n
    <3>1. j \in 1..n
      BY <1>2, <1>13, <2>2
    <3>2. ASSUME NEW l \in j..k PROVE tr[l].pnl < 0
      <4>1. l \in 1..n
        BY <1>2, <2>2, <3>1
      <4> QED
        BY <1>2, <1>13, <4>1
    <3> QED
      BY <1>8, <1>13, <2>2, <3>1, <3>2
  <2>3. k = n + 1 \/ k \in 1..n
    BY <1>2
  <2> QED
    BY <2>1, <2>2, <2>3
<1>14. ASSUME InitialBalance > 0, RiskPerMille > 0, NEW m \in 1..(n + 1) PROVE all[m].pnl # 0
  <2>1. CASE m = n + 1
    BY <1>2, <1>14, <2>1
  <2>2. CASE m \in 1..n
    BY <1>2, <1>9, <1>14, <2>2
  <2>3. m = n + 1 \/ m \in 1..n
    BY <1>2
  <2> QED
    BY <2>1, <2>2, <2>3
<1>15. \A j \in 1..Len(all) : LossesEnd(all, j) => Len(all) - j + 1 <= s.losses
  BY <1>2, <1>12 DEF LossesEnd
<1>16. /\ \A j, k \in 1..Len(all) :
             j <= k /\ (\A l \in j..k : all[l].pnl < 0) => k - j + 1 <= MaxConsecutiveLosses
       /\ InitialBalance > 0 /\ RiskPerMille > 0 => \A m \in 1..Len(all) : all[m].pnl # 0
  BY <1>2, <1>13, <1>14
<1> QED
  BY <1>3, <1>10, <1>11, <1>15, <1>16 DEF RuleKept

\* The rule-based backtest keeps them at every row.
LEMMA RuleFacts ==
  ASSUME NEW rows \in Seq(FeatureRow), NEW e \in Nat
  PROVE  Backtest(rows, e) \in RuleRun /\ RuleKept(Backtest(rows, e))
<1>1. PICK n \in Nat : n = Larger(0, Len(rows) - e - 1)
  <2>1. Len(rows) - e - 1 \in Int
    OBVIOUS
  <2>2. Larger(0, Len(rows) - e - 1) \in Nat
    BY <2>1, LargerType
  <2> QED
    BY <2>2
<1>2. PICK h \in [0..n -> RuleRun] :
        /\ h[0] = [risk |-> FreshRisk, equity |-> <<InitialBalance>>, trades |-> <<>>]
        /\ Backtest(rows, e) = h[n]
        /\ \A k \in 1..n : h[k] = BacktestStep(rows, e, h[k - 1], k + 1)
  <2>1. \E h \in [0..n -> RuleRun] : RuleLoopOf(rows, e, n, h)
    BY <1>1, RuleLoop
  <2> QED
    BY <2>1 DEF RuleLoopOf
<1> DEFINE S == {k \in 0..n : RuleKept(h[k])}
<1>3. 0 \in S
  <2>1. h[0].equity = <<InitialBalance>> /\ h[0].trades = <<>> /\ h[0].risk = FreshRisk
    BY <1>2
  <2>2. Balanced(h[0].equity, h[0].trades) /\ Last(h[0].equity) = InitialBalance
    BY <2>1, FreshBalanced
  <2>3. /\ FreshRisk.balance = InitialBalance /\ FreshRisk.initial = InitialBalance
        /\ FreshRisk.dailyPnl = 0 /\ InitialBalance - InitialBalance = 0
    BY RiskAssumption DEF FreshRisk
  <2>4. Len(h[0].trades) = 0 /\ 1..0 = {}
    BY <2>1
  <2>5. RuleKept(h[0])
    BY <2>1, <2>2, <2>3, <2>4 DEF RuleKept
  <2> QED
    BY <2>5
<1>4. ASSUME NEW k \in 1..n, k - 1 \in S PROVE k \in S
  <2>1. RuleKept(h[k - 1]) /\ k \in 0..n /\ k - 1 \in 0..n
    BY <1>4
  <2> HIDE DEF S
  <2>2. PICK old \in RuleRun, new \in RuleRun : old = h[k - 1] /\ new = h[k]
    BY <2>1
  <2>3. PICK i \in 1..Len(rows) : i = k + 1 /\ i + e \in 1..Len(rows)
    BY <1>1 DEF Larger
  <2>4. RuleDone(rows, e, old, i, new)
    <3>1. new = BacktestStep(rows, e, old, i)
      BY <1>2, <2>2, <2>3
    <3> QED
      BY <2>2, <2>3, <3>1, RuleStepEffect
  <2>5. CASE ~Allowed(old.risk, RuleSignal(rows[i]), History(rows, i))
    <3>1. new = old
      BY <2>4, <2>5 DEF RuleDone
    <3> QED
      BY <2>1, <2>2, <3>1 DEF S
  <2>6. CASE Allowed(old.risk, RuleSignal(rows[i]), History(rows, i))
    <3>1. PICK t \in Trade :
            /\ t.stake = RiskStake(old.risk)
            /\ t.pnl = Profit(t.stake, Won(t.signal, rows[i].close, rows[i + e].close))
            /\ new.trades = Append(old.trades, t)
            /\ new.risk = RegisterResult(old.risk, t.pnl)
            /\ new.equity = Append(old.equity, RegisterResult(old.risk, t.pnl).balance)
      BY <2>4, <2>6 DEF RuleDone
    <3>2. /\ old.risk.losses < MaxConsecutiveLosses
          /\ 1000 * old.risk.dailyPnl > -(old.risk.initial * DailyLossPerMille)
      BY <2>6 DEF Allowed
    <3>3. PICK r \in RiskState : r = old.risk /\ r.initial = InitialBalance
                                 /\ r.dailyPnl = r.balance - InitialBalance
      BY <2>1, <2>2 DEF RuleKept, RuleRun
    <3>4. ASSUME InitialBalance > 0, RiskPerMille > 0 PROVE t.pnl # 0
      <4>1. t.stake \in Nat \ {0}
        BY <3>1, <3>2, <3>3, <3>4, StakeWithinLimit
      <4>2. PICK won \in BOOLEAN : won = Won(t.signal, rows[i].close, rows[i + e].close)
        BY DEF Won
      <4>3. PICK a \in Nat \ {0} : a = t.stake
        BY <4>1
      <4>4. Profit(a, won) > 0 \/ Profit(a, won) < 0
        BY <4>2, <4>3, StakePays
      <4>5. t.pnl = Profit(a, won) /\ Profit(a, won) \in Int
        BY <3>1, <4>2, <4>3, StakePays
      <4> QED
        BY <4>4, <4>5
    <3>5. RuleKept(old)
      BY <2>1, <2>2
    <3>6. RuleKept(new)
      <4>1. /\ old.risk.losses < MaxConsecutiveLosses
            /\ InitialBalance > 0 /\ RiskPerMille > 0 => t.pnl # 0
        BY <3>2, <3>4
      <4>2. /\ new.trades = Append(old.trades, t) /\ new.risk = RegisterResult(old.risk, t.pnl)
            /\ new.equity = Append(old.equity, RegisterResult(old.risk, t.pnl).balance)
            /\ t \in Trade /\ old \in RuleRun /\ new \in RuleRun
        BY <2>2, <3>1
      <4> QED
        BY <3>5, <4>1, <4>2, RuleKeeps
    <3> QED
      BY <2>1, <2>2, <3>6 DEF S
  <2> QED
    BY <2>5, <2>6
<1>5. \A k \in 0..n : k \in S
  <2> HIDE DEF S
  <2> QED
    BY <1>3, <1>4, IntervalInduction
<1>6. n \in S /\ h[n] \in RuleRun
  <2>1. n \in 0..n
    OBVIOUS
  <2> HIDE DEF S
  <2> QED
    BY <1>5, <2>1
<1> QED
  BY <1>2, <1>6

-----------------------------------------------------------------------------
(* The metrics of both backtests                                           *)

\* The profits of a run, trade by trade.
LEMMA ProfitsOfTrades ==
  ASSUME NEW run, run.trades \in Seq(Trade)
  PROVE  /\ Profits(run) \in Seq(Int) /\ Len(Profits(run)) = Len(run.trades)
         /\ DOMAIN Profits(run) = 1..Len(run.trades)
         /\ \A m \in 1..Len(run.trades) : Profits(run)[m] = run.trades[m].pnl
<1>1. PICK n \in Nat : n = Len(run.trades) /\ DOMAIN run.trades = 1..n
  OBVIOUS
<1>2. \A m \in 1..n : run.trades[m].pnl \in Int
  <2>1. \A m \in 1..n : run.trades[m] \in Trade
    BY <1>1
  <2> QED
    BY <2>1 DEF Trade
<1>3. Profits(run) = [m \in 1..n |-> run.trades[m].pnl]
  BY <1>1 DEF Profits
<1> QED
  BY <1>1, <1>2, <1>3

\* What both backtests end with is what they started with and their profits.
LEMMA FinalBalance ==
  ASSUME NEW run, run.trades \in Seq(Trade), run.equity \in Seq(Int),
         Balanced(run.equity, run.trades)
  PROVE  /\ Last(run.equity) = InitialBalance + Total(Profits(run))
         /\ Total(Profits(run)) \in Int
<1>1. PICK n \in Nat, q \in Seq(Int) : /\ n = Len(run.trades) /\ q = Profits(run) /\ n = Len(q)
                                       /\ \A m \in 1..n : q[m] = run.trades[m].pnl
  <2>1. Len(run.trades) \in Nat /\ Profits(run) \in Seq(Int)
    BY ProfitsOfTrades
  <2> QED
    BY <2>1, ProfitsOfTrades
<1>2. PICK h \in [0..n -> Int] : /\ h[0] = 0 /\ h[n] = Total(q)
                                 /\ \A k \in 1..n : h[k] = h[k - 1] + q[k]
  <2>1. n = Len(q) /\ q \in Seq(Int)
    BY <1>1
  <2> QED
    BY <2>1, TotalRun
<1>3. PICK eq \in Seq(Int) : /\ eq = run.equity /\ Len(eq) = n + 1 /\ eq[1] = InitialBalance
                             /\ \A m \in 1..n : eq[m + 1] = eq[m] + q[m]
  BY <1>1 DEF Balanced
<1> DEFINE S == {k \in 0..n : eq[k + 1] = InitialBalance + h[k]}
<1>4. InitialBalance \in Int
  BY RiskAssumption
<1>5. 0 \in S
  BY <1>2, <1>3, <1>4
<1>6. ASSUME NEW k \in 1..n, k - 1 \in S PROVE k \in S
  <2>1. eq[k] = InitialBalance + h[k - 1] /\ k \in 0..n /\ k - 1 \in 0..n
    BY <1>6
  <2> HIDE DEF S
  <2>2. PICK a \in Int, b \in Int : a = h[k - 1] /\ b = q[k]
    <3>1. q[k] \in Int
      <4>1. k \in 1..Len(q)
        BY <1>1
      <4> QED
        BY <1>1, <4>1
    <3>2. h[k - 1] \in Int
      BY <1>2, <2>1
    <3> QED
      BY <3>1, <3>2
  <2>3. h[k] = a + b /\ eq[k + 1] = eq[k] + b
    BY <1>2, <1>3, <2>2
  <2>4. eq[k + 1] = InitialBalance + h[k]
    BY <1>4, <2>1, <2>2, <2>3, SMTT(20)
  <2> QED
    BY <2>1, <2>4 DEF S
<1>7. \A k \in 0..n : k \in S
  <2> HIDE DEF S
  <2> QED
    BY <1>5, <1>6, IntervalInduction
<1>8. n \in S /\ n \in 0..n
  <2>1. n \in 0..n
    BY <1>1
  <2> HIDE DEF S
  <2> QED
    BY <1>7, <2>1
<1>9. Last(eq) = eq[n + 1]
  BY <1>1, <1>3 DEF Last
<1>10. h[n] \in Int
  BY <1>2, <1>8
<1> QED
  BY <1>1, <1>2, <1>3, <1>8, <1>9, <1>10

\* The metrics of a run that starts with money and whose results are not zero.
LEMMA MetricsOfRun ==
  ASSUME NEW run, run.trades \in Seq(Trade), run.equity \in Seq(Int),
         Balanced(run.equity, run.trades), InitialBalance > 0,
         \A m \in 1..Len(run.trades) : run.trades[m].pnl # 0
  PROVE  MetricsHold(run)
<1> DEFINE m == Metrics(run)   q == Profits(run)   eq == run.equity
<1>1. q \in Seq(Int) /\ eq \in Seq(Int)
  BY ProfitsOfTrades
<1>2. /\ m.final = Last(eq) /\ m.net = Total(q) /\ m.total = Len(q) /\ m.wins = Wins(q)
      /\ m.losses = Losses(q) /\ m.drawdown = Drawdown(eq) /\ m.streak = LosingStreak(q)
  BY DEF Metrics
<1>3. Last(eq) = InitialBalance + Total(q)
  BY FinalBalance
<1>4. \A k \in 1..Len(q) : q[k] # 0
  BY ProfitsOfTrades
<1>5. Len(eq) > 0 /\ eq[1] > 0
  <2>1. Len(run.trades) \in Nat
    OBVIOUS
  <2>2. Len(eq) = Len(run.trades) + 1 /\ eq[1] = InitialBalance
    BY DEF Balanced
  <2> QED
    BY <2>1, <2>2
<1> HIDE DEF m, q, eq
<1>6. DOMAIN eq = 1..Len(eq) /\ DOMAIN q = 1..Len(q)
  BY <1>1
<1>7. m.final = InitialBalance + m.net
  BY <1>2, <1>3
<1>8. m.wins + m.losses = m.total
  BY <1>1, <1>2, <1>4, WinsAndLosses
<1>9. \A j, k \in DOMAIN eq : j <= k /\ eq[j] > 0 /\ eq[k] >= 0 =>
        ~Exceeds(<<eq[j] - eq[k], eq[j]>>, m.drawdown)
  BY <1>1, <1>2, <1>5, <1>6, DrawdownIsDeepest
<1>10. \/ m.drawdown = <<0, 1>>
      \/ \E j, k \in DOMAIN eq : j <= k /\ m.drawdown = <<eq[j] - eq[k], eq[j]>>
  BY <1>1, <1>2, <1>5, <1>6, DrawdownIsDeepest
<1>11. \A j, k \in DOMAIN q : j <= k /\ (\A l \in j..k : q[l] < 0) => k - j + 1 <= m.streak
  BY <1>1, <1>2, <1>6, StreakIsLongest
<1>12. m.streak > 0 => \E j \in DOMAIN q : /\ j + m.streak - 1 \in DOMAIN q
                                            /\ \A l \in j..(j + m.streak - 1) : q[l] < 0
  BY <1>1, <1>2, <1>6, StreakIsLongest
<1> QED
  BY <1>7, <1>8, <1>9, <1>10, <1>11, <1>12 DEF MetricsHold, m, q, eq

\* Whatever the rows, the metrics of both backtests agree with their trades, the
\* rule-based one stays within the risk manager's streak, and the comparison
\* names the strategy that ends richer (_metrics, max_drawdown,
\* max_consecutive_losses, _winner), for settings under which a stake is not zero.
THEOREM MetricsAgreement ==
  ASSUME NEW rows \in Seq(FeatureRow), InitialBalance > 0, RiskPerMille > 0
  PROVE  MetricsAgreeIn(rows)
<1>1. PICK rule \in RuleRun, ml \in MLRun : rule = Backtest(rows, 1) /\ ml = MLBacktest(rows, 1)
  <2>1. Backtest(rows, 1) \in RuleRun
    BY RuleFacts
  <2>2. PICK n \in Nat : n = Larger(0, Len(rows) - 1)
    BY LargerType
  <2>3. MLBacktest(rows, 1) \in MLRun
    BY <2>2, MLFacts
  <2> QED
    BY <2>1, <2>3
<1>2. /\ rule.trades \in Seq(Trade) /\ rule.equity \in Seq(Int)
      /\ ml.trades \in Seq(Trade) /\ ml.equity \in Seq(Int)
  BY DEF RuleRun, MLRun
<1>3. RuleKept(rule)
  BY <1>1, RuleFacts
<1>4. Balanced(ml.equity, ml.trades) /\ \A m \in 1..Len(ml.trades) : ml.trades[m].pnl # 0
  <2>1. PICK n \in Nat : n = Larger(0, Len(rows) - 1)
    BY LargerType
  <2>2. Balanced(ml.equity, ml.trades) /\ \A m \in 1..Len(ml.trades) : MLTrade(rows, 1, ml.trades[m])
    BY <1>1, <2>1, MLFacts
  <2>3. ASSUME NEW m \in 1..Len(ml.trades) PROVE ml.trades[m].pnl # 0
    <3>1. PICK t : t = ml.trades[m]
      OBVIOUS
    <3>2. PICK won \in BOOLEAN : won = Won(t.signal, rows[t.index].close, rows[t.index + 1].close)
      BY DEF Won
    <3>3. t.pnl = Profit(MLStake, won)
      BY <2>2, <3>1, <3>2 DEF MLTrade
    <3>4. Profit(MLStake, won) \in Int /\ (Profit(MLStake, won) > 0 \/ Profit(MLStake, won) < 0)
      BY <3>2, MLStakeType, StakePays
    <3> QED
      BY <3>1, <3>3, <3>4
  <2> QED
    BY <2>2, <2>3
<1>5. MetricsHold(rule) /\ MetricsHold(ml)
  <2>1. Balanced(rule.equity, rule.trades) /\ \A m \in 1..Len(rule.trades) : rule.trades[m].pnl # 0
    BY <1>3 DEF RuleKept
  <2> QED
    BY <1>2, <1>4, <2>1, MetricsOfRun
<1>6. Metrics(rule).streak <= MaxConsecutiveLosses
  <2>1. PICK q \in Seq(Int), s \in Nat : q = Profits(rule) /\ s = LosingStreak(q)
    <3>1. Profits(rule) \in Seq(Int)
      BY <1>2, ProfitsOfTrades
    <3> QED
      BY <3>1, StreakIsLongest
  <2>2. Metrics(rule).streak = s
    BY <2>1 DEF Metrics
  <2>3. MaxConsecutiveLosses \in Nat
    BY RiskAssumption
  <2>4. CASE s > 0
    <3>1. PICK j \in 1..Len(q) : j + s - 1 \in 1..Len(q) /\ \A l \in j..(j + s - 1) : q[l] < 0
      BY <2>1, <2>4, StreakIsLongest
    <3>2. Len(q) = Len(rule.trades) /\ \A m \in 1..Len(q) : q[m] = rule.trades[m].pnl
      BY <1>2, <2>1, ProfitsOfTrades
    <3>3. \A l \in j..(j + s - 1) : rule.trades[l].pnl < 0
      <4>1. \A l \in j..(j + s - 1) : l \in 1..Len(q)
        BY <2>1, <3>1
      <4> QED
        BY <3>1, <3>2, <4>1
    <3>4. PICK k \in 1..Len(q) : k = j + s - 1
      BY <3>1
    <3>5. j <= k /\ k - j + 1 = s
      BY <2>1, <2>4, <3>1, <3>4
    <3>6. k - j + 1 <= MaxConsecutiveLosses
      BY <1>3, <3>1, <3>2, <3>3, <3>4, <3>5 DEF RuleKept
    <3> QED
      BY <2>2, <3>5, <3>6
  <2>5. CASE s = 0
    BY <2>2, <2>3, <2>5
  <2> QED
    BY <2>1, <2>4, <2>5
<1>7. PICK a \in Int, b \in Int : a = Metrics(rule).net /\ b = Metrics(ml).net
  <2>1. Metrics(rule).net = Total(Profits(rule)) /\ Metrics(ml).net = Total(Profits(ml))
    BY DEF Metrics
  <2>2. Total(Profits(rule)) \in Int /\ Total(Profits(ml)) \in Int
    <3>1. Balanced(rule.equity, rule.trades)
      BY <1>3 DEF RuleKept
    <3> QED
      BY <1>2, <1>4, <3>1, FinalBalance
  <2> QED
    BY <2>1, <2>2
<1>8. Last(rule.equity) = InitialBalance + a /\ Last(ml.equity) = InitialBalance + b
  <2>1. Metrics(rule).final = Last(rule.equity) /\ Metrics(ml).final = Last(ml.equity)
    BY DEF Metrics
  <2>2. Metrics(rule).final = InitialBalance + a /\ Metrics(ml).final = InitialBalance + b
    BY <1>5, <1>7 DEF MetricsHold
  <2> QED
    BY <2>1, <2>2
<1>9. PICK w : w = Winner(Metrics(rule), Metrics(ml))
  OBVIOUS
<1>10. (w = "ml" <=> b > a) /\ (w = "rule_based" <=> b < a)
  BY <1>7, <1>9 DEF Winner
<1>11. /\ w = "ml" <=> Last(ml.equity) > Last(rule.equity)
       /\ w = "rule_based" <=> Last(ml.equity) < Last(rule.equity)
  <2>1. InitialBalance \in Int
    BY RiskAssumption
  <2> QED
    BY <1>7, <1>8, <1>10, <2>1
<1> QED
  BY <1>1, <1>5, <1>6, <1>9, <1>11 DEF MetricsAgreeIn

-----------------------------------------------------------------------------
(* The simulated metrics and the ML backtest                               *)

\* Whatever probability the model gives a row, the predictor of the executors
\* and the ML backtester read the same signal from it, and so does the ML
\* strategy when the threshold is above one half: a row is traded when its
\* probability is past the threshold, and bought when it is at least that
\* (MLPredictor.predict_row, MLBacktester._signal, MLStrategy.generate_signal).
THEOREM SignalsAgree ==
  ASSUME NEW up \in 0..100
  PROVE  /\ PredictRow(up).signal = MLSignal(up)
         /\ MinConfidence > 50 => StrategySignal(up) = MLSignal(up)
         /\ MLSignal(up) # "HOLD" <=> up >= MinConfidence \/ up <= 100 - MinConfidence
         /\ up >= MinConfidence => MLSignal(up) = "BUY"
         /\ up < MinConfidence => MLSignal(up) # "BUY"
<1>1. PICK c \in 0..100 : c = MinConfidence
  BY BacktestAssumption
<1>2. CASE up >= c
  BY <1>1, <1>2 DEF PredictRow, MLSignal, StrategySignal
<1>3. CASE up < c /\ up <= 100 - c
  BY <1>1, <1>3 DEF PredictRow, MLSignal, StrategySignal
<1>4. CASE up < c /\ up > 100 - c
  BY <1>1, <1>4 DEF PredictRow, MLSignal, StrategySignal
<1> QED
  BY <1>1, <1>2, <1>3, <1>4

\* Validation simulates the rows the ML backtest trades, in order.
LEMMA SameRowsTraded ==
  ASSUME NEW rows \in Seq(FeatureRow), NEW e \in Nat, NEW n \in Nat, n = Larger(0, Len(rows) - e),
         NEW ups, \A i \in DOMAIN rows : ups[i] = rows[i].up
  PROVE  /\ Traded(ups, n, MinConfidence) \in Seq(Nat)
         /\ Len(Traded(ups, n, MinConfidence)) = Len(MLBacktest(rows, e).trades)
         /\ \A m \in 1..Len(MLBacktest(rows, e).trades) :
              Traded(ups, n, MinConfidence)[m] = MLBacktest(rows, e).trades[m].index
<1>1. PICK h \in [0..n -> MLRun] :
        /\ h[0] = [equity |-> <<InitialBalance>>, trades |-> <<>>, holds |-> 0]
        /\ MLBacktest(rows, e) = h[n]
        /\ \A k \in 1..n : h[k] = MLStep(rows, e, h[k - 1], k)
  BY MLLoop, ZenonT(30)
<1>12. PICK g \in [0..n -> Seq(Nat)] : TradedLoopOf(ups, n, MinConfidence, g)
  BY TradedLoop
<1>2. /\ Len(g[0]) = 0 /\ Traded(ups, n, MinConfidence) = g[n]
      /\ \A k \in 1..n : g[k] = TradedStep(ups, MinConfidence, g[k - 1], k)
      /\ g \in [0..n -> Seq(Nat)]
  BY <1>12 DEF TradedLoopOf
<1> DEFINE S == {k \in 0..n : /\ Len(g[k]) = Len(h[k].trades)
                              /\ \A m \in 1..Len(h[k].trades) : g[k][m] = h[k].trades[m].index}
<1>3. 0 \in S
  <2>1. h[0].trades = <<>> /\ Len(<<>>) = 0
    BY <1>1
  <2> QED
    BY <1>2, <2>1
<1>4. ASSUME NEW k \in 1..n, k - 1 \in S PROVE k \in S
  <2>1. /\ k \in 0..n /\ k - 1 \in 0..n /\ Len(g[k - 1]) = Len(h[k - 1].trades)
        /\ \A m \in 1..Len(h[k - 1].trades) : g[k - 1][m] = h[k - 1].trades[m].index
    BY <1>4
  <2> HIDE DEF S
  <2>2. PICK old \in MLRun, new \in MLRun : old = h[k - 1] /\ new = h[k]
    BY <2>1
  <2>3. PICK tr \in Seq(Trade), l \in Nat : tr = old.trades /\ l = Len(tr)
    <3>1. old.trades \in Seq(Trade)
      BY <2>2 DEF MLRun
    <3> QED
      BY <3>1
  <2>4. PICK a \in Seq(Nat), b \in Seq(Nat) : a = g[k - 1] /\ b = g[k]
    BY <1>2, <2>1
  <2>5. Len(a) = l /\ \A m \in 1..l : a[m] = tr[m].index
    BY <2>1, <2>2, <2>3, <2>4
  <2>6. MLDone(rows, e, old, k, new)
    <3>1. k \in 1..Len(rows) /\ k + e \in 1..Len(rows)
      BY DEF Larger
    <3>2. new = MLStep(rows, e, old, k)
      BY <1>1, <2>2
    <3> QED
      BY <2>2, <3>1, <3>2, MLStepEffect
  <2>7. PICK up \in 0..100 : up = rows[k].up /\ up = ups[k]
    <3>1. k \in DOMAIN rows /\ rows[k] \in FeatureRow
      BY DEF Larger
    <3>2. rows[k].up \in 0..100 /\ ups[k] = rows[k].up
      BY <3>1 DEF FeatureRow
    <3> QED
      BY <3>2
  <2>8. b = IF MLSignal(up) # "HOLD" THEN Append(a, k) ELSE a
    <3>1. MLSignal(up) # "HOLD" <=> up >= MinConfidence \/ up <= 100 - MinConfidence
      BY SignalsAgree
    <3> QED
      BY <1>2, <2>4, <2>7, <3>1 DEF TradedStep
  <2>9. CASE MLSignal(up) = "HOLD"
    <3>1. new.trades = tr /\ b = a
      BY <2>3, <2>6, <2>7, <2>8, <2>9 DEF MLDone
    <3> QED
      BY <2>1, <2>2, <2>3, <2>4, <2>5, <3>1 DEF S
  <2>10. CASE MLSignal(up) # "HOLD"
    <3>1. PICK t \in Trade : t.index = k /\ new.trades = Append(tr, t)
      BY <2>3, <2>6, <2>7, <2>10 DEF MLDone
    <3>2. /\ Len(Append(tr, t)) = l + 1 /\ Append(tr, t)[l + 1] = t
          /\ \A m \in 1..l : Append(tr, t)[m] = tr[m]
      BY <2>3, <3>1, Appended
    <3>3. k \in Nat /\ b = Append(a, k)
      BY <2>8, <2>10
    <3>4. /\ Len(Append(a, k)) = l + 1 /\ Append(a, k)[l + 1] = k
          /\ \A m \in 1..l : Append(a, k)[m] = a[m]
      BY <2>4, <2>5, <3>3, Appended
    <3>5. ASSUME NEW m \in 1..(l + 1) PROVE b[m] = new.trades[m].index
      <4>1. CASE m = l + 1
        BY <3>1, <3>2, <3>3, <3>4, <4>1
      <4>2. CASE m \in 1..l
        BY <2>5, <3>1, <3>2, <3>3, <3>4, <4>2
      <4>3. m = l + 1 \/ m \in 1..l
        <5>1. l \in Nat
          BY <2>3
        <5> QED
          BY <5>1
      <4> QED
        BY <4>1, <4>2, <4>3
    <3>6. Len(b) = Len(new.trades) /\ Len(new.trades) = l + 1
      BY <3>1, <3>2, <3>3, <3>4
    <3> QED
      BY <2>1, <2>2, <2>4, <3>5, <3>6 DEF S
  <2> QED
    BY <2>9, <2>10
<1>5. \A k \in 0..n : k \in S
  <2> HIDE DEF S
  <2> QED
    BY <1>3, <1>4, IntervalInduction
<1>6. n \in S /\ g[n] \in Seq(Nat)
  <2>1. n \in 0..n
    OBVIOUS
  <2>2. g[n] \in Seq(Nat)
    BY <1>2, <2>1
  <2> HIDE DEF S
  <2> QED
    BY <1>5, <2>1, <2>2
<1> QED
  BY <1>1, <1>2, <1>6

\* A set of trades with what the simulation adds to its wins.
LEMMA CountedApart ==
  ASSUME NEW n \in Nat, NEW A \in SUBSET (1..n), NEW B \in SUBSET (1..n), NEW C,
         C = A \cup B, A \cap B = {}
  PROVE  Cardinality(C) = Cardinality(A) + Cardinality(B)
<1>1. IsFiniteSet(1..n)
  <2>1. 1 \in Int /\ n \in Int
    OBVIOUS
  <2> QED
    BY <2>1, FS_Interval
<1>2. IsFiniteSet(A) /\ IsFiniteSet(B)
  BY <1>1, FS_Subset
<1>3. Cardinality(A) \in Nat /\ Cardinality(B) \in Nat
  BY <1>2, FS_CardinalityType
<1>4. Cardinality(A \cup B) = Cardinality(A) + Cardinality(B) - Cardinality(A \cap B)
  BY <1>2, FS_Union
<1>5. Cardinality(A \cap B) = 0
  BY FS_EmptySet
<1> QED
  BY <1>3, <1>4, <1>5

\* The simulation wins what the ML backtest wins and the SELL trades that close
\* flat.
LEMMA SimulatedWins ==
  ASSUME NEW rows \in Seq(FeatureRow), NEW e \in Nat, NEW ups, \A i \in DOMAIN rows : ups[i] = rows[i].up,
         NEW run, run = MLBacktest(rows, e), NEW flat,
         flat = FlatSells(rows, e, run),
         NEW simulated,
         simulated = TradingMetrics(ups, Labels(rows, e), 10 * PayoutPercent, MinConfidence)
  PROVE  /\ simulated.total = Len(run.trades)
         /\ simulated.wins = Metrics(run).wins + Cardinality(flat)
<1>1. PICK n \in Nat : n = Larger(0, Len(rows) - e)
  BY LargerType
<1>2. PICK l \in Nat, tr \in Seq(Trade) : tr = run.trades /\ l = Len(tr) /\ DOMAIN tr = 1..l
  <2>1. run \in MLRun
    BY <1>1, MLFacts
  <2>2. run.trades \in Seq(Trade)
    BY <2>1 DEF MLRun
  <2> QED
    BY <2>2
<1>3. PICK labels : /\ labels = Labels(rows, e) /\ Len(labels) = n
                    /\ \A i \in 1..n : labels[i] = (rows[i + e].close > rows[i].close)
  <2>1. Labels(rows, e) = [i \in 1..n |-> rows[i + e].close > rows[i].close]
    BY <1>1 DEF Labels
  <2>2. Len([i \in 1..n |-> rows[i + e].close > rows[i].close]) = n
    OBVIOUS
  <2> QED
    BY <2>1, <2>2
<1>4. PICK traded \in Seq(Nat) : /\ traded = Traded(ups, n, MinConfidence)
                                 /\ Len(traded) = l /\ DOMAIN traded = 1..l
                                 /\ \A m \in 1..l : traded[m] = tr[m].index
  <2>1. /\ Traded(ups, n, MinConfidence) \in Seq(Nat) /\ Len(Traded(ups, n, MinConfidence)) = l
        /\ \A m \in 1..l : Traded(ups, n, MinConfidence)[m] = tr[m].index
    BY <1>1, <1>2, SameRowsTraded
  <2> QED
    BY <2>1
<1>5. PICK wins : wins = [k \in 1..l |-> ups[traded[k]] >= MinConfidence <=> labels[traded[k]]]
  OBVIOUS
<1>6. simulated = SimulatedMetrics(wins, 10 * PayoutPercent)
  BY <1>3, <1>4, <1>5 DEF TradingMetrics
<1>7. PICK profits : profits = [k \in 1..l |-> IF wins[k] THEN 10 * PayoutPercent ELSE -1000]
  OBVIOUS
<1>8. Len(wins) = l /\ DOMAIN wins = 1..l /\ DOMAIN profits = 1..l
  BY <1>5, <1>7
<1>9. simulated.total = l /\ simulated.wins = Wins(profits)
  <2>1. /\ SimulatedMetrics(wins, 10 * PayoutPercent).total = Len(wins)
        /\ SimulatedMetrics(wins, 10 * PayoutPercent).wins =
             Wins([k \in DOMAIN wins |-> IF wins[k] THEN 10 * PayoutPercent ELSE -1000])
    BY DEF SimulatedMetrics
  <2>2. profits = [k \in DOMAIN wins |-> IF wins[k] THEN 10 * PayoutPercent ELSE -1000]
    BY <1>7, <1>8
  <2> QED
    BY <1>6, <1>8, <2>1, <2>2
<1> DEFINE up(k) == tr[k].pnl > 0
           same(k) == tr[k].signal = "SELL" /\ rows[tr[k].index + e].close = rows[tr[k].index].close
<1>10. ASSUME NEW k \in 1..l
       PROVE  /\ (profits[k] > 0) <=> up(k) \/ same(k)
              /\ ~(up(k) /\ same(k))
  <2>1. PICK t \in Trade, i \in 1..n : t = tr[k] /\ i = t.index /\ MLTrade(rows, e, t)
    <3>1. tr[k] \in Trade
      BY <1>2
    <3>2. tr[k].index \in 1..n /\ MLTrade(rows, e, tr[k])
      BY <1>1, <1>2, MLFacts
    <3> QED
      BY <3>1, <3>2
  <2>2. i \in DOMAIN rows /\ i + e \in DOMAIN rows
    BY <1>1, <2>1 DEF Larger
  <2>3. PICK c \in Int, d \in Int, u \in 0..100 : c = rows[i].close /\ d = rows[i + e].close
                                                 /\ u = rows[i].up /\ u = ups[i]
    <3>1. rows[i] \in FeatureRow /\ rows[i + e] \in FeatureRow /\ ups[i] = rows[i].up
      BY <2>2
    <3> QED
      BY <3>1 DEF FeatureRow
  <2>4. wins[k] <=> (u >= MinConfidence <=> d > c)
    <3>1. wins[k] <=> (ups[traded[k]] >= MinConfidence <=> labels[traded[k]])
      BY <1>5
    <3>2. traded[k] = i /\ (labels[i] <=> d > c)
      BY <1>3, <1>4, <2>1, <2>3
    <3>3. ups[i] = u
      BY <2>3
    <3> QED
      BY <3>1, <3>2, <3>3
  <2>5. t.signal = MLSignal(u) /\ t.signal \in {"BUY", "SELL"}
    <3>1. t.signal = MLSignal(rows[t.index].up)
      BY <2>1 DEF MLTrade
    <3> QED
      BY <2>1, <2>3, <3>1 DEF Trade
  <2>6. (t.signal = "BUY" <=> u >= MinConfidence) /\ (t.signal = "SELL" <=> ~(u >= MinConfidence))
    <3>1. /\ u >= MinConfidence => MLSignal(u) = "BUY"
          /\ u < MinConfidence => MLSignal(u) # "BUY"
      BY SignalsAgree
    <3>2. u < MinConfidence <=> ~(u >= MinConfidence)
      <4>1. u \in Int /\ MinConfidence \in Int
        BY <2>3, BacktestAssumption
      <4> QED
        BY <4>1
    <3> QED
      BY <2>5, <3>1, <3>2
  <2>7. PICK won \in BOOLEAN : won = Won(t.signal, c, d)
    BY DEF Won
  <2>8. won <=> (t.signal = "BUY" /\ d > c) \/ (t.signal = "SELL" /\ d < c)
    BY <2>7 DEF Won
  <2>9. t.pnl > 0 <=> won
    <3>1. t.pnl = Profit(MLStake, won)
      BY <2>1, <2>3, <2>7 DEF MLTrade
    <3>2. /\ Profit(MLStake, won) \in Int /\ won => Profit(MLStake, won) > 0
          /\ ~won => Profit(MLStake, won) < 0
      BY <2>7, MLStakeType, StakePays
    <3>3. Profit(MLStake, won) \in Int
      BY <2>7, MLStakeType, StakePays
    <3> QED
      BY <3>1, <3>2, <3>3
  <2>10. same(k) <=> t.signal = "SELL" /\ d = c
    BY <2>1, <2>3
  <2>11. profits[k] > 0 <=> wins[k]
    <3>1. 10 * PayoutPercent > 0 /\ ~(-1000 > 0)
      BY RiskAssumption
    <3>2. profits[k] = IF wins[k] THEN 10 * PayoutPercent ELSE -1000
      BY <1>7
    <3> QED
      BY <3>1, <3>2
  <2>12. up(k) <=> won
    BY <2>1, <2>9
  <2>13. /\ d > c <=> ~(d <= c)
         /\ d <= c <=> d < c \/ d = c
         /\ ~(d < c /\ d = c)
    <3>1. c \in Int /\ d \in Int
      BY <2>3
    <3> QED
      BY <3>1
  <2>14. wins[k] <=> won \/ same(k)
    BY <2>4, <2>6, <2>8, <2>10, <2>13
  <2>15. ~(won /\ same(k))
    BY <2>6, <2>8, <2>10, <2>13
  <2> QED
    BY <2>11, <2>12, <2>14, <2>15
<1>11. PICK A \in SUBSET (1..l), B \in SUBSET (1..l), C \in SUBSET (1..l) :
         /\ A = {k \in 1..l : tr[k].pnl > 0}
         /\ B = {k \in 1..l : tr[k].signal = "SELL" /\ rows[tr[k].index + e].close = rows[tr[k].index].close}
         /\ C = {k \in 1..l : profits[k] > 0}
  OBVIOUS
<1>12. C = A \cup B /\ A \cap B = {}
  BY <1>10, <1>11
<1>13. Cardinality(C) = Cardinality(A) + Cardinality(B)
  <2>1. l \in Nat /\ A \in SUBSET (1..l) /\ B \in SUBSET (1..l)
    BY <1>2, <1>11
  <2> QED
    BY <1>12, <2>1, CountedApart
<1>14. Wins(profits) = Cardinality(C)
  BY <1>8, <1>11 DEF Wins
<1>15. flat = B
  BY <1>2, <1>11 DEF FlatSells
<1>16. Metrics(run).wins = Cardinality(A)
  <2>1. Metrics(run).wins = Wins(Profits(run))
    BY DEF Metrics
  <2>2. DOMAIN Profits(run) = 1..l /\ \A k \in 1..l : Profits(run)[k] = tr[k].pnl
    BY <1>2, ProfitsOfTrades
  <2>3. {k \in DOMAIN Profits(run) : Profits(run)[k] > 0} = A
    BY <1>11, <2>2
  <2> QED
    BY <2>1, <2>3 DEF Wins
<1> QED
  BY <1>2, <1>9, <1>13, <1>14, <1>15, <1>16

\* Whatever the rows, predictor, ML backtester, ML strategy and validation trade
\* the same rows, and validation counts as won what the ML backtest wins and the
\* SELL trades that close flat (MLPredictor.predict_row, MLBacktester._signal,
\* MLStrategy.generate_signal, trading_metrics_from_probabilities).
THEOREM SimulationAgreement ==
  ASSUME NEW rows \in Seq(FeatureRow)
  PROVE  SimulationAgreesIn(rows)
<1> DEFINE ups == [i \in DOMAIN rows |-> rows[i].up]
<1>1. ASSUME NEW i \in DOMAIN rows
      PROVE  /\ PredictRow(ups[i]).signal = MLSignal(ups[i])
             /\ MinConfidence > 50 => StrategySignal(ups[i]) = MLSignal(ups[i])
  <2>1. rows[i] \in FeatureRow
    OBVIOUS
  <2>2. ups[i] \in 0..100
    BY <2>1 DEF FeatureRow
  <2> HIDE DEF ups
  <2> QED
    BY <2>2, SignalsAgree
<1>2. ASSUME NEW e \in 1..2
      PROVE  LET run == MLBacktest(rows, e)
                 simulated == TradingMetrics(ups, Labels(rows, e), 10 * PayoutPercent, MinConfidence) IN
             /\ simulated.total = Len(run.trades)
             /\ simulated.wins = Metrics(run).wins + Cardinality(FlatSells(rows, e, run))
  <2>1. e \in Nat
    OBVIOUS
  <2>2. \A i \in DOMAIN rows : ups[i] = rows[i].up
    OBVIOUS
  <2> HIDE DEF ups
  <2>3. PICK run : run = MLBacktest(rows, e)
    OBVIOUS
  <2>4. PICK simulated : simulated = TradingMetrics(ups, Labels(rows, e), 10 * PayoutPercent, MinConfidence)
    OBVIOUS
  <2>5. PICK flat : flat = FlatSells(rows, e, run)
    OBVIOUS
  <2>6. simulated.total = Len(run.trades) /\ simulated.wins = Metrics(run).wins + Cardinality(flat)
    BY <2>1, <2>2, <2>3, <2>4, <2>5, SimulatedWins
  <2> QED
    BY <2>3, <2>4, <2>5, <2>6
<1> QED
  BY <1>1, <1>2 DEF SimulationAgreesIn

-----------------------------------------------------------------------------
(* No look-ahead                                                           *)

\* The results known at a row, trade by trade.
KnownRunOf(run, e, i, h) ==
  /\ h[0] = FreshRisk /\ RiskKnownAt(run, e, i) = h[Len(run.trades)]
  /\ \A k \in 1..Len(run.trades) :
       h[k] = IF run.trades[k].index + e <= i
              THEN RegisterResult(h[k - 1], run.trades[k].pnl) ELSE h[k - 1]

\* The results known at a row, trade by trade.
LEMMA KnownRun ==
  ASSUME NEW run, run.trades \in Seq(Trade), NEW e \in Nat, NEW i \in Nat
  PROVE  \E h \in [0..Len(run.trades) -> RiskState] : KnownRunOf(run, e, i, h)
<1>1. PICK n \in Nat : n = Len(run.trades) /\ DOMAIN run.trades = 1..n /\ \A k \in 1..n : run.trades[k] \in Trade
  OBVIOUS
<1> DEFINE IsFold(it) == it = [s \in SUBSET DOMAIN run.trades |->
                                 IF s = {} THEN FreshRisk ELSE IF run.trades[Max(s)].index + e <= i THEN RegisterResult(it[s \ {Max(s)}], run.trades[Max(s)].pnl) ELSE it[s \ {Max(s)}]]
           fold == CHOOSE it : IsFold(it)
<1>2. RiskKnownAt(run, e, i) = fold[DOMAIN run.trades]
  BY DEF RiskKnownAt, FoldLeft, MapThenFoldSet
<1>3. PICK g : g = [k \in 1..n |-> [v \in RiskState |-> IF run.trades[k].index + e <= i THEN RegisterResult(v, run.trades[k].pnl) ELSE v]]
  OBVIOUS
<1>4. FreshRisk \in RiskState /\ g \in [1..n -> [RiskState -> RiskState]]
  <2>1. FreshRisk \in RiskState
    BY RiskAssumption DEF FreshRisk, RiskState
  <2>2. \A v \in RiskState, t \in Trade : RegisterResult(v, t.pnl) \in RiskState
    BY RiskTypes DEF Trade
  <2> QED
    BY <1>1, <1>3, <2>1, <2>2
<1>5. PICK it \in [SUBSET (1..n) -> RiskState] : Folded(it, n, FreshRisk, g)
  BY <1>4, FoldExists
<1>6. IsFold(it)
  <2>1. ASSUME NEW s \in SUBSET (1..n), s # {}
        PROVE  it[s] = IF run.trades[Max(s)].index + e <= i THEN RegisterResult(it[s \ {Max(s)}], run.trades[Max(s)].pnl) ELSE it[s \ {Max(s)}]
    <3>1. Max(s) \in 1..n /\ s \ {Max(s)} \in SUBSET (1..n)
      BY <2>1, MaxOf
    <3>2. PICK m \in 1..n, v \in RiskState : m = Max(s) /\ v = it[s \ {Max(s)}]
      BY <3>1
    <3>3. it[s] = g[m][v]
      BY <1>5, <2>1, <3>2 DEF Folded
    <3>4. g[m][v] = IF run.trades[m].index + e <= i THEN RegisterResult(v, run.trades[m].pnl) ELSE v
      BY <1>1, <1>3
    <3> QED
      BY <3>2, <3>3, <3>4
  <2>2. it[{}] = FreshRisk /\ {} \in SUBSET (1..n)
    BY <1>5 DEF Folded
  <2>3. DOMAIN it = SUBSET DOMAIN run.trades
    BY <1>1
  <2> QED
    BY <1>1, <1>5, <2>1, <2>2, <2>3
<1>7. IsFold(fold)
  BY <1>6
<1> HIDE DEF fold
<1>8. fold[1..0] = FreshRisk
  <2>1. 1..0 = {} /\ {} \in SUBSET DOMAIN run.trades
    OBVIOUS
  <2> QED
    BY <1>7, <2>1
<1>9. ASSUME NEW k \in 1..n PROVE fold[1..k] = IF run.trades[k].index + e <= i THEN RegisterResult(fold[1..(k - 1)], run.trades[k].pnl) ELSE fold[1..(k - 1)]
  <2>1. 1..k \in SUBSET DOMAIN run.trades /\ 1..k # {} /\ Max(1..k) = k /\ (1..k) \ {Max(1..k)} = 1..(k - 1)
    BY <1>1, Prefix
  <2>2. fold[1..k] = IF run.trades[Max(1..k)].index + e <= i THEN RegisterResult(fold[(1..k) \ {Max(1..k)}], run.trades[Max(1..k)].pnl) ELSE fold[(1..k) \ {Max(1..k)}]
    BY <1>7, <2>1
  <2> QED
    BY <1>1, <2>1, <2>2
<1> DEFINE S == {k \in 0..n : fold[1..k] \in RiskState}
<1>10. \A k \in 0..n : k \in S
  <2>1. ASSUME NEW k \in 1..n, fold[1..(k - 1)] \in RiskState PROVE fold[1..k] \in RiskState
    <3>1. PICK v \in RiskState : v = fold[1..(k - 1)]
      BY <2>1
    <3>2. fold[1..k] = g[k][v]
      BY <1>3, <1>9, <3>1
    <3> QED
      BY <1>4, <3>2
  <2>2. 0 \in S
    <3>1. fold[1..0] \in RiskState
      BY <1>4, <1>8, Zenon
    <3> QED
      BY <3>1
  <2>3. \A k \in 1..n : k - 1 \in S => k \in S
    BY <2>1
  <2> HIDE DEF S
  <2> QED
    BY <2>2, <2>3, IntervalInduction
<1>11. PICK h : h = [k \in 0..n |-> fold[1..k]]
  OBVIOUS
<1>12. h \in [0..n -> RiskState]
  BY <1>10, <1>11
<1>13. h[0] = FreshRisk /\ h[n] = fold[1..n]
  BY <1>8, <1>11
<1>14. ASSUME NEW k \in 1..n PROVE h[k] = IF run.trades[k].index + e <= i THEN RegisterResult(h[k - 1], run.trades[k].pnl) ELSE h[k - 1]
  <2>1. h[k] = fold[1..k] /\ h[k - 1] = fold[1..(k - 1)]
    BY <1>11
  <2> QED
    BY <1>9, <2>1
<1>15. h[0] = FreshRisk /\ RiskKnownAt(run, e, i) = h[n]
  BY <1>1, <1>2, <1>13
<1> QED
  BY <1>1, <1>12, <1>14, <1>15 DEF KnownRunOf

\* The trades b has more than a are at rows after i.
Continues(a, b, i) ==
  /\ Len(a) <= Len(b) /\ \A m \in 1..Len(a) : b[m] = a[m]
  /\ \A m \in 1..Len(b) : m > Len(a) => b[m].index > i

\* The rule-based backtest after each of its rows: no trade is past the row,
\* and the trades that follow are.
LEMMA RuleRowByRow ==
  ASSUME NEW rows \in Seq(FeatureRow), NEW e \in Nat, NEW n \in Nat, n = Larger(0, Len(rows) - e - 1),
         NEW h \in [0..n -> RuleRun], h[0].trades = <<>>,
         \A k \in 1..n : h[k] = BacktestStep(rows, e, h[k - 1], k + 1)
  PROVE  /\ \A k \in 1..n : RuleDone(rows, e, h[k - 1], k + 1, h[k])
         /\ \A k \in 0..n : \A m \in 1..Len(h[k].trades) : h[k].trades[m].index \in 1..(k + 1)
         /\ \A k, j \in 0..n : k <= j => Continues(h[k].trades, h[j].trades, k + 1)
<1>1. ASSUME NEW k \in 1..n PROVE RuleDone(rows, e, h[k - 1], k + 1, h[k])
  <2>1. PICK i \in 1..Len(rows) : i = k + 1 /\ i + e \in 1..Len(rows)
    BY DEF Larger
  <2>2. PICK old \in RuleRun, new \in RuleRun : old = h[k - 1] /\ new = h[k]
    <3>1. k \in 0..n /\ k - 1 \in 0..n
      OBVIOUS
    <3> QED
      BY <3>1
  <2>3. new = BacktestStep(rows, e, old, i)
    BY <2>1, <2>2
  <2> QED
    BY <2>1, <2>2, <2>3, RuleStepEffect
<1>2. \A k \in 0..n : h[k].trades \in Seq(Trade)
  BY DEF RuleRun
<1>3. ASSUME NEW k \in 1..n
      PROVE  \/ h[k].trades = h[k - 1].trades
             \/ \E t \in Trade : t.index = k + 1 /\ h[k].trades = Append(h[k - 1].trades, t)
  BY <1>1 DEF RuleDone
<1>4. ASSUME NEW k \in 1..n
      PROVE  Continues(h[k - 1].trades, h[k].trades, k)
  <2>1. PICK a \in Seq(Trade), b \in Seq(Trade) : a = h[k - 1].trades /\ b = h[k].trades
    BY <1>2
  <2>2. CASE b = a
    BY <2>1, <2>2 DEF Continues
  <2>3. CASE \E t \in Trade : t.index = k + 1 /\ b = Append(a, t)
    <3>1. PICK t \in Trade : t.index = k + 1 /\ b = Append(a, t)
      BY <2>3
    <3>2. Len(b) = Len(a) + 1 /\ b[Len(a) + 1] = t /\ \A m \in 1..Len(a) : b[m] = a[m]
      BY <3>1, Appended
    <3>3. \A m \in 1..Len(b) : m > Len(a) => m = Len(a) + 1
      BY <3>2
    <3> QED
      BY <2>1, <3>1, <3>2, <3>3 DEF Continues
  <2> QED
    BY <1>3, <2>1, <2>2, <2>3
<1> DEFINE S == {k \in 0..n : \A m \in 1..Len(h[k].trades) : h[k].trades[m].index \in 1..(k + 1)}
<1>5. \A k \in 0..n : k \in S
  <2>1. 0 \in S
    <3>1. Len(h[0].trades) = 0
      OBVIOUS
    <3> QED
      BY <3>1
  <2>2. ASSUME NEW k \in 1..n, k - 1 \in S PROVE k \in S
    <3>1. /\ k \in 0..n /\ k - 1 \in 0..n
          /\ \A m \in 1..Len(h[k - 1].trades) : h[k - 1].trades[m].index \in 1..((k - 1) + 1)
      BY <2>2
    <3> HIDE DEF S
    <3>2. PICK a \in Seq(Trade), b \in Seq(Trade) : a = h[k - 1].trades /\ b = h[k].trades
      BY <1>2, <3>1
    <3>3. \A m \in 1..Len(a) : a[m].index \in 1..(k + 1)
      BY <3>1, <3>2
    <3>4. \A m \in 1..Len(b) : b[m].index \in 1..(k + 1)
      <4>1. CASE b = a
        BY <3>3, <4>1
      <4>2. CASE \E t \in Trade : t.index = k + 1 /\ b = Append(a, t)
        <5>1. PICK t \in Trade : t.index = k + 1 /\ b = Append(a, t)
          BY <4>2
        <5>2. Len(b) = Len(a) + 1 /\ b[Len(a) + 1] = t /\ \A m \in 1..Len(a) : b[m] = a[m]
          BY <5>1, Appended
        <5>3. \A m \in 1..Len(b) : m \in 1..Len(a) \/ m = Len(a) + 1
          BY <5>2
        <5>4. t.index \in 1..(k + 1)
          BY <5>1
        <5> QED
          BY <3>3, <5>2, <5>3, <5>4
      <4> QED
        BY <1>3, <3>2, <4>1, <4>2
    <3> QED
      BY <3>1, <3>2, <3>4 DEF S
  <2> HIDE DEF S
  <2> QED
    BY <2>1, <2>2, IntervalInduction
<1>6. ASSUME NEW k \in 0..n, NEW j \in 0..n, k <= j PROVE Continues(h[k].trades, h[j].trades, k + 1)
  <2> DEFINE C == {l \in 0..n : k <= l => Continues(h[k].trades, h[l].trades, k + 1)}
  <2>1. PICK a \in Seq(Trade) : a = h[k].trades
    BY <1>2
  <2>2. Continues(a, a, k + 1)
    BY DEF Continues
  <2>3. 0 \in C
    BY <2>1, <2>2
  <2>4. ASSUME NEW l \in 1..n, l - 1 \in C PROVE l \in C
    <3>1. l \in 0..n /\ l - 1 \in 0..n /\ (k <= l - 1 => Continues(h[k].trades, h[l - 1].trades, k + 1))
      BY <2>4
    <3> HIDE DEF C
    <3>2. CASE k <= l - 1
      <4>1. PICK b \in Seq(Trade), c \in Seq(Trade) : b = h[l - 1].trades /\ c = h[l].trades
        BY <1>2, <3>1
      <4>2. Continues(a, b, k + 1) /\ Continues(b, c, l)
        BY <1>4, <2>1, <3>1, <3>2, <4>1
      <4>3. Len(a) <= Len(c) /\ \A m \in 1..Len(a) : c[m] = a[m]
        BY <4>2 DEF Continues
      <4>4. ASSUME NEW m \in 1..Len(c), m > Len(a) PROVE c[m].index > k + 1
        <5>1. CASE m <= Len(b)
          <6>1. m \in 1..Len(b)
            BY <5>1
          <6> QED
            BY <4>2, <4>4, <6>1 DEF Continues
        <5>2. CASE m > Len(b)
          <6>1. c[m].index > l
            BY <4>2, <5>2 DEF Continues
          <6>2. c[m].index \in Nat
            <7>1. c[m] \in Trade
              OBVIOUS
            <7> QED
              BY <7>1 DEF Trade
          <6> QED
            BY <3>2, <6>1, <6>2, SMTT(20)
        <5> QED
          BY <5>1, <5>2
      <4> QED
        BY <2>1, <3>1, <4>1, <4>3, <4>4 DEF Continues, C
    <3>3. CASE k = l
      BY <2>1, <2>2, <3>1, <3>3 DEF C
    <3>4. CASE k > l
      BY <3>1, <3>4 DEF C
    <3> QED
      BY <3>2, <3>3, <3>4
  <2>5. \A l \in 0..n : l \in C
    <3> HIDE DEF C
    <3> QED
      BY <2>3, <2>4, IntervalInduction
  <2>6. j \in C
    <3> HIDE DEF C
    <3> QED
      BY <2>5
  <2> QED
    BY <1>6, <2>6
<1> QED
  BY <1>1, <1>5, <1>6

\* The results known expiration - 1 rows later are those of the trades made
\* before the row, and the rule-based backtest trades on nothing else.
LEMMA KnownWhenTraded ==
  ASSUME NEW rows \in Seq(FeatureRow), NEW e \in Nat \ {0}, NEW i \in 2..(Len(rows) - e),
         NEW n \in Nat, n = Larger(0, Len(rows) - e - 1),
         NEW h \in [0..n -> RuleRun], h[0].trades = <<>>, h[0].risk = FreshRisk,
         \A k \in 1..n : h[k] = BacktestStep(rows, e, h[k - 1], k + 1)
  PROVE  RiskKnownAt(h[n], e, i + e - 1) = h[i - 2].risk
<1>1. PICK b \in 0..n : b = i - 2
  BY DEF Larger
<1>2. \A k \in 0..n : h[k].trades \in Seq(Trade) /\ h[k].risk \in RiskState
  BY DEF RuleRun
<1>3. n \in 0..n /\ 0 \in 0..n
  OBVIOUS
<1>4. PICK run, tr : run = h[n] /\ tr = run.trades /\ tr \in Seq(Trade)
  <2>1. h[n].trades \in Seq(Trade)
    BY <1>2, <1>3
  <2>2. PICK run : run = h[n]
    OBVIOUS
  <2> QED
    BY <2>1, <2>2
<1>5. PICK r \in [0..Len(tr) -> RiskState] :
        /\ r[0] = FreshRisk /\ RiskKnownAt(h[n], e, i + e - 1) = r[Len(tr)]
        /\ \A m \in 1..Len(tr) : r[m] = IF tr[m].index + e <= i + e - 1 THEN RegisterResult(r[m - 1], tr[m].pnl) ELSE r[m - 1]
  <2>1. run.trades \in Seq(Trade) /\ i + e - 1 \in Nat /\ e \in Nat
    BY <1>4
  <2>2. PICK r \in [0..Len(run.trades) -> RiskState] : KnownRunOf(run, e, i + e - 1, r)
    BY <2>1, KnownRun
  <2> QED
    BY <1>4, <2>2 DEF KnownRunOf
<1>6. /\ \A k \in 1..n : RuleDone(rows, e, h[k - 1], k + 1, h[k])
      /\ \A k, j \in 0..n : k <= j => Continues(h[k].trades, h[j].trades, k + 1)
  <2>1. n = Larger(0, Len(rows) - e - 1) /\ \A k \in 1..n : h[k] = BacktestStep(rows, e, h[k - 1], k + 1)
    OBVIOUS
  <2>2. \A k \in 1..n : RuleDone(rows, e, h[k - 1], k + 1, h[k])
    BY <2>1, RuleRowByRow
  <2>3. \A k, j \in 0..n : k <= j => Continues(h[k].trades, h[j].trades, k + 1)
    BY <2>1, RuleRowByRow
  <2> QED
    BY <2>2, <2>3
<1>7. \A k \in 0..n : Continues(h[k].trades, tr, k + 1)
  BY <1>3, <1>4, <1>6
<1> DEFINE S == {k \in 0..b : r[Len(h[k].trades)] = h[k].risk}
<1>8. 0 \in S
  <2>1. Len(h[0].trades) = 0
    OBVIOUS
  <2> QED
    BY <1>1, <1>5, <2>1
<1>9. ASSUME NEW k \in 1..b, k - 1 \in S PROVE k \in S
  <2>1. k \in 0..b /\ k - 1 \in 0..b /\ r[Len(h[k - 1].trades)] = h[k - 1].risk
    BY <1>9
  <2> HIDE DEF S
  <2>2. k \in 1..n /\ k \in 0..n /\ k - 1 \in 0..n
    BY <1>1
  <2>3. PICK old \in RuleRun, new \in RuleRun : old = h[k - 1] /\ new = h[k]
    BY <2>2
  <2>4. PICK a \in Seq(Trade), c \in Seq(Trade) : a = old.trades /\ c = new.trades
    BY <1>2, <2>2, <2>3
  <2>5. RuleDone(rows, e, old, k + 1, new) /\ Continues(c, tr, k + 1)
    BY <1>6, <1>7, <2>2, <2>3, <2>4
  <2>6. CASE ~Allowed(old.risk, RuleSignal(rows[k + 1]), History(rows, k + 1))
    <3>1. new = old
      BY <2>5, <2>6 DEF RuleDone
    <3> QED
      BY <2>1, <2>3, <3>1 DEF S
  <2>7. CASE Allowed(old.risk, RuleSignal(rows[k + 1]), History(rows, k + 1))
    <3>1. PICK t \in Trade : /\ t.index = k + 1 /\ c = Append(a, t)
                             /\ new.risk = RegisterResult(old.risk, t.pnl)
      BY <2>4, <2>5, <2>7 DEF RuleDone
    <3>2. PICK l \in Nat : l = Len(a)
      BY <2>4
    <3>3. Len(c) = l + 1 /\ c[l + 1] = t
      BY <2>4, <3>1, <3>2, Appended
    <3>4. l + 1 \in 1..Len(tr) /\ tr[l + 1] = t
      <4>1. Len(c) <= Len(tr) /\ \A m \in 1..Len(c) : tr[m] = c[m]
        BY <2>5 DEF Continues
      <4>2. l + 1 \in 1..Len(c)
        BY <3>2, <3>3
      <4> QED
        BY <3>2, <3>3, <4>1, <4>2
    <3>5. t.index + e <= i + e - 1
      BY <1>1, <3>1
    <3>6. r[l + 1] = RegisterResult(r[l], t.pnl)
      <4>1. (l + 1) - 1 = l
        BY <3>2
      <4> QED
        BY <1>5, <3>4, <3>5, <4>1
    <3>7. r[Len(c)] = new.risk
      BY <2>1, <2>3, <2>4, <3>1, <3>2, <3>3, <3>6
    <3> QED
      BY <2>1, <2>3, <2>4, <3>7 DEF S
  <2> QED
    BY <2>6, <2>7
<1>10. \A k \in 0..b : k \in S
  <2>1. b \in Nat
    BY <1>1
  <2> HIDE DEF S
  <2> QED
    BY <1>8, <1>9, <2>1, IntervalInduction
<1>11. PICK l \in 0..Len(tr) : l = Len(h[b].trades) /\ r[l] = h[b].risk
  <2>1. b \in 0..b
    BY <1>1
  <2>2. b \in S
    <3> HIDE DEF S
    <3> QED
      BY <1>10, <2>1
  <2>3. Len(h[b].trades) <= Len(tr) /\ Len(h[b].trades) \in Nat
    BY <1>1, <1>2, <1>7 DEF Continues
  <2> QED
    BY <2>2, <2>3
<1> DEFINE D == {m \in 0..Len(tr) : m >= l => r[m] = h[b].risk}
<1>12. \A m \in 0..Len(tr) : m \in D
  <2>1. 0 \in D
    BY <1>11
  <2>2. ASSUME NEW m \in 1..Len(tr), m - 1 \in D PROVE m \in D
    <3>1. m \in 0..Len(tr) /\ m - 1 \in 0..Len(tr) /\ (m - 1 >= l => r[m - 1] = h[b].risk)
      BY <2>2
    <3> HIDE DEF D
    <3>2. CASE m > l
      <4>1. tr[m].index > b + 1
        BY <1>1, <1>7, <1>11, <3>2 DEF Continues
      <4>2. tr[m].index \in Nat
        <5>1. tr[m] \in Trade
          BY <1>4
        <5> QED
          BY <5>1 DEF Trade
      <4>3. ~(tr[m].index + e <= i + e - 1)
        BY <1>1, <4>1, <4>2
      <4>4. r[m] = r[m - 1]
        BY <1>5, <4>3
      <4> QED
        BY <1>11, <3>1, <3>2, <4>4 DEF D
    <3>3. CASE ~(m > l)
      BY <1>11, <3>1, <3>3 DEF D
    <3> QED
      BY <3>2, <3>3
  <2>3. Len(tr) \in Nat
    BY <1>4
  <2> HIDE DEF D
  <2> QED
    BY <2>1, <2>2, <2>3, IntervalInduction
<1>13. r[Len(tr)] = h[b].risk
  <2>1. Len(tr) \in 0..Len(tr) /\ Len(tr) >= l
    <3>1. Len(tr) \in Nat
      BY <1>4
    <3> QED
      BY <1>11, <3>1
  <2>2. Len(tr) \in D
    <3> HIDE DEF D
    <3> QED
      BY <1>12, <2>1
  <2> QED
    BY <2>1, <2>2
<1> QED
  BY <1>1, <1>5, <1>13

\* With any expiration the rule-based backtest trades at a row what would be
\* ordered there with the results known expiration - 1 rows later
\* (Backtester.run, Executor.execute_latest).
THEOREM RuleLooksAhead ==
  ASSUME NEW rows \in Seq(FeatureRow), NEW e \in Nat \ {0}, NEW i \in 2..(Len(rows) - e),
         NEW run, run = Backtest(rows, e),
         NEW ordered, ordered = ExecuteLatest(SubSeq(rows, 1, i), RiskKnownAt(run, e, i + e - 1))
  PROVE  TradedAt(run, i) = IF ordered = <<>> THEN {} ELSE {ordered}
<1>1. PICK n \in Nat : n = Larger(0, Len(rows) - e - 1)
  <2>1. Larger(0, Len(rows) - e - 1) \in Nat
    BY DEF Larger
  <2> QED
    BY <2>1
<1>2. PICK h \in [0..n -> RuleRun] :
        /\ h[0] = [risk |-> FreshRisk, equity |-> <<InitialBalance>>, trades |-> <<>>]
        /\ run = h[n]
        /\ \A k \in 1..n : h[k] = BacktestStep(rows, e, h[k - 1], k + 1)
  <2>1. \E h \in [0..n -> RuleRun] : RuleLoopOf(rows, e, n, h)
    BY <1>1, RuleLoop
  <2> QED
    BY <2>1 DEF RuleLoopOf
<1>3. h[0].trades = <<>> /\ h[0].risk = FreshRisk
  BY <1>2
<1>4. PICK k \in 1..n : k = i - 1 /\ k + 1 = i /\ k - 1 = i - 2 /\ k - 1 \in 0..n /\ k \in 0..n /\ n \in 0..n
  BY <1>1 DEF Larger
<1>5. PICK risk : risk = RiskKnownAt(run, e, i + e - 1) /\ risk = h[k - 1].risk
  <2>1. RiskKnownAt(h[n], e, i + e - 1) = h[i - 2].risk
    BY <1>1, <1>2, <1>3, KnownWhenTraded
  <2> QED
    BY <1>2, <1>4, <2>1
<1>6. /\ RuleDone(rows, e, h[k - 1], k + 1, h[k])
      /\ \A m \in 1..Len(h[k - 1].trades) : h[k - 1].trades[m].index \in 1..((k - 1) + 1)
      /\ Continues(h[k - 1].trades, h[n].trades, (k - 1) + 1)
      /\ Continues(h[k].trades, h[n].trades, k + 1)
  <2>1. /\ \A j \in 1..n : RuleDone(rows, e, h[j - 1], j + 1, h[j])
        /\ \A j \in 0..n : \A m \in 1..Len(h[j].trades) : h[j].trades[m].index \in 1..(j + 1)
        /\ \A j, o \in 0..n : j <= o => Continues(h[j].trades, h[o].trades, j + 1)
    <3>2. n = Larger(0, Len(rows) - e - 1) /\ \A j \in 1..n : h[j] = BacktestStep(rows, e, h[j - 1], j + 1)
      BY <1>1, <1>2
    <3>3. \A j \in 1..n : RuleDone(rows, e, h[j - 1], j + 1, h[j])
      BY <1>3, <3>2, RuleRowByRow
    <3>4. \A j \in 0..n : \A m \in 1..Len(h[j].trades) : h[j].trades[m].index \in 1..(j + 1)
      BY <1>3, <3>2, RuleRowByRow
    <3>5. \A j, o \in 0..n : j <= o => Continues(h[j].trades, h[o].trades, j + 1)
      BY <1>3, <3>2, RuleRowByRow
    <3> QED
      BY <3>3, <3>4, <3>5
  <2> QED
    BY <1>4, <2>1, SMTT(20)
<1>7. PICK a \in Seq(Trade), b \in Seq(Trade), tr \in Seq(Trade) :
        a = h[k - 1].trades /\ b = h[k].trades /\ tr = run.trades
  BY <1>2, <1>4 DEF RuleRun
<1>8. /\ \A m \in 1..Len(a) : a[m].index < i
      /\ Len(a) <= Len(tr) /\ \A m \in 1..Len(a) : tr[m] = a[m]
      /\ Len(b) <= Len(tr) /\ \A m \in 1..Len(b) : tr[m] = b[m]
      /\ \A m \in 1..Len(tr) : m > Len(b) => tr[m].index > i
  <2>1. \A m \in 1..Len(a) : a[m].index \in 1..k
    BY <1>4, <1>6, <1>7
  <2>2. ASSUME NEW m \in 1..Len(a) PROVE a[m].index < i
    <3>1. a[m].index \in 1..k
      BY <2>1
    <3>2. k \in Nat /\ i = k + 1
      BY <1>4
    <3> QED
      BY <3>1, <3>2
  <2>3. Continues(a, tr, k) /\ Continues(b, tr, i)
    <3>1. (k - 1) + 1 = k /\ k + 1 = i
      BY <1>4
    <3> QED
      BY <1>2, <1>6, <1>7, <3>1
  <2> QED
    BY <2>2, <2>3 DEF Continues
<1>9. \A m \in 1..Len(tr) : tr[m].index \in Nat
  <2>1. \A m \in 1..Len(tr) : tr[m] \in Trade
    BY <1>7
  <2> QED
    BY <2>1 DEF Trade
<1>10. PICK s, past, stake : s = RuleSignal(rows[i]) /\ past = History(rows, i) /\ stake = RiskStake(risk)
  OBVIOUS
<1>11. ordered = IF Allowed(risk, s, past) THEN <<s.signal, stake>> ELSE <<>>
  <2>1. SubSeq(rows, 1, i) = past /\ Last(SubSeq(rows, 1, i)) = rows[i]
    <3>1. Len(SubSeq(rows, 1, i)) = i /\ SubSeq(rows, 1, i)[i] = rows[i]
      OBVIOUS
    <3> QED
      BY <1>10, <3>1 DEF History, Last
  <2> QED
    BY <1>5, <1>10, <2>1 DEF ExecuteLatest
<1>12. TradedAt(run, i) = {<<tr[m].signal, tr[m].stake>> : m \in {m \in 1..Len(tr) : tr[m].index = i}}
  BY <1>7 DEF TradedAt
<1>13. CASE ~Allowed(risk, s, past)
  <2>1. b = a
    BY <1>4, <1>5, <1>6, <1>7, <1>10, <1>13 DEF RuleDone
  <2>2. \A m \in 1..Len(tr) : tr[m].index # i
    <3>1. \A m \in 1..Len(tr) : m \in 1..Len(a) \/ m > Len(b)
      BY <1>7, <2>1
    <3>2. ASSUME NEW m \in 1..Len(a) PROVE tr[m].index < i
      BY <1>8
    <3>3. ASSUME NEW m \in 1..Len(tr), m > Len(b) PROVE tr[m].index > i
      BY <1>8, <3>3
    <3> SUFFICES ASSUME NEW m \in 1..Len(tr) PROVE tr[m].index # i
      OBVIOUS
    <3>4. tr[m].index < i \/ tr[m].index > i
      BY <3>1, <3>2, <3>3
    <3> QED
      BY <1>9, <3>4
  <2>3. {m \in 1..Len(tr) : tr[m].index = i} = {}
    BY <2>2
  <2> QED
    BY <1>11, <1>12, <1>13, <2>3
<1>14. CASE Allowed(risk, s, past)
  <2>1. PICK t \in Trade : t.index = i /\ t.signal = s.signal /\ t.stake = stake /\ b = Append(a, t)
    BY <1>4, <1>5, <1>6, <1>7, <1>10, <1>14 DEF RuleDone
  <2>2. PICK l \in Nat : l = Len(a) /\ Len(b) = l + 1 /\ b[l + 1] = t /\ l + 1 \in 1..Len(tr) /\ tr[l + 1] = t
    <3>1. Len(a) \in Nat /\ Len(b) = Len(a) + 1 /\ b[Len(a) + 1] = t
      BY <1>7, <2>1, Appended
    <3>2. Len(a) + 1 \in 1..Len(b) /\ Len(tr) \in Nat
      BY <1>7, <3>1
    <3>3. Len(a) + 1 \in 1..Len(tr) /\ tr[Len(a) + 1] = t
      BY <1>8, <3>1, <3>2
    <3> QED
      BY <3>1, <3>3
  <2>3. ASSUME NEW m \in 1..Len(tr) PROVE tr[m].index = i <=> m = l + 1
    <3>1. m \in 1..Len(a) \/ m = l + 1 \/ m > Len(b)
      BY <1>7, <2>2
    <3>2. CASE m \in 1..Len(a)
      <4>1. tr[m] = a[m] /\ a[m].index < i
        BY <1>8, <3>2
      <4>2. m # l + 1
        BY <2>2, <3>2
      <4>3. tr[m].index # i
        BY <1>4, <1>9, <4>1
      <4> QED
        BY <4>2, <4>3
    <3>3. CASE m = l + 1
      BY <2>1, <2>2, <3>3
    <3>4. CASE m > Len(b)
      BY <1>4, <1>8, <1>9, <2>2, <3>4
    <3> QED
      BY <3>1, <3>2, <3>3, <3>4
  <2>4. {m \in 1..Len(tr) : tr[m].index = i} = {l + 1}
    BY <2>2, <2>3
  <2>5. TradedAt(run, i) = {<<tr[l + 1].signal, tr[l + 1].stake>>}
    BY <1>12, <2>4
  <2>6. ordered = <<s.signal, stake>> /\ ordered # <<>>
    <3>1. Len(<<s.signal, stake>>) = 2 /\ Len(<<>>) = 0
      OBVIOUS
    <3>2. <<s.signal, stake>> # <<>>
      BY <3>1
    <3> QED
      BY <1>11, <1>14, <3>2
  <2> QED
    BY <2>1, <2>2, <2>5, <2>6
<1> QED
  BY <1>13, <1>14

\* What the ML backtest traded before a row.
TradedBefore(trades, i) == {<<t.index, t.signal, t.stake>> : t \in {t \in ToSet(trades) : t.index < i}}

\* Row j of those before row i is traded.
MLTradesAt(rows, i, j, x) ==
  /\ j < i /\ MLSignal(rows[j].up) # "HOLD"
  /\ x = <<j, MLSignal(rows[j].up), MLStake>>

\* They are the rows whose signal is not HOLD.
LEMMA MLTradedBefore ==
  ASSUME NEW rows \in Seq(FeatureRow), NEW e \in Nat, NEW i \in Nat
  PROVE  \A x : x \in TradedBefore(MLBacktest(rows, e).trades, i) <=>
                  \E j \in 1..Larger(0, Len(rows) - e) : MLTradesAt(rows, i, j, x)
<1> SUFFICES ASSUME NEW x
             PROVE  x \in TradedBefore(MLBacktest(rows, e).trades, i) <=>
                      \E j \in 1..Larger(0, Len(rows) - e) : MLTradesAt(rows, i, j, x)
  OBVIOUS
<1>1. PICK n, run : n \in Nat /\ n = Larger(0, Len(rows) - e) /\ run = MLBacktest(rows, e)
  BY DEF Larger
<1>2. /\ run \in MLRun
      /\ \A m \in 1..Len(run.trades) : run.trades[m].index \in 1..n /\ MLTrade(rows, e, run.trades[m])
      /\ \A j \in 1..n : MLSignal(rows[j].up) # "HOLD" =>
           \E m \in 1..Len(run.trades) : run.trades[m].index = j
  BY <1>1, MLFacts, SMTT(20)
<1>3. PICK tr \in Seq(Trade) : tr = run.trades
  BY <1>2 DEF MLRun
<1>4. \A m \in 1..Len(tr) :
        /\ tr[m].index \in 1..n /\ tr[m].signal = MLSignal(rows[tr[m].index].up)
        /\ tr[m].signal # "HOLD" /\ tr[m].stake = MLStake
  <2>1. ASSUME NEW m \in 1..Len(tr) PROVE tr[m].signal # "HOLD"
    <3>1. tr[m] \in Trade
      BY <1>3
    <3> QED
      BY <3>1 DEF Trade
  <2> QED
    BY <1>2, <1>3, <2>1 DEF MLTrade
<1>5. x \in TradedBefore(tr, i) <=>
        \E m \in 1..Len(tr) : tr[m].index < i /\ x = <<tr[m].index, tr[m].signal, tr[m].stake>>
  <2>1. ToSet(tr) = {tr[m] : m \in 1..Len(tr)}
    BY <1>3 DEF ToSet
  <2> QED
    BY <2>1 DEF TradedBefore
<1>6. ASSUME NEW m \in 1..Len(tr), tr[m].index < i, x = <<tr[m].index, tr[m].signal, tr[m].stake>>
      PROVE  \E j \in 1..n : MLTradesAt(rows, i, j, x)
  BY <1>4, <1>6 DEF MLTradesAt
<1>7. ASSUME NEW j \in 1..n, MLTradesAt(rows, i, j, x)
      PROVE  \E m \in 1..Len(tr) : tr[m].index < i /\ x = <<tr[m].index, tr[m].signal, tr[m].stake>>
  <2>1. PICK m \in 1..Len(tr) : tr[m].index = j
    BY <1>2, <1>3, <1>7 DEF MLTradesAt
  <2>2. tr[m].signal = MLSignal(rows[j].up) /\ tr[m].stake = MLStake
    BY <1>4, <2>1
  <2> QED
    BY <1>7, <2>1, <2>2 DEF MLTradesAt
<1> QED
  BY <1>1, <1>3, <1>5, <1>6, <1>7

\* A later row changes none of them.
LEMMA MLSeesNoFurther ==
  ASSUME NEW rows \in Seq(FeatureRow), NEW e \in Nat, NEW i \in DOMAIN rows, NEW row \in FeatureRow
  PROVE  TradedBefore(MLBacktest([rows EXCEPT ![i] = row], e).trades, i) =
           TradedBefore(MLBacktest(rows, e).trades, i)
<1>1. PICK other \in Seq(FeatureRow) :
        /\ other = [rows EXCEPT ![i] = row] /\ Len(other) = Len(rows)
        /\ \A j \in 1..Len(rows) : j < i => other[j] = rows[j]
  <2>1. [rows EXCEPT ![i] = row] \in Seq(FeatureRow)
    OBVIOUS
  <2>2. Len([rows EXCEPT ![i] = row]) = Len(rows)
    OBVIOUS
  <2>3. \A j \in 1..Len(rows) : j < i => [rows EXCEPT ![i] = row][j] = rows[j]
    OBVIOUS
  <2> QED
    BY <2>1, <2>2, <2>3
<1>2. i \in Nat
  OBVIOUS
<1>3. PICK n \in Nat : n = Larger(0, Len(rows) - e) /\ \A j \in 1..n : j \in 1..Len(rows)
  <2>1. PICK n \in Nat : n = Larger(0, Len(rows) - e)
    <3>1. Len(rows) - e \in Int
      OBVIOUS
    <3>2. Larger(0, Len(rows) - e) \in Nat
      BY <3>1, LargerType
    <3> QED
      BY <3>2
  <2>2. \A j \in 1..n : j \in 1..Len(rows)
    BY <2>1 DEF Larger
  <2> QED
    BY <2>1, <2>2
<1>4. ASSUME NEW x, NEW j \in 1..n PROVE MLTradesAt(other, i, j, x) <=> MLTradesAt(rows, i, j, x)
  <2>1. CASE j < i
    <3>1. other[j] = rows[j]
      BY <1>1, <1>3, <2>1
    <3> QED
      BY <3>1 DEF MLTradesAt
  <2>2. CASE ~(j < i)
    BY <2>2 DEF MLTradesAt
  <2> QED
    BY <2>1, <2>2
<1>5. ASSUME NEW x PROVE x \in TradedBefore(MLBacktest(other, e).trades, i)
                          <=> x \in TradedBefore(MLBacktest(rows, e).trades, i)
  <2>1. x \in TradedBefore(MLBacktest(other, e).trades, i) <=> \E j \in 1..n : MLTradesAt(other, i, j, x)
    <3>1. x \in TradedBefore(MLBacktest(other, e).trades, i) <=>
            \E j \in 1..Larger(0, Len(other) - e) :
              MLTradesAt(other, i, j, x)
      BY <1>1, <1>2, MLTradedBefore
    <3> QED
      BY <1>1, <1>3, <3>1
  <2>2. x \in TradedBefore(MLBacktest(rows, e).trades, i) <=> \E j \in 1..n : MLTradesAt(rows, i, j, x)
    <3>1. x \in TradedBefore(MLBacktest(rows, e).trades, i) <=>
            \E j \in 1..Larger(0, Len(rows) - e) : MLTradesAt(rows, i, j, x)
      BY <1>2, MLTradedBefore
    <3> QED
      BY <1>3, <3>1
  <2> QED
    BY <1>4, <2>1, <2>2
<1> QED
  BY <1>1, <1>5

\* How far the backtests look ahead, on any rows: the rule-based one trades
\* exactly what the executor would order on the candles up to the row with the
\* results known expiration - 1 rows later, so that it looks ahead whenever an
\* expiration is longer than one candle; the ML one's trades do not depend on
\* later rows (Backtester.run, MLBacktester.run).
THEOREM LookAheadIsBounded ==
  ASSUME NEW rows \in Seq(FeatureRow), NEW allRows \in SUBSET FeatureRow
  PROVE  LookAheadBoundedIn(rows, allRows)
<1>1. ASSUME NEW e \in 1..2, NEW i \in 2..(Len(rows) - e)
      PROVE  LET run == Backtest(rows, e)
                 known == RiskKnownAt(run, e, i + e - 1)
                 ordered == ExecuteLatest(SubSeq(rows, 1, i), known) IN
             TradedAt(run, i) = IF ordered = <<>> THEN {} ELSE {ordered}
  <2>1. e \in Nat \ {0}
    OBVIOUS
  <2> QED
    BY <2>1, RuleLooksAhead
<1>2. ASSUME NEW i \in DOMAIN rows, NEW row \in allRows, NEW e \in 1..2
      PROVE  LET before(r) == {<<t.index, t.signal, t.stake>> :
                                 t \in {t \in ToSet(MLBacktest(r, e).trades) : t.index < i}} IN
             before([rows EXCEPT ![i] = row]) = before(rows)
  <2>1. row \in FeatureRow /\ e \in Nat
    OBVIOUS
  <2>2. TradedBefore(MLBacktest([rows EXCEPT ![i] = row], e).trades, i) =
          TradedBefore(MLBacktest(rows, e).trades, i)
    BY <2>1, MLSeesNoFurther
  <2> QED
    BY <2>2 DEF TradedBefore
<1> QED
  BY <1>1, <1>2 DEF LookAheadBoundedIn

-----------------------------------------------------------------------------
(* Sums                                                                    *)

\* The sum of the first results.
LEMMA TotalOfPrefix ==
  ASSUME NEW q \in Seq(Int), NEW h \in [0..Len(q) -> Int], h[0] = 0,
         \A k \in 1..Len(q) : h[k] = h[k - 1] + q[k], NEW m \in 0..Len(q)
  PROVE  Total(SubSeq(q, 1, m)) = h[m]
<1>1. PICK n \in Nat : n = Len(q) /\ \A k \in 1..n : q[k] \in Int
  OBVIOUS
<1>2. PICK r \in Seq(Int) : /\ r = SubSeq(q, 1, m) /\ Len(r) = m
                            /\ \A k \in 1..m : r[k] = q[k]
  <2>1. SubSeq(q, 1, m) \in Seq(Int) /\ Len(SubSeq(q, 1, m)) = m
    OBVIOUS
  <2>2. \A k \in 1..m : SubSeq(q, 1, m)[k] = q[k]
    OBVIOUS
  <2> QED
    BY <2>1, <2>2
<1>0. m \in Nat
  OBVIOUS
<1>3. PICK g \in [0..m -> Int] : g[0] = 0 /\ g[m] = Total(r) /\ \A k \in 1..m : g[k] = g[k - 1] + r[k]
  <2>1. PICK g \in [0..Len(r) -> Int] :
          g[0] = 0 /\ g[Len(r)] = Total(r) /\ \A k \in 1..Len(r) : g[k] = g[k - 1] + r[k]
    BY <1>2, TotalRun
  <2> QED
    BY <1>2, <2>1
<1> DEFINE S == {k \in 0..m : g[k] = h[k]}
<1>4. 0 \in S
  BY <1>3
<1>5. ASSUME NEW k \in 1..m, k - 1 \in S PROVE k \in S
  <2>1. k \in 1..Len(q) /\ k \in 0..m
    OBVIOUS
  <2>2. g[k - 1] = h[k - 1]
    BY <1>5
  <2>3. g[k] = g[k - 1] + q[k] /\ h[k] = h[k - 1] + q[k]
    BY <1>2, <1>3, <2>1
  <2> QED
    BY <2>1, <2>2, <2>3
<1>6. \A k \in 0..m : k \in S
  <2> HIDE DEF S
  <2> QED
    BY <1>0, <1>4, <1>5, IntervalInduction
<1>7. m \in S
  <2>1. m \in 0..m
    OBVIOUS
  <2> HIDE DEF S
  <2> QED
    BY <1>6, <2>1
<1> QED
  BY <1>2, <1>3, <1>7

\* What the first k results bring.
PrefixTotal(q, k) == Total(SubSeq(q, 1, k))

\* It grows by the results up to their total.
LEMMA PrefixTotals ==
  ASSUME NEW q \in Seq(Int)
  PROVE  /\ \A k \in 0..Len(q) : PrefixTotal(q, k) \in Int
         /\ PrefixTotal(q, 0) = 0 /\ PrefixTotal(q, Len(q)) = Total(q)
         /\ \A k \in 1..Len(q) : PrefixTotal(q, k) = PrefixTotal(q, k - 1) + q[k]
<1>1. PICK h \in [0..Len(q) -> Int] :
        h[0] = 0 /\ h[Len(q)] = Total(q) /\ \A k \in 1..Len(q) : h[k] = h[k - 1] + q[k]
  BY TotalRun
<1>2. \A k \in 0..Len(q) : PrefixTotal(q, k) = h[k]
  BY <1>1, TotalOfPrefix DEF PrefixTotal
<1>3. 0 \in 0..Len(q) /\ Len(q) \in 0..Len(q) /\ \A k \in 1..Len(q) : k \in 0..Len(q) /\ k - 1 \in 0..Len(q)
  OBVIOUS
<1> QED
  BY <1>1, <1>2, <1>3

\* More profit everywhere is more in total.
LEMMA TotalMonotone ==
  ASSUME NEW q \in Seq(Int), NEW r \in Seq(Int), Len(q) = Len(r),
         \A k \in 1..Len(q) : q[k] <= r[k]
  PROVE  Total(q) <= Total(r)
<1>1. PICK n \in Nat : n = Len(q) /\ n = Len(r) /\ \A k \in 1..n : q[k] \in Int /\ r[k] \in Int
  OBVIOUS
<1> DEFINE S == {k \in 0..n : PrefixTotal(q, k) <= PrefixTotal(r, k)}
<1>4. 0 \in S
  BY <1>1, PrefixTotals
<1>5. ASSUME NEW k \in 1..n, k - 1 \in S PROVE k \in S
  <2>1. k \in 0..n /\ k - 1 \in 0..n /\ PrefixTotal(q, k - 1) <= PrefixTotal(r, k - 1)
    BY <1>5
  <2> HIDE DEF S
  <2>2. PICK a \in Int, b \in Int, c \in Int, d \in Int :
          a = PrefixTotal(q, k - 1) /\ b = PrefixTotal(r, k - 1) /\ c = q[k] /\ d = r[k] /\ a <= b /\ c <= d
    BY <1>1, <2>1, PrefixTotals
  <2>3. PrefixTotal(q, k) = a + c /\ PrefixTotal(r, k) = b + d
    BY <1>1, <2>2, PrefixTotals
  <2>4. a + c <= b + d
    BY <2>2, SMTT(20)
  <2> QED
    BY <2>1, <2>3, <2>4 DEF S
<1>6. \A k \in 0..n : k \in S
  <2> HIDE DEF S
  <2> QED
    BY <1>4, <1>5, IntervalInduction
<1>7. n \in S
  <2>1. n \in 0..n
    OBVIOUS
  <2> HIDE DEF S
  <2> QED
    BY <1>6, <2>1
<1> QED
  BY <1>1, <1>7, PrefixTotals

\* What is gained less what is lost is the net profit.
LEMMA GainLessLoss ==
  ASSUME NEW q \in Seq(Int)
  PROVE  Gain(q) \in Nat /\ Loss(q) \in Nat /\ Total(q) = Gain(q) - Loss(q)
<1>1. PICK n \in Nat : n = Len(q) /\ DOMAIN q = 1..n /\ \A k \in 1..n : q[k] \in Int
  OBVIOUS
<1>2. PICK up \in Seq(Int), down \in Seq(Int) :
        /\ Len(up) = n /\ Len(down) = n /\ Gain(q) = Total(up) /\ Loss(q) = Total(down)
        /\ \A k \in 1..n : up[k] = Larger(0, q[k]) /\ down[k] = Larger(0, -q[k])
  <2>1. /\ [k \in 1..n |-> Larger(0, q[k])] \in Seq(Int)
        /\ Len([k \in 1..n |-> Larger(0, q[k])]) = n
    BY <1>1, LargerType
  <2>2. /\ [k \in 1..n |-> Larger(0, -q[k])] \in Seq(Int)
        /\ Len([k \in 1..n |-> Larger(0, -q[k])]) = n
    BY <1>1, LargerType
  <2> QED
    BY <1>1, <2>1, <2>2 DEF Gain, Loss
<1>3. ASSUME NEW p \in Int
      PROVE  Larger(0, p) \in Nat /\ Larger(0, -p) \in Nat /\ p = Larger(0, p) - Larger(0, -p)
  BY DEF Larger
<1> DEFINE S == {k \in 0..n : /\ PrefixTotal(up, k) >= 0 /\ PrefixTotal(down, k) >= 0
                              /\ PrefixTotal(q, k) = PrefixTotal(up, k) - PrefixTotal(down, k)}
<1>6. 0 \in S
  BY <1>2, PrefixTotals
<1>7. ASSUME NEW k \in 1..n, k - 1 \in S PROVE k \in S
  <2>1. /\ k \in 0..n /\ k - 1 \in 0..n /\ PrefixTotal(up, k - 1) >= 0 /\ PrefixTotal(down, k - 1) >= 0
        /\ PrefixTotal(q, k - 1) = PrefixTotal(up, k - 1) - PrefixTotal(down, k - 1)
    BY <1>7
  <2> HIDE DEF S
  <2>2. PICK b \in Nat, c \in Nat : b = PrefixTotal(up, k - 1) /\ c = PrefixTotal(down, k - 1)
    <3>1. k - 1 \in 0..Len(up) /\ k - 1 \in 0..Len(down)
      BY <1>2, <2>1
    <3>2. PrefixTotal(up, k - 1) \in Int /\ PrefixTotal(down, k - 1) \in Int
      BY <3>1, PrefixTotals
    <3> QED
      BY <2>1, <3>2
  <2>3. PICK p \in Int, u \in Nat, v \in Nat : p = q[k] /\ u = up[k] /\ v = down[k] /\ p = u - v
    <3>1. q[k] \in Int
      BY <1>1
    <3>2. /\ Larger(0, q[k]) \in Nat /\ Larger(0, -q[k]) \in Nat
          /\ q[k] = Larger(0, q[k]) - Larger(0, -q[k])
      BY <1>3, <3>1
    <3> QED
      BY <1>2, <3>1, <3>2
  <2>4. /\ PrefixTotal(q, k) = (b - c) + p /\ PrefixTotal(up, k) = b + u /\ PrefixTotal(down, k) = c + v
    <3>1. k \in 1..Len(q) /\ k \in 1..Len(up) /\ k \in 1..Len(down)
      BY <1>1, <1>2
    <3>2. /\ PrefixTotal(q, k) = PrefixTotal(q, k - 1) + q[k]
          /\ PrefixTotal(up, k) = PrefixTotal(up, k - 1) + up[k]
          /\ PrefixTotal(down, k) = PrefixTotal(down, k - 1) + down[k]
      BY <3>1, PrefixTotals
    <3> QED
      BY <2>1, <2>2, <2>3, <3>2
  <2>5. b + u >= 0 /\ c + v >= 0 /\ (b - c) + p = (b + u) - (c + v)
    <3>1. b \in Nat /\ c \in Nat /\ u \in Nat /\ v \in Nat /\ p = u - v
      BY <2>2, <2>3
    <3> QED
      BY <3>1
  <2> QED
    BY <2>1, <2>4, <2>5 DEF S
<1>8. \A k \in 0..n : k \in S
  <2> HIDE DEF S
  <2> QED
    BY <1>6, <1>7, IntervalInduction
<1>9. n \in S
  <2>1. n \in 0..n
    OBVIOUS
  <2> HIDE DEF S
  <2> QED
    BY <1>8, <2>1
<1>10. /\ PrefixTotal(up, n) = Total(up) /\ PrefixTotal(down, n) = Total(down) /\ PrefixTotal(q, n) = Total(q)
       /\ Total(up) \in Int /\ Total(down) \in Int
  BY <1>1, <1>2, PrefixTotals
<1> QED
  BY <1>2, <1>9, <1>10

\* A fall deeper than its peak stays the deepest of its kind, and a point below
\* zero is one.
LEMMA DeeperThanPeak ==
  ASSUME NEW v \in Peaks, NEW x \in Int, v.worst[2] > 0, v.peak > 0 \/ x > 0
  PROVE  LET so == PeakStep(v, x) IN
         /\ so.peak > 0 /\ so.worst[2] > 0
         /\ v.worst[1] > v.worst[2] \/ x < 0 => so.worst[1] > so.worst[2]
<1>1. PICK before \in Nat, a \in Int, b \in Nat \ {0} : before = v.peak /\ v.worst = <<a, b>>
  <2>1. v.peak \in Nat /\ v.worst \in Int \X Nat
    BY DEF Peaks
  <2>2. v.worst = <<v.worst[1], v.worst[2]>> /\ v.worst[1] \in Int /\ v.worst[2] \in Nat \ {0}
    BY <2>1
  <2> QED
    BY <2>1, <2>2
<1>2. PICK peak \in Nat \ {0} : peak = Larger(before, x) /\ peak >= x
  <2>1. Larger(before, x) \in Nat \ {0} /\ Larger(before, x) >= x
    BY <1>1 DEF Larger
  <2> QED
    BY <2>1
<1>3. PICK f \in Int : f = peak - x
  BY <1>2
<1>4. PICK c, d : <<c, d>> = IF f * b > a * peak THEN <<f, peak>> ELSE <<a, b>>
  BY Zenon
<1>5. PeakStep(v, x) = [peak |-> peak, worst |-> <<c, d>>]
  <2>1. Exceeds(<<f, peak>>, <<a, b>>) <=> f * b > a * peak
    BY DEF Exceeds
  <2>2. (IF Exceeds(<<f, peak>>, <<a, b>>) THEN <<f, peak>> ELSE <<a, b>>) = <<c, d>>
    BY <1>4, <2>1
  <2> QED
    BY <1>1, <1>2, <1>3, <2>2 DEF PeakStep
<1>6. /\ f * b > a * peak => c = f /\ d = peak
      /\ ~(f * b > a * peak) => c = a /\ d = b
  BY <1>4
<1>7. d > 0
  BY <1>1, <1>2, <1>6
<1>8. ASSUME a > b PROVE c > d
  <2>1. CASE f * b > a * peak
    <3>1. f > peak
      <4> SUFFICES ASSUME f <= peak PROVE FALSE
        OBVIOUS
      <4>1. f * b <= peak * b /\ b * peak <= a * peak
        BY <1>8, ProductOrder
      <4>2. /\ peak * b = b * peak /\ f * b \in Int /\ b * peak \in Int /\ a * peak \in Int
        OBVIOUS
      <4> QED
        BY <2>1, <4>1, <4>2
    <3> QED
      BY <1>6, <2>1, <3>1
  <2> QED
    BY <1>6, <1>8, <2>1
<1>9. ASSUME x < 0 PROVE c > d
  <2>1. f > peak
    BY <1>3, <1>9
  <2>2. CASE ~(f * b > a * peak)
    <3>1. a > b
      <4> SUFFICES ASSUME a <= b PROVE FALSE
        OBVIOUS
      <4>1. a * peak <= b * peak /\ (peak + 1) * b <= f * b
        BY <2>1, ProductOrder
      <4>2. /\ (peak + 1) * b = b * peak + b /\ b * peak \in Int
            /\ a * peak \in Int /\ f * b \in Int
        OBVIOUS
      <4> QED
        BY <2>2, <4>1, <4>2
    <3> QED
      BY <1>6, <2>2, <3>1
  <2> QED
    BY <1>6, <2>1, <2>2
<1>10. PICK so : so = PeakStep(v, x)
  OBVIOUS
<1>11. so.peak = peak /\ so.worst[1] = c /\ so.worst[2] = d
  BY <1>5, <1>10
<1> QED
  BY <1>1, <1>2, <1>7, <1>8, <1>9, <1>10, <1>11

\* An equity that has gone below zero has fallen by more than its peak.
LEMMA DrawdownPastZero ==
  ASSUME NEW e \in Seq(Int), Len(e) > 0, e[1] > 0, NEW m \in 1..Len(e), e[m] < 0
  PROVE  Drawdown(e)[1] > Drawdown(e)[2]
<1>1. PICK n \in Nat : n = Len(e) /\ n > 0 /\ \A k \in 1..n : e[k] \in Int
  OBVIOUS
<1>2. PICK h \in [0..n -> Peaks] :
        /\ h[0] = [peak |-> 0, worst |-> <<0, 1>>] /\ Drawdown(e) = h[n].worst
        /\ \A k \in 1..n : h[k] = PeakStep(h[k - 1], e[k])
  BY <1>1, DrawdownRun
<1> DEFINE Past(k) == /\ k > 0 => h[k].peak > 0
                      /\ h[k].worst[2] > 0
                      /\ m <= k => h[k].worst[1] > h[k].worst[2]
           S == {k \in 0..n : Past(k)}
<1>4. 0 \in S
  <2>1. h[0].worst = <<0, 1>> /\ ~(m <= 0)
    BY <1>2
  <2> QED
    BY <2>1
<1>5. ASSUME NEW k \in 1..n, k - 1 \in S PROVE k \in S
  <2>1. Past(k - 1) /\ k - 1 \in 0..n /\ k \in 0..n
    BY <1>5
  <2> HIDE DEF S
  <2>2. PICK v \in Peaks, x \in Int : v = h[k - 1] /\ x = e[k]
    <3>1. h[k - 1] \in Peaks
      BY <2>1
    <3>2. e[k] \in Int
      BY <1>1
    <3> QED
      BY <3>1, <3>2
  <2>3. h[k] = PeakStep(v, x)
    BY <1>2, <2>2
  <2>4. v.worst[2] > 0 /\ (v.peak > 0 \/ x > 0)
    <3>1. k = 1 \/ k - 1 > 0
      OBVIOUS
    <3> QED
      BY <2>1, <2>2, <3>1
  <2>5. /\ h[k].peak > 0 /\ h[k].worst[2] > 0
        /\ v.worst[1] > v.worst[2] \/ x < 0 => h[k].worst[1] > h[k].worst[2]
    BY <2>3, <2>4, DeeperThanPeak
  <2>6. m <= k => m <= k - 1 \/ m = k
    OBVIOUS
  <2>7. m <= k => h[k].worst[1] > h[k].worst[2]
    BY <2>1, <2>2, <2>5, <2>6
  <2> QED
    BY <2>1, <2>5, <2>7 DEF S
<1>6. \A k \in 0..n : k \in S
  <2> HIDE DEF S
  <2> QED
    BY <1>4, <1>5, IntervalInduction
<1>7. Past(n)
  <2>1. n \in 0..n
    OBVIOUS
  <2> QED
    BY <1>6, <2>1
<1> QED
  BY <1>1, <1>2, <1>7

-----------------------------------------------------------------------------
(* Payouts                                                                 *)

\* The simulated results at a payout.
Paid(won, payout) == [k \in DOMAIN won |-> IF won[k] THEN payout ELSE -1000]

\* They are numbers, as many as there are trades.
LEMMA PaidType ==
  ASSUME NEW won \in Seq(BOOLEAN), NEW payout \in Nat
  PROVE  /\ Paid(won, payout) \in Seq(Int) /\ Len(Paid(won, payout)) = Len(won)
         /\ \A k \in 1..Len(won) : Paid(won, payout)[k] = IF won[k] THEN payout ELSE -1000
<1>1. PICK n \in Nat : n = Len(won) /\ DOMAIN won = 1..n
  OBVIOUS
<1>2. /\ [k \in 1..n |-> IF won[k] THEN payout ELSE -1000] \in Seq(Int)
      /\ Len([k \in 1..n |-> IF won[k] THEN payout ELSE -1000]) = n
  OBVIOUS
<1> QED
  BY <1>1, <1>2 DEF Paid

\* A higher payout gains no less and loses the same.
LEMMA GainHelped ==
  ASSUME NEW won \in Seq(BOOLEAN), NEW a \in Nat, NEW b \in Nat, a <= b
  PROVE  Gain(Paid(won, a)) <= Gain(Paid(won, b)) /\ Loss(Paid(won, a)) = Loss(Paid(won, b))
<1>1. PICK n \in Nat : n = Len(won) /\ DOMAIN won = 1..n
  OBVIOUS
<1>2. PICK q \in Seq(Int), r \in Seq(Int) :
        /\ q = Paid(won, a) /\ r = Paid(won, b) /\ Len(q) = n /\ Len(r) = n
        /\ \A k \in 1..n : q[k] = (IF won[k] THEN a ELSE -1000) /\ r[k] = (IF won[k] THEN b ELSE -1000)
  BY <1>1, PaidType
<1>3. ASSUME NEW k \in 1..n
      PROVE  /\ Larger(0, q[k]) \in Int /\ Larger(0, r[k]) \in Int
             /\ Larger(0, q[k]) <= Larger(0, r[k]) /\ Larger(0, -q[k]) = Larger(0, -r[k])
  <2>1. CASE won[k]
    <3>1. q[k] = a /\ r[k] = b
      BY <1>2, <2>1
    <3> QED
      BY <3>1 DEF Larger
  <2>2. CASE ~won[k]
    <3>1. q[k] = -1000 /\ r[k] = -1000
      BY <1>2, <2>2
    <3> QED
      BY <3>1 DEF Larger
  <2> QED
    BY <2>1, <2>2
<1>4. DOMAIN q = 1..n /\ DOMAIN r = 1..n
  BY <1>2
<1>5. Loss(q) = Loss(r)
  <2>1. [k \in 1..n |-> Larger(0, -q[k])] = [k \in 1..n |-> Larger(0, -r[k])]
    BY <1>3
  <2> QED
    BY <1>4, <2>1 DEF Loss
<1>6. Gain(q) <= Gain(r)
  <2>1. PICK u \in Seq(Int), v \in Seq(Int) :
          /\ u = [k \in 1..n |-> Larger(0, q[k])] /\ v = [k \in 1..n |-> Larger(0, r[k])]
          /\ Len(u) = n /\ Len(v) = n
    <3>1. /\ [k \in 1..n |-> Larger(0, q[k])] \in Seq(Int) /\ Len([k \in 1..n |-> Larger(0, q[k])]) = n
      BY <1>3
    <3>2. /\ [k \in 1..n |-> Larger(0, r[k])] \in Seq(Int) /\ Len([k \in 1..n |-> Larger(0, r[k])]) = n
      BY <1>3
    <3> QED
      BY <3>1, <3>2
  <2>2. \A k \in 1..n : u[k] <= v[k]
    BY <1>3, <2>1
  <2>3. Total(u) <= Total(v)
    BY <2>1, <2>2, TotalMonotone
  <2> QED
    BY <1>4, <2>1, <2>3 DEF Gain
<1> QED
  BY <1>2, <1>5, <1>6

\* It keeps a profit factor of at least one.
LEMMA FactorHelped ==
  ASSUME NEW won \in Seq(BOOLEAN), NEW a \in Nat, NEW b \in Nat, a <= b,
         ProfitFactor(Paid(won, a))[1] >= ProfitFactor(Paid(won, a))[2]
  PROVE  ProfitFactor(Paid(won, b))[1] >= ProfitFactor(Paid(won, b))[2]
<1>1. PICK q \in Seq(Int), r \in Seq(Int) : q = Paid(won, a) /\ r = Paid(won, b)
  BY PaidType
<1>2. PICK up \in Nat, more \in Nat, down \in Nat :
        /\ up = Gain(q) /\ more = Gain(r) /\ down = Loss(q) /\ down = Loss(r) /\ up <= more
  <2>1. Gain(q) \in Nat /\ Gain(r) \in Nat /\ Loss(q) \in Nat
    BY GainLessLoss
  <2> QED
    BY <1>1, <2>1, GainHelped
<1>3. CASE down = 0
  <2>1. ProfitFactor(q) = (IF up > 0 THEN <<1, 0>> ELSE <<0, 1>>)
    BY <1>2, <1>3 DEF ProfitFactor
  <2>2. up > 0
    BY <1>1, <2>1
  <2>3. ProfitFactor(r) = <<1, 0>>
    BY <1>2, <1>3, <2>2 DEF ProfitFactor
  <2> QED
    BY <1>1, <2>3
<1>4. CASE down # 0
  <2>1. ProfitFactor(q) = <<up, down>> /\ ProfitFactor(r) = <<more, down>>
    BY <1>2, <1>4 DEF ProfitFactor
  <2>2. up >= down
    BY <1>1, <2>1
  <2> QED
    BY <1>1, <1>2, <2>1, <2>2
<1> QED
  BY <1>3, <1>4

\* The simulated equity moves by the results.
LEMMA EquityOf ==
  ASSUME NEW q \in Seq(Int)
  PROVE  /\ SimulatedEquity(q) \in Seq(Int) /\ Len(SimulatedEquity(q)) = Len(q)
         /\ \A k \in 1..Len(q) : SimulatedEquity(q)[k] = 100000 + PrefixTotal(q, k)
<1>1. PICK n \in Nat : n = Len(q) /\ DOMAIN q = 1..n
  OBVIOUS
<1>2. \A k \in 1..n : PrefixTotal(q, k) \in Int
  BY <1>1, PrefixTotals
<1>3. SimulatedEquity(q) = [k \in 1..n |-> 100000 + PrefixTotal(q, k)]
  BY <1>1 DEF SimulatedEquity, PrefixTotal
<1>4. /\ [k \in 1..n |-> 100000 + PrefixTotal(q, k)] \in Seq(Int)
      /\ Len([k \in 1..n |-> 100000 + PrefixTotal(q, k)]) = n
  BY <1>2
<1> QED
  BY <1>1, <1>3, <1>4

\* With more of every result their sum is ahead, by more and more.
LEMMA AheadByMore ==
  ASSUME NEW q \in Seq(Int), NEW r \in Seq(Int), Len(q) = Len(r),
         \A k \in 1..Len(q) : q[k] <= r[k], NEW j \in 0..Len(q), NEW k \in j..Len(q)
  PROVE  /\ PrefixTotal(q, j) <= PrefixTotal(r, j)
         /\ PrefixTotal(r, j) - PrefixTotal(q, j) <= PrefixTotal(r, k) - PrefixTotal(q, k)
<1>1. PICK n \in Nat : n = Len(q) /\ n = Len(r) /\ \A i \in 1..n : q[i] \in Int /\ r[i] \in Int
  <2>1. Len(q) \in Nat
    OBVIOUS
  <2>2. \A i \in 1..Len(q) : q[i] \in Int
    OBVIOUS
  <2>3. \A i \in 1..Len(r) : r[i] \in Int
    OBVIOUS
  <2> QED
    BY <2>1, <2>2, <2>3
<1>2. ASSUME NEW i \in 0..n PROVE PrefixTotal(q, i) \in Int /\ PrefixTotal(r, i) \in Int
  BY <1>1, PrefixTotals
<1> DEFINE Less(i) == /\ PrefixTotal(q, i) <= PrefixTotal(r, i)
                      /\ \A l \in 0..i : PrefixTotal(r, l) - PrefixTotal(q, l) <= PrefixTotal(r, i) - PrefixTotal(q, i)
           S == {i \in 0..n : Less(i)}
<1>3. 0 \in S
  <2>1. PrefixTotal(q, 0) = 0 /\ PrefixTotal(r, 0) = 0
    BY PrefixTotals
  <2>2. 0 \in 0..n /\ \A l \in 0..0 : l = 0
    OBVIOUS
  <2> QED
    BY <2>1, <2>2
<1>4. ASSUME NEW i \in 1..n, i - 1 \in S PROVE i \in S
  <2>1. Less(i - 1) /\ i \in 0..n /\ i - 1 \in 0..n
    BY <1>4
  <2> HIDE DEF S
  <2>2. PICK x \in Int, y \in Int, c \in Int, d \in Int :
          x = PrefixTotal(q, i - 1) /\ y = PrefixTotal(r, i - 1) /\ c = q[i] /\ d = r[i]
    <3>1. PrefixTotal(q, i - 1) \in Int /\ PrefixTotal(r, i - 1) \in Int
      BY <1>2, <2>1
    <3>2. q[i] \in Int /\ r[i] \in Int
      BY <1>1
    <3> QED
      BY <3>1, <3>2
  <2>3. PrefixTotal(q, i) = x + c /\ PrefixTotal(r, i) = y + d /\ c <= d /\ x <= y
    BY <1>1, <2>1, <2>2, PrefixTotals
  <2>4. x + c <= y + d /\ y - x <= (y + d) - (x + c)
    BY <2>3
  <2>5. ASSUME NEW l \in 0..i
        PROVE  PrefixTotal(r, l) - PrefixTotal(q, l) <= (y + d) - (x + c)
    <3>1. CASE l = i
      BY <2>3, <3>1
    <3>2. CASE l \in 0..(i - 1)
      <4>1. PICK u \in Int, v \in Int : u = PrefixTotal(q, l) /\ v = PrefixTotal(r, l)
        <5>1. l \in 0..n
          BY <3>2
        <5> QED
          BY <1>2, <5>1
      <4>2. v - u <= y - x
        BY <2>1, <2>2, <3>2, <4>1
      <4> QED
        BY <2>4, <4>1, <4>2
    <3> QED
      BY <3>1, <3>2
  <2> QED
    BY <2>1, <2>3, <2>4, <2>5 DEF S
<1>5. \A i \in 0..n : i \in S
  <2> HIDE DEF S
  <2> QED
    BY <1>3, <1>4, IntervalInduction
<1>6. Less(j) /\ Less(k) /\ j \in 0..k
  <2>1. j \in 0..n /\ k \in 0..n /\ j \in 0..k
    BY <1>1
  <2> QED
    BY <1>5, <2>1
<1> QED
  BY <1>6

\* A drawdown within a limit, both in parts of a unit.
Within(ratio, limit, unit) == unit * ratio[1] <= limit * ratio[2]

\* A drawdown within a limit of at most one is at most one.
LEMMA AtMostOne ==
  ASSUME NEW unit \in Nat \ {0}, NEW limit \in Nat, limit <= unit,
         NEW c \in Nat, NEW d \in Nat \ {0}, Within(<<c, d>>, limit, unit)
  PROVE  c <= d
<1>1. PICK x \in Int, y \in Int, z \in Int : x = c * unit /\ y = limit * d /\ z = d * unit
  OBVIOUS
<1>2. x <= y
  BY <1>1 DEF Within
<1>3. y <= z
  <2>1. limit * d <= unit * d
    BY ProductOrder
  <2> QED
    BY <1>1, <2>1
<1> SUFFICES ASSUME d + 1 <= c PROVE FALSE
  OBVIOUS
<1>4. (d + 1) * unit <= c * unit
  BY ProductOrder
<1>5. (d + 1) * unit = z + unit
  BY <1>1
<1> QED
  BY <1>1, <1>2, <1>3, <1>4, <1>5

\* A fall that is not deeper than a drawdown within a limit is within it.
LEMMA FallWithin ==
  ASSUME NEW unit \in Nat \ {0}, NEW limit \in Nat, NEW c \in Nat, NEW d \in Nat \ {0},
         NEW u \in Nat \ {0}, NEW v \in Int, Within(<<c, d>>, limit, unit),
         ~Exceeds(<<u - v, u>>, <<c, d>>)
  PROVE  Within(<<u - v, u>>, limit, unit)
<1>1. PICK w \in Int : w = u - v
  OBVIOUS
<1>2. w * d <= c * u
  <2>1. w * d \in Int /\ c * u \in Int
    OBVIOUS
  <2> QED
    BY <1>1, <2>1 DEF Exceeds
<1>3. c * unit <= limit * d
  BY DEF Within
<1>4. w * unit <= limit * u
  BY <1>2, <1>3, RatioTransitive
<1> QED
  BY <1>1, <1>4 DEF Within

\* A fall all the way is within no limit below one.
LEMMA WholeFall ==
  ASSUME NEW unit \in Nat \ {0}, NEW limit \in Nat, limit <= unit, NEW p \in Nat \ {0},
         Within(<<p, p>>, limit, unit)
  PROVE  limit = unit
<1>1. unit * p <= limit * p
  BY DEF Within
<1> SUFFICES ASSUME limit + 1 <= unit PROVE FALSE
  OBVIOUS
<1>2. (limit + 1) * p <= unit * p
  BY ProductOrder
<1>3. (limit + 1) * p = limit * p + p /\ limit * p \in Int /\ unit * p \in Int
  OBVIOUS
<1> QED
  BY <1>1, <1>2, <1>3

\* What is added where an equity falls from, and no less where it falls to.
LEMMA AddedTo ==
  ASSUME NEW u \in Nat, NEW v \in Nat, NEW s \in Int, NEW t \in Int, u <= s, s - u <= t - v
  PROVE  \E x, y \in Nat : s = u + x /\ t = v + y /\ x <= y
<1>1. s - u \in Nat /\ t - v \in Nat /\ s = u + (s - u) /\ t = v + (t - v)
  OBVIOUS
<1> QED
  BY <1>1

\* Such a fall stays within the limit.
LEMMA FallHelped ==
  ASSUME NEW unit \in Nat \ {0}, NEW limit \in Nat, limit <= unit,
         NEW u \in Nat, NEW v \in Nat, NEW s \in Int, NEW t \in Int, u <= s, s - u <= t - v,
         u > 0 => Within(<<u - v, u>>, limit, unit), u = 0 => limit = unit
  PROVE  Within(<<s - t, s>>, limit, unit)
<1>0. PICK x \in Nat, y \in Nat : s = u + x /\ t = v + y /\ x <= y
  BY AddedTo
<1>1. PICK w \in Int, z \in Int : w = u - v /\ z = s - t /\ z <= w /\ z <= u + x
  BY <1>0
<1>2. CASE u > 0
  <2>1. z * unit <= w * unit /\ u * limit <= (u + x) * limit
    BY <1>0, <1>1, ProductOrder
  <2>2. unit * w <= limit * u
    BY <1>1, <1>2 DEF Within
  <2>3. PICK a \in Int, b \in Int, c \in Int, d \in Int :
          a = unit * z /\ b = unit * w /\ c = limit * u /\ d = limit * (u + x)
    BY <1>0, <1>1
  <2>4. a <= b /\ c <= d
    BY <1>0, <1>1, <2>1, <2>3
  <2>5. a <= d
    BY <2>2, <2>3, <2>4
  <2> QED
    BY <1>0, <1>1, <2>3, <2>5 DEF Within
<1>3. CASE u = 0
  <2>1. z * unit <= (u + x) * unit
    BY <1>0, <1>1, ProductOrder
  <2>2. unit * z <= unit * (u + x)
    BY <1>0, <1>1, <2>1
  <2> QED
    BY <1>0, <1>1, <1>3, <2>2 DEF Within
<1> QED
  BY <1>2, <1>3

\* An equity ahead of another by more and more keeps its drawdown within a
\* limit of at most one.
LEMMA DrawdownHelped ==
  ASSUME NEW n \in Nat \ {0}, NEW e \in Seq(Int), NEW g \in Seq(Int), Len(e) = n, Len(g) = n,
         e[1] > 0, g[1] > 0,
         \A j, k \in 1..n : j <= k => e[j] <= g[j] /\ g[j] - e[j] <= g[k] - e[k],
         NEW unit \in Nat \ {0}, NEW limit \in Nat, limit <= unit,
         Within(Drawdown(e), limit, unit)
  PROVE  Within(Drawdown(g), limit, unit)
<1>1. 1 \in 1..n /\ Len(e) > 0 /\ Len(g) > 0
  OBVIOUS
<1>2. PICK c \in Nat, d \in Nat \ {0} : Drawdown(e) = <<c, d>>
  <2>1. Drawdown(e) \in Nat \X (Nat \ {0})
    BY <1>1, DrawdownIsDeepest
  <2> QED
    BY <2>1
<1>3. c <= d
  BY <1>2, AtMostOne
<1>4. ASSUME NEW k \in 1..n PROVE e[k] \in Nat
  <2>1. e[k] \in Int
    OBVIOUS
  <2>2. k \in 1..Len(e)
    OBVIOUS
  <2>3. ~(Drawdown(e)[1] > Drawdown(e)[2])
    BY <1>2, <1>3
  <2>4. ~(e[k] < 0)
    BY <1>1, <2>2, <2>3, DrawdownPastZero
  <2> QED
    BY <2>1, <2>4
<1>5. ASSUME NEW j \in 1..n, NEW k \in 1..n, j <= k, e[j] > 0
      PROVE  Within(<<e[j] - e[k], e[j]>>, limit, unit)
  <2>1. PICK u \in Nat \ {0}, v \in Nat : u = e[j] /\ v = e[k]
    <3>1. e[j] \in Nat /\ e[k] \in Nat
      BY <1>4
    <3> QED
      BY <1>5, <3>1
  <2>2. ~Exceeds(<<e[j] - e[k], e[j]>>, Drawdown(e))
    <3>1. e[k] >= 0
      BY <2>1
    <3> QED
      BY <1>1, <1>5, <3>1, DrawdownIsDeepest
  <2>3. ~Exceeds(<<u - v, u>>, <<c, d>>)
    BY <1>2, <2>1, <2>2
  <2>4. Within(<<u - v, u>>, limit, unit)
    <3>1. Within(<<c, d>>, limit, unit)
      BY <1>2
    <3>2. c \in Nat /\ d \in Nat \ {0} /\ u \in Nat \ {0} /\ v \in Int
      BY <1>2, <2>1
    <3> HIDE <1>2, <2>1
    <3> QED
      BY <2>3, <3>1, <3>2, FallWithin
  <2> QED
    BY <2>1, <2>4
<1>6. ASSUME NEW j \in 1..n, NEW k \in 1..n, j <= k
      PROVE  Within(<<g[j] - g[k], g[j]>>, limit, unit)
  <2>1. PICK u \in Nat, v \in Nat, s \in Int, t \in Int : u = e[j] /\ v = e[k] /\ s = g[j] /\ t = g[k]
    <3>1. e[j] \in Nat /\ e[k] \in Nat
      BY <1>4
    <3>2. g[j] \in Int /\ g[k] \in Int
      OBVIOUS
    <3> QED
      BY <3>1, <3>2
  <2>2. u <= s /\ s - u <= t - v
    BY <1>6, <2>1
  <2>3. u > 0 => Within(<<u - v, u>>, limit, unit)
    BY <1>5, <1>6, <2>1
  <2>4. ASSUME u = 0 PROVE limit = unit
    <3>1. PICK p \in Nat \ {0} : p = e[1]
      BY <1>1, <1>4
    <3>2. Within(<<e[1] - e[j], e[1]>>, limit, unit)
      <4>1. 1 <= j
        OBVIOUS
      <4> QED
        BY <1>1, <1>5, <4>1
    <3>3. p - u = p
      BY <2>4, <3>1
    <3>4. Within(<<p, p>>, limit, unit)
      BY <2>1, <3>1, <3>2, <3>3
    <3> QED
      BY <3>1, <3>4, WholeFall
  <2>5. Within(<<s - t, s>>, limit, unit)
    BY <2>1, <2>2, <2>3, <2>4, FallHelped
  <2> QED
    BY <2>1, <2>5
<1>7. \/ Drawdown(g) = <<0, 1>>
      \/ \E j, k \in 1..n : j <= k /\ Drawdown(g) = <<g[j] - g[k], g[j]>>
  BY <1>1, DrawdownIsDeepest
<1>8. CASE Drawdown(g) = <<0, 1>>
  BY <1>8 DEF Within
<1>9. CASE \E j, k \in 1..n : j <= k /\ Drawdown(g) = <<g[j] - g[k], g[j]>>
  BY <1>6, <1>9
<1> QED
  BY <1>7, <1>8, <1>9

\* It starts above zero.
LEMMA EquityStarts ==
  ASSUME NEW q \in Seq(Int), Len(q) > 0, q[1] >= -1000
  PROVE  SimulatedEquity(q)[1] > 0
<1>1. 1 \in 1..Len(q) /\ 1 - 1 = 0
  OBVIOUS
<1>2. q[1] \in Int
  BY <1>1
<1>3. PrefixTotal(q, 1) = 0 + q[1]
  BY <1>1, PrefixTotals, SMT
<1>4. SimulatedEquity(q)[1] = 100000 + PrefixTotal(q, 1)
  BY <1>1, EquityOf, SMT
<1> QED
  BY <1>2, <1>3, <1>4, SMT

\* What is ahead stays ahead from a common start.
LEMMA SameStart ==
  ASSUME NEW start \in Int, NEW s \in Int, NEW t \in Int, NEW y \in Int, NEW z \in Int,
         s <= t, t - s <= z - y
  PROVE  start + s <= start + t /\ (start + t) - (start + s) <= (start + z) - (start + y)
OBVIOUS

\* Every simulated equity starts from the same amount.
LEMMA CommonStart ==
  \E start \in Int : \A q \in Seq(Int) : \A k \in 1..Len(q) :
    SimulatedEquity(q)[k] = start + PrefixTotal(q, k)
<1>1. PICK start \in Int : start = 100000
  OBVIOUS
<1>2. \A q \in Seq(Int) : \A k \in 1..Len(q) : SimulatedEquity(q)[k] = start + PrefixTotal(q, k)
  BY <1>1, EquityOf, SMT
<1> HIDE <1>1
<1> QED
  BY <1>2

\* With more of every result the equity is ahead, by more and more.
LEMMA EquityAhead ==
  ASSUME NEW q \in Seq(Int), NEW r \in Seq(Int), Len(q) = Len(r),
         \A k \in 1..Len(q) : q[k] <= r[k], NEW j \in 1..Len(q), NEW k \in 1..Len(q), j <= k
  PROVE  LET e == SimulatedEquity(q)
             g == SimulatedEquity(r) IN
         e[j] <= g[j] /\ g[j] - e[j] <= g[k] - e[k]
<1>1. j \in 0..Len(q) /\ k \in 0..Len(q) /\ k \in j..Len(q)
  OBVIOUS
<1>2. /\ PrefixTotal(q, j) <= PrefixTotal(r, j)
      /\ PrefixTotal(r, j) - PrefixTotal(q, j) <= PrefixTotal(r, k) - PrefixTotal(q, k)
  BY <1>1, AheadByMore, SMT
<1>3. /\ PrefixTotal(q, j) \in Int /\ PrefixTotal(q, k) \in Int
      /\ PrefixTotal(r, j) \in Int /\ PrefixTotal(r, k) \in Int
  <2>1. PrefixTotal(q, j) \in Int /\ PrefixTotal(q, k) \in Int
    BY <1>1, PrefixTotals, SMT
  <2>2. j \in 0..Len(r) /\ k \in 0..Len(r)
    BY <1>1
  <2>3. PrefixTotal(r, j) \in Int /\ PrefixTotal(r, k) \in Int
    BY <2>2, PrefixTotals, SMT
  <2> QED
    BY <2>1, <2>3
<1>4. PICK start \in Int : \A p \in Seq(Int) : \A i \in 1..Len(p) :
        SimulatedEquity(p)[i] = start + PrefixTotal(p, i)
  BY CommonStart
<1>5. PICK s \in Int, t \in Int, y \in Int, z \in Int :
        /\ s = PrefixTotal(q, j) /\ t = PrefixTotal(r, j) /\ s <= t
        /\ y = PrefixTotal(q, k) /\ z = PrefixTotal(r, k) /\ t - s <= z - y
  BY <1>2, <1>3
<1>6. /\ SimulatedEquity(q)[j] = start + s /\ SimulatedEquity(q)[k] = start + y
      /\ SimulatedEquity(r)[j] = start + t /\ SimulatedEquity(r)[k] = start + z
  BY <1>4, <1>5
<1>7. start + s <= start + t /\ (start + t) - (start + s) <= (start + z) - (start + y)
  BY <1>4, <1>5, SameStart
<1> QED
  BY <1>6, <1>7

\* Results that are no worse keep the drawdown within the limit.
LEMMA BetterHelps ==
  ASSUME NEW q \in Seq(Int), NEW r \in Seq(Int), Len(q) = Len(r),
         \A k \in 1..Len(q) : q[k] >= -1000 /\ q[k] <= r[k],
         NEW unit \in Nat \ {0}, NEW limit \in Nat, limit <= unit,
         Within(Drawdown(SimulatedEquity(q)), limit, unit)
  PROVE  Within(Drawdown(SimulatedEquity(r)), limit, unit)
<1>1. PICK n \in Nat : n = Len(q) /\ n = Len(r)
  OBVIOUS
<1>2. PICK e \in Seq(Int), g \in Seq(Int) :
        e = SimulatedEquity(q) /\ g = SimulatedEquity(r) /\ Len(e) = n /\ Len(g) = n
  <2>1. SimulatedEquity(q) \in Seq(Int) /\ Len(SimulatedEquity(q)) = n
    BY <1>1, EquityOf, SMT
  <2>2. SimulatedEquity(r) \in Seq(Int) /\ Len(SimulatedEquity(r)) = n
    BY <1>1, EquityOf, SMT
  <2> QED
    BY <2>1, <2>2
<1>3. CASE n = 0
  <2>1. \E h \in [0..Len(g) -> Peaks] : h[0] = [peak |-> 0, worst |-> <<0, 1>>] /\ Drawdown(g) = h[Len(g)].worst
    BY DrawdownRun
  <2>2. Drawdown(g) = <<0, 1>>
    BY <1>2, <1>3, <2>1
  <2>3. Within(<<0, 1>>, limit, unit)
    BY DEF Within
  <2> QED
    BY <1>2, <2>2, <2>3
<1>4. CASE n > 0
  <2>1. 1 \in 1..n /\ n \in Nat \ {0}
    BY <1>4
  <2>2. q[1] >= -1000 /\ r[1] >= -1000
    <3>1. q[1] \in Int /\ r[1] \in Int /\ q[1] >= -1000 /\ q[1] <= r[1]
      BY <1>1, <2>1
    <3> QED
      BY <3>1
  <2>3. e[1] > 0 /\ g[1] > 0
    BY <1>1, <1>2, <1>4, <2>2, EquityStarts
  <2>4. \A j, k \in 1..n : j <= k => e[j] <= g[j] /\ g[j] - e[j] <= g[k] - e[k]
    BY <1>1, <1>2, EquityAhead, ZenonT(30)
  <2>5. Within(Drawdown(e), limit, unit)
    BY <1>2
  <2>6. Within(Drawdown(g), limit, unit)
    BY <1>2, <2>1, <2>3, <2>4, <2>5, DrawdownHelped
  <2> QED
    BY <1>2, <2>6
<1> QED
  BY <1>1, <1>3, <1>4

\* So does a higher payout.
LEMMA PayoutHelps ==
  ASSUME NEW won \in Seq(BOOLEAN), NEW a \in Nat, NEW b \in Nat, a <= b,
         NEW unit \in Nat \ {0}, NEW limit \in Nat, limit <= unit,
         Within(Drawdown(SimulatedEquity(Paid(won, a))), limit, unit)
  PROVE  Within(Drawdown(SimulatedEquity(Paid(won, b))), limit, unit)
<1>1. PICK q \in Seq(Int), r \in Seq(Int) :
        /\ q = Paid(won, a) /\ r = Paid(won, b) /\ Len(q) = Len(won) /\ Len(r) = Len(won)
        /\ \A k \in 1..Len(won) : q[k] = (IF won[k] THEN a ELSE -1000) /\ r[k] = (IF won[k] THEN b ELSE -1000)
  BY PaidType
<1>2. Len(q) = Len(r) /\ \A k \in 1..Len(q) : q[k] >= -1000 /\ q[k] <= r[k]
  BY <1>1, SMTT(20)
<1> QED
  BY <1>1, <1>2, BetterHelps, SMTT(20)

\* What validation simulates is what some sequence of won and lost trades pays.
LEMMA TradedResults ==
  ASSUME NEW ups, NEW labels, Len(labels) \in Nat, NEW threshold
  PROVE  \E won \in Seq(BOOLEAN) : \A payout :
           TradingMetrics(ups, labels, payout, threshold) = SimulatedMetrics(won, payout)
<1>1. PICK n \in Nat : n = Len(labels)
  OBVIOUS
<1>2. PICK h \in [0..n -> Seq(Nat)] : TradedLoopOf(ups, n, threshold, h)
  BY TradedLoop
<1>3. PICK traded \in Seq(Nat) : traded = Traded(ups, n, threshold)
  <2>1. Traded(ups, n, threshold) = h[n] /\ n \in 0..n
    BY <1>2 DEF TradedLoopOf
  <2> QED
    BY <2>1
<1>4. PICK won \in Seq(BOOLEAN) :
        won = [k \in DOMAIN traded |-> ups[traded[k]] >= threshold <=> labels[traded[k]]]
  <2>1. PICK l \in Nat : DOMAIN traded = 1..l
    BY <1>3
  <2>2. [k \in 1..l |-> ups[traded[k]] >= threshold <=> labels[traded[k]]] \in Seq(BOOLEAN)
    OBVIOUS
  <2> QED
    BY <2>1, <2>2
<1>5. ASSUME NEW payout
      PROVE  TradingMetrics(ups, labels, payout, threshold) = SimulatedMetrics(won, payout)
  BY <1>1, <1>3, <1>4, Zenon DEF TradingMetrics
<1> QED
  BY <1>5

-----------------------------------------------------------------------------
(* Reordered results                                                       *)

\* r is q without its k-th result, whose place the last one has taken.
Without(q, r, k, n) ==
  /\ Len(q) = n + 1 /\ Len(r) = n
  /\ \A i \in 1..n : r[i] = IF i = k THEN q[n + 1] ELSE q[i]

\* The total without a result is less by it.
LEMMA TotalWithout ==
  ASSUME NEW n \in Nat, NEW q \in Seq(Int), NEW r \in Seq(Int), NEW k \in 1..(n + 1), Without(q, r, k, n)
  PROVE  Total(q) = Total(r) + q[k]
<1>0. /\ Len(q) = n + 1 /\ Len(r) = n
      /\ \A i \in 1..n : r[i] = IF i = k THEN q[n + 1] ELSE q[i]
  BY DEF Without
<1>1. PICK a \in Int, b \in Int : a = q[k] /\ b = q[n + 1]
  <2>1. n + 1 \in 1..(n + 1)
    OBVIOUS
  <2>2. \A i \in 1..(n + 1) : q[i] \in Int
    BY <1>0
  <2> QED
    BY <2>1, <2>2
<1>2. ASSUME NEW i \in 0..n
      PROVE  PrefixTotal(q, i) \in Int /\ PrefixTotal(r, i) \in Int
  <2>1. i \in 0..Len(q) /\ i \in 0..Len(r)
    BY <1>0
  <2> QED
    BY <2>1, PrefixTotals
<1> DEFINE Replaced(i) == PrefixTotal(r, i) + (IF k <= i THEN a ELSE b) = PrefixTotal(q, i) + b
           S == {i \in 0..n : Replaced(i)}
<1>3. 0 \in S
  <2>1. PrefixTotal(q, 0) = 0 /\ PrefixTotal(r, 0) = 0
    BY PrefixTotals
  <2>2. 0 \in 0..n /\ ~(k <= 0)
    OBVIOUS
  <2> QED
    BY <2>1, <2>2
<1>4. ASSUME NEW i \in 1..n, i - 1 \in S PROVE i \in S
  <2>1. i \in 0..n /\ i - 1 \in 0..n /\ Replaced(i - 1)
    BY <1>4
  <2> HIDE DEF S
  <2>2. PICK x \in Int, y \in Int, c \in Int, d \in Int :
          x = PrefixTotal(q, i - 1) /\ y = PrefixTotal(r, i - 1) /\ c = q[i] /\ d = r[i]
    <3>1. i \in 1..Len(q) /\ i \in 1..Len(r)
      BY <1>0
    <3>2. q[i] \in Int /\ r[i] \in Int
      BY <3>1
    <3> QED
      BY <1>2, <2>1, <3>2
  <2>3. PrefixTotal(q, i) = x + c /\ PrefixTotal(r, i) = y + d
    <3>1. i \in 1..Len(q) /\ i \in 1..Len(r)
      BY <1>0
    <3> QED
      BY <2>2, <3>1, PrefixTotals
  <2>4. y + (IF k <= i - 1 THEN a ELSE b) = x + b
    BY <2>1, <2>2
  <2>5. CASE i < k
    <3>1. c = d
      BY <1>0, <2>2, <2>5
    <3> QED
      BY <2>1, <2>3, <2>4, <2>5, <3>1 DEF S
  <2>6. CASE i = k
    <3>1. d = b /\ c = a
      BY <1>0, <1>1, <2>2, <2>6
    <3> QED
      BY <2>1, <2>3, <2>4, <2>6, <3>1 DEF S
  <2>7. CASE k < i
    <3>1. c = d
      BY <1>0, <2>2, <2>7
    <3> QED
      BY <2>1, <2>3, <2>4, <2>7, <3>1 DEF S
  <2> QED
    BY <2>5, <2>6, <2>7
<1>5. Replaced(n)
  <2>1. \A i \in 0..n : i \in S
    <3> HIDE DEF S
    <3> QED
      BY <1>3, <1>4, IntervalInduction
  <2>2. n \in 0..n
    OBVIOUS
  <2> QED
    BY <2>1, <2>2
<1>6. PICK u \in Int, v \in Int : u = PrefixTotal(q, n) /\ v = PrefixTotal(r, n)
  BY <1>2
<1>7. Total(r) = v
  BY <1>0, <1>6, PrefixTotals
<1>8. Total(q) = u + b
  <2>1. n + 1 \in 1..Len(q) /\ (n + 1) - 1 = n
    BY <1>0
  <2>2. PrefixTotal(q, n + 1) = PrefixTotal(q, (n + 1) - 1) + q[n + 1]
    BY <2>1, PrefixTotals
  <2>3. PrefixTotal(q, Len(q)) = Total(q)
    BY PrefixTotals
  <2> QED
    BY <1>0, <1>1, <1>6, <2>1, <2>2, <2>3
<1>9. k <= n \/ (k = n + 1 /\ a = b)
  BY <1>1
<1> QED
  BY <1>1, <1>5, <1>6, <1>7, <1>8, <1>9

\* p is an order of n places.
Order(p, n) ==
  /\ p \in [1..n -> 1..n]
  /\ \A i, j \in 1..n : p[i] = p[j] => i = j
  /\ \A y \in 1..n : \E i \in 1..n : p[i] = y

\* The results in the order p.
Reordered(q, r, p, n) ==
  /\ Order(p, n) /\ Len(q) = n /\ Len(r) = n
  /\ \A i \in 1..n : r[i] = q[p[i]]

\* The order p without its last place k; the place j that had n + 1 has k now.
OrderWithout(p, k, j, n) == [i \in 1..n |-> IF i = j THEN k ELSE p[i]]

\* It is an order of the other places.
LEMMA ShorterOrder ==
  ASSUME NEW n \in Nat, NEW p, Order(p, n + 1),
         NEW k \in 1..(n + 1), k = p[n + 1], NEW j \in 1..(n + 1), p[j] = n + 1
  PROVE  /\ \A i \in 1..n : p[i] \in 1..(n + 1) /\ p[i] # k /\ (i # j => p[i] # n + 1)
         /\ Order(OrderWithout(p, k, j, n), n)
<1>1. /\ \A i \in 1..(n + 1) : p[i] \in 1..(n + 1)
      /\ \A i, l \in 1..(n + 1) : p[i] = p[l] => i = l
      /\ \A y \in 1..(n + 1) : \E i \in 1..(n + 1) : p[i] = y
  BY DEF Order
<1>2. n + 1 \in 1..(n + 1) /\ \A i \in 1..n : i \in 1..(n + 1) /\ i # n + 1
  OBVIOUS
<1>3. \A i \in 1..(n + 1) : i # n + 1 => i \in 1..n
  OBVIOUS
<1>4. ASSUME NEW i \in 1..n
      PROVE  p[i] \in 1..(n + 1) /\ p[i] # k /\ (i # j => p[i] # n + 1) /\ (i = j => k # n + 1)
  <2>1. i \in 1..(n + 1) /\ i # n + 1
    BY <1>2
  <2>2. p[i] # p[n + 1]
    BY <1>1, <1>2, <2>1
  <2>3. i # j => p[i] # p[j]
    BY <1>1, <2>1
  <2> QED
    BY <1>1, <2>1, <2>2, <2>3
<1>5. PICK o : o = [i \in 1..n |-> IF i = j THEN k ELSE p[i]]
  OBVIOUS
<1>6. ASSUME NEW i \in 1..n PROVE o[i] = (IF i = j THEN k ELSE p[i]) /\ o[i] \in 1..n
  <2>1. o[i] = (IF i = j THEN k ELSE p[i])
    BY <1>5
  <2>2. CASE i = j
    <3>1. k \in 1..n
      BY <1>3, <1>4, <2>2
    <3> QED
      BY <2>1, <2>2, <3>1
  <2>3. CASE i # j
    <3>1. p[i] \in 1..n
      BY <1>3, <1>4, <2>3
    <3> QED
      BY <2>1, <2>3, <3>1
  <2> QED
    BY <2>2, <2>3
<1>7. \A i, l \in 1..n : o[i] = o[l] => i = l
  <2>1. \A i, l \in 1..n : p[i] = p[l] => i = l
    BY <1>1, <1>2
  <2> QED
    BY <1>4, <1>6, <2>1
<1>8. ASSUME NEW y \in 1..n PROVE \E i \in 1..n : o[i] = y
  <2>1. PICK i \in 1..(n + 1) : p[i] = y
    BY <1>1, <1>2
  <2>2. CASE y = k
    <3>1. j # n + 1
      <4>1. y # n + 1
        BY <1>2
      <4> QED
        BY <2>2, <4>1
    <3>2. j \in 1..n
      BY <1>3, <3>1
    <3> QED
      BY <1>6, <2>2, <3>2
  <2>3. CASE y # k
    <3>1. i # n + 1 /\ i # j
      <4>1. y # n + 1
        BY <1>2
      <4> QED
        BY <2>1, <2>3, <4>1
    <3>2. i \in 1..n
      BY <1>3, <3>1
    <3> QED
      BY <1>6, <2>1, <3>1, <3>2
  <2> QED
    BY <2>2, <2>3
<1>9. o \in [1..n -> 1..n]
  BY <1>5, <1>6
<1>10. Order(o, n)
  BY <1>7, <1>8, <1>9 DEF Order
<1> QED
  BY <1>4, <1>5, <1>10 DEF OrderWithout

\* One result less on either side: the last place, and the one moved there.
LEMMA OnePlaceLess ==
  ASSUME NEW n \in Nat, NEW q \in Seq(Int), NEW r \in Seq(Int), NEW p,
         Reordered(q, r, p, n + 1)
  PROVE  \E s \in Seq(Int), t \in Seq(Int) :
           /\ \E o : Reordered(s, t, o, n)
           /\ Total(q) = Total(s) + r[n + 1] /\ Total(r) = Total(t) + r[n + 1]
<1>1. /\ Order(p, n + 1) /\ Len(q) = n + 1 /\ Len(r) = n + 1
      /\ \A i \in 1..(n + 1) : r[i] = q[p[i]]
  BY DEF Reordered
<1>2. n + 1 \in 1..(n + 1) /\ \A i \in 1..n : i \in 1..(n + 1) /\ i # n + 1
  OBVIOUS
<1>3. PICK k \in 1..(n + 1) : k = p[n + 1]
  BY <1>1, <1>2 DEF Order
<1>4. PICK j \in 1..(n + 1) : p[j] = n + 1
  BY <1>1, <1>2 DEF Order
<1>5. /\ \A i \in 1..(n + 1) : q[i] \in Int
      /\ \A i \in 1..(n + 1) : r[i] \in Int
  <2>1. Len(q) = n + 1 /\ Len(r) = n + 1
    BY <1>1
  <2> QED
    BY <2>1
<1>6. PICK o : o = OrderWithout(p, k, j, n)
  OBVIOUS
<1>7. /\ \A i \in 1..n : p[i] \in 1..(n + 1) /\ p[i] # k /\ (i # j => p[i] # n + 1)
      /\ Order(o, n)
  <2>1. Order(p, n + 1)
    BY <1>1
  <2>2. /\ \A i \in 1..n : p[i] \in 1..(n + 1) /\ p[i] # k /\ (i # j => p[i] # n + 1)
        /\ Order(OrderWithout(p, k, j, n), n)
    BY <1>3, <1>4, <2>1, ShorterOrder
  <2> QED
    BY <1>6, <2>2
<1>8. PICK s \in Seq(Int) : Len(s) = n /\ \A i \in 1..n : s[i] = IF i = k THEN q[n + 1] ELSE q[i]
  <2>1. /\ [i \in 1..n |-> IF i = k THEN q[n + 1] ELSE q[i]] \in Seq(Int)
        /\ Len([i \in 1..n |-> IF i = k THEN q[n + 1] ELSE q[i]]) = n
    BY <1>2, <1>5
  <2>2. PICK w : w = [i \in 1..n |-> IF i = k THEN q[n + 1] ELSE q[i]]
    OBVIOUS
  <2>3. \A i \in 1..n : w[i] = IF i = k THEN q[n + 1] ELSE q[i]
    BY <2>2
  <2> QED
    BY <2>1, <2>2, <2>3
<1>9. PICK t \in Seq(Int) : Len(t) = n /\ \A i \in 1..n : t[i] = r[i]
  <2>1. /\ [i \in 1..n |-> r[i]] \in Seq(Int) /\ Len([i \in 1..n |-> r[i]]) = n
    BY <1>2, <1>5
  <2>2. PICK w : w = [i \in 1..n |-> r[i]]
    OBVIOUS
  <2>3. \A i \in 1..n : w[i] = r[i]
    BY <2>2
  <2> QED
    BY <2>1, <2>2, <2>3
<1>10. ASSUME NEW i \in 1..n PROVE t[i] = s[o[i]]
  <2>1. o[i] \in 1..n /\ o[i] = (IF i = j THEN k ELSE p[i])
    BY <1>6, <1>7 DEF Order, OrderWithout
  <2>2. CASE i = j
    <3>1. o[i] = k /\ r[i] = q[n + 1]
      BY <1>1, <1>2, <1>4, <2>1, <2>2
    <3>2. s[o[i]] = q[n + 1]
      BY <1>8, <2>1, <3>1
    <3> QED
      BY <1>9, <3>1, <3>2
  <2>3. CASE i # j
    <3>1. o[i] = p[i] /\ p[i] # k /\ r[i] = q[p[i]]
      BY <1>1, <1>2, <1>7, <2>1, <2>3
    <3>2. s[o[i]] = q[o[i]]
      BY <1>8, <2>1, <3>1
    <3> QED
      BY <1>9, <3>1, <3>2
  <2> QED
    BY <2>2, <2>3
<1>11. Reordered(s, t, o, n)
  BY <1>7, <1>8, <1>9, <1>10 DEF Reordered
<1>12. r[n + 1] = q[k]
  BY <1>1, <1>2, <1>3
<1>13. Without(q, s, k, n)
  BY <1>1, <1>8 DEF Without
<1>14. Without(r, t, n + 1, n)
  <2>1. \A i \in 1..n : t[i] = IF i = n + 1 THEN r[n + 1] ELSE r[i]
    BY <1>2, <1>9
  <2> QED
    BY <1>1, <1>9, <2>1 DEF Without
<1>15. Total(q) = Total(s) + q[k]
  BY <1>13, TotalWithout
<1>16. Total(r) = Total(t) + r[n + 1]
  BY <1>2, <1>14, TotalWithout
<1> QED
  BY <1>11, <1>12, <1>15, <1>16

\* An order of the results does not change their total.
LEMMA ReorderedTotal ==
  ASSUME NEW n \in Nat, NEW q \in Seq(Int), NEW r \in Seq(Int), NEW p, Reordered(q, r, p, n)
  PROVE  Total(r) = Total(q)
<1> DEFINE Kept(m) == \A s \in Seq(Int), t \in Seq(Int) : (\E o : Reordered(s, t, o, m)) => Total(t) = Total(s)
           S == {m \in 0..n : Kept(m)}
<1>1. 0 \in S
  <2>1. ASSUME NEW s \in Seq(Int), Len(s) = 0 PROVE Total(s) = 0
    BY <2>1, PrefixTotals
  <2>2. Kept(0)
    BY <2>1 DEF Reordered
  <2> QED
    BY <2>2
<1>2. ASSUME NEW m \in 1..n, m - 1 \in S PROVE m \in S
  <2>1. PICK l \in Nat : m = l + 1 /\ l = m - 1
    OBVIOUS
  <2>2. Kept(l) /\ m \in 0..n
    BY <1>2, <2>1
  <2>3. ASSUME NEW s \in Seq(Int), NEW t \in Seq(Int), NEW o, Reordered(s, t, o, m)
        PROVE  Total(t) = Total(s)
    <3> HIDE DEF Kept
    <3>1. Reordered(s, t, o, l + 1)
      BY <2>1, <2>3
    <3>2. PICK u \in Seq(Int), v \in Seq(Int) :
            /\ \E w : Reordered(u, v, w, l)
            /\ Total(s) = Total(u) + t[l + 1] /\ Total(t) = Total(v) + t[l + 1]
      BY <3>1, OnePlaceLess
    <3>3. Total(v) = Total(u)
      BY <2>2, <3>2 DEF Kept
    <3> QED
      BY <3>2, <3>3
  <2> QED
    BY <2>2, <2>3
<1>3. \A m \in 0..n : m \in S
  <2> HIDE DEF S
  <2> QED
    BY <1>1, <1>2, IntervalInduction
<1>4. Kept(n)
  <2>1. n \in 0..n
    OBVIOUS
  <2> QED
    BY <1>3, <2>1
<1> QED
  BY <1>4

-----------------------------------------------------------------------------
(* What simulated trades bring                                             *)

\* The trades won among the first k, of the results.
WinsUpTo(q, k) == {i \in 1..k : q[i] > 0}

\* A result more is a win more, or none.
LEMMA MoreWins ==
  ASSUME NEW q \in Seq(Int), NEW k \in 1..Len(q)
  PROVE  /\ IsFiniteSet(WinsUpTo(q, k - 1)) /\ IsFiniteSet(WinsUpTo(q, k))
         /\ Cardinality(WinsUpTo(q, k - 1)) \in Nat
         /\ Cardinality(WinsUpTo(q, k)) =
              IF q[k] > 0 THEN Cardinality(WinsUpTo(q, k - 1)) + 1 ELSE Cardinality(WinsUpTo(q, k - 1))
<1>1. IsFiniteSet(WinsUpTo(q, k - 1)) /\ IsFiniteSet(WinsUpTo(q, k))
  <2>1. 1 \in Int /\ k \in Int /\ k - 1 \in Int
    OBVIOUS
  <2>2. IsFiniteSet(1..k) /\ IsFiniteSet(1..(k - 1))
    BY <2>1, FS_Interval
  <2>3. WinsUpTo(q, k - 1) \in SUBSET (1..(k - 1)) /\ WinsUpTo(q, k) \in SUBSET (1..k)
    BY DEF WinsUpTo
  <2> QED
    BY <2>2, <2>3, FS_Subset
<1>2. Cardinality(WinsUpTo(q, k - 1)) \in Nat
  BY <1>1, FS_CardinalityType
<1>3. 1..k = (1..(k - 1)) \cup {k} /\ k \notin 1..(k - 1)
  OBVIOUS
<1>4. CASE q[k] > 0
  <2>1. WinsUpTo(q, k) = WinsUpTo(q, k - 1) \cup {k} /\ k \notin WinsUpTo(q, k - 1)
    BY <1>3, <1>4 DEF WinsUpTo
  <2>2. Cardinality(WinsUpTo(q, k - 1) \cup {k}) = Cardinality(WinsUpTo(q, k - 1)) + 1
    BY <1>1, <2>1, FS_AddElement
  <2> QED
    BY <1>1, <1>2, <1>4, <2>1, <2>2
<1>5. CASE ~(q[k] > 0)
  <2>1. WinsUpTo(q, k) = WinsUpTo(q, k - 1)
    BY <1>3, <1>5 DEF WinsUpTo
  <2> QED
    BY <1>1, <1>2, <1>5, <2>1
<1> QED
  BY <1>4, <1>5

\* One more of a unit.
LEMMA OneMore ==
  ASSUME NEW c \in Nat, NEW unit \in Int
  PROVE  c * unit \in Int /\ (c + 1) * unit = c * unit + unit
OBVIOUS

\* Every profit is a payout, or a stake lost.
PaidOrLost(q, payout, cost) ==
  \A i \in 1..Len(q) : (q[i] > 0 /\ q[i] = payout) \/ (~(q[i] > 0) /\ q[i] = -cost)

\* A net profit: every trade costs its stake, and those won bring it back with
\* the payout.
LEMMA NetOfRun ==
  ASSUME NEW q \in Seq(Int), NEW payout \in Nat, NEW cost \in Int, PaidOrLost(q, payout, cost)
  PROVE  /\ Wins(q) \in Nat /\ Total(q) \in Int /\ Wins(q) * (payout + cost) \in Int
         /\ Total(q) + cost * Len(q) = Wins(q) * (payout + cost)
<1>2. PICK n \in Nat : Len(q) = n
  OBVIOUS
<1>3. ASSUME NEW i \in 1..n
      PROVE  (q[i] > 0 /\ q[i] = payout) \/ (~(q[i] > 0) /\ q[i] = -cost)
  BY <1>2 DEF PaidOrLost
<1>4. PICK unit \in Int : unit = payout + cost
  OBVIOUS
<1>5. PICK c : c = [i \in 0..n |-> Cardinality(WinsUpTo(q, i))]
  OBVIOUS
<1> DEFINE Even(i) == c[i] \in Nat /\ PrefixTotal(q, i) + cost * i = c[i] * unit
           S == {i \in 0..n : Even(i)}
<1>6. 0 \in S
  <2>1. WinsUpTo(q, 0) = {}
    BY DEF WinsUpTo
  <2>2. c[0] = 0
    <3>1. 0 \in 0..n
      OBVIOUS
    <3> QED
      BY <1>5, <2>1, <3>1, FS_EmptySet
  <2>3. PrefixTotal(q, 0) = 0
    BY PrefixTotals
  <2>4. cost * 0 = 0 /\ 0 * unit = 0 /\ 0 \in 0..n
    OBVIOUS
  <2> QED
    BY <2>2, <2>3, <2>4
<1>7. ASSUME NEW i \in 1..n, i - 1 \in S PROVE i \in S
  <2>1. Even(i - 1) /\ i \in 0..n /\ i - 1 \in 0..n /\ i - 1 \in Nat /\ i \in 1..Len(q)
    BY <1>2, <1>7
  <2>2. c[i] = IF q[i] > 0 THEN c[i - 1] + 1 ELSE c[i - 1]
    <3>1. c[i] = Cardinality(WinsUpTo(q, i)) /\ c[i - 1] = Cardinality(WinsUpTo(q, i - 1))
      BY <1>5, <2>1
    <3> QED
      BY <2>1, <3>1, MoreWins
  <2>3. PICK x \in Int, d \in Nat, y \in Int, z \in Int :
          /\ x = PrefixTotal(q, i - 1) /\ d = c[i - 1] /\ y = cost * (i - 1) /\ z = d * unit
          /\ x + y = z
    <3>1. PrefixTotal(q, i - 1) \in Int
      <4>1. i - 1 \in 0..Len(q)
        BY <2>1
      <4> QED
        BY <4>1, PrefixTotals
    <3>2. cost * (i - 1) \in Int
      BY <2>1
    <3>3. c[i - 1] \in Nat /\ PrefixTotal(q, i - 1) + cost * (i - 1) = c[i - 1] * unit
      BY <2>1
    <3>4. c[i - 1] * unit \in Int
      BY <3>3
    <3> QED
      BY <3>1, <3>2, <3>3, <3>4
  <2>4. PrefixTotal(q, i) = x + q[i]
    BY <2>1, <2>3, PrefixTotals
  <2>5. cost * i = y + cost
    <3>1. (i - 1) + 1 = i
      BY <2>1
    <3> QED
      BY <2>1, <2>3, <3>1
  <2>6. (d + 1) * unit = z + unit
    BY <2>3, OneMore
  <2>7. CASE q[i] > 0
    <3>1. c[i] = d + 1 /\ q[i] = payout
      BY <1>3, <2>2, <2>3, <2>7
    <3>2. PrefixTotal(q, i) + cost * i = z + unit
      <4>1. (x + payout) + (y + cost) = z + unit
        BY <1>4, <2>3
      <4> QED
        BY <2>4, <2>5, <3>1, <4>1
    <3>3. c[i] \in Nat
      <4>1. d \in Nat
        BY <2>3, Zenon
      <4> QED
        BY <3>1, <4>1
    <3>4. c[i] * unit = z + unit
      BY <2>6, <3>1, Zenon
    <3> QED
      BY <2>1, <3>2, <3>3, <3>4
  <2>8. CASE ~(q[i] > 0)
    <3>1. c[i] = d /\ q[i] = -cost
      BY <1>3, <2>2, <2>3, <2>8
    <3>2. PrefixTotal(q, i) + cost * i = z
      BY <2>3, <2>4, <2>5, <3>1
    <3> QED
      BY <2>1, <2>3, <3>1, <3>2
  <2> QED
    BY <2>7, <2>8
<1>8. Even(n)
  <2>1. \A i \in 0..n : i \in S
    <3> HIDE DEF S
    <3> QED
      BY <1>6, <1>7, IntervalInduction
  <2>2. n \in 0..n
    OBVIOUS
  <2> QED
    BY <2>1, <2>2
<1>9. Wins(q) = c[n]
  <2>1. DOMAIN q = 1..n
    BY <1>2
  <2>2. n \in 0..n
    OBVIOUS
  <2> QED
    BY <1>5, <2>1, <2>2 DEF Wins, WinsUpTo
<1>10. PrefixTotal(q, n) = Total(q) /\ PrefixTotal(q, n) \in Int
  <2>1. n \in 0..Len(q) /\ n = Len(q)
    BY <1>2
  <2> QED
    BY <2>1, PrefixTotals
<1>11. c[n] * unit \in Int
  BY <1>8
<1> QED
  BY <1>2, <1>4, <1>8, <1>9, <1>10, <1>11

\* Simulated profits are payouts of a stake of 1000, or that stake lost.
LEMMA PaidIsPaidOrLost ==
  ASSUME NEW won \in Seq(BOOLEAN), NEW payout \in Nat \ {0}, NEW cost \in Int, cost = 1000
  PROVE  PaidOrLost(Paid(won, payout), payout, cost)
<1>1. PICK n \in Nat : n = Len(won)
  OBVIOUS
<1>2. PICK q \in Seq(Int) :
        /\ q = Paid(won, payout) /\ Len(q) = n
        /\ \A k \in 1..n : q[k] = IF won[k] THEN payout ELSE -cost
  <2>1. -cost = -1000
    OBVIOUS
  <2> QED
    BY <1>1, <2>1, PaidType
<1>3. ASSUME NEW i \in 1..n
      PROVE  (q[i] > 0 /\ q[i] = payout) \/ (~(q[i] > 0) /\ q[i] = -cost)
  <2>1. payout > 0 /\ ~(-cost > 0)
    OBVIOUS
  <2> QED
    BY <1>2, <2>1
<1> QED
  BY <1>2, <1>3 DEF PaidOrLost

\* Trades won bring a net profit.
Earned(wins, total, net, payout) == net + 1000 * total = wins * (payout + 1000)

\* Simulated trades bring theirs.
LEMMA NetEarned ==
  ASSUME NEW won \in Seq(BOOLEAN), NEW payout \in Nat \ {0}
  PROVE  LET q == Paid(won, payout) IN
         /\ Wins(q) \in Nat /\ Total(q) \in Int /\ Wins(q) <= Len(won) /\ Len(won) \in Nat
         /\ Earned(Wins(q), Len(won), Total(q), payout)
<1>1. PICK q \in Seq(Int) : q = Paid(won, payout) /\ Len(q) = Len(won)
  BY PaidType
<1>2. PICK cost \in Int : cost = 1000
  OBVIOUS
<1>3. /\ Wins(q) \in Nat /\ Total(q) \in Int
      /\ Total(q) + cost * Len(won) = Wins(q) * (payout + cost)
  <2>1. PaidOrLost(q, payout, cost)
    BY <1>1, <1>2, PaidIsPaidOrLost
  <2> HIDE <1>2
  <2>2. /\ Wins(q) \in Nat /\ Total(q) \in Int
        /\ Total(q) + cost * Len(q) = Wins(q) * (payout + cost)
    BY <1>1, <2>1, NetOfRun
  <2> QED
    BY <1>1, <2>2
<1>4. Wins(q) <= Len(won) /\ Len(won) \in Nat
  <2>1. Wins(q) \in Nat /\ Losses(q) \in Nat /\ Wins(q) + Losses(q) <= Len(q)
    BY WinsAndLosses
  <2>2. Len(won) \in Nat
    OBVIOUS
  <2> QED
    BY <1>1, <2>1, <2>2
<1>5. Earned(Wins(q), Len(won), Total(q), payout)
  BY <1>2, <1>3 DEF Earned
<1> QED
  BY <1>1, <1>3, <1>4, <1>5

=============================================================================
