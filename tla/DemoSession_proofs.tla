------------------------- MODULE DemoSession_proofs -------------------------
(***************************************************************************)
(* Theorems of DemoSession, for every candle file and every risk setting,  *)
(* any number of bots, crashes, cursor resets and reconciliations, and an  *)
(* operator who rewrites the kill switch at any moment.                    *)
(***************************************************************************)
EXTENDS DemoSession, RiskManager_proofs, FiniteSetTheorems, TLAPS

-----------------------------------------------------------------------------
(* Numbers and sums                                                        *)

\* A set of natural numbers that is not empty has a least one.
LEMMA LeastNatural ==
  ASSUME NEW T, T \subseteq Nat, T # {}
  PROVE  \E m \in T : \A k \in T : m <= k
<1> DEFINE less == OpToRel(<, Nat)
<1>1. IsWellFoundedOn(less, Nat)
  BY NatLessThanWellFounded
<1>2. \A x, y \in Nat : x < y => <<x, y>> \in less
  BY DEF OpToRel
<1> HIDE DEF less
<1>3. PICK m \in T : \A k \in T : ~(<<k, m>> \in less)
  BY <1>1, WFMin
<1>4. \A k \in T : ~(k < m)
  BY <1>2, <1>3
<1>5. \A k \in T : m <= k
  BY <1>4
<1> QED
  BY <1>5

\* The least row of a snapshot is one of it.
LEMMA MinElement ==
  ASSUME NEW S, S \subseteq Nat, S # {}
  PROVE  Min(S) \in S /\ \A x \in S : Min(S) <= x
<1>1. \E x \in S : \A y \in S : x <= y
  BY LeastNatural
<1> QED
  BY <1>1 DEF Min

\* The last of finitely many rows is one of them.
LEMMA MaxElement ==
  ASSUME NEW S, NEW n \in Int, S \subseteq 0..n, S # {}
  PROVE  Max(S) \in S /\ \A x \in S : x <= Max(S)
<1> DEFINE T == {b \in Nat : \A x \in S : x <= b}
<1>1. PICK x \in S : x \in 0..n
  OBVIOUS
<1>2. n \in T
  BY <1>1
<1>3. PICK m \in T : \A k \in T : m <= k
  <2>1. T \subseteq Nat /\ T # {}
    BY <1>2
  <2> HIDE DEF T
  <2> QED
    BY <2>1, LeastNatural
<1>4. m \in S
  <2> SUFFICES ASSUME m \notin S PROVE FALSE
    OBVIOUS
  <2>1. \A y \in S : y < m /\ y \in Nat
    BY <1>3
  <2>2. m - 1 \in Nat /\ \A y \in S : y <= m - 1
    BY <1>1, <1>3, <2>1
  <2>3. m - 1 \in T
    BY <2>2
  <2> QED
    BY <1>3, <2>3
<1>5. \E y \in S : \A z \in S : y >= z
  BY <1>3, <1>4
<1>6. Max(S) \in S /\ \A y \in S : Max(S) >= y
  BY <1>5 DEF Max
<1> QED
  BY <1>6

\* f adds up the first n numbers of a; IsSum: it is their running sum.
AddsUp(f, a, n) == f[0] = 0 /\ \A k \in 1..n : f[k] = f[k - 1] + a[k]
IsSum(f, a, n) == f \in [0..n -> Int] /\ AddsUp(f, a, n)

\* Every finite sequence of integers has a running sum.
LEMMA SumExists ==
  ASSUME NEW N \in Nat, NEW a \in [1..N -> Int]
  PROVE  \E f : IsSum(f, a, N)
<1> DEFINE T == {n \in 0..N : ~ \E f : IsSum(f, a, n)}
<1> SUFFICES ASSUME T # {} PROVE FALSE
  <2> SUFFICES T = {} => \E f : IsSum(f, a, N)
    OBVIOUS
  <2>1. N \in 0..N
    OBVIOUS
  <2>2. (\E f : IsSum(f, a, N)) \/ N \in T
    BY <2>1
  <2> HIDE DEF T
  <2> QED
    BY <2>2
<1>1. PICK m \in T : \A k \in T : m <= k
  <2>1. T \subseteq Nat
    OBVIOUS
  <2> HIDE DEF T
  <2> QED
    BY <2>1, LeastNatural
<1>2. m # 0
  <2>1. IsSum([k \in 0..0 |-> 0], a, 0)
    BY DEF IsSum, AddsUp
  <2> QED
    BY <2>1
<1>3. m \in 1..N /\ m - 1 \in 0..N
  BY <1>2
<1>4. m - 1 \notin T
  <2>1. ~(m <= m - 1)
    BY <1>3
  <2> HIDE DEF T
  <2> QED
    BY <1>1, <2>1
<1>5. PICK g : IsSum(g, a, m - 1)
  BY <1>3, <1>4
<1> DEFINE f == [k \in 0..m |-> IF k = m THEN g[m - 1] + a[m] ELSE g[k]]
<1>6. IsSum(f, a, m)
  <2>1. g \in [0..(m - 1) -> Int] /\ g[0] = 0 /\ \A k \in 1..(m - 1) : g[k] = g[k - 1] + a[k]
    BY <1>5 DEF IsSum, AddsUp
  <2>2. g[m - 1] + a[m] \in Int
    BY <1>3, <2>1
  <2>3. f \in [0..m -> Int]
    BY <1>3, <2>1, <2>2
  <2>4. f[0] = 0
    BY <1>3, <2>1
  <2>5. \A k \in 1..m : f[k] = f[k - 1] + a[k]
    BY <1>3, <2>1, SMTT(20)
  <2> QED
    BY <2>3, <2>4, <2>5 DEF IsSum, AddsUp
<1>7. \E h : IsSum(h, a, m)
  <2> HIDE DEF f
  <2> QED
    BY <1>6
<1> QED
  BY <1>7

\* Two running sums of the same numbers end the same.
LEMMA SumUnique ==
  ASSUME NEW N \in Nat, NEW a, NEW f, NEW g, AddsUp(f, a, N), AddsUp(g, a, N)
  PROVE  f[N] = g[N]
<1> DEFINE T == {n \in 0..N : f[n] # g[n]}
<1> SUFFICES ASSUME T # {} PROVE FALSE
  OBVIOUS
<1>1. PICK m \in T : \A k \in T : m <= k
  <2>1. T \subseteq Nat
    OBVIOUS
  <2> HIDE DEF T
  <2> QED
    BY <2>1, LeastNatural
<1>2. m \in 1..N /\ m - 1 \in 0..N
  BY DEF AddsUp
<1>3. m - 1 \notin T
  <2>1. ~(m <= m - 1)
    BY <1>2
  <2> HIDE DEF T
  <2> QED
    BY <1>1, <2>1
<1>4. f[m - 1] = g[m - 1]
  BY <1>2, <1>3
<1> QED
  BY <1>2, <1>4 DEF AddsUp

\* What each row of a store adds to the profit of session s.
Gains(rows, s) ==
  [k \in 1..Len(rows) |-> IF rows[k].session = s THEN rows[k].profit ELSE 0]

\* ProfitOf is the running sum of the gains, at the last row.
LEMMA ProfitIsSum ==
  ASSUME NEW rows, NEW s, NEW f, Len(rows) \in Nat,
         \A k \in 1..Len(rows) : rows[k].profit \in Int,
         IsSum(f, Gains(rows, s), Len(rows))
  PROVE  ProfitOf(rows, s) = f[Len(rows)]
<1> DEFINE N == Len(rows)
           a == Gains(rows, s)
           sum == CHOOSE g : g = [n \in 0..N |->
                    IF n = 0 THEN 0
                    ELSE g[n - 1] + (IF rows[n].session = s THEN rows[n].profit ELSE 0)]
<1>1. \A n \in 1..N : a[n] = IF rows[n].session = s THEN rows[n].profit ELSE 0
  BY DEF Gains
<1>2. ProfitOf(rows, s) = sum[N]
  BY DEF ProfitOf
<1> HIDE DEF sum
<1>3. \A g : [n \in 0..N |-> IF n = 0 THEN 0 ELSE g[n - 1] + a[n]] =
             [n \in 0..N |-> IF n = 0 THEN 0
                ELSE g[n - 1] + (IF rows[n].session = s THEN rows[n].profit ELSE 0)]
  BY <1>1
<1> HIDE DEF a
<1>4. sum = CHOOSE g : g = [n \in 0..N |-> IF n = 0 THEN 0 ELSE g[n - 1] + a[n]]
  BY <1>3 DEF sum
<1>5. f = [n \in 0..N |-> IF n = 0 THEN 0 ELSE f[n - 1] + a[n]]
  BY DEF IsSum, AddsUp, a
<1>6. sum = [n \in 0..N |-> IF n = 0 THEN 0 ELSE sum[n - 1] + a[n]]
  BY <1>4, <1>5
<1>7. N \in Nat /\ N \in 0..N
  OBVIOUS
<1> HIDE DEF N
<1>8. /\ sum[0] = 0 /\ f[0] = 0
      /\ \A k \in 1..N : sum[k] = sum[k - 1] + a[k]
  <2>1. 0 \in 0..N /\ \A k \in 1..N : k \in 0..N /\ k # 0
    BY <1>7
  <2> QED
    BY <1>5, <1>6, <2>1
<1>9. AddsUp(f, a, N)
  BY DEF IsSum, a, N
<1>10. AddsUp(sum, a, N)
  BY <1>8 DEF AddsUp
<1>11. sum[N] = f[N]
  BY <1>7, <1>9, <1>10, SumUnique, Zenon
<1> QED
  BY <1>2, <1>7, <1>11 DEF N


\* A row appended to a store adds its profit to its own session alone.
LEMMA ProfitAppended ==
  ASSUME NEW rows \in Seq(Row), NEW row \in Row, NEW s
  PROVE  /\ ProfitOf(rows, s) \in Int
         /\ ProfitOf(Append(rows, row), s) =
              ProfitOf(rows, s) + (IF row.session = s THEN row.profit ELSE 0)
<1> DEFINE N == Len(rows)
           longer == Append(rows, row)
           M == Len(longer)
<1>1. N \in Nat /\ M = N + 1 /\ M \in Nat /\ M \in 1..M
  OBVIOUS
<1>2. /\ \A k \in 1..N : rows[k].profit \in Int
      /\ row.profit \in Int
  <2>1. \A k \in 1..N : rows[k] \in Row
    OBVIOUS
  <2> QED
    BY <2>1 DEF Row
<1>3. /\ \A k \in 1..N : longer[k] = rows[k]
      /\ longer[M] = row
  OBVIOUS
<1> HIDE DEF longer, M, N
<1>4. \A k \in 1..M : longer[k].profit \in Int
  <2>1. \A k \in 1..M : k \in 1..N \/ k = M
    BY <1>1
  <2> QED
    BY <1>2, <1>3, <2>1
<1>5. Gains(longer, s) \in [1..M -> Int]
  BY <1>4 DEF Gains, M
<1>6. PICK f : IsSum(f, Gains(longer, s), M)
  BY <1>1, <1>5, SumExists
<1>7. ProfitOf(longer, s) = f[M]
  BY <1>1, <1>4, <1>6, ProfitIsSum DEF M
<1> DEFINE g == [k \in 0..N |-> f[k]]
<1>8. /\ f \in [0..M -> Int] /\ f[0] = 0
      /\ \A k \in 1..M : f[k] = f[k - 1] + Gains(longer, s)[k]
  BY <1>6 DEF IsSum, AddsUp
<1>9. \A k \in 1..N : Gains(longer, s)[k] = Gains(rows, s)[k]
  BY <1>1, <1>3 DEF Gains, M, N
<1>10. IsSum(g, Gains(rows, s), N)
  <2>1. \A k \in 0..N : k \in 0..M
    BY <1>1
  <2>2. \A k \in 1..N : k \in 1..M /\ k \in 0..N /\ k - 1 \in 0..N
    BY <1>1
  <2>3. g \in [0..N -> Int]
    BY <1>8, <2>1
  <2>4. g[0] = 0
    BY <1>1, <1>8
  <2>5. \A k \in 1..N : g[k] = g[k - 1] + Gains(rows, s)[k]
    BY <1>8, <1>9, <2>2
  <2> QED
    BY <2>3, <2>4, <2>5 DEF IsSum, AddsUp
<1>11. ProfitOf(rows, s) = g[N]
  <2> HIDE DEF g
  <2> QED
    BY <1>1, <1>2, <1>10, ProfitIsSum DEF N
<1>12. N \in 0..N /\ N \in 0..M /\ M - 1 = N
  BY <1>1
<1>13. Gains(longer, s)[M] = IF row.session = s THEN row.profit ELSE 0
  BY <1>1, <1>3 DEF Gains, M
<1>14. f[M] = f[N] + Gains(longer, s)[M] /\ f[N] \in Int
  BY <1>1, <1>8, <1>12
<1>15. ProfitOf(rows, s) = f[N]
  BY <1>11, <1>12
<1> QED
  BY <1>7, <1>13, <1>14, <1>15 DEF longer

\* A session with no row in a store has neither won nor lost.
LEMMA NoProfit ==
  ASSUME NEW rows \in Seq(Row), NEW s,
         \A k \in 1..Len(rows) : rows[k].session # s
  PROVE  ProfitOf(rows, s) = 0
<1> DEFINE f == [k \in 0..Len(rows) |-> 0]
<1>1. Len(rows) \in Nat /\ \A k \in 1..Len(rows) : rows[k].profit \in Int
  <2>1. Len(rows) \in Nat /\ \A k \in 1..Len(rows) : rows[k] \in Row
    OBVIOUS
  <2>2. \A r \in Row : r.profit \in Int
    BY DEF Row
  <2> QED
    BY <2>1, <2>2
<1>2. IsSum(f, Gains(rows, s), Len(rows))
  BY <1>1 DEF IsSum, AddsUp, Gains
<1>3. f[Len(rows)] = 0
  BY <1>1
<1> HIDE DEF f
<1> QED
  BY <1>1, <1>2, <1>3, ProfitIsSum


-----------------------------------------------------------------------------
(* Types                                                                   *)

\* The guard has a row to decide on; an order in hand is on a candle of the file.
BotOK ==
  /\ pc # "idle" => sessions >= 1
  /\ pc = "guard" => FeatureRows # {}
  /\ pc \in {"placed", "inserted"} => order.candle \in 0..(Total - 1)

TypeInv == TypeOK /\ BotOK

FeedState == [cursor : 0..Total, taken : Nat]
BrokerState == [balance : Int, orders : Nat]
OrderState == [id : Nat, candle : Int, amount : Int,
               result : {"PENDING", "WON", "LOST"}, profit : Int]
Placement == [session : Nat, replay : Nat, candle : Int]

\* The rows the guard may decide on are candles the feed has delivered.
LEMMA FeatureTypes ==
  ASSUME feed \in FeedState
  PROVE  /\ feed.cursor \in 0..Total /\ feed.taken \in Nat
         /\ FeatureRows \subseteq 0..(feed.cursor - 1)
         /\ FeatureRows # {} => Latest \in FeatureRows /\ Latest \in 0..(feed.cursor - 1)
         /\ \A c \in FeatureRows : FeatureRows # {} => c <= Latest
<1>1. feed.cursor \in 0..Total /\ feed.taken \in Nat /\ Total \in Nat
  BY DemoAssumption DEF FeedState
<1>2. WindowStart \in Nat
  <2>1. {0, feed.cursor - Window} \subseteq 0..(feed.cursor + 1) \cup {feed.cursor - Window}
    BY <1>1
  <2>2. feed.cursor - Window \in Int
    BY <1>1, DemoAssumption
  <2> DEFINE w == feed.cursor - Window
             top == IF w > 0 THEN w ELSE 0
  <2>3. /\ top \in {0, w} /\ \A y \in {0, w} : top >= y
        /\ \A x \in {0, w} : (\A y \in {0, w} : x >= y) => x = top
    BY <2>2
  <2>4. top \in Nat
    BY <2>2
  <2> HIDE DEF w, top
  <2>5. Max({0, w}) = top
    BY <2>3 DEF Max
  <2> QED
    BY <2>4, <2>5 DEF WindowStart, w
<1>3. FeatureRows \subseteq 0..(feed.cursor - 1)
  BY <1>1, <1>2, DemoAssumption DEF FeatureRows
<1>4. ASSUME FeatureRows # {}
      PROVE  Latest \in FeatureRows /\ \A c \in FeatureRows : c <= Latest
  <2> DEFINE n == feed.cursor - 1
  <2>1. n \in Int /\ FeatureRows \subseteq 0..n
    BY <1>1, <1>3
  <2> HIDE DEF n
  <2> QED
    BY <1>4, <2>1, MaxElement DEF Latest
<1> QED
  BY <1>1, <1>3, <1>4

\* get_next_candle moves the feed by one candle and keeps it inside the file.
LEMMA TakenCandle ==
  ASSUME NEW f \in FeedState, f.cursor \in 0..(Total - 1)
  PROVE  [cursor |-> f.cursor + 1, taken |-> f.taken + 1] \in FeedState
BY DemoAssumption DEF FeedState

\* The order the guard lets through.
Accepted(i, c, a) == [NoOrder EXCEPT !.id = i, !.candle = c, !.amount = a]

\* It waits for its result.
Pending(o) == o.result = "PENDING" /\ o.profit = 0

\* Its fields.
LEMMA AcceptedOrder ==
  ASSUME NEW i \in Nat, NEW c \in Int, NEW a \in Int
  PROVE  /\ Accepted(i, c, a) \in OrderState
         /\ Accepted(i, c, a).id = i /\ Accepted(i, c, a).candle = c
         /\ Pending(Accepted(i, c, a))
<1>1. NoOrder \in OrderState /\ NoOrder.result = "PENDING" /\ NoOrder.profit = 0
  BY DEF NoOrder, OrderState, PaperRow, NoCandle
<1>2. ASSUME NEW o \in OrderState, o.result = "PENDING", o.profit = 0
      PROVE  /\ [o EXCEPT !.id = i, !.candle = c, !.amount = a] \in OrderState
             /\ [o EXCEPT !.id = i, !.candle = c, !.amount = a].id = i
             /\ [o EXCEPT !.id = i, !.candle = c, !.amount = a].candle = c
             /\ [o EXCEPT !.id = i, !.candle = c, !.amount = a].result = "PENDING"
             /\ [o EXCEPT !.id = i, !.candle = c, !.amount = a].profit = 0
  BY <1>2 DEF OrderState
<1> QED
  BY <1>1, <1>2 DEF Accepted, Pending

\* What place_demo_order does.
LEMMA PlacedParts ==
  ASSUME PlaceOrder
  PROVE  /\ pc = "guard" /\ pc' = "placed"
         /\ lastTraded # Latest /\ lastTraded # Unreadable
         /\ placed' = Append(placed, ThisPlacement)
         /\ order' = Accepted(Len(placed'), Latest, PositionSize(risk))
         /\ broker' = [broker EXCEPT !.orders = @ + 1]
         /\ late' = IF switch = "off" THEN 0 ELSE late + 1
         /\ UNCHANGED <<files, feed, risk, operators, history, replay, alone>>
BY Zenon DEF PlaceOrder, Accepted

\* The stub's books after one more order.
LEMMA BrokerTakes ==
  ASSUME NEW b \in BrokerState
  PROVE  /\ [b EXCEPT !.orders = b.orders + 1] \in BrokerState
         /\ [b EXCEPT !.orders = b.orders + 1].balance = b.balance
<1> DEFINE n == b.orders + 1
<1>1. n \in Nat
  BY DEF BrokerState
<1> HIDE DEF n
<1>2. /\ [b EXCEPT !.orders = n] \in BrokerState
      /\ [b EXCEPT !.orders = n].balance = b.balance
  BY <1>1 DEF BrokerState
<1> QED
  BY <1>2 DEF n

\* The stub's books after a settlement.
LEMMA BrokerSettles ==
  ASSUME NEW b \in BrokerState, NEW p \in Int
  PROVE  /\ [b EXCEPT !.balance = b.balance + p] \in BrokerState
         /\ [b EXCEPT !.balance = b.balance + p].balance = b.balance + p
<1> DEFINE s == b.balance + p
<1>1. s \in Int
  BY DEF BrokerState
<1> HIDE DEF s
<1>2. /\ [b EXCEPT !.balance = s] \in BrokerState
      /\ [b EXCEPT !.balance = s].balance = s
  BY <1>1 DEF BrokerState
<1> QED
  BY <1>2 DEF s

\* What the stub pays is an integer.
LEMMA StubProfitType ==
  ASSUME NEW a \in Int, NEW won \in BOOLEAN
  PROVE  StubProfit(a, won) \in Int
BY DEF StubProfit, CeilDiv

\* The order after the broker has settled it.
Settled(o, r, p) == [o EXCEPT !.result = r, !.profit = p]

\* Its fields.
LEMMA SettledOrder ==
  ASSUME NEW o \in OrderState, NEW r \in {"WON", "LOST"}, NEW p \in Int
  PROVE  /\ Settled(o, r, p) \in OrderState
         /\ Settled(o, r, p).id = o.id /\ Settled(o, r, p).candle = o.candle
         /\ Settled(o, r, p).result = r /\ Settled(o, r, p).profit = p
BY DEF OrderState, Settled

\* What get_order_status and register_result do: one profit for all the books.
LEMMA ResolvedParts ==
  ASSUME ResolveOrder, TypeOK
  PROVE  /\ pc = "marked" /\ pc' = "resolved"
         /\ UNCHANGED <<files, feed, operators, history, observed>>
         /\ \E profit \in Int, result \in {"WON", "LOST"} :
              /\ broker' = [broker EXCEPT !.balance = broker.balance + profit]
              /\ risk' = RegisterResult(risk, profit)
              /\ order' = Settled(order, result, profit)
<1> DEFINE won == broker.orders % 2 = 1
           profit == StubProfit(order.amount, won)
           result == IF won THEN "WON" ELSE "LOST"
<1>1. won \in BOOLEAN /\ result \in {"WON", "LOST"}
  OBVIOUS
<1>2. order.amount \in Int
  BY DEF TypeOK
<1>3. profit \in Int
  <2> HIDE DEF won
  <2> QED
    BY <1>1, <1>2, StubProfitType
<1>4. /\ pc = "marked" /\ pc' = "resolved"
      /\ UNCHANGED <<files, feed, operators, history, observed>>
  BY Zenon DEF ResolveOrder
<1>5. /\ broker' = [broker EXCEPT !.balance = broker.balance + profit]
      /\ risk' = RegisterResult(risk, profit)
      /\ order' = Settled(order, result, profit)
  BY Zenon DEF ResolveOrder, Settled
<1> HIDE DEF won, profit, result
<1> QED
  BY <1>1, <1>3, <1>4, <1>5

\* The fields of an order in hand.
LEMMA OrderFields ==
  ASSUME NEW o \in OrderState
  PROVE  /\ o.id \in Nat /\ o.candle \in Int /\ o.amount \in Int
         /\ o.result \in {"PENDING", "WON", "LOST"} /\ o.profit \in Int
BY DEF OrderState

\* _trade builds a row.
LEMMA RowTypes ==
  ASSUME NEW o \in OrderState, sessions \in Nat
  PROVE  /\ RowOf(o) \in Row
         /\ RowOf(o).order = o.id /\ RowOf(o).session = sessions
         /\ RowOf(o).candle = o.candle /\ RowOf(o).result = o.result
         /\ RowOf(o).profit = o.profit
BY DEF OrderState, RowOf, Row

\* A row as UPDATE leaves it: it keeps all but its result and its profit.
UpdatedRow(row, r, p) == [row EXCEPT !.result = r, !.profit = p]

\* The updated row's fields.
LEMMA UpdatedFields ==
  ASSUME NEW row \in Row, NEW r \in {"PENDING", "WON", "LOST", "ERROR"}, NEW p \in Int
  PROVE  /\ UpdatedRow(row, r, p) \in Row
         /\ UpdatedRow(row, r, p).order = row.order
         /\ UpdatedRow(row, r, p).session = row.session
         /\ UpdatedRow(row, r, p).candle = row.candle
         /\ UpdatedRow(row, r, p).result = r
         /\ UpdatedRow(row, r, p).profit = p
BY DEF UpdatedRow, Row

\* The update rewrites the rows of one order and leaves every other row alone.
LEMMA UpdatedRows ==
  ASSUME NEW rows \in Seq(Row), NEW id, NEW p \in Int,
         NEW r \in {"PENDING", "WON", "LOST", "ERROR"}
  PROVE  /\ Updated(rows, id, r, p) \in Seq(Row)
         /\ Len(Updated(rows, id, r, p)) = Len(rows)
         /\ \A i \in 1..Len(rows) :
              LET u == Updated(rows, id, r, p)[i]
              IN  /\ u \in Row /\ rows[i] \in Row
                  /\ u.order = rows[i].order /\ u.session = rows[i].session
                  /\ u.candle = rows[i].candle
                  /\ (id # PaperRow /\ rows[i].order = id) => u.result = r /\ u.profit = p
                  /\ ~(id # PaperRow /\ rows[i].order = id) => u = rows[i]
<1> DEFINE new(i) == IF id # PaperRow /\ rows[i].order = id
                     THEN UpdatedRow(rows[i], r, p)
                     ELSE rows[i]
<1>1. /\ Len(rows) \in Nat /\ DOMAIN rows = 1..Len(rows)
      /\ \A i \in 1..Len(rows) : rows[i] \in Row
  OBVIOUS
<1>2. \A i \in 1..Len(rows) :
        /\ new(i) \in Row
        /\ new(i).order = rows[i].order /\ new(i).session = rows[i].session
        /\ new(i).candle = rows[i].candle
        /\ (id # PaperRow /\ rows[i].order = id) => new(i).result = r /\ new(i).profit = p
        /\ ~(id # PaperRow /\ rows[i].order = id) => new(i) = rows[i]
  <2> TAKE i \in 1..Len(rows)
  <2>1. rows[i] \in Row
    BY <1>1
  <2> DEFINE u == UpdatedRow(rows[i], r, p)
  <2>2. /\ u \in Row /\ u.order = rows[i].order /\ u.session = rows[i].session
        /\ u.candle = rows[i].candle /\ u.result = r /\ u.profit = p
    BY <2>1, UpdatedFields
  <2> HIDE DEF u
  <2>3. new(i) = IF id # PaperRow /\ rows[i].order = id THEN u ELSE rows[i]
    BY DEF u
  <2> HIDE DEF new
  <2> QED
    BY <2>1, <2>2, <2>3
<1>3. Updated(rows, id, r, p) = [i \in 1..Len(rows) |-> new(i)]
  BY <1>1 DEF Updated, UpdatedRow
<1> HIDE DEF new
<1>4. [i \in 1..Len(rows) |-> new(i)] \in Seq(Row)
  BY <1>1, <1>2
<1>5. Len([i \in 1..Len(rows) |-> new(i)]) = Len(rows)
  BY <1>1
<1> QED
  BY <1>1, <1>2, <1>3, <1>4, <1>5

\* The memory of a bot that has ended is well typed.
LEMMA NoBotTypes ==
  ASSUME NoBot
  PROVE  /\ pc' = "idle" /\ feed' \in FeedState /\ risk' \in RiskState
         /\ broker' \in BrokerState /\ order' \in OrderState
<1>1. Total \in Nat /\ DemoInitialBalance \in Nat
  BY DemoAssumption
<1>2. risk' \in RiskState
  BY RiskAssumption DEF NoBot, FreshRisk, RiskState
<1>3. order' \in OrderState
  BY DEF NoBot, NoOrder, OrderState, PaperRow, NoCandle
<1> QED
  BY <1>1, <1>2, <1>3 DEF NoBot, FeedState, BrokerState


\* The window is what the feed and the market say it is.
LEMMA FeatureKept ==
  ASSUME feed' = feed, flat' = flat
  PROVE  FeatureRows' = FeatureRows /\ WindowRows' = WindowRows /\ Latest' = Latest
BY DEF FeatureRows, WindowRows, WindowStart, Latest

\* The types, with the record sets named.
LEMMA TypeParts ==
  TypeOK <=>
    /\ flat \subseteq Flatable /\ cursorFile \in -1..(Total - 1)
    /\ lastTraded \in {NoCandle, Unreadable} \cup 0..(Total - 1)
    /\ switch \in {"on", "off", "torn"} /\ operator \in {"none", "on", "off"}
    /\ db \in Seq(Row) /\ csvLog \in Seq(Row)
    /\ sessions \in Nat /\ dead \subseteq 1..sessions /\ resets \in Nat
    /\ pc \in {"idle", "loop", "window", "blocked", "guard", "placed", "inserted",
               "marked", "resolved", "logged"}
    /\ feed \in FeedState /\ risk \in RiskState /\ broker \in BrokerState
    /\ order \in OrderState
    /\ todo \subseteq 1..Len(db) /\ rpc \in {"idle", "run", "done"} /\ reconciles \in Nat
    /\ placed \in Seq(Placement) /\ replay \in Nat /\ late \in Nat /\ alone \in BOOLEAN
BY DEF TypeOK, FeedState, BrokerState, OrderState, Placement

\* What a well-typed state says of the numbers the steps compute with.
LEMMA TypeNumbers ==
  ASSUME TypeOK
  PROVE  /\ Total \in Nat /\ NextIndex \in 0..Total
         /\ Len(db) \in Nat /\ Len(csvLog) \in Nat /\ Len(placed) \in Nat
         /\ risk.balance \in Int /\ risk.dailyPnl \in Int
         /\ broker.balance \in Int /\ broker.orders \in Nat
         /\ order.id \in Nat /\ order.candle \in Int /\ order.amount \in Int
         /\ order.profit \in Int
<1>1. Total \in Nat
  BY DemoAssumption
<1>2. NextIndex \in 0..Total
  BY <1>1 DEF TypeOK, NextIndex
<1>3. Len(db) \in Nat /\ Len(csvLog) \in Nat /\ Len(placed) \in Nat
  BY DEF TypeOK
<1>4. risk.balance \in Int /\ risk.dailyPnl \in Int
  BY DEF TypeOK, RiskState
<1>5. broker.balance \in Int /\ broker.orders \in Nat
  BY TypeParts DEF BrokerState
<1>6. /\ order.id \in Nat /\ order.candle \in Int /\ order.amount \in Int
      /\ order.profit \in Int
  BY TypeParts, OrderFields
<1> QED
  BY <1>1, <1>2, <1>3, <1>4, <1>5, <1>6

\* The order just placed is the last one, on the last row of the window.
LEMMA PlacedOrder ==
  ASSUME TypeInv, PlaceOrder
  PROVE  /\ order'.id = Len(placed') /\ order'.candle = Latest
         /\ order'.result = "PENDING"
         /\ Latest \in FeatureRows /\ Latest \in 0..(feed.cursor - 1)
         /\ placed' \in Seq(Placement)
         /\ placed' = Append(placed, ThisPlacement)
         /\ Len(placed) \in Nat /\ Len(placed') = Len(placed) + 1
<1>1. TypeOK /\ BotOK
  BY DEF TypeInv
<1>2. /\ feed \in FeedState /\ risk \in RiskState /\ placed \in Seq(Placement)
      /\ sessions \in Nat /\ replay \in Nat
  BY <1>1, TypeParts
<1>3. PositionSize(risk) \in Int
  BY <1>2, RiskTypes
<1>4. FeatureRows # {} /\ feed.cursor \in 0..Total
  BY <1>1, <1>2, PlacedParts, FeatureTypes DEF BotOK
<1>5. Latest \in FeatureRows /\ Latest \in 0..(feed.cursor - 1) /\ Latest \in Int
  BY <1>2, <1>4, FeatureTypes
<1>6. ThisPlacement \in Placement
  BY <1>2, <1>5 DEF Placement, ThisPlacement
<1>7. /\ placed' = Append(placed, ThisPlacement)
      /\ order' = Accepted(Len(placed'), Latest, PositionSize(risk))
  BY PlacedParts, Zenon
<1>8. /\ Len(placed) \in Nat /\ Len(placed') = Len(placed) + 1 /\ Len(placed') \in Nat
      /\ placed' \in Seq(Placement)
  BY <1>2, <1>6, <1>7
<1>9. order'.id = Len(placed') /\ order'.candle = Latest /\ order'.result = "PENDING"
  <2>1. PICK i \in Nat, c \in Int, a \in Int :
          i = Len(placed') /\ c = Latest /\ a = PositionSize(risk)
    BY <1>3, <1>5, <1>8
  <2>2. Accepted(i, c, a).id = i /\ Accepted(i, c, a).candle = c /\ Pending(Accepted(i, c, a))
    BY AcceptedOrder
  <2>3. order' = Accepted(i, c, a)
    BY <1>7, <2>1
  <2> QED
    BY <2>1, <2>2, <2>3 DEF Pending
<1> QED
  BY <1>5, <1>7, <1>8, <1>9

\* Every step keeps the types.
LEMMA TypeStep ==
  ASSUME TypeInv, [Next]_vars
  PROVE  TypeInv'
<1> USE DemoAssumption
<1>0. TypeOK /\ BotOK
  BY DEF TypeInv
<1> DEFINE Types ==
      /\ flat \subseteq Flatable /\ cursorFile \in -1..(Total - 1)
      /\ lastTraded \in {NoCandle, Unreadable} \cup 0..(Total - 1)
      /\ switch \in {"on", "off", "torn"} /\ operator \in {"none", "on", "off"}
      /\ db \in Seq(Row) /\ csvLog \in Seq(Row)
      /\ sessions \in Nat /\ dead \subseteq 1..sessions /\ resets \in Nat
      /\ pc \in {"idle", "loop", "window", "blocked", "guard", "placed", "inserted",
                 "marked", "resolved", "logged"}
      /\ feed \in FeedState /\ risk \in RiskState /\ broker \in BrokerState
      /\ order \in OrderState
      /\ todo \subseteq 1..Len(db) /\ rpc \in {"idle", "run", "done"} /\ reconciles \in Nat
      /\ placed \in Seq(Placement) /\ replay \in Nat /\ late \in Nat /\ alone \in BOOLEAN
<1>t. Types
  BY <1>0, TypeParts
<1>s. SUFFICES Types' /\ BotOK'
  BY DEF TypeInv, TypeOK, FeedState, BrokerState, OrderState, Placement
<1>w. ASSUME feed' = feed, flat' = flat PROVE FeatureRows' = FeatureRows
  BY <1>w, FeatureKept
<1>1. CASE UNCHANGED vars
  BY <1>0, <1>1, <1>t, <1>w DEF vars, files, bot, operators, history, observed, BotOK
<1>2. CASE StartDemo
  <2>1. feed' \in FeedState
    BY <1>0, <1>2, TypeNumbers DEF StartDemo, FeedState
  <2>2. dead' \subseteq 1..sessions' /\ sessions' \in Nat
    BY <1>2, <1>t DEF StartDemo, history
  <2>3. BotOK'
    BY <1>2, <1>t DEF StartDemo, BotOK
  <2>4. Types'
    <3>1. replay' \in Nat
      BY <1>2, <1>t DEF StartDemo
    <3> QED
      BY <1>2, <1>t, <2>1, <2>2, <3>1 DEF StartDemo, files, operators
  <2> QED
    BY <2>3, <2>4
<1>3. CASE TakeCandle
  <2>1. feed.cursor \in 0..(Total - 1)
    BY <1>3, <1>t, FeatureTypes DEF TakeCandle, HasNext
  <2>2. feed' \in FeedState
    BY <1>3, <1>t, <2>1, TakenCandle DEF TakeCandle
  <2>3. BotOK'
    <3>1. pc = "loop" /\ pc' = "window" /\ sessions' = sessions
      BY <1>3 DEF TakeCandle, history
    <3> QED
      BY <1>0, <3>1 DEF BotOK
  <2>4. Types'
    <3>1. cursorFile' \in -1..(Total - 1)
      BY <1>3, <2>1 DEF TakeCandle
    <3>2. /\ pc' = "window"
          /\ UNCHANGED <<lastTraded, db, csvLog, risk, broker, order>>
          /\ UNCHANGED <<switch, operator, todo, rpc, reconciles>>
          /\ UNCHANGED <<flat, sessions, dead, resets, placed, replay, late, alone>>
      BY <1>3 DEF TakeCandle, operators, history, observed
    <3> QED
      BY <1>t, <2>2, <3>1, <3>2
  <2> QED
    BY <2>3, <2>4
<1>4. CASE SkipCandle \/ ReadReason \/ Decline
  BY <1>0, <1>4, <1>t DEF SkipCandle, ReadReason, Decline, files, operators, history, observed, BotOK
<1>5. CASE CheckSwitch
  BY <1>0, <1>5, <1>t, <1>w DEF CheckSwitch, files, operators, history, observed, BotOK
<1>6. CASE PlaceOrder
  <2>1. Latest \in 0..(Total - 1) /\ order'.candle = Latest
    <3>1. Latest \in 0..(feed.cursor - 1) /\ order'.candle = Latest
      BY <1>6, PlacedOrder
    <3>2. feed \in FeedState
      BY <1>t
    <3>3. feed.cursor \in 0..Total /\ Total \in Nat
      BY <3>2, FeatureTypes, DemoAssumption
    <3> QED
      BY <3>1, <3>3
  <2> HIDE DEF Types
  <2>2. placed' \in Seq(Placement)
    BY <1>6, PlacedOrder
  <2>3. /\ pc = "guard" /\ pc' = "placed"
        /\ late' = IF switch = "off" THEN 0 ELSE late + 1
        /\ UNCHANGED <<files, feed, risk, operators, history, replay, alone>>
    BY <1>6, PlacedParts, Zenon
  <2>4. order' \in OrderState
    <3>1. Len(placed') \in Nat /\ Latest \in Int /\ PositionSize(risk) \in Int
      BY <1>6, <1>t, <2>1, PlacedOrder, RiskTypes DEF Types
    <3>2. Accepted(Len(placed'), Latest, PositionSize(risk)) \in OrderState
      BY <3>1, AcceptedOrder
    <3> QED
      BY <1>6, <3>2, PlacedParts, Zenon
  <2>5. broker' \in BrokerState
    <3>1. broker' = [broker EXCEPT !.orders = broker.orders + 1]
      BY <1>6, PlacedParts, Zenon
    <3> QED
      BY <1>t, <3>1, BrokerTakes DEF Types
  <2>6. late' \in Nat
    BY <1>t, <2>3 DEF Types
  <2>7. Types'
    BY <1>t, <2>2, <2>3, <2>4, <2>5, <2>6 DEF files, operators, history, Types
  <2>8. BotOK'
    BY <1>0, <2>1, <2>3 DEF history, BotOK
  <2> QED
    BY <2>7, <2>8
<1>7. CASE InsertPending
  <2>1. db' \in Seq(Row) /\ Len(db') = Len(db) + 1 /\ Len(db) \in Nat
    BY <1>7, <1>t, RowTypes DEF InsertPending
  <2>2. todo' \subseteq 1..Len(db')
    BY <1>7, <1>t, <2>1 DEF InsertPending, operators
  <2> QED
    BY <1>0, <1>7, <1>t, <2>1, <2>2 DEF InsertPending, operators, history, observed, BotOK
<1>8. CASE MarkTraded
  BY <1>0, <1>8, <1>t DEF MarkTraded, operators, history, observed, BotOK
<1>9. CASE ResolveOrder
  <2>1. PICK profit \in Int, result \in {"WON", "LOST"} :
          /\ broker' = [broker EXCEPT !.balance = broker.balance + profit]
          /\ risk' = RegisterResult(risk, profit)
          /\ order' = Settled(order, result, profit)
    BY <1>0, <1>9, ResolvedParts
  <2>2. broker' \in BrokerState /\ risk' \in RiskState /\ order' \in OrderState
    BY <1>t, <2>1, BrokerSettles, RiskTypes, SettledOrder
  <2>3. /\ pc = "marked" /\ pc' = "resolved"
        /\ UNCHANGED <<files, feed, operators, history, observed>>
    BY <1>0, <1>9, ResolvedParts
  <2> QED
    BY <1>0, <1>t, <2>2, <2>3 DEF files, operators, history, observed, BotOK
<1>10. CASE LogTrade
  <2>1. csvLog' \in Seq(Row)
    BY <1>10, <1>t, RowTypes DEF LogTrade
  <2> QED
    BY <1>0, <1>10, <1>t, <2>1 DEF LogTrade, operators, history, observed, BotOK
<1>11. NoOrder \in OrderState
  BY DEF NoOrder, OrderState, PaperRow, NoCandle
<1>12. CASE UpdateRow
  <2>1. db' \in Seq(Row) /\ Len(db') = Len(db)
    <3>1. order.profit \in Int /\ order.result \in {"PENDING", "WON", "LOST", "ERROR"}
      BY <1>t, OrderFields
    <3>2. db \in Seq(Row) /\ db' = Updated(db, order.id, order.result, order.profit)
      BY <1>12, <1>t DEF UpdateRow
    <3> QED
      BY <3>1, <3>2, UpdatedRows
  <2> QED
    BY <1>0, <1>11, <1>12, <1>t, <2>1 DEF UpdateRow, operators, history, observed, BotOK
<1>13. CASE FinishDemo
  BY <1>13, <1>t, NoBotTypes DEF FinishDemo, files, operators, history, observed, BotOK
<1>14. ASSUME pc # "idle", dead' = dead \cup {sessions}, UNCHANGED sessions
       PROVE  dead' \subseteq 1..sessions'
  BY <1>0, <1>14, <1>t DEF BotOK
<1>15. CASE ReadFails
  <2>1. dead' \subseteq 1..sessions'
    BY <1>14, <1>15 DEF ReadFails
  <2> QED
    BY <1>15, <1>t, <2>1, NoBotTypes DEF ReadFails, files, operators, observed, BotOK
<1>16. CASE Crash \/ CrashInCursorWrite \/ CrashInMark
  <2>1. LoseBot /\ lastTraded' \in {lastTraded, Unreadable} /\ cursorFile' \in {cursorFile, -1}
    BY <1>16 DEF Crash, CrashInCursorWrite, CrashInMark
  <2>2. dead' \subseteq 1..sessions'
    BY <1>14, <2>1 DEF LoseBot
  <2> QED
    BY <1>t, <2>1, <2>2, NoBotTypes DEF LoseBot, operators, observed, BotOK
<1>17. CASE TruncateSwitch \/ WriteSwitch
  <2>1. feed' = feed /\ flat' = flat /\ pc' = pc /\ sessions' = sessions /\ order' = order
    BY <1>17 DEF TruncateSwitch, WriteSwitch, bot, history
  <2>2. BotOK'
    BY <1>0, <1>w, <2>1 DEF BotOK
  <2>3. Types'
    <3>1. CASE TruncateSwitch
      BY <1>t, <3>1 DEF TruncateSwitch, files, bot, history, observed
    <3>2. CASE WriteSwitch
      BY <1>t, <3>2 DEF WriteSwitch, files, bot, history
    <3> QED
      BY <1>17, <3>1, <3>2
  <2> QED
    BY <2>2, <2>3
<1>18. CASE ResetCursor
  BY <1>0, <1>18, <1>t, <1>w DEF ResetCursor, bot, operators, observed, BotOK
<1>19. CASE StartReconcile \/ FinishReconcile
  <2>1. feed' = feed /\ flat' = flat /\ pc' = pc /\ sessions' = sessions /\ order' = order
    BY <1>19 DEF StartReconcile, FinishReconcile, bot, history
  <2>2. BotOK'
    BY <1>0, <1>w, <2>1 DEF BotOK
  <2>3. todo' \subseteq 1..Len(db')
    BY <1>19, <1>t DEF StartReconcile, FinishReconcile, PendingRows, files
  <2>4. Types'
    <3>1. CASE StartReconcile
      BY <1>t, <2>3, <3>1 DEF StartReconcile, files, bot, history
    <3>2. CASE FinishReconcile
      BY <1>t, <2>3, <3>2 DEF FinishReconcile, files, bot, history, observed
    <3> QED
      BY <1>19, <3>1, <3>2
  <2> QED
    BY <2>2, <2>4
<1>20. CASE ReconcileOne
  <2>1. db' \in Seq(Row) /\ Len(db') = Len(db)
    BY <1>20, <1>t, UpdatedRows DEF ReconcileOne
  <2>2. BotOK'
    BY <1>0, <1>20, <1>w DEF ReconcileOne, bot, history, BotOK
  <2>3. Types'
    BY <1>20, <1>t, <2>1 DEF ReconcileOne, bot, history, observed
  <2> QED
    BY <2>2, <2>3
<1> QED
  BY <1>1, <1>2, <1>3, <1>4, <1>5, <1>6, <1>7, <1>8, <1>9, <1>10, <1>12, <1>13, <1>15,
     <1>16, <1>17, <1>18, <1>19, <1>20 DEF Next, BotStep, Reconcile

\* The initial state is well typed.
LEMMA TypeInit == Init => TypeInv
<1> SUFFICES ASSUME Init PROVE TypeInv
  OBVIOUS
<1>1. db \in Seq(Row) /\ csvLog \in Seq(Row) /\ placed \in Seq(Placement)
  <2>1. PaperPending \in Nat
    BY DemoAssumption
  <2>2. [order |-> PaperRow, session |-> 0, candle |-> NoCandle, result |-> "PENDING",
         profit |-> 0] \in Row
    BY DEF Row, PaperRow, NoCandle
  <2> QED
    BY <2>1, <2>2 DEF Init
<1>2. risk \in RiskState
  BY RiskAssumption DEF Init, FreshRisk, RiskState
<1>3. order \in OrderState
  BY DEF Init, NoOrder, OrderState, PaperRow, NoCandle
<1>4. feed \in FeedState /\ broker \in BrokerState
  BY DemoAssumption DEF Init, FeedState, BrokerState
<1>5. /\ flat \subseteq Flatable /\ cursorFile \in -1..(Total - 1)
      /\ lastTraded = NoCandle /\ sessions \in Nat /\ dead \subseteq 1..sessions
      /\ todo \subseteq 1..Len(db)
  BY DemoAssumption DEF Init
<1>6. TypeOK
  <2>1. /\ switch = "off" /\ operator = "none" /\ resets = 0 /\ pc = "idle"
        /\ rpc = "idle" /\ reconciles = 0 /\ replay = 0 /\ late = 0 /\ alone = FALSE
    BY DEF Init
  <2> QED
    BY <1>1, <1>2, <1>3, <1>4, <1>5, <2>1, TypeParts
<1> QED
  BY <1>6 DEF Init, TypeInv, BotOK

\* Every state of every demo session is well typed.
THEOREM TypeInvariance == Spec => []TypeInv
BY TypeInit, TypeStep, PTL DEF Spec

\* Every variable of the demo programs holds a value they can give it: the
\* feed stays inside the candle file, reconcile's snapshot inside the table.
THEOREM TypeCorrect == Spec => []TypeOK
<1>1. TypeInv => TypeOK
  BY DEF TypeInv
<1> QED
  BY <1>1, TypeInvariance, PTL


-----------------------------------------------------------------------------
(* The kill switch                                                         *)

\* The guard moves on only under an open switch, so a signal it has let past is
\* the first one since then.
KillInv ==
  /\ late <= 1
  /\ switch = "off" \/ pc = "guard" => late = 0

\* Every step keeps it: only the guard's pass and its order touch both sides.
LEMMA KillStep ==
  ASSUME TypeInv, KillInv, [Next]_vars
  PROVE  KillInv'
<1>0. late \in Nat
  BY DEF TypeInv, TypeOK
<1>1. CASE UNCHANGED <<switch, pc, late>>
  BY <1>1 DEF KillInv
<1>2. CASE CheckSwitch
  BY <1>2 DEF CheckSwitch, observed, operators, KillInv
<1>3. CASE PlaceOrder
  <2>1. /\ pc = "guard" /\ pc' = "placed" /\ switch' = switch
        /\ late' = IF switch = "off" THEN 0 ELSE late + 1
    BY <1>3, PlacedParts DEF operators
  <2> QED
    BY <2>1 DEF KillInv
<1>4. CASE TruncateSwitch
  BY <1>4 DEF TruncateSwitch, bot, observed, KillInv
<1>5. CASE WriteSwitch
  BY <1>0, <1>5 DEF WriteSwitch, bot, KillInv
<1>6. CASE pc' # "guard" /\ UNCHANGED <<switch, late>>
  BY <1>6 DEF KillInv
<1>7. CASE UNCHANGED vars
  BY <1>1, <1>7 DEF vars, bot, operators, observed
<1>8. CASE StartDemo \/ TakeCandle \/ SkipCandle \/ ReadReason \/ Decline
  BY <1>6, <1>8 DEF StartDemo, TakeCandle, SkipCandle, ReadReason, Decline, operators, observed
<1>9. CASE InsertPending \/ MarkTraded \/ ResolveOrder \/ LogTrade \/ UpdateRow
  <2>1. CASE InsertPending \/ MarkTraded \/ LogTrade \/ UpdateRow
    BY <1>6, <2>1 DEF InsertPending, MarkTraded, LogTrade, UpdateRow, operators, observed
  <2>2. CASE ResolveOrder
    <3>1. pc' = "resolved" /\ UNCHANGED <<operators, observed>>
      BY <2>2, Zenon DEF ResolveOrder
    <3> QED
      BY <1>6, <3>1 DEF operators, observed
  <2> QED
    BY <1>9, <2>1, <2>2
<1>10. CASE FinishDemo \/ ReadFails \/ Crash \/ CrashInCursorWrite \/ CrashInMark
  BY <1>6, <1>10 DEF FinishDemo, ReadFails, Crash, CrashInCursorWrite, CrashInMark, LoseBot, NoBot,
     operators, observed
<1>11. CASE ResetCursor \/ Reconcile
  BY <1>1, <1>11 DEF ResetCursor, Reconcile, StartReconcile, ReconcileOne, FinishReconcile,
     bot, operators, observed
<1> QED
  BY <1>2, <1>3, <1>4, <1>5, <1>7, <1>8, <1>9, <1>10, <1>11 DEF Next, BotStep

\* kill-on lets at most one more order through, however the operator's writes and
\* the guard's reads interleave.
THEOREM KillSwitch == Spec => []KillSwitchHolds
<1>1. Init => KillInv
  BY DEF Init, KillInv
<1>2. KillInv => KillSwitchHolds
  BY DEF KillInv, KillSwitchHolds
<1> QED
  BY <1>1, <1>2, TypeInvariance, KillStep, PTL DEF Spec


-----------------------------------------------------------------------------
(* The books                                                               *)

\* Between a settlement and its log line the log is behind by one profit; no row
\* belongs to a session to come, and a bot starts with nothing won or lost.
BooksInv ==
  /\ broker.balance = DemoInitialBalance + risk.dailyPnl
  /\ risk.balance = InitialBalance + risk.dailyPnl
  /\ pc = "idle" => risk.dailyPnl = 0
  /\ pc # "idle" =>
       ProfitOf(csvLog, sessions) = risk.dailyPnl - (IF pc = "resolved" THEN order.profit ELSE 0)
  /\ \A i \in 1..Len(csvLog) : csvLog[i].session <= sessions

\* Every step keeps the books equal.
LEMMA DemoBooksStep ==
  ASSUME TypeInv, BooksInv, [Next]_vars
  PROVE  BooksInv'
<1>0. TypeOK
  BY DEF TypeInv
<1>t. /\ sessions \in Nat /\ csvLog \in Seq(Row) /\ order \in OrderState
      /\ broker \in BrokerState /\ risk \in RiskState
  BY <1>0, TypeParts
<1>n. /\ risk.balance \in Int /\ risk.dailyPnl \in Int /\ broker.balance \in Int
      /\ order.profit \in Int /\ order.amount \in Int /\ broker.orders \in Nat
      /\ InitialBalance \in Nat /\ DemoInitialBalance \in Nat
  BY <1>0, TypeNumbers, RiskAssumption, DemoAssumption
<1>1. CASE /\ UNCHANGED <<csvLog, sessions, risk>>
           /\ broker'.balance = broker.balance
           /\ \/ UNCHANGED <<pc, order>>
              \/ pc \notin {"idle", "resolved"} /\ pc' \notin {"idle", "resolved"}
  BY <1>1 DEF BooksInv
<1>2. CASE UNCHANGED <<csvLog, sessions>> /\ NoBot
  BY <1>2, <1>n DEF BooksInv, NoBot, FreshRisk
<1>3. CASE UNCHANGED vars
  BY <1>1, <1>3 DEF vars, files, bot, history
<1>4. CASE StartDemo
  <2>1. /\ pc = "idle" /\ pc' = "loop" /\ sessions' = sessions + 1
        /\ UNCHANGED <<csvLog, risk, broker>>
    BY <1>4 DEF StartDemo, files
  <2>2. \A i \in 1..Len(csvLog) : csvLog[i] \in Row /\ csvLog[i].session <= sessions
    BY <1>t DEF BooksInv
  <2>3. \A i \in 1..Len(csvLog) : csvLog[i].session # sessions + 1
                                  /\ csvLog[i].session <= sessions + 1
    <3>1. \A i \in 1..Len(csvLog) : csvLog[i].session \in Nat
      BY <2>2 DEF Row
    <3> QED
      BY <1>t, <2>2, <3>1
  <2>4. ProfitOf(csvLog, sessions + 1) = 0
    BY <1>t, <2>3, NoProfit
  <2> QED
    BY <1>n, <2>1, <2>3, <2>4 DEF BooksInv
<1>5. CASE TakeCandle \/ SkipCandle \/ CheckSwitch \/ ReadReason \/ Decline
  BY <1>1, <1>5 DEF TakeCandle, SkipCandle, CheckSwitch, ReadReason, Decline, files, history
<1>6. CASE PlaceOrder
  <2>1. /\ pc = "guard" /\ pc' = "placed" /\ UNCHANGED <<csvLog, sessions, risk>>
        /\ broker' = [broker EXCEPT !.orders = broker.orders + 1]
    BY <1>6, PlacedParts DEF files, history
  <2>2. broker'.balance = broker.balance
    BY <1>t, <2>1, BrokerTakes
  <2> QED
    BY <1>1, <2>1, <2>2
<1>7. CASE InsertPending \/ MarkTraded
  BY <1>1, <1>7 DEF InsertPending, MarkTraded, history
<1>8. CASE ResolveOrder
  <2>1. PICK profit \in Int, result \in {"WON", "LOST"} :
          /\ broker' = [broker EXCEPT !.balance = broker.balance + profit]
          /\ risk' = RegisterResult(risk, profit)
          /\ order' = Settled(order, result, profit)
    BY <1>0, <1>8, ResolvedParts
  <2>2. pc = "marked" /\ pc' = "resolved" /\ csvLog' = csvLog /\ sessions' = sessions
    BY <1>0, <1>8, ResolvedParts DEF files, history
  <2>3. broker'.balance = broker.balance + profit
    BY <1>t, <2>1, BrokerSettles
  <2>4. risk'.balance = risk.balance + profit /\ risk'.dailyPnl = risk.dailyPnl + profit
    BY <1>t, <2>1, RegisteredResult
  <2>5. order'.profit = profit
    BY <1>t, <2>1, SettledOrder
  <2>6. ProfitOf(csvLog, sessions) = risk.dailyPnl
    BY <1>n, <2>2 DEF BooksInv
  <2>7. /\ broker.balance = DemoInitialBalance + risk.dailyPnl
        /\ risk.balance = InitialBalance + risk.dailyPnl
        /\ \A i \in 1..Len(csvLog) : csvLog[i].session <= sessions
    BY DEF BooksInv
  <2>8. /\ broker'.balance = DemoInitialBalance + risk'.dailyPnl
        /\ risk'.balance = InitialBalance + risk'.dailyPnl
    <3>1. profit \in Int
      OBVIOUS
    <3>2. /\ broker'.balance = (DemoInitialBalance + risk.dailyPnl) + profit
          /\ risk'.balance = (InitialBalance + risk.dailyPnl) + profit
          /\ risk'.dailyPnl = risk.dailyPnl + profit
      BY <2>3, <2>4, <2>7, Zenon
    <3>3. /\ (DemoInitialBalance + risk.dailyPnl) + profit
               = DemoInitialBalance + (risk.dailyPnl + profit)
          /\ (InitialBalance + risk.dailyPnl) + profit
               = InitialBalance + (risk.dailyPnl + profit)
      BY <1>n, <3>1
    <3> QED
      BY <3>2, <3>3, Zenon
  <2>9. ProfitOf(csvLog', sessions') = risk'.dailyPnl - order'.profit
    BY <1>n, <2>2, <2>4, <2>5, <2>6
  <2> QED
    BY <2>2, <2>7, <2>8, <2>9 DEF BooksInv
<1>9. CASE LogTrade
  <2>1. /\ pc = "resolved" /\ pc' = "logged" /\ UNCHANGED <<sessions, risk, broker>>
        /\ csvLog' = Append(csvLog, RowOf(order))
    BY <1>9 DEF LogTrade, history
  <2>2. RowOf(order) \in Row /\ RowOf(order).session = sessions
        /\ RowOf(order).profit = order.profit
    BY <1>t, RowTypes
  <2>3. /\ ProfitOf(csvLog, sessions) \in Int
        /\ ProfitOf(csvLog', sessions) = ProfitOf(csvLog, sessions) + order.profit
    BY <1>t, <2>1, <2>2, ProfitAppended
  <2>4. \A i \in 1..Len(csvLog') : csvLog'[i].session <= sessions
    <3>1. /\ Len(csvLog') = Len(csvLog) + 1 /\ Len(csvLog) \in Nat
          /\ csvLog'[Len(csvLog) + 1] = RowOf(order)
          /\ \A i \in 1..Len(csvLog) : csvLog'[i] = csvLog[i]
      BY <1>t, <2>1, <2>2
    <3>2. \A i \in 1..Len(csvLog') : i \in 1..Len(csvLog) \/ i = Len(csvLog) + 1
      BY <3>1
    <3> QED
      BY <1>t, <2>2, <3>1, <3>2 DEF BooksInv
  <2>5. ProfitOf(csvLog, sessions) = risk.dailyPnl - order.profit
    BY <2>1 DEF BooksInv
  <2>6. ProfitOf(csvLog', sessions') = risk'.dailyPnl
    BY <1>n, <2>1, <2>3, <2>5
  <2>7. /\ pc' = "logged" /\ risk' = risk /\ broker' = broker /\ sessions' = sessions
        /\ risk.dailyPnl \in Int
    BY <1>n, <2>1
  <2> QED
    BY <2>4, <2>6, <2>7 DEF BooksInv
<1>10. CASE UpdateRow
  BY <1>1, <1>10 DEF UpdateRow, history
<1>11. CASE FinishDemo \/ ReadFails \/ Crash \/ CrashInCursorWrite \/ CrashInMark
  BY <1>2, <1>11 DEF FinishDemo, ReadFails, Crash, CrashInCursorWrite, CrashInMark, LoseBot, files, history
<1>12. CASE TruncateSwitch \/ WriteSwitch \/ ResetCursor \/ Reconcile
  BY <1>1, <1>12 DEF TruncateSwitch, WriteSwitch, ResetCursor, Reconcile, StartReconcile,
     ReconcileOne, FinishReconcile, bot, files, history
<1> QED
  BY <1>3, <1>4, <1>5, <1>6, <1>7, <1>8, <1>9, <1>10, <1>11, <1>12 DEF Next, BotStep

\* The broker, the risk manager and the log tell the same story of a session,
\* whatever its stakes and however many bots died before it.
THEOREM BooksCorrect == Spec => []DemoBooksAgree
<1>1. Init => BooksInv
  <2> SUFFICES ASSUME Init PROVE BooksInv
    OBVIOUS
  <2>1. /\ InitialBalance \in Nat /\ DemoInitialBalance \in Nat
        /\ FreshRisk.balance = InitialBalance /\ FreshRisk.dailyPnl = 0
    BY RiskAssumption, DemoAssumption DEF FreshRisk
  <2> QED
    BY <2>1 DEF Init, BooksInv
<1>2. TypeInv /\ BooksInv => DemoBooksAgree
  <2> SUFFICES ASSUME TypeInv, BooksInv PROVE DemoBooksAgree
    OBVIOUS
  <2>1. /\ risk.balance \in Int /\ risk.dailyPnl \in Int /\ broker.balance \in Int
        /\ InitialBalance \in Nat /\ DemoInitialBalance \in Nat
    BY TypeNumbers, RiskAssumption, DemoAssumption DEF TypeInv
  <2> QED
    BY <2>1 DEF BooksInv, DemoBooksAgree
<1> QED
  BY <1>1, <1>2, TypeInvariance, DemoBooksStep, PTL DEF Spec


-----------------------------------------------------------------------------
(* The two stores                                                          *)

\* The bot holds an order, and holds one whose row is in the table.
InHand == pc \in {"placed", "inserted", "marked", "resolved", "logged"}
Stored == pc \in {"inserted", "marked", "resolved", "logged"}

\* A row of the order in hand, as inserted or as a concurrent reconcile left it.
OwnRow(row) ==
  /\ row.session = sessions /\ row.candle = order.candle
  /\ row.result = "PENDING" \/ (row.result = "ERROR" /\ row.profit = 0)

\* Order ids name the orders placed so far; the order in hand is the last of
\* them, is in the table from its insertion on and in the log from its logging on.
StoresInv ==
  /\ \A j \in 1..Len(db) : db[j].order <= Len(placed)
  /\ \A i \in 1..Len(csvLog) : csvLog[i].order \in 1..Len(placed)
  /\ InHand => order.id = Len(placed) /\ order.id >= 1
  /\ pc = "placed" => order.result = "PENDING"
                      /\ \A j \in 1..Len(db) : db[j].order # order.id
  /\ Stored => \E j \in 1..Len(db) : db[j].order = order.id
  /\ Stored => \A j \in 1..Len(db) : db[j].order = order.id => OwnRow(db[j])
  /\ InHand /\ pc # "logged" => \A i \in 1..Len(csvLog) : csvLog[i].order # order.id
  /\ pc = "logged" =>
       \A i \in 1..Len(csvLog) : csvLog[i].order = order.id => csvLog[i] = RowOf(order)

\* A row appended to a store comes after the rows that were there.
LEMMA AppendedRows ==
  ASSUME NEW S, NEW rows \in Seq(S), NEW row \in S
  PROVE  /\ Len(rows) \in Nat /\ Append(rows, row) \in Seq(S)
         /\ Len(Append(rows, row)) = Len(rows) + 1
         /\ Append(rows, row)[Len(rows) + 1] = row
         /\ \A i \in 1..Len(rows) : Append(rows, row)[i] = rows[i]
         /\ \A i \in 1..Len(Append(rows, row)) : i \in 1..Len(rows) \/ i = Len(rows) + 1
OBVIOUS

\* Two rows with the same fields are the same row.
LEMMA SameRow ==
  ASSUME NEW a \in Row, NEW b \in Row, a.order = b.order, a.session = b.session,
         a.candle = b.candle, a.result = b.result, a.profit = b.profit
  PROVE  a = b
BY DEF Row

\* A step that leaves the stores and the order in hand alone keeps StoresInv.
LEMMA StoresQuiet ==
  ASSUME StoresInv, UNCHANGED <<db, csvLog, placed>>,
         \/ ~InHand'
         \/ pc' = pc /\ order' = order /\ sessions' = sessions
         \/ pc = "inserted" /\ pc' = "marked" /\ order' = order /\ sessions' = sessions
  PROVE  StoresInv'
<1>1. CASE ~InHand'
  BY <1>1 DEF StoresInv, InHand, Stored
<1>2. CASE pc' = pc /\ order' = order /\ sessions' = sessions
  BY <1>2 DEF StoresInv, InHand, Stored, OwnRow, RowOf
<1>3. CASE pc = "inserted" /\ pc' = "marked" /\ order' = order /\ sessions' = sessions
  BY <1>3 DEF StoresInv, InHand, Stored, OwnRow
<1> QED
  BY <1>1, <1>2, <1>3

\* Every step keeps it.
LEMMA StoresStep ==
  ASSUME TypeInv, StoresInv, [Next]_vars
  PROVE  StoresInv'
<1>0. TypeOK
  BY DEF TypeInv
<1>t. /\ db \in Seq(Row) /\ csvLog \in Seq(Row) /\ placed \in Seq(Placement)
      /\ order \in OrderState /\ sessions \in Nat /\ order.id \in Nat
      /\ Len(db) \in Nat /\ Len(csvLog) \in Nat /\ Len(placed) \in Nat
      /\ todo \subseteq 1..Len(db)
  BY <1>0, TypeParts, TypeNumbers
<1>r. /\ \A j \in 1..Len(db) : db[j] \in Row /\ db[j].order \in Nat
      /\ \A i \in 1..Len(csvLog) : csvLog[i] \in Row /\ csvLog[i].order \in Nat
  <2>1. /\ \A j \in 1..Len(db) : db[j] \in Row
        /\ \A i \in 1..Len(csvLog) : csvLog[i] \in Row
    BY <1>t
  <2> QED
    BY <2>1 DEF Row
<1>1. CASE UNCHANGED vars
  BY <1>1, StoresQuiet DEF vars, files, bot, history, observed
<1>2. CASE StartDemo \/ TakeCandle \/ SkipCandle \/ CheckSwitch \/ ReadReason \/ Decline
  BY <1>2, StoresQuiet DEF StartDemo, TakeCandle, SkipCandle, CheckSwitch, ReadReason, Decline,
     files, observed, InHand
<1>3. CASE PlaceOrder
  <2>1. pc' = "placed" /\ UNCHANGED <<db, csvLog, sessions>>
    BY <1>3, PlacedParts DEF files, history
  <2>2. Len(placed') = Len(placed) + 1
    BY <1>3, PlacedOrder
  <2>3. order'.id = Len(placed') /\ order'.result = "PENDING"
    BY <1>3, PlacedOrder
  <2>4. /\ \A j \in 1..Len(db) : db[j].order <= Len(placed')
                                 /\ db[j].order # Len(placed')
        /\ \A i \in 1..Len(csvLog) : csvLog[i].order \in 1..Len(placed')
                                     /\ csvLog[i].order # Len(placed')
    BY <1>t, <1>r, <2>2 DEF StoresInv
  <2>5. pc' = "placed" /\ db' = db /\ csvLog' = csvLog /\ Len(placed') >= 1
    BY <1>t, <2>1, <2>2
  <2> QED
    BY <2>3, <2>4, <2>5 DEF StoresInv, InHand, Stored
<1>4. CASE InsertPending
  <2>1. /\ pc = "placed" /\ pc' = "inserted" /\ db' = Append(db, RowOf(order))
        /\ UNCHANGED <<csvLog, placed, order, sessions>>
    BY <1>4 DEF InsertPending, history, observed
  <2>2. /\ RowOf(order) \in Row /\ RowOf(order).order = order.id
        /\ RowOf(order).session = sessions /\ RowOf(order).candle = order.candle
        /\ RowOf(order).result = order.result
    BY <1>t, RowTypes
  <2>3. /\ Len(db') = Len(db) + 1 /\ db'[Len(db) + 1] = RowOf(order)
        /\ \A j \in 1..Len(db) : db'[j] = db[j]
        /\ \A j \in 1..Len(db') : j \in 1..Len(db) \/ j = Len(db) + 1
    BY <1>t, <2>1, <2>2, AppendedRows
  <2>4. order.result = "PENDING"
    BY <2>1 DEF StoresInv
  <2>5. \A j \in 1..Len(db') : db'[j].order = order.id => j = Len(db) + 1
    BY <2>1, <2>3 DEF StoresInv
  <2>6. /\ Len(db) + 1 \in 1..Len(db') /\ db'[Len(db) + 1].order = order.id
        /\ \A j \in 1..Len(db') : db'[j].order <= Len(placed)
        /\ \A i \in 1..Len(csvLog) : csvLog[i].order # order.id
        /\ order.id = Len(placed) /\ order.id >= 1
    BY <1>t, <2>1, <2>2, <2>3 DEF StoresInv, InHand
  <2>7. \A j \in 1..Len(db') : db'[j].order = order.id =>
          /\ db'[j].session = sessions /\ db'[j].candle = order.candle
          /\ db'[j].result = "PENDING"
    BY <2>2, <2>3, <2>4, <2>5
  <2>8. pc' = "inserted" /\ UNCHANGED <<csvLog, placed, order, sessions>>
    BY <2>1
  <2>9. \A i \in 1..Len(csvLog) : csvLog[i].order \in 1..Len(placed)
    BY DEF StoresInv
  <2> HIDE <2>1
  <2> QED
    BY <2>6, <2>7, <2>8, <2>9 DEF StoresInv, InHand, Stored, OwnRow
<1>5. CASE MarkTraded
  BY <1>5, StoresQuiet DEF MarkTraded, history, observed
<1>6. CASE ResolveOrder
  <2>1. PICK profit \in Int, result \in {"WON", "LOST"} : order' = Settled(order, result, profit)
    BY <1>0, <1>6, ResolvedParts
  <2>2. order'.id = order.id /\ order'.candle = order.candle
    <3>1. /\ Settled(order, result, profit).id = order.id
          /\ Settled(order, result, profit).candle = order.candle
      <4>1. order \in OrderState
        BY <1>t
      <4> QED
        BY <4>1, SettledOrder
    <3> QED
      BY <2>1, <3>1
  <2>3. /\ pc = "marked" /\ pc' = "resolved"
        /\ UNCHANGED <<db, csvLog, placed, sessions>>
    BY <1>0, <1>6, ResolvedParts DEF files, history, observed
  <2> QED
    BY <2>2, <2>3 DEF StoresInv, InHand, Stored, OwnRow
<1>7. CASE LogTrade
  <2>1. /\ pc = "resolved" /\ pc' = "logged" /\ csvLog' = Append(csvLog, RowOf(order))
        /\ UNCHANGED <<db, placed, order, sessions>>
    BY <1>7 DEF LogTrade, history, observed
  <2>2. RowOf(order) \in Row /\ RowOf(order).order = order.id
    BY <1>t, RowTypes
  <2>3. /\ Len(csvLog') = Len(csvLog) + 1 /\ csvLog'[Len(csvLog) + 1] = RowOf(order)
        /\ \A i \in 1..Len(csvLog) : csvLog'[i] = csvLog[i]
        /\ \A i \in 1..Len(csvLog') : i \in 1..Len(csvLog) \/ i = Len(csvLog) + 1
    BY <1>t, <2>1, <2>2, AppendedRows
  <2>4. order.id \in 1..Len(placed)
    BY <1>t, <2>1 DEF StoresInv, InHand
  <2>5. \A i \in 1..Len(csvLog') : csvLog'[i].order \in 1..Len(placed)
    BY <2>2, <2>3, <2>4 DEF StoresInv
  <2>6. \A i \in 1..Len(csvLog') : csvLog'[i].order = order.id => csvLog'[i] = RowOf(order)
    BY <2>1, <2>3 DEF StoresInv, InHand
  <2>7. RowOf(order)' = RowOf(order)
    BY <2>1 DEF RowOf
  <2>8. /\ pc = "resolved" /\ pc' = "logged" /\ UNCHANGED <<db, placed, order, sessions>>
    BY <2>1
  <2> HIDE <2>1
  <2> QED
    BY <2>5, <2>6, <2>7, <2>8 DEF StoresInv, InHand, Stored, OwnRow
<1>8. ASSUME NEW id, NEW result \in {"PENDING", "WON", "LOST", "ERROR"}, NEW profit \in Int,
             db' = Updated(db, id, result, profit)
      PROVE  /\ Len(db') = Len(db)
             /\ \A j \in 1..Len(db) :
                  /\ db'[j].order = db[j].order /\ db'[j].session = db[j].session
                  /\ db'[j].candle = db[j].candle
                  /\ \/ db'[j] = db[j]
                     \/ db'[j].result = result /\ db'[j].profit = profit
  BY <1>t, <1>8, UpdatedRows
<1>9. CASE UpdateRow
  <2>1. order.result \in {"PENDING", "WON", "LOST", "ERROR"} /\ order.profit \in Int
    BY <1>t, OrderFields
  <2>2. /\ pc' = "loop" /\ db' = Updated(db, order.id, order.result, order.profit)
        /\ UNCHANGED <<csvLog, placed>>
    BY <1>9 DEF UpdateRow, observed
  <2>3. Len(db') = Len(db) /\ \A j \in 1..Len(db) : db'[j].order = db[j].order
    BY <1>t, <2>1, <2>2, UpdatedRows
  <2> QED
    BY <2>2, <2>3 DEF StoresInv, InHand, Stored
<1>10. CASE FinishDemo \/ ReadFails \/ Crash \/ CrashInCursorWrite \/ CrashInMark
  BY <1>10, StoresQuiet
  DEF FinishDemo, ReadFails, Crash, CrashInCursorWrite, CrashInMark, LoseBot, NoBot, files, observed, InHand
<1>11. CASE TruncateSwitch \/ WriteSwitch \/ ResetCursor \/ StartReconcile \/ FinishReconcile
  BY <1>11, StoresQuiet
  DEF TruncateSwitch, WriteSwitch, ResetCursor, StartReconcile, FinishReconcile,
      bot, files, history, observed
<1>12. CASE ReconcileOne
  <2>1. /\ db' = Updated(db, db[Min(todo)].order, "ERROR", 0)
        /\ UNCHANGED <<csvLog, placed, pc, order, sessions>>
    BY <1>12 DEF ReconcileOne, bot, history, observed
  <2>2. /\ Len(db') = Len(db)
        /\ \A j \in 1..Len(db) :
             /\ db'[j].order = db[j].order /\ db'[j].session = db[j].session
             /\ db'[j].candle = db[j].candle
             /\ db'[j] = db[j] \/ (db'[j].result = "ERROR" /\ db'[j].profit = 0)
    BY <1>8, <2>1
  <2>3. UNCHANGED <<csvLog, placed, pc, order, sessions>>
    BY <2>1
  <2>4. Stored => \A j \in 1..Len(db) : db[j].order = order.id =>
          /\ db'[j].session = sessions /\ db'[j].candle = order.candle
          /\ db'[j].result = "PENDING" \/ (db'[j].result = "ERROR" /\ db'[j].profit = 0)
    BY <2>2 DEF StoresInv, OwnRow
  <2>5. RowOf(order)' = RowOf(order)
    BY <2>3 DEF RowOf
  <2> HIDE <2>1
  <2> QED
    BY <2>2, <2>3, <2>4, <2>5 DEF StoresInv, InHand, Stored, OwnRow
<1> QED
  BY <1>1, <1>2, <1>3, <1>4, <1>5, <1>6, <1>7, <1>9, <1>10, <1>11, <1>12
  DEF Next, BotStep, Reconcile

\* Every step keeps the table and the log in agreement.
LEMMA LedgerStep ==
  ASSUME TypeInv, StoresInv, LedgerMatchesLog, [Next]_vars
  PROVE  LedgerMatchesLog'
<1>0. TypeOK
  BY DEF TypeInv
<1>t. /\ db \in Seq(Row) /\ csvLog \in Seq(Row) /\ placed \in Seq(Placement)
      /\ order \in OrderState /\ sessions \in Nat /\ order.id \in Nat
      /\ Len(db) \in Nat /\ Len(csvLog) \in Nat /\ Len(placed) \in Nat
  BY <1>0, TypeParts, TypeNumbers
<1> DEFINE Told(row, j) ==
      /\ db[j].order = row.order
      /\ \/ db[j] = row
         \/ db[j].result = "ERROR" /\ db[j].profit = 0
         \/ /\ db[j].result = "PENDING"
            /\ db[j].session \in dead \/ (pc = "logged" /\ order.id = db[j].order)
<1>i. \A i \in 1..Len(csvLog) : \E j \in 1..Len(db) : Told(csvLog[i], j)
  BY DEF LedgerMatchesLog
<1>1. CASE /\ UNCHANGED <<db, csvLog>> /\ dead \subseteq dead'
           /\ pc = "logged" => pc' = "logged" /\ order' = order
  BY <1>i, <1>1 DEF LedgerMatchesLog
<1>2. CASE UNCHANGED vars
  BY <1>1, <1>2 DEF vars, files, bot, history
<1>3. CASE StartDemo \/ TakeCandle \/ SkipCandle \/ CheckSwitch \/ ReadReason \/ Decline \/ MarkTraded
  BY <1>1, <1>3 DEF StartDemo, TakeCandle, SkipCandle, CheckSwitch, ReadReason, Decline, MarkTraded,
     files, history
<1>4. CASE PlaceOrder
  BY <1>1, <1>4, PlacedParts DEF files, history
<1>5. CASE ResolveOrder
  BY <1>0, <1>1, <1>5, ResolvedParts DEF files, history
<1>6. CASE InsertPending
  <2>1. /\ pc = "placed" /\ db' = Append(db, RowOf(order))
        /\ UNCHANGED <<csvLog, dead, order>>
    BY <1>6 DEF InsertPending, history
  <2>2. /\ Len(db') = Len(db) + 1
        /\ \A j \in 1..Len(db) : db'[j] = db[j]
    BY <1>t, <2>1, RowTypes, AppendedRows
  <2>3. \A i \in 1..Len(csvLog') : \E j \in 1..Len(db) :
          /\ j \in 1..Len(db') /\ db'[j] = db[j] /\ Told(csvLog'[i], j)
    BY <1>i, <1>t, <2>1, <2>2
  <2>4. pc = "placed" /\ dead' = dead
    BY <2>1
  <2> QED
    BY <2>3, <2>4 DEF LedgerMatchesLog
<1>7. CASE LogTrade
  <2>1. /\ pc = "resolved" /\ pc' = "logged" /\ csvLog' = Append(csvLog, RowOf(order))
        /\ UNCHANGED <<db, dead, order>>
    BY <1>7 DEF LogTrade, history
  <2>2. RowOf(order) \in Row /\ RowOf(order).order = order.id
    BY <1>t, RowTypes
  <2>3. /\ Len(csvLog') = Len(csvLog) + 1 /\ csvLog'[Len(csvLog) + 1] = RowOf(order)
        /\ \A i \in 1..Len(csvLog) : csvLog'[i] = csvLog[i]
        /\ \A i \in 1..Len(csvLog') : i \in 1..Len(csvLog) \/ i = Len(csvLog) + 1
    BY <1>t, <2>1, <2>2, AppendedRows
  <2>4. PICK j \in 1..Len(db) : db[j].order = order.id /\ OwnRow(db[j])
    BY <2>1 DEF StoresInv, Stored
  <2>5. ASSUME NEW i \in 1..Len(csvLog')
        PROVE  \E k \in 1..Len(db') :
                 /\ db'[k].order = csvLog'[i].order
                 /\ \/ db'[k] = csvLog'[i]
                    \/ db'[k].result = "ERROR" /\ db'[k].profit = 0
                    \/ /\ db'[k].result = "PENDING"
                       /\ db'[k].session \in dead' \/ (pc' = "logged" /\ order'.id = db'[k].order)
    <3>1. CASE i \in 1..Len(csvLog)
      <4>1. PICK k \in 1..Len(db) : Told(csvLog[i], k)
        BY <1>i, <3>1
      <4>2. csvLog'[i] = csvLog[i] /\ pc = "resolved" /\ db' = db /\ dead' = dead
        BY <2>1, <2>3, <3>1
      <4> QED
        BY <4>1, <4>2
    <3>2. CASE i = Len(csvLog) + 1
      <4>1. /\ csvLog'[i].order = order.id /\ db' = db /\ pc' = "logged" /\ order' = order
        BY <2>1, <2>2, <2>3, <3>2
      <4> QED
        BY <2>4, <4>1 DEF OwnRow
    <3> QED
      BY <2>3, <3>1, <3>2
  <2> QED
    BY <2>5 DEF LedgerMatchesLog
<1>8. CASE UpdateRow
  <2>1. /\ pc = "logged" /\ pc' = "loop" /\ UNCHANGED <<csvLog, dead, sessions>>
        /\ db' = Updated(db, order.id, order.result, order.profit)
    BY <1>8 DEF UpdateRow, history
  <2>2. order.result \in {"PENDING", "WON", "LOST", "ERROR"} /\ order.profit \in Int
    BY <1>t, OrderFields
  <2>3. order.id # PaperRow
    BY <1>t, <2>1 DEF StoresInv, InHand, PaperRow
  <2>4. /\ Len(db') = Len(db)
        /\ \A j \in 1..Len(db) :
             /\ db'[j] \in Row /\ db'[j].order = db[j].order
             /\ db'[j].session = db[j].session /\ db'[j].candle = db[j].candle
             /\ db[j].order = order.id =>
                  db'[j].result = order.result /\ db'[j].profit = order.profit
             /\ db[j].order # order.id => db'[j] = db[j]
    BY <1>t, <2>1, <2>2, <2>3, UpdatedRows
  <2>5. ASSUME NEW i \in 1..Len(csvLog)
        PROVE  \E k \in 1..Len(db') :
                 /\ db'[k].order = csvLog[i].order
                 /\ \/ db'[k] = csvLog[i]
                    \/ db'[k].result = "ERROR" /\ db'[k].profit = 0
                    \/ db'[k].result = "PENDING" /\ db'[k].session \in dead
    <3>1. CASE csvLog[i].order = order.id
      <4>1. csvLog[i] = RowOf(order)
        BY <2>1, <3>1 DEF StoresInv
      <4>2. PICK j \in 1..Len(db) : db[j].order = order.id /\ OwnRow(db[j])
        BY <2>1 DEF StoresInv, Stored
      <4>3. /\ RowOf(order) \in Row /\ RowOf(order).order = order.id
            /\ RowOf(order).session = sessions /\ RowOf(order).candle = order.candle
            /\ RowOf(order).result = order.result /\ RowOf(order).profit = order.profit
        BY <1>t, RowTypes
      <4>4. /\ db'[j] \in Row /\ db'[j].order = order.id /\ db'[j].session = sessions
            /\ db'[j].candle = order.candle /\ db'[j].result = order.result
            /\ db'[j].profit = order.profit
        BY <2>4, <4>2 DEF OwnRow
      <4>5. db'[j] = RowOf(order)
        BY <4>3, <4>4, SameRow
      <4> QED
        BY <2>4, <3>1, <4>1, <4>2, <4>4, <4>5
    <3>2. CASE csvLog[i].order # order.id
      <4>1. PICK k \in 1..Len(db) : Told(csvLog[i], k)
        BY <1>i
      <4>2. db'[k] = db[k] /\ k \in 1..Len(db')
        BY <2>4, <3>2, <4>1
      <4> QED
        BY <3>2, <4>1, <4>2
    <3> QED
      BY <3>1, <3>2
  <2>6. csvLog' = csvLog /\ dead' = dead
    BY <2>1
  <2>7. \A i \in 1..Len(csvLog') : \E k \in 1..Len(db') :
          /\ db'[k].order = csvLog'[i].order
          /\ \/ db'[k] = csvLog'[i]
             \/ db'[k].result = "ERROR" /\ db'[k].profit = 0
             \/ db'[k].result = "PENDING" /\ db'[k].session \in dead'
    BY <2>5, <2>6
  <2> HIDE <2>1
  <2> QED
    BY <2>7 DEF LedgerMatchesLog
<1>9. CASE FinishDemo
  BY <1>1, <1>9 DEF FinishDemo, files, history
<1>10. CASE ReadFails
  BY <1>1, <1>10 DEF ReadFails, files
<1>11. CASE Crash \/ CrashInCursorWrite \/ CrashInMark
  <2>1. dead' = dead \cup {sessions} /\ UNCHANGED <<db, csvLog>>
    BY <1>11 DEF Crash, CrashInCursorWrite, CrashInMark, LoseBot
  <2>2. \A i \in 1..Len(csvLog) : \E j \in 1..Len(db) :
          /\ db[j].order = csvLog[i].order
          /\ \/ db[j] = csvLog[i]
             \/ db[j].result = "ERROR" /\ db[j].profit = 0
             \/ db[j].result = "PENDING" /\ db[j].session \in dead'
    <3> TAKE i \in 1..Len(csvLog)
    <3>1. PICK j \in 1..Len(db) : Told(csvLog[i], j)
      BY <1>i
    <3>2. pc = "logged" /\ order.id = db[j].order => db[j].session = sessions
      BY DEF StoresInv, Stored, OwnRow
    <3> QED
      BY <2>1, <3>1, <3>2
  <2>3. \A i \in 1..Len(csvLog') : \E j \in 1..Len(db') :
          /\ db'[j].order = csvLog'[i].order
          /\ \/ db'[j] = csvLog'[i]
             \/ db'[j].result = "ERROR" /\ db'[j].profit = 0
             \/ db'[j].result = "PENDING" /\ db'[j].session \in dead'
    BY <2>1, <2>2
  <2> QED
    BY <2>3 DEF LedgerMatchesLog
<1>12. CASE TruncateSwitch \/ WriteSwitch \/ ResetCursor \/ StartReconcile \/ FinishReconcile
  BY <1>1, <1>12
  DEF TruncateSwitch, WriteSwitch, ResetCursor, StartReconcile, FinishReconcile,
      bot, files, history
<1>13. CASE ReconcileOne
  <2>1. /\ db' = Updated(db, db[Min(todo)].order, "ERROR", 0)
        /\ UNCHANGED <<csvLog, dead, pc, order>>
    BY <1>13 DEF ReconcileOne, bot, history
  <2>2. /\ Len(db') = Len(db)
        /\ \A j \in 1..Len(db) :
             /\ db'[j].order = db[j].order
             /\ db'[j] = db[j] \/ (db'[j].result = "ERROR" /\ db'[j].profit = 0)
    BY <1>t, <2>1, UpdatedRows
  <2>3. UNCHANGED <<csvLog, dead, pc, order>>
    BY <2>1
  <2>4. ASSUME NEW i \in 1..Len(csvLog)
        PROVE  \E j \in 1..Len(db') :
                 /\ db'[j].order = csvLog[i].order
                 /\ \/ db'[j] = csvLog[i]
                    \/ db'[j].result = "ERROR" /\ db'[j].profit = 0
                    \/ /\ db'[j].result = "PENDING"
                       /\ db'[j].session \in dead \/ (pc = "logged" /\ order.id = db'[j].order)
    <3>1. PICK j \in 1..Len(db) : Told(csvLog[i], j)
      BY <1>i
    <3>2. j \in 1..Len(db') /\ db'[j].order = db[j].order
      BY <2>2
    <3>3. CASE db'[j] = db[j]
      BY <3>1, <3>2, <3>3
    <3>4. CASE db'[j].result = "ERROR" /\ db'[j].profit = 0
      BY <3>1, <3>2, <3>4
    <3> QED
      BY <2>2, <3>3, <3>4
  <2> QED
    BY <2>3, <2>4 DEF LedgerMatchesLog
<1> QED
  BY <1>2, <1>3, <1>4, <1>5, <1>6, <1>7, <1>8, <1>9, <1>10, <1>11, <1>12, <1>13
  DEF Next, BotStep, Reconcile

\* A table holding only paper rows, or nothing, knows of no order.
LEMMA StoresInit == Init => StoresInv
<1> SUFFICES ASSUME Init PROVE StoresInv
  OBVIOUS
<1>1. Len(placed) = 0 /\ Len(csvLog) = 0 /\ PaperPending \in Nat
  BY DemoAssumption DEF Init
<1>2. \A j \in 1..Len(db) : db[j].order = 0
  BY <1>1 DEF Init, PaperRow
<1> QED
  BY <1>1, <1>2 DEF Init, StoresInv, InHand, Stored

\* In every state the stores hold the orders placed and no other.
THEOREM StoresInvariance == Spec => []StoresInv
BY StoresInit, StoresStep, TypeInvariance, PTL DEF Spec

\* A logged trade is in the table with the same result, or with what a reconcile
\* wrote over it, or still open because the bot died before its update.
THEOREM LedgerAgrees == Spec => []LedgerMatchesLog
<1>1. Init => LedgerMatchesLog
  BY DEF Init, LedgerMatchesLog
<1> QED
  BY <1>1, StoresInvariance, TypeInvariance, LedgerStep, PTL DEF Spec


-----------------------------------------------------------------------------
(* One order per candle                                                    *)

\* Order k was placed since the feed last started at row 0.
Current(k) == placed[k].replay = replay

\* Order k has just been placed, and its candle is not marked yet.
AtHand(k) == pc \in {"placed", "inserted"} /\ k = Len(placed)

\* The execution state names a candle of this replay, and k's is not after it.
Marked(k) ==
  \E m \in 1..Len(placed) :
    Current(m) /\ placed[m].candle = lastTraded /\ placed[k].candle <= lastTraded

\* The orders of this replay are on candles the feed has passed, or that the
\* cursor file names.
Passed(k) ==
  /\ pc # "idle" => placed[k].candle <= feed.cursor - 1
  /\ pc = "idle" /\ cursorFile # -1 => placed[k].candle <= cursorFile

\* Within a replay the feed only moves forward, and a candle is traded at most once
\* more than the execution state knows: the last order of a bot that is at it, or
\* died at it.
OrdersInv ==
  /\ pc # "idle" => sessions \notin dead /\ cursorFile \in {-1, feed.cursor - 1}
  /\ \A k \in 1..Len(placed) :
       /\ placed[k].candle \in Nat /\ placed[k].candle \notin flat
       /\ placed[k].session <= sessions /\ placed[k].replay <= replay
       /\ Current(k) => Passed(k)
       /\ Current(k) => lastTraded = Unreadable \/ Abandoned(k) \/ AtHand(k) \/ Marked(k)
  /\ pc \in {"placed", "inserted"} =>
       /\ Len(placed) >= 1 /\ order.candle = placed[Len(placed)].candle
       /\ placed[Len(placed)].session = sessions /\ Current(Len(placed))
  /\ \A i, j \in 1..Len(placed) :
       i < j /\ placed[i].replay = placed[j].replay =>
         /\ placed[i].candle <= placed[j].candle
         /\ placed[i].candle = placed[j].candle => Abandoned(i)

\* The guard decides on the newest row that is not flat, whatever the window.
LEMMA NewestRow ==
  ASSUME feed \in FeedState, FeatureRows # {}, NEW c \in Nat,
         c \notin flat, c <= feed.cursor - 1
  PROVE  c <= Latest
<1>1. /\ feed.cursor \in 0..Total /\ Total \in Nat
      /\ Latest \in FeatureRows /\ \A x \in FeatureRows : x <= Latest
  BY FeatureTypes, DemoAssumption
<1>2. WindowStart \in Int /\ FeatureWarmUp \in Int
  <2>1. feed.cursor - Window \in Int
    BY <1>1, DemoAssumption
  <2> DEFINE w == feed.cursor - Window
             top == IF w > 0 THEN w ELSE 0
  <2>2. /\ top \in {0, w} /\ \A y \in {0, w} : top >= y
        /\ \A x \in {0, w} : (\A y \in {0, w} : x >= y) => x = top
    BY <2>1
  <2>3. top \in Int
    BY <2>1
  <2> HIDE DEF w, top
  <2>4. Max({0, w}) = top
    BY <2>2 DEF Max
  <2> QED
    BY <2>3, <2>4, DemoAssumption DEF WindowStart, w
<1>3. CASE c >= WindowStart + FeatureWarmUp
  <2>1. c \in FeatureRows
    BY <1>1, <1>2, <1>3 DEF FeatureRows
  <2> QED
    BY <1>1, <2>1
<1>4. CASE c < WindowStart + FeatureWarmUp
  <2>1. Latest >= WindowStart + FeatureWarmUp /\ Latest \in Int
    BY <1>1, <1>2 DEF FeatureRows
  <2> QED
    BY <1>2, <1>4, <2>1
<1> QED
  BY <1>2, <1>3, <1>4

\* A step that places and marks nothing keeps OrdersInv when the bot goes on, when
\* it ends (if it ends at an order it is dead), and when the cursor file is lost.
LEMMA OrdersQuiet ==
  ASSUME TypeOK, OrdersInv, UNCHANGED <<placed, replay, flat, sessions>>,
         dead \subseteq dead', lastTraded' \in {lastTraded, Unreadable},
         cursorFile' \in {cursorFile, -1},
         \/ UNCHANGED <<pc, feed, order, dead>>
         \/ /\ pc' # "idle" /\ pc # "idle" /\ UNCHANGED <<feed, dead>>
            /\ pc \in {"placed", "inserted"} <=> pc' \in {"placed", "inserted"}
            /\ pc \in {"placed", "inserted"} => order' = order
         \/ pc' = "idle" /\ pc # "idle" /\ (pc \in {"placed", "inserted"} => sessions \in dead')
  PROVE  OrdersInv'
<1>t. /\ feed.cursor \in 0..Total /\ Total \in Nat /\ Len(placed) \in Nat
      /\ cursorFile \in -1..(Total - 1)
  BY TypeParts, TypeNumbers, FeatureTypes
<1> DEFINE n == Len(placed)
<1>1. \A k \in 1..n : Abandoned(k) => Abandoned(k)'
  BY DEF Abandoned, LastOfSession
<1>2. \A k \in 1..n : Current(k) <=> Current(k)'
  BY DEF Current
<1>3. ASSUME NEW k \in 1..n, Current(k), Passed(k)
      PROVE  Passed(k)'
  <2>1. CASE pc' = pc /\ feed' = feed
    BY <1>3, <2>1 DEF Passed
  <2>2. CASE pc' # "idle" /\ pc # "idle" /\ feed' = feed
    BY <1>3, <2>2 DEF Passed
  <2>3. CASE pc' = "idle" /\ pc # "idle"
    <3>1. placed'[k].candle <= feed.cursor - 1 /\ cursorFile \in {-1, feed.cursor - 1}
      BY <1>3, <2>3 DEF Passed, OrdersInv
    <3> QED
      BY <1>t, <2>3, <3>1 DEF Passed
  <2> QED
    BY <2>1, <2>2, <2>3
<1>4. \A k \in 1..n : AtHand(k) => AtHand(k)' \/ Abandoned(k)'
  BY <1>t DEF AtHand, Abandoned, LastOfSession, OrdersInv
<1>5. \A k \in 1..n : Marked(k) => lastTraded' = Unreadable \/ Marked(k)'
  BY DEF Marked, Current
<1>6. /\ pc' # "idle" => sessions' \notin dead' /\ cursorFile' \in {-1, feed'.cursor - 1}
      /\ pc' \in {"placed", "inserted"} =>
           /\ Len(placed') >= 1 /\ order'.candle = placed'[Len(placed')].candle
           /\ placed'[Len(placed')].session = sessions' /\ Current(Len(placed))'
  BY DEF OrdersInv, Current
<1>7. \A k \in 1..n :
        Current(k)' => lastTraded' = Unreadable \/ Abandoned(k)' \/ AtHand(k)' \/ Marked(k)'
  BY <1>1, <1>2, <1>4, <1>5 DEF OrdersInv
<1>8. \A k \in 1..n : Current(k)' => Passed(k)'
  BY <1>2, <1>3 DEF OrdersInv
<1>9. \A i, j \in 1..n :
        i < j /\ placed[i].replay = placed[j].replay =>
          /\ placed[i].candle <= placed[j].candle
          /\ placed[i].candle = placed[j].candle => Abandoned(i)'
  BY <1>1 DEF OrdersInv
<1> QED
  BY <1>6, <1>7, <1>8, <1>9 DEF OrdersInv

\* A bot that starts goes on with the replay at the candle after the cursor, or
\* begins a new one.
LEMMA OrdersStart ==
  ASSUME TypeOK, OrdersInv, StartDemo
  PROVE  OrdersInv'
<1>t. /\ Len(placed) \in Nat /\ cursorFile \in -1..(Total - 1) /\ Total \in Nat
      /\ sessions \in Nat /\ dead \subseteq 1..sessions /\ replay \in Nat
      /\ placed \in Seq(Placement)
  BY TypeParts, TypeNumbers
<1>p. \A k \in 1..Len(placed) : placed[k].session \in Nat /\ placed[k].replay \in Nat
  <2>1. \A k \in 1..Len(placed) : placed[k] \in Placement
    BY <1>t
  <2> QED
    BY <2>1 DEF Placement
<1>1. /\ pc = "idle" /\ pc' = "loop" /\ feed'.cursor = cursorFile + 1
      /\ sessions' = sessions + 1
      /\ UNCHANGED <<cursorFile, lastTraded, placed, flat, dead>>
      /\ replay' = IF cursorFile = -1 THEN replay + 1 ELSE replay
  BY <1>t DEF StartDemo, NextIndex, files
<1>2. \A k \in 1..Len(placed) : Current(k)' => Current(k) /\ cursorFile # -1
  BY <1>p, <1>t, <1>1 DEF OrdersInv, Current
<1>3. \A k \in 1..Len(placed) : Abandoned(k) => Abandoned(k)'
  BY <1>1 DEF Abandoned, LastOfSession
<1>4. \A k \in 1..Len(placed) : Current(k)' => Passed(k)'
  BY <1>t, <1>1, <1>2 DEF Passed, OrdersInv
<1>5. \A k \in 1..Len(placed) : Current(k)' /\ Marked(k) => Marked(k)'
  BY <1>1, <1>2 DEF Marked, Current
<1>6. \A k \in 1..Len(placed) : ~AtHand(k)
  BY <1>1 DEF AtHand
<1>7. \A k \in 1..Len(placed) :
        Current(k)' => lastTraded' = Unreadable \/ Abandoned(k)' \/ AtHand(k)' \/ Marked(k)'
  BY <1>1, <1>2, <1>3, <1>5, <1>6 DEF OrdersInv
<1>8. sessions' \notin dead' /\ cursorFile' \in {-1, feed'.cursor - 1}
  BY <1>t, <1>1
<1>9. \A k \in 1..Len(placed) :
        /\ placed'[k].candle \in Nat /\ placed'[k].candle \notin flat'
        /\ placed'[k].session <= sessions' /\ placed'[k].replay <= replay'
  BY <1>p, <1>t, <1>1 DEF OrdersInv
<1>10. \A i, j \in 1..Len(placed) :
         i < j /\ placed'[i].replay = placed'[j].replay =>
           /\ placed'[i].candle <= placed'[j].candle
           /\ placed'[i].candle = placed'[j].candle => Abandoned(i)'
  BY <1>1, <1>3 DEF OrdersInv
<1>11. pc' \notin {"placed", "inserted"} /\ Len(placed') = Len(placed)
  BY <1>1
<1> QED
  BY <1>4, <1>7, <1>8, <1>9, <1>10, <1>11 DEF OrdersInv

\* A candle taken leaves the orders behind it.
LEMMA OrdersTake ==
  ASSUME TypeOK, OrdersInv, TakeCandle
  PROVE  OrdersInv'
<1>t. feed.cursor \in 0..Total /\ Total \in Nat /\ Len(placed) \in Nat
  BY TypeParts, TypeNumbers, FeatureTypes
<1>1. /\ pc = "loop" /\ pc' = "window" /\ cursorFile' = feed.cursor
      /\ feed'.cursor = feed.cursor + 1
      /\ UNCHANGED <<lastTraded, placed, replay, flat, dead, sessions>>
  BY DEF TakeCandle, history, observed
<1>2. cursorFile' \in {-1, feed'.cursor - 1}
  BY <1>t, <1>1
<1>3. \A k \in 1..Len(placed) : Abandoned(k) => Abandoned(k)'
  BY <1>1 DEF Abandoned, LastOfSession
<1>4. \A k \in 1..Len(placed) : (Current(k) <=> Current(k)') /\ (Marked(k) <=> Marked(k)')
  BY <1>1 DEF Marked, Current
<1>5. \A k \in 1..Len(placed) : Current(k)' => Passed(k)'
  BY <1>t, <1>1, <1>4 DEF Passed, OrdersInv
<1>6. \A k \in 1..Len(placed) : ~AtHand(k)
  BY <1>1 DEF AtHand
<1>7. \A k \in 1..Len(placed) :
        Current(k)' => lastTraded' = Unreadable \/ Abandoned(k)' \/ AtHand(k)' \/ Marked(k)'
  BY <1>1, <1>3, <1>4, <1>6 DEF OrdersInv
<1>8. /\ pc # "idle" /\ pc' = "window"
      /\ UNCHANGED <<placed, replay, flat, dead, sessions>>
  BY <1>1
<1> QED
  BY <1>2, <1>3, <1>5, <1>7, <1>8 DEF OrdersInv

\* The execution state now names the newest candle of this replay.
LEMMA OrdersMark ==
  ASSUME TypeOK, OrdersInv, MarkTraded
  PROVE  OrdersInv'
<1>t. Len(placed) \in Nat
  BY TypeNumbers
<1>1. /\ pc = "inserted" /\ pc' = "marked" /\ lastTraded' = order.candle
      /\ UNCHANGED <<cursorFile, feed, placed, replay, flat, sessions, dead>>
  BY DEF MarkTraded, history, observed
<1>2. /\ Len(placed) \in 1..Len(placed) /\ lastTraded' = placed[Len(placed)].candle
      /\ Current(Len(placed))
  BY <1>t, <1>1 DEF OrdersInv
<1>3. \A k \in 1..Len(placed) : Current(k) => placed[k].candle <= lastTraded'
  <2> SUFFICES ASSUME NEW k \in 1..Len(placed), Current(k)
               PROVE  placed[k].candle <= lastTraded'
    OBVIOUS
  <2>1. k = Len(placed) \/ k < Len(placed)
    BY <1>t
  <2>2. placed[k].candle \in Nat /\ placed[k].replay = placed[Len(placed)].replay
    BY <1>2 DEF OrdersInv, Current
  <2> QED
    BY <1>2, <2>1, <2>2 DEF OrdersInv
<1>4. \A k \in 1..Len(placed) : Current(k)' => Current(k) /\ Marked(k)'
  BY <1>1, <1>2, <1>3 DEF Marked, Current
<1>5. \A k \in 1..Len(placed) : Abandoned(k) => Abandoned(k)'
  BY <1>1 DEF Abandoned, LastOfSession
<1>6. \A k \in 1..Len(placed) : Current(k)' => Passed(k)'
  BY <1>1, <1>4 DEF Passed, OrdersInv
<1>7. /\ pc = "inserted" /\ pc' = "marked"
      /\ UNCHANGED <<cursorFile, feed, placed, replay, flat, sessions, dead>>
  BY <1>1
<1> QED
  BY <1>4, <1>5, <1>6, <1>7 DEF OrdersInv

\* The guard accepts a candle no order of this replay is on, or only orders of
\* bots that died before they marked it.
LEMMA OrdersPlace ==
  ASSUME TypeInv, OrdersInv, PlaceOrder
  PROVE  OrdersInv'
<1> DEFINE n == Len(placed)
           p == ThisPlacement
<1>0. TypeOK
  BY DEF TypeInv
<1>t. /\ feed \in FeedState /\ feed.cursor \in 0..Total /\ placed \in Seq(Placement)
      /\ n \in Nat /\ sessions \in Nat /\ replay \in Nat /\ cursorFile \in -1..(Total - 1)
      /\ lastTraded \in Int /\ Total \in Nat
  BY <1>0, TypeParts, TypeNumbers, FeatureTypes DEF NoCandle, Unreadable
<1>1. /\ pc = "guard" /\ pc' = "placed"
      /\ lastTraded # Latest /\ lastTraded # Unreadable
      /\ UNCHANGED <<cursorFile, lastTraded, feed, flat, sessions, dead, replay>>
  BY PlacedParts DEF files, history
<1>2. /\ order'.candle = Latest /\ Latest \in FeatureRows
      /\ Latest \in 0..(feed.cursor - 1) /\ placed' = Append(placed, p)
  BY PlacedOrder
<1>3. p \in Placement /\ p.session = sessions /\ p.candle = Latest /\ p.replay = replay
  BY <1>t, <1>2 DEF Placement, ThisPlacement
<1> HIDE DEF p
<1>4. /\ n \in Nat /\ Len(placed') = n + 1 /\ placed'[n + 1] = p
      /\ \A k \in 1..n : placed'[k] = placed[k]
      /\ \A k \in 1..Len(placed') : k \in 1..n \/ k = n + 1
  BY <1>t, <1>2, <1>3, AppendedRows
<1>5. cursorFile \in {-1, feed.cursor - 1} /\ sessions \notin dead
  BY <1>1 DEF OrdersInv
<1>6. \A k \in 1..n : placed[k].replay = replay => placed[k].candle <= Latest
  <2> SUFFICES ASSUME NEW k \in 1..n, placed[k].replay = replay
               PROVE  placed[k].candle <= Latest
    OBVIOUS
  <2>1. /\ placed[k].candle \in Nat /\ placed[k].candle \notin flat
        /\ placed[k].candle <= feed.cursor - 1
    BY <1>1 DEF OrdersInv, Current, Passed
  <2>2. FeatureRows # {}
    BY <1>2
  <2> QED
    BY <1>t, <2>1, <2>2, NewestRow
<1>7. \A k \in 1..n : Abandoned(k) => Abandoned(k)'
  <2> SUFFICES ASSUME NEW k \in 1..n, Abandoned(k) PROVE Abandoned(k)'
    OBVIOUS
  <2>1. placed[k].session \in dead /\ placed'[k] = placed[k] /\ dead' = dead
    BY <1>1, <1>4 DEF Abandoned
  <2>2. ASSUME NEW j \in (k + 1)..(n + 1) PROVE placed'[j].session # placed[k].session
    <3>1. CASE j = n + 1
      BY <1>3, <1>4, <1>5, <2>1, <3>1
    <3>2. CASE j \in (k + 1)..n
      BY <1>4, <3>2 DEF Abandoned, LastOfSession
    <3> QED
      BY <1>4, <3>1, <3>2
  <2> QED
    BY <1>4, <2>1, <2>2 DEF Abandoned, LastOfSession
<1>8. \A k \in 1..n : placed[k].replay = replay /\ placed[k].candle = Latest => Abandoned(k)
  <2> SUFFICES ASSUME NEW k \in 1..n, placed[k].replay = replay, placed[k].candle = Latest,
                      ~Abandoned(k)
               PROVE  FALSE
    OBVIOUS
  <2>1. Current(k) /\ ~AtHand(k)
    BY <1>1 DEF Current, AtHand
  <2>2. Marked(k)
    BY <1>1, <2>1 DEF OrdersInv
  <2>3. PICK m \in 1..n : placed[m].replay = replay /\ placed[m].candle = lastTraded
                          /\ placed[k].candle <= lastTraded
    BY <2>2 DEF Marked, Current
  <2>4. lastTraded <= Latest /\ Latest <= lastTraded /\ Latest \in Int
    BY <1>2, <1>6, <2>3
  <2> QED
    BY <1>t, <1>1, <2>4
<1>9. \A k \in 1..n : (Current(k) <=> Current(k)') /\ (Marked(k) => Marked(k)')
  BY <1>1, <1>4 DEF Marked, Current
<1>10. \A k \in 1..Len(placed') :
         /\ placed'[k].candle \in Nat /\ placed'[k].candle \notin flat'
         /\ placed'[k].session <= sessions' /\ placed'[k].replay <= replay'
  <2>1. Latest \notin flat /\ Latest \in Nat
    BY <1>2 DEF FeatureRows
  <2> QED
    BY <1>t, <1>1, <1>3, <1>4, <2>1 DEF OrdersInv
<1>11. \A k \in 1..Len(placed') : Current(k)' => Passed(k)'
  <2> SUFFICES ASSUME NEW k \in 1..Len(placed'), Current(k)' PROVE Passed(k)'
    OBVIOUS
  <2>1. placed'[k].candle <= feed.cursor - 1
    <3>1. CASE k = n + 1
      BY <1>t, <1>2, <1>3, <1>4, <3>1
    <3>2. CASE k \in 1..n
      BY <1>1, <1>4, <1>9, <3>2 DEF OrdersInv, Passed
    <3> QED
      BY <1>4, <3>1, <3>2
  <2> QED
    BY <1>1, <2>1 DEF Passed
<1>12. \A k \in 1..Len(placed') :
         Current(k)' => lastTraded' = Unreadable \/ Abandoned(k)' \/ AtHand(k)' \/ Marked(k)'
  <2> SUFFICES ASSUME NEW k \in 1..Len(placed'), Current(k)'
               PROVE  Abandoned(k)' \/ AtHand(k)' \/ Marked(k)'
    OBVIOUS
  <2>1. CASE k = n + 1
    BY <1>1, <1>4, <2>1 DEF AtHand
  <2>2. CASE k \in 1..n
    <3>1. Current(k) /\ ~AtHand(k)
      BY <1>1, <1>9, <2>2 DEF AtHand
    <3>2. Abandoned(k) \/ Marked(k)
      BY <1>1, <2>2, <3>1 DEF OrdersInv
    <3> QED
      BY <1>7, <1>9, <2>2, <3>2
  <2> QED
    BY <1>4, <2>1, <2>2
<1>13. \A i, j \in 1..Len(placed') :
         i < j /\ placed'[i].replay = placed'[j].replay =>
           /\ placed'[i].candle <= placed'[j].candle
           /\ placed'[i].candle = placed'[j].candle => Abandoned(i)'
  <2> SUFFICES ASSUME NEW i \in 1..Len(placed'), NEW j \in 1..Len(placed'), i < j,
                      placed'[i].replay = placed'[j].replay
               PROVE  /\ placed'[i].candle <= placed'[j].candle
                      /\ placed'[i].candle = placed'[j].candle => Abandoned(i)'
    OBVIOUS
  <2>1. i \in 1..n
    BY <1>4
  <2>2. CASE j = n + 1
    BY <1>3, <1>4, <1>6, <1>7, <1>8, <2>1, <2>2
  <2>3. CASE j \in 1..n
    BY <1>4, <1>7, <2>1, <2>3 DEF OrdersInv
  <2> QED
    BY <1>4, <2>2, <2>3
<1>14. /\ Len(placed') >= 1 /\ order'.candle = placed'[Len(placed')].candle
       /\ placed'[Len(placed')].session = sessions' /\ Current(Len(placed))'
  BY <1>1, <1>2, <1>3, <1>4 DEF Current
<1>15. pc' # "idle" => sessions' \notin dead' /\ cursorFile' \in {-1, feed'.cursor - 1}
  BY <1>1, <1>5
<1> HIDE DEF n
<1> QED
  BY <1>10, <1>11, <1>12, <1>13, <1>14, <1>15 DEF OrdersInv

\* Every step keeps it.
LEMMA OrdersStep ==
  ASSUME TypeInv, OrdersInv, [Next]_vars
  PROVE  OrdersInv'
<1>0. TypeOK
  BY DEF TypeInv
<1>1. CASE UNCHANGED vars
  BY <1>0, <1>1, OrdersQuiet DEF vars, files, bot, history, observed
<1>2. CASE StartDemo
  BY <1>0, <1>2, OrdersStart
<1>3. CASE TakeCandle
  BY <1>0, <1>3, OrdersTake
<1>4. CASE SkipCandle \/ CheckSwitch \/ ReadReason \/ Decline
  BY <1>0, <1>4, OrdersQuiet
  DEF SkipCandle, CheckSwitch, ReadReason, Decline, files, history, observed
<1>5. CASE PlaceOrder
  BY <1>5, OrdersPlace
<1>6. CASE InsertPending
  BY <1>0, <1>6, OrdersQuiet DEF InsertPending, history, observed
<1>7. CASE MarkTraded
  BY <1>0, <1>7, OrdersMark
<1>8. CASE ResolveOrder
  <2>1. /\ pc = "marked" /\ pc' = "resolved"
        /\ UNCHANGED <<files, feed, history, observed>>
    BY <1>0, <1>8, ResolvedParts
  <2> QED
    BY <1>0, <2>1, OrdersQuiet DEF files, history, observed
<1>9. CASE LogTrade \/ UpdateRow
  BY <1>0, <1>9, OrdersQuiet DEF LogTrade, UpdateRow, history, observed
<1>10. CASE FinishDemo \/ ReadFails
  BY <1>0, <1>10, OrdersQuiet DEF FinishDemo, ReadFails, NoBot, files, history, observed
<1>11. CASE Crash \/ CrashInCursorWrite \/ CrashInMark
  BY <1>0, <1>11, OrdersQuiet
  DEF Crash, CrashInCursorWrite, CrashInMark, LoseBot, NoBot, observed
<1>12. CASE TruncateSwitch \/ WriteSwitch \/ ResetCursor \/ Reconcile
  BY <1>0, <1>12, OrdersQuiet
  DEF TruncateSwitch, WriteSwitch, ResetCursor, Reconcile, StartReconcile, ReconcileOne,
      FinishReconcile, bot, files, history, observed
<1> QED
  BY <1>1, <1>2, <1>3, <1>4, <1>5, <1>6, <1>7, <1>8, <1>9, <1>10, <1>11, <1>12
  DEF Next, BotStep

\* From one start at row 0 to the next no candle is traded twice, in one session or
\* in several, except the one a bot died at after the broker had taken its order.
THEOREM OneOrder == Spec => []OneDemoOrderPerCandle
<1>1. Init => OrdersInv
  <2> SUFFICES ASSUME Init PROVE OrdersInv
    OBVIOUS
  <2>1. Len(placed) = 0 /\ pc = "idle"
    BY DEF Init
  <2> QED
    BY <2>1 DEF OrdersInv
<1>2. OrdersInv => OneDemoOrderPerCandle
  BY DEF OrdersInv, OneDemoOrderPerCandle
<1> QED
  BY <1>1, <1>2, OrdersStep, TypeInvariance, PTL DEF Spec


-----------------------------------------------------------------------------
(* Reconciliation                                                          *)

\* Rows without order id stay PENDING, and what else is pending while reconcile
\* has the files for itself is still on its list.
ReconcileInv ==
  /\ alone => pc = "idle"
  /\ \A j \in 1..Len(db) : db[j].order = PaperRow => db[j].result = "PENDING"
  /\ rpc # "idle" /\ alone =>
       \A j \in 1..Len(db) : db[j].result = "PENDING" => j \in todo \/ db[j].order = PaperRow
  /\ rpc = "done" => todo = {}

\* Every step keeps it: the bot's own steps are those of a bot that is not idle.
LEMMA ReconcileStep ==
  ASSUME TypeInv, StoresInv, ReconcileInv, [Next]_vars
  PROVE  ReconcileInv'
<1>0. TypeOK
  BY DEF TypeInv
<1>t. /\ db \in Seq(Row) /\ Len(db) \in Nat /\ order \in OrderState
      /\ todo \subseteq 1..Len(db) /\ sessions \in Nat
      /\ rpc \in {"idle", "run", "done"}
  BY <1>0, TypeParts, TypeNumbers
<1>1. CASE UNCHANGED <<db, todo, rpc, alone>> /\ (pc' = pc \/ ~alone)
  BY <1>1 DEF ReconcileInv
<1>2. CASE UNCHANGED vars
  BY <1>1, <1>2 DEF vars, files, bot, operators, observed
<1>3. CASE StartDemo
  BY <1>3 DEF StartDemo, files, operators, ReconcileInv
<1>4. pc # "idle" => ~alone
  BY DEF ReconcileInv
<1>5. CASE TakeCandle \/ SkipCandle \/ CheckSwitch \/ ReadReason \/ Decline \/ MarkTraded \/ LogTrade
  BY <1>1, <1>4, <1>5 DEF TakeCandle, SkipCandle, CheckSwitch, ReadReason, Decline, MarkTraded,
     LogTrade, files, operators, observed
<1>6. CASE PlaceOrder
  BY <1>1, <1>4, <1>6, PlacedParts DEF files, operators
<1>7. CASE ResolveOrder
  BY <1>0, <1>1, <1>4, <1>7, ResolvedParts DEF files, operators, observed
<1>8. CASE FinishDemo \/ ReadFails \/ Crash \/ CrashInCursorWrite \/ CrashInMark
  <2>1. UNCHANGED <<db, todo, rpc, alone>> /\ pc # "idle"
    BY <1>8 DEF FinishDemo, ReadFails, Crash, CrashInCursorWrite, CrashInMark, LoseBot, files, operators, observed
  <2> QED
    BY <1>1, <1>4, <2>1
<1>9. CASE InsertPending
  <2>1. /\ pc = "placed" /\ db' = Append(db, RowOf(order))
        /\ UNCHANGED <<todo, rpc, alone>>
    BY <1>9 DEF InsertPending, operators, observed
  <2>2. RowOf(order) \in Row /\ RowOf(order).order = order.id /\ order.id >= 1
    BY <1>t, <2>1, RowTypes DEF StoresInv, InHand
  <2>3. /\ Len(db') = Len(db) + 1 /\ db'[Len(db) + 1] = RowOf(order)
        /\ \A j \in 1..Len(db) : db'[j] = db[j]
        /\ \A j \in 1..Len(db') : j \in 1..Len(db) \/ j = Len(db) + 1
    BY <1>t, <2>1, <2>2, AppendedRows
  <2>4. \A j \in 1..Len(db') : db'[j].order = PaperRow => db'[j].result = "PENDING"
    BY <2>2, <2>3 DEF ReconcileInv, PaperRow
  <2>5. ~alone /\ UNCHANGED <<todo, rpc, alone>>
    BY <1>4, <2>1
  <2> QED
    BY <2>4, <2>5 DEF ReconcileInv
<1>10. CASE UpdateRow
  <2>1. /\ pc = "logged" /\ db' = Updated(db, order.id, order.result, order.profit)
        /\ UNCHANGED <<todo, rpc, alone>>
    BY <1>10 DEF UpdateRow, operators, observed
  <2>2. order.result \in {"PENDING", "WON", "LOST", "ERROR"} /\ order.profit \in Int
    BY <1>t, OrderFields
  <2>3. /\ Len(db') = Len(db)
        /\ \A j \in 1..Len(db) :
             db'[j].order = db[j].order /\ (db[j].order = PaperRow => db'[j] = db[j])
    BY <1>t, <2>1, <2>2, UpdatedRows
  <2>4. ~alone /\ UNCHANGED <<todo, rpc, alone>>
    BY <1>4, <2>1
  <2> QED
    BY <2>3, <2>4 DEF ReconcileInv
<1>11. CASE TruncateSwitch \/ WriteSwitch \/ ResetCursor
  BY <1>1, <1>11 DEF TruncateSwitch, WriteSwitch, ResetCursor, files, bot, operators, observed
<1>12. CASE StartReconcile
  <2>1. /\ todo' = PendingRows /\ rpc' = "run" /\ alone' = (pc = "idle")
        /\ UNCHANGED <<db, pc>>
    BY <1>12 DEF StartReconcile, files, bot
  <2> QED
    BY <2>1 DEF ReconcileInv, PendingRows
<1>13. CASE ReconcileOne
  <2> DEFINE m == Min(todo)
  <2>1. /\ rpc = "run" /\ todo # {} /\ db' = Updated(db, db[m].order, "ERROR", 0)
        /\ todo' = todo \ {m} /\ UNCHANGED <<rpc, alone, pc>>
    BY <1>13 DEF ReconcileOne, bot, observed
  <2>2. m \in todo /\ m \in 1..Len(db)
    <3>1. todo \subseteq Nat
      BY <1>t
    <3>2. m \in todo
      BY <2>1, <3>1, MinElement
    <3> QED
      BY <1>t, <3>2
  <2> HIDE DEF m
  <2>3. /\ Len(db') = Len(db)
        /\ \A j \in 1..Len(db) :
             /\ db'[j].order = db[j].order
             /\ db[j].order # PaperRow /\ db[j].order = db[m].order => db'[j].result = "ERROR"
             /\ db[j].order = PaperRow \/ db[j].order # db[m].order => db'[j] = db[j]
    BY <1>t, <2>1, UpdatedRows
  <2>4. \A j \in 1..Len(db) : db'[j].order = PaperRow => db'[j].result = "PENDING"
    BY <2>3 DEF ReconcileInv
  <2>5. \A j \in 1..Len(db) :
          db'[j].result = "PENDING"
            => db'[j].order = PaperRow \/ (db[j].result = "PENDING" /\ j # m)
    BY <2>2, <2>3
  <2>6. /\ rpc = "run" /\ todo' = todo \ {m} /\ UNCHANGED <<rpc, alone, pc>>
    BY <2>1
  <2> HIDE <2>1
  <2> QED
    BY <2>3, <2>4, <2>5, <2>6 DEF ReconcileInv
<1>14. CASE FinishReconcile
  BY <1>14 DEF FinishReconcile, files, bot, observed, ReconcileInv
<1> QED
  BY <1>2, <1>3, <1>5, <1>6, <1>7, <1>8, <1>9, <1>10, <1>11, <1>12, <1>13, <1>14
  DEF Next, BotStep, Reconcile

\* A reconcile that has the files for itself closes every order, and leaves the
\* rows of paper sessions PENDING, however many there are.
THEOREM OrdersReconciled == Spec => []ReconcileClosesOrders
<1>1. ASSUME Init PROVE ReconcileInv
  <2>1. PaperPending \in Nat
    BY DemoAssumption
  <2>2. /\ db = [i \in 1..PaperPending |->
                 [order |-> PaperRow, session |-> 0, candle |-> NoCandle,
                  result |-> "PENDING", profit |-> 0]]
        /\ ~alone /\ rpc = "idle"
    BY <1>1 DEF Init
  <2>3. \A j \in 1..Len(db) : db[j].result = "PENDING"
    BY <2>1, <2>2
  <2> QED
    BY <2>2, <2>3 DEF ReconcileInv
<1>2. TypeInv /\ ReconcileInv => ReconcileClosesOrders
  BY DEF ReconcileInv, ReconcileClosesOrders
<1> QED
  BY <1>1, <1>2, TypeInvariance, StoresInvariance, ReconcileStep, PTL DEF Spec
=============================================================================
