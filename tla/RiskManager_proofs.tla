------------------------- MODULE RiskManager_proofs -------------------------
(***************************************************************************)
(* What the theorems of the two trading processes need to know of the risk *)
(* manager's arithmetic, for every setting config.py accepts.              *)
(***************************************************************************)
EXTENDS RiskManager, TLAPS

\* RiskManager's record stays one when its three counters change.
LEMMA UpdatedRisk ==
  ASSUME NEW r \in RiskState, NEW b \in Int, NEW d \in Int, NEW l \in Nat
  PROVE  [r EXCEPT !.balance = b, !.dailyPnl = d, !.losses = l] \in RiskState
BY DEF RiskState

\* register_result keeps the risk record, and a position size is an integer.
LEMMA RiskTypes ==
  ASSUME NEW r \in RiskState, NEW p \in Int
  PROVE  /\ RiskRate \in 0..10
         /\ FreshRisk \in RiskState
         /\ CanTrade(r) \in BOOLEAN
         /\ PositionSize(r) \in Int
         /\ RegisterResult(r, p) \in RiskState
<1>1. RiskRate \in 0..10
  BY RiskAssumption DEF RiskRate
<1>2. FreshRisk \in RiskState
  BY RiskAssumption DEF FreshRisk, RiskState
<1>3. CanTrade(r) \in BOOLEAN
  BY DEF CanTrade
<1>4. PositionSize(r) \in Int
  <2>1. r.balance * RiskRate \in Int
    BY <1>1 DEF RiskState
  <2> QED
    BY <2>1 DEF PositionSize, CeilDiv
<1>5. RegisterResult(r, p) \in RiskState
  <2> DEFINE streak == IF p < 0 THEN r.losses + 1 ELSE 0
  <2>1. r.balance + p \in Int /\ r.dailyPnl + p \in Int /\ streak \in Nat
    BY DEF RiskState
  <2> QED
    BY <2>1, UpdatedRisk DEF RegisterResult
<1> QED
  BY <1>1, <1>2, <1>3, <1>4, <1>5

\* What a stake brings is an integer.
LEMMA ProfitType ==
  ASSUME NEW a \in Int, NEW won \in BOOLEAN
  PROVE  Profit(a, won) \in Int
<1>1. a * PayoutPercent \in Int
  BY RiskAssumption
<1> QED
  BY <1>1 DEF Profit, CeilDiv

\* What the risk manager books for a result.
LEMMA RegisteredResult ==
  ASSUME NEW r \in RiskState, NEW p \in Int
  PROVE  /\ RegisterResult(r, p).balance = r.balance + p
         /\ RegisterResult(r, p).initial = r.initial
         /\ RegisterResult(r, p).dailyPnl = r.dailyPnl + p
<1> DEFINE b == r.balance + p   d == r.dailyPnl + p   l == IF p < 0 THEN r.losses + 1 ELSE 0
<1>1. RegisterResult(r, p) = [r EXCEPT !.balance = b, !.dailyPnl = d, !.losses = l]
  BY DEF RegisterResult
<1> HIDE DEF b, d, l
<1>2. /\ [r EXCEPT !.balance = b, !.dailyPnl = d, !.losses = l].balance = b
      /\ [r EXCEPT !.balance = b, !.dailyPnl = d, !.losses = l].initial = r.initial
      /\ [r EXCEPT !.balance = b, !.dailyPnl = d, !.losses = l].dailyPnl = d
  BY DEF RiskState
<1> QED
  BY <1>1, <1>2 DEF b, d

\* Rounding up never makes a stake grow faster than the balance.
LEMMA StakeGrowth ==
  ASSUME NEW a \in Int, NEW b \in Int, a <= b
  PROVE  /\ CeilDiv(a * RiskRate, 1000) <= CeilDiv(b * RiskRate, 1000)
         /\ CeilDiv(b * RiskRate, 1000) <= CeilDiv(a * RiskRate, 1000) + (b - a)
<1>1. \/ RiskRate = 0 \/ RiskRate = 1 \/ RiskRate = 2 \/ RiskRate = 3 \/ RiskRate = 4
      \/ RiskRate = 5 \/ RiskRate = 6 \/ RiskRate = 7 \/ RiskRate = 8 \/ RiskRate = 9
      \/ RiskRate = 10
  BY RiskAssumption DEF RiskRate
<1>2. ASSUME NEW x \in Int, NEW y \in Int, x <= y, NEW k \in Int, y <= x + 1000 * k
      PROVE  CeilDiv(x, 1000) <= CeilDiv(y, 1000) /\ CeilDiv(y, 1000) <= CeilDiv(x, 1000) + k
  BY <1>2 DEF CeilDiv
<1>3. a * RiskRate <= b * RiskRate /\ b * RiskRate <= a * RiskRate + 1000 * (b - a)
  BY <1>1
<1>4. a * RiskRate \in Int /\ b * RiskRate \in Int /\ b - a \in Int
  BY <1>1
<1> QED
  BY <1>2, <1>3, <1>4

\* The stake of a balance that is not negative is not negative.
LEMMA StakeSign ==
  ASSUME NEW a \in Nat
  PROVE  CeilDiv(a * RiskRate, 1000) \in Nat
<1>1. 0 \in Int /\ a \in Int /\ 0 <= a
  OBVIOUS
<1>2. CeilDiv(0 * RiskRate, 1000) <= CeilDiv(a * RiskRate, 1000)
  BY <1>1, StakeGrowth
<1>3. 0 * RiskRate = 0 /\ a * RiskRate \in Int
  BY RiskAssumption DEF RiskRate
<1>4. CeilDiv(0, 1000) = 0
  BY DEF CeilDiv
<1>5. CeilDiv(a * RiskRate, 1000) \in Int
  BY <1>3 DEF CeilDiv
<1> QED
  BY <1>2, <1>3, <1>4, <1>5

\* A resolved stake is lost whole or brings nothing negative.
LEMMA StakeResult ==
  ASSUME NEW a \in Nat, NEW won \in BOOLEAN
  PROVE  Profit(a, won) \in Int /\ Profit(a, won) >= -a
<1>1. a * PayoutPercent \in Nat
  BY RiskAssumption
<1>2. \A x \in Nat : CeilDiv(x, 100) \in Nat
  BY DEF CeilDiv
<1>3. CASE won
  <2>1. CeilDiv(a * PayoutPercent, 100) \in Nat
    BY <1>1, <1>2
  <2> QED
    BY <1>3, <2>1 DEF Profit
<1>4. CASE ~won
  BY <1>4 DEF Profit
<1> QED
  BY <1>3, <1>4

\* A fresh session is within its limit.
LEMMA NothingLost ==
  1000 * (InitialBalance - InitialBalance)
    <= InitialBalance * DailyLossPerMille + 1000 * CeilDiv(InitialBalance * RiskRate, 1000)
<1>1. InitialBalance \in Nat /\ InitialBalance * DailyLossPerMille \in Nat
  BY RiskAssumption
<1>2. CeilDiv(InitialBalance * RiskRate, 1000) \in Nat
  BY <1>1, StakeSign
<1> DEFINE limit == InitialBalance * DailyLossPerMille
           stake == CeilDiv(InitialBalance * RiskRate, 1000)
<1> HIDE DEF limit, stake
<1>3. 1000 * (InitialBalance - InitialBalance) <= limit + 1000 * stake
  BY <1>1, <1>2 DEF limit, stake
<1> QED
  BY <1>3 DEF limit, stake

\* One lost stake keeps the bound: below the opening balance the stake is no
\* larger than the opening one, above it the surplus pays for the difference.
LEMMA OneStakeLost ==
  ASSUME NEW b \in Nat, NEW after \in Int,
         1000 * (b - InitialBalance) > -(InitialBalance * DailyLossPerMille),
         after >= b - CeilDiv(b * RiskRate, 1000)
  PROVE  1000 * (InitialBalance - after)
           <= InitialBalance * DailyLossPerMille + 1000 * CeilDiv(InitialBalance * RiskRate, 1000)
<1> DEFINE limit == InitialBalance * DailyLossPerMille
           stake == CeilDiv(InitialBalance * RiskRate, 1000)
           mine  == CeilDiv(b * RiskRate, 1000)
<1>1. limit \in Nat /\ stake \in Nat /\ mine \in Nat /\ InitialBalance \in Nat
  BY RiskAssumption, StakeSign
<1>2. 1000 * (b - InitialBalance) > -limit /\ after >= b - mine
  OBVIOUS
<1>3. CASE b <= InitialBalance
  <2>1. mine <= stake
    BY <1>1, <1>3, StakeGrowth
  <2> HIDE DEF limit, stake, mine
  <2>2. 1000 * (InitialBalance - after) <= limit + 1000 * stake
    BY <1>1, <1>2, <2>1
  <2> QED
    BY <2>2 DEF limit, stake
<1>4. CASE InitialBalance <= b
  <2>1. mine <= stake + (b - InitialBalance)
    BY <1>1, <1>4, StakeGrowth
  <2> HIDE DEF limit, stake, mine
  <2>2. 1000 * (InitialBalance - after) <= limit + 1000 * stake
    BY <1>1, <1>2, <2>1
  <2> QED
    BY <2>2 DEF limit, stake
<1> QED
  BY <1>1, <1>3, <1>4
=============================================================================
