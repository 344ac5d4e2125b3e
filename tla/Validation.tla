----------------------------- MODULE Validation -----------------------------
(***************************************************************************)
(* What training and `validate` conclude about a model: the temporal       *)
(* splits, walk-forward folds, stress scenarios, the Monte Carlo summary,  *)
(* the overfitting warnings, the demo gate of a trained artifact and the   *)
(* recommendation of the validation report.                                *)
(*                                                                         *)
(* Fitting is left out: a row carries the probability the model gives it.  *)
(* Rates and money are scaled as in Backtests; a payout, a drawdown limit  *)
(* and a score are per mille.                                              *)
(***************************************************************************)
EXTENDS Backtests, FiniteSets

CONSTANTS
  MaxDrawdownPerMille,  \* settings.MAX_ALLOWED_DRAWDOWN
  TrainWindow, TestWindow, StepSize,  \* of the walk-forward folds
  MinTestRows,          \* labelled rows below which a fold is skipped (5)
  GateTrades            \* trades the demo gate asks for (200)

ASSUME ValidationAssumption ==
  /\ MaxDrawdownPerMille \in 0..1000
  /\ {TrainWindow, TestWindow, StepSize} \subseteq Nat \ {0}
  /\ MinTestRows \in Nat /\ GateTrades \in Nat

Fold(train, test) == [train |-> train, test |-> test]

-----------------------------------------------------------------------------
(* Splits (csv: validation/time_series_split.py, walk_forward.py, train)   *)

\* Wrong: the gap is not left out.
MutSafeSplit(n, splits, gap, minTrain) ==
  LET size == Larger(1, (n - minTrain - gap) \div splits)
      end(k) == minTrain + k * size IN
  IF n < minTrain + gap + size THEN {}
  ELSE {Fold(0..(end(k) - 1), {i \in end(k)..(end(k) + size - 1) : i < n}) :
          k \in {k \in 0..(splits - 1) : end(k) < n}}

\* SafeTimeSeriesSplit.split, without folds where it raises.
SafeSplit(n, splits, gap, minTrain) ==
  LET size == Larger(1, (n - minTrain - gap) \div splits)
      start(k) == minTrain + k * size + gap IN
  IF n < minTrain + gap + size THEN {}
  ELSE {Fold(0..(start(k) - gap - 1), {i \in start(k)..(start(k) + size - 1) : i < n}) :
          k \in {k \in 0..(splits - 1) : start(k) < n}}

\* HyperparameterSearch.run's splitter.
SearchSplit(n, splits, gap) ==
  LET half == Larger(50, n \div 2)
      room == Larger(1, n - 20) IN
  SafeSplit(n, IF splits < 3 THEN splits ELSE 3, gap, IF half < room THEN half ELSE room)

\* WalkForwardValidator.run: the starts of its windows.
FoldStarts(n) ==
  {start \in 0..(n - TrainWindow - TestWindow) : start % StepSize = 0}

\* The labelled rows of each part: a label needs its exit in the same part.
WalkFold(start, expiration) ==
  Fold(start..(start + TrainWindow - 1 - expiration),
       (start + TrainWindow)..(start + TrainWindow + TestWindow - 1 - expiration))

\* temporal_train_validation_test_split: the ends of train and validation.
TemporalSplit(n) == <<(70 * n) \div 100, (85 * n) \div 100>>

-----------------------------------------------------------------------------
(* The evidence `validate` gathers                                         *)

\* Metrics on the labels of a stretch of rows, at a payout and threshold.  The
\* labels look EXPIRATION_CANDLES ahead; here it is one, the default.
MetricsOn(rows, payout, threshold) ==
  TradingMetrics([i \in DOMAIN rows |-> rows[i].up], Labels(rows, 1), payout, threshold)

\* The folds' trading metrics.  A fold with too few labelled rows is skipped,
\* and one whose training labels cannot be fitted: fitted are the others.
WalkForward(rows, fitted) ==
  LET starts == IF TestWindow - 1 < MinTestRows THEN {} ELSE FoldStarts(Len(rows)) IN
  [start \in starts \cap fitted |->
     MetricsOn(SubSeq(rows, start + TrainWindow + 1, start + TrainWindow + TestWindow),
               10 * PayoutPercent, MinConfidence)]

Sum(f) == FoldFunction(LAMBDA a, b : a + b, 0, f)

\* A fold's profit factor in the average, per mille: infinity counts as 3.
FactorPerMille(factor) == IF factor[2] = 0 THEN 3000 ELSE (1000 * factor[1]) \div factor[2]
PerMille(ratio) == (1000 * ratio[1]) \div ratio[2]
WinPerMille(m) == IF m.total = 0 THEN 0 ELSE (1000 * m.wins) \div m.total

Mean(f) == Sum(f) \div Cardinality(DOMAIN f)

\* WalkForwardValidator._summary, of at least one fold.
Summary(folds) ==
  LET starts == DOMAIN folds
      wins == Mean([k \in starts |-> WinPerMille(folds[k])])
      off(k) == WinPerMille(folds[k]) - wins IN
  [folds |-> Cardinality(starts),
   profitable |-> Cardinality({k \in starts : folds[k].net > 0}),
   wins |-> wins, variance |-> Mean([k \in starts |-> off(k) * off(k)]),
   factor |-> Mean([k \in starts |-> FactorPerMille(folds[k].factor)]),
   drawdown |-> Mean([k \in starts |-> PerMille(folds[k].drawdown)])]

\* StressTester.run: payout per mille of the payout, penalty, candles late,
\* confidence added.
Scenario(payout, penalty, latency, added) ==
  [payout |-> (PayoutPercent * payout) \div 100, penalty |-> penalty,
   latency |-> latency, threshold |-> MinConfidence + added]
Scenarios ==
  [payout_normal |-> Scenario(1000, 0, 0, 0), payout_reduced_5 |-> Scenario(950, 0, 0, 0),
   payout_reduced_10 |-> Scenario(900, 0, 0, 0), slippage_light |-> Scenario(1000, 10, 0, 0),
   slippage_heavy |-> Scenario(1000, 30, 0, 0), latency_1_candle |-> Scenario(1000, 0, 1, 0),
   latency_2_candles |-> Scenario(1000, 0, 2, 0), spread_noise |-> Scenario(970, 10, 0, 0),
   confidence_reduced |-> Scenario(1000, 0, 0, 3), connection_loss |-> Scenario(1000, 0, 0, 0)]

\* A scenario's row: slippage is taken from the profit, latency from the win rate.
StressRow(rows, scenario) ==
  LET m == MetricsOn(rows, scenario.payout, IF scenario.threshold < 95 THEN scenario.threshold ELSE 95) IN
  [factor |-> m.factor, drawdown |-> m.drawdown,
   net |-> m.net - scenario.penalty * m.total,
   wins |-> Larger(0, WinPerMille(m) - 30 * scenario.latency)]

\* Wrong: judges the profit after slippage.
MutSurvives(row) == row.net >= 0 /\ PerMille(row.drawdown) <= MaxDrawdownPerMille

\* The survived column of a row.
Survives(row) ==
  /\ row.factor[1] >= row.factor[2]
  /\ 1000 * row.drawdown[1] <= MaxDrawdownPerMille * row.drawdown[2]

Survived(rows, name) == Survives(StressRow(rows, Scenarios[name]))
ModerateStressPassed(rows) == Survived(rows, "payout_reduced_5") /\ Survived(rows, "slippage_light")

\* run_monte_carlo_cli: the profits of the last ML backtest, or made-up ones.
MonteCarloProfits(rows, backtested) ==
  IF backtested THEN Profits(MLBacktest(rows, 1)) ELSE <<1, -1, 1, 1, -1>>

\* MonteCarloSimulator.run: the orders it may draw.
Orders(profits) ==
  {[i \in DOMAIN profits |-> profits[p[i]]] : p \in Bijection(DOMAIN profits, DOMAIN profits)}

\* The draws that end with a profit, per mille.
ProbabilityOfProfit(profits) ==
  IF profits = <<>> THEN 0
  ELSE LET orders == Orders(profits) IN
       (1000 * Cardinality({o \in orders : Total(o) > 0})) \div Cardinality(orders)

\* OverfittingDetector.analyze, as run_validate_cli calls it: its train and
\* test figures are literals, close enough to raise no warning.
OverfitRisk(summary) ==
  LET warnings == {w \in 1..3 :
        \/ w = 1 /\ 2 * summary.profitable < summary.folds
        \/ w = 2 /\ summary.variance > 120 * 120
        \/ w = 3 /\ summary.drawdown > 150} IN
  IF Cardinality(warnings) >= 4 THEN "HIGH" ELSE IF warnings # {} THEN "MEDIUM" ELSE "LOW"

\* ModelStabilityAnalyzer's status of its score, per mille.
StabilityStatus(score) ==
  IF score >= 700 THEN "STABLE" ELSE IF score >= 400 THEN "UNSTABLE" ELSE "REJECTED"

\* Wrong: does not ask for the stress test.
MutRecommend(leak, folds, stability, profitable, stress) ==
  IF leak THEN "REJECTED"
  ELSE IF DOMAIN folds = {} THEN "NEEDS_MORE_DATA"
  ELSE LET s == Summary(folds) IN
       IF OverfitRisk(s) = "HIGH" \/ StabilityStatus(stability) = "REJECTED" THEN "REJECTED"
       ELSE IF 10 * s.profitable >= 6 * s.folds /\ s.factor > 1000 /\ s.drawdown <= 150
               /\ stability >= 600 /\ profitable >= 600
       THEN "DEMO_ALLOWED" ELSE "PAPER_ONLY"

\* ValidationReportBuilder._recommend
Recommend(leak, folds, stability, profitable, stress) ==
  IF leak THEN "REJECTED"
  ELSE IF DOMAIN folds = {} THEN "NEEDS_MORE_DATA"
  ELSE LET s == Summary(folds) IN
       IF OverfitRisk(s) = "HIGH" \/ StabilityStatus(stability) = "REJECTED" THEN "REJECTED"
       ELSE IF /\ 10 * s.profitable >= 6 * s.folds
               /\ s.factor > 1000 /\ s.wins > 0 /\ s.drawdown <= 150
               /\ stability >= 600 /\ profitable >= 600 /\ stress
               /\ OverfitRisk(s) # "HIGH"
       THEN "DEMO_ALLOWED" ELSE "PAPER_ONLY"

\* run_validate_cli
Validate(rows, fitted, leak, stability, backtested) ==
  Recommend(leak, WalkForward(rows, fitted), stability,
            ProbabilityOfProfit(MonteCarloProfits(rows, backtested)), ModerateStressPassed(rows))

\* evaluate_demo_promotion on a trained artifact's test metrics.
EligibleForDemo(m, rocPercent) ==
  /\ 100 * m.wins * (100 + PayoutPercent) >= m.total * (10000 + 3 * (100 + PayoutPercent))
  /\ 10 * m.factor[1] >= 12 * m.factor[2]
  /\ m.total >= GateTrades
  /\ rocPercent >= 60
  /\ 10 * m.drawdown[1] <= m.drawdown[2]

-----------------------------------------------------------------------------
(* Properties                                                              *)

\* For every size up to n: every test row of a safe split comes after all its
\* training rows and a gap, so that no training label (of an expiration up to
\* the gap) is decided by a test row; the tests of different folds share no
\* row; there are as many folds as were asked for or as rows allow; the
\* search of a dataset of 100 rows has a fold to average over; a walk-forward
\* fold's labels stay inside its own part; train, validation and test of
\* train_model are not empty from 7 rows on.
TemporalUpTo(n) ==
  /\ \A size \in 0..n, splits \in 1..3, gap \in 0..2, minTrain \in 1..3 :
       LET folds == SafeSplit(size, splits, gap, minTrain)
           free == Larger(0, size - minTrain - gap) IN
       /\ \A f \in folds :
            /\ f.train # {} /\ f.test # {} /\ f.test \subseteq 0..(size - 1)
            /\ \A i \in f.train, j \in f.test : i + gap < j
       /\ \A f, g \in folds : f # g => f.test \cap g.test = {}
       /\ Cardinality(folds) = IF free < splits THEN free ELSE splits
  /\ \A size \in 100..(100 + n), splits \in 1..5, gap \in 0..2 :
       SearchSplit(size, splits, gap) # {}
  /\ \A size \in 0..n : \A start \in FoldStarts(size), expiration \in 1..2 :
       LET f == WalkFold(start, expiration) IN
       /\ \A i \in f.train : i + expiration < start + TrainWindow
       /\ \A j \in f.test : j + expiration < size
  /\ \A size \in 7..n :
       0 < TemporalSplit(size)[1] /\ TemporalSplit(size)[1] < TemporalSplit(size)[2]
       /\ TemporalSplit(size)[2] < size

\* Slippage, latency and a lost connection never change what a stress test
\* concludes: a scenario survives on profit factor and drawdown, which they do
\* not touch.  "Moderate stress passed" says that the model survives a payout
\* five percent lower, and nothing else.
StressIsPayoutIn(rows) ==
  /\ \A name \in {"slippage_light", "slippage_heavy", "latency_1_candle",
                  "latency_2_candles", "connection_loss"} :
       Survived(rows, name) = Survived(rows, "payout_normal")
  /\ ModerateStressPassed(rows) <=> Survived(rows, "payout_reduced_5")
  /\ Survived(rows, "payout_reduced_10") => Survived(rows, "payout_reduced_5")

\* The folds that won more trades than their payout's breakeven asks for.
Beating(folds) ==
  {k \in DOMAIN folds : folds[k].wins * (100 + PayoutPercent) > 100 * folds[k].total}

\* What a DEMO_ALLOWED report guarantees of the trades it was made from: there
\* are folds and 60% of them won more than their breakeven; over the whole data
\* set, at the full payout, the model earns money, which no criterion asks for
\* and surviving a lower payout implies; so did the last ML backtest, if there
\* was one, as a permutation of its results keeps their sum.  It does not
\* guarantee an average win rate above breakeven: see MCValidation.  An artifact
\* eligible for demo made money in its simulated test.
DemoMeansIn(rows) ==
  LET profits == Profits(MLBacktest(rows, 1)) IN
  /\ \A o \in Orders(profits) : Total(o) = Total(profits)
  /\ \A fitted \in SUBSET FoldStarts(Len(rows)), leak, backtested \in BOOLEAN,
        stability \in {399, 599, 600} :
       Validate(rows, fitted, leak, stability, backtested) = "DEMO_ALLOWED" =>
         LET folds == WalkForward(rows, fitted) IN
         /\ DOMAIN folds # {}
         /\ 5 * Cardinality(Beating(folds)) >= 3 * Cardinality(DOMAIN folds)
         /\ StressRow(rows, Scenarios.payout_normal).net > 0
         /\ backtested => Total(profits) > 0
  /\ LET trained == TrainMetrics([i \in DOMAIN rows |-> rows[i].up], Labels(rows, 1),
                                 10 * PayoutPercent) IN
     EligibleForDemo(trained, 60) /\ trained.total > 0 => trained.net > 0
=============================================================================
