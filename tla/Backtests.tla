------------------------------ MODULE Backtests ------------------------------
(***************************************************************************)
(* The two backtesters, their metrics, the comparison of their results and *)
(* the simulated metrics the training and validation tools compute from    *)
(* probabilities and labels, as operators on a sequence of feature rows.   *)
(*                                                                         *)
(* A row carries the close, the indicators the rule strategy and the risk  *)
(* manager read, and the probability of a rise the model gives it.  Money  *)
(* is in integer units, as in RiskManager; probabilities and confidences   *)
(* are in percent; a ratio is a pair <<numerator, denominator>>.           *)
(***************************************************************************)
EXTENDS RiskManager, FiniteSets, SequencesExt

CONSTANTS
  MinConfidence,     \* settings.MIN_CONFIDENCE and the artifact's, in percent
  MinCandles,        \* RiskManager.min_candles
  LateralThreshold,  \* adx below which the market is lateral
  RecentRows,        \* rows of atr_ratio the volatility check looks at (30)
  EnoughRows,        \* rows below which it is skipped (10)
  VolatilityFactor   \* settings.MAX_VOLATILITY_MULTIPLIER

ASSUME BacktestAssumption ==
  /\ MinConfidence \in 0..100 /\ MinCandles \in Nat /\ LateralThreshold \in Nat
  /\ EnoughRows \in Nat \ {0} /\ RecentRows \in Nat \ {0} /\ VolatilityFactor \in Nat

Larger(a, b) == IF a > b THEN a ELSE b
Recent(rows) == SubSeq(rows, Larger(1, Len(rows) - RecentRows + 1), Len(rows))
Total(profits) == FoldLeft(LAMBDA sum, p : sum + p, 0, profits)
Wins(profits) == Cardinality({k \in DOMAIN profits : profits[k] > 0})
Losses(profits) == Cardinality({k \in DOMAIN profits : profits[k] < 0})
Gain(profits) == Total([k \in DOMAIN profits |-> Larger(0, profits[k])])
Loss(profits) == Total([k \in DOMAIN profits |-> Larger(0, -profits[k])])

-----------------------------------------------------------------------------
(* Signals                                                                 *)

\* RuleBasedStrategy.generate_signal; rows with missing values are dropped
\* by build_features.
RuleSignal(row) ==
  LET held(c) == [signal |-> "HOLD", confidence |-> c] IN
  CASE row.rsi \notin 30..70 \/ row.atr = 0 -> held(20)
    [] row.adx < LateralThreshold -> held(25)
    [] OTHER ->
       IF row.ema9 > row.ema21 /\ row.rsi >= 50 /\ row.close > row.ema21 /\ row.macd > 0
       THEN [signal |-> "BUY", confidence |-> 72]
       ELSE IF row.ema9 < row.ema21 /\ row.rsi <= 50 /\ row.close < row.ema21 /\ row.macd < 0
       THEN [signal |-> "SELL", confidence |-> 72]
       ELSE held(35)

\* MLPredictor.predict_row
PredictRow(up) ==
  CASE up >= MinConfidence -> [signal |-> "BUY", confidence |-> up]
    [] up < MinConfidence /\ up <= 100 - MinConfidence ->
         [signal |-> "SELL", confidence |-> 100 - up]
    [] OTHER -> [signal |-> "HOLD", confidence |-> Larger(up, 100 - up)]

\* Wrong: a probability at the threshold is not traded.
MutMLSignal(up) ==
  IF up > MinConfidence THEN "BUY" ELSE IF up < 100 - MinConfidence THEN "SELL" ELSE "HOLD"

\* MLBacktester._signal
MLSignal(up) ==
  IF up >= MinConfidence THEN "BUY" ELSE IF up <= 100 - MinConfidence THEN "SELL" ELSE "HOLD"

\* MLStrategy.generate_signal: the predicted class and its probability.
StrategySignal(up) ==
  LET rises == up > 50
      confidence == IF rises THEN up ELSE 100 - up IN
  IF confidence < MinConfidence THEN "HOLD" ELSE IF rises THEN "BUY" ELSE "SELL"

-----------------------------------------------------------------------------
(* The backtesters                                                         *)

\* The middle of a sequence of numbers, doubled.
DoubleMedian(numbers) ==
  LET sorted == SortSeq(numbers, LAMBDA a, b : a < b)
      n == Len(numbers) IN
  sorted[(n + 1) \div 2] + sorted[n \div 2 + 1]

\* RiskManager.evaluate's check of atr_ratio.
Volatile(history) ==
  LET recent == Recent(history) IN
  /\ Len(recent) >= EnoughRows
  /\ 2 * Last(history).atr >
       VolatilityFactor * DoubleMedian([i \in DOMAIN recent |-> recent[i].atr])

\* RiskManager.evaluate; it does not look at the balance.
Allowed(risk, s, history) ==
  /\ s.signal # "HOLD" /\ s.confidence >= MinConfidence
  /\ Len(history) >= MinCandles
  /\ risk.losses < MaxConsecutiveLosses
  /\ 1000 * risk.dailyPnl > -(risk.initial * DailyLossPerMille)
  /\ Last(history).adx >= LateralThreshold
  /\ ~Volatile(history)

\* The stake evaluate decides on.
RiskStake(risk) == CeilDiv(Larger(0, risk.balance) * RiskRate, 1000)

\* Executor.execute_latest: what would be ordered on the latest candle.
ExecuteLatest(history, risk) ==
  LET s == RuleSignal(Last(history)) IN
  IF Allowed(risk, s, history) THEN <<s.signal, RiskStake(risk)>> ELSE <<>>

\* A flat close loses in both directions.
Won(signal, entry, exit) ==
  \/ signal = "BUY" /\ exit > entry
  \/ signal = "SELL" /\ exit < entry

\* Wrong: reaches the exit row.
MutHistory(rows, i) == SubSeq(rows, 1, i + 1)

\* The rows the decision at row i is given.
History(rows, i) == SubSeq(rows, 1, i)

\* One iteration of Backtester.run: the result is booked at once, whatever
\* the expiration.
BacktestStep(rows, expiration, run, i) ==
  LET s == RuleSignal(rows[i])
      stake == RiskStake(run.risk)
      pnl == Profit(stake, Won(s.signal, rows[i].close, rows[i + expiration].close))
      after == RegisterResult(run.risk, pnl) IN
  IF ~Allowed(run.risk, s, History(rows, i)) THEN run
  ELSE [risk |-> after, equity |-> Append(run.equity, after.balance),
        trades |-> Append(run.trades, [index |-> i, signal |-> s.signal, stake |-> stake, pnl |-> pnl])]

\* Backtester.run: from the second row to the last whose exit is in the data.
Backtest(rows, expiration) ==
  FoldLeft(LAMBDA run, i : BacktestStep(rows, expiration, run, i),
           [risk |-> FreshRisk, equity |-> <<InitialBalance>>, trades |-> <<>>],
           [i \in 1..Larger(0, Len(rows) - expiration - 1) |-> i + 1])

\* The fixed stake compare_rule_vs_ml gives the ML backtester.
MLStake == Larger(1, CeilDiv(InitialBalance * RiskRate, 1000))

\* One iteration of MLBacktester.run.
MLStep(rows, expiration, run, i) ==
  LET signal == MLSignal(rows[i].up)
      pnl == Profit(MLStake, Won(signal, rows[i].close, rows[i + expiration].close)) IN
  IF signal = "HOLD" THEN [run EXCEPT !.holds = @ + 1]
  ELSE [run EXCEPT
          !.equity = Append(@, Last(@) + pnl),
          !.trades = Append(@, [index |-> i, signal |-> signal, stake |-> MLStake, pnl |-> pnl])]

MLBacktest(rows, expiration) ==
  FoldLeft(LAMBDA run, i : MLStep(rows, expiration, run, i),
           [equity |-> <<InitialBalance>>, trades |-> <<>>, holds |-> 0],
           [i \in 1..Larger(0, Len(rows) - expiration) |-> i])

Profits(run) == [k \in DOMAIN run.trades |-> run.trades[k].pnl]

-----------------------------------------------------------------------------
(* Metrics (csv: app/utils/metrics.py)                                     *)

Exceeds(a, b) == a[1] * b[2] > b[1] * a[2]

\* One more point of the equity: the peak so far and the deepest fall from it.
PeakStep(so, e) ==
  LET peak == Larger(so.peak, e)
      fall == <<peak - e, peak>> IN
  [peak |-> peak, worst |-> IF Exceeds(fall, so.worst) THEN fall ELSE so.worst]

\* max_drawdown of an equity that starts positive.
Drawdown(equity) == FoldLeft(PeakStep, [peak |-> 0, worst |-> <<0, 1>>], equity).worst

\* Wrong: a profit does not end the streak.
MutLosingStreak(profits) ==
  FoldLeft(LAMBDA so, p :
             LET now == IF p < 0 THEN so.now + 1 ELSE so.now IN
             [now |-> now, longest |-> Larger(so.longest, now)],
           [now |-> 0, longest |-> 0], profits).longest

\* One more result: the losses that end there, and the most so far.
StreakStep(so, p) ==
  LET now == IF p < 0 THEN so.now + 1 ELSE 0 IN
  [now |-> now, longest |-> Larger(so.longest, now)]

\* max_consecutive_losses
LosingStreak(profits) == FoldLeft(StreakStep, [now |-> 0, longest |-> 0], profits).longest

\* profit_factor, of which infinity and 0/0 are <<1, 0>> and <<0, 1>>.
ProfitFactor(profits) ==
  IF Loss(profits) = 0 THEN (IF Gain(profits) > 0 THEN <<1, 0>> ELSE <<0, 1>>)
  ELSE <<Gain(profits), Loss(profits)>>

\* _metrics of both backtesters.
Metrics(run) ==
  LET profits == Profits(run) IN
  [final |-> Last(run.equity), net |-> Total(profits), total |-> Len(profits),
   wins |-> Wins(profits), losses |-> Losses(profits),
   factor |-> ProfitFactor(profits), drawdown |-> Drawdown(run.equity),
   streak |-> LosingStreak(profits)]

\* _winner, by net profit.
Winner(rule, ml) ==
  IF rule.net = ml.net THEN "tie" ELSE IF rule.net > ml.net THEN "rule_based" ELSE "ml"

-----------------------------------------------------------------------------
(* Metrics simulated from probabilities and labels                         *)

\* create_features: one label per row whose exit is in the data.
Labels(rows, expiration) ==
  [i \in 1..Larger(0, Len(rows) - expiration) |-> rows[i + expiration].close > rows[i].close]

\* What stakes of 1000 bring, from 100 stakes of equity.
SimulatedEquity(profits) ==
  [k \in DOMAIN profits |-> 100000 + Total(SubSeq(profits, 1, k))]

SimulatedMetrics(wins, payout) ==
  LET profits == [k \in DOMAIN wins |-> IF wins[k] THEN payout ELSE -1000] IN
  [total |-> Len(wins), wins |-> Wins(profits), net |-> Total(profits),
   factor |-> ProfitFactor(profits), drawdown |-> Drawdown(SimulatedEquity(profits))]

\* A row past the threshold trades.
TradedStep(ups, threshold, so, i) ==
  IF ups[i] >= threshold \/ ups[i] <= 100 - threshold THEN Append(so, i) ELSE so

\* The rows past the threshold, of the first n.
Traded(ups, n, threshold) ==
  FoldLeft(LAMBDA so, i : TradedStep(ups, threshold, so, i), <<>>, [i \in 1..n |-> i])

\* trading_metrics_from_probabilities: only they trade.
TradingMetrics(ups, labels, payout, threshold) ==
  LET traded == Traded(ups, Len(labels), threshold) IN
  SimulatedMetrics([k \in DOMAIN traded |->
                      ups[traded[k]] >= threshold <=> labels[traded[k]]], payout)

\* simulate_predictions: every row trades its predicted class.
TrainMetrics(ups, labels, payout) ==
  SimulatedMetrics([i \in DOMAIN labels |-> ups[i] > 50 <=> labels[i]], payout)

-----------------------------------------------------------------------------
(* Properties of every sequence of rows                                    *)

TradedAt(run, i) ==
  {<<run.trades[k].signal, run.trades[k].stake>> : k \in {k \in DOMAIN run.trades : run.trades[k].index = i}}

\* The risk state of trades whose exit row is known at row i.
RiskKnownAt(run, expiration, i) ==
  FoldLeft(LAMBDA risk, t : IF t.index + expiration <= i THEN RegisterResult(risk, t.pnl) ELSE risk,
           FreshRisk, run.trades)

\* How far the backtests look ahead.  The rule-based one trades at a row exactly
\* what Executor.execute_latest would order there, given the candles up to that
\* row and the results of the trades expired by expiration - 1 rows later: none
\* ahead with an expiration of one candle, but with a longer one the streak, the
\* daily loss and the stake rest on results not yet known.  The ML one's trades
\* do not change with later rows, whatever the expiration.
LookAheadBoundedIn(rows, allRows) ==
  /\ \A expiration \in 1..2 :
       LET run == Backtest(rows, expiration) IN
       \A i \in 2..(Len(rows) - expiration) :
         LET known == RiskKnownAt(run, expiration, i + expiration - 1)
             ordered == ExecuteLatest(SubSeq(rows, 1, i), known) IN
         TradedAt(run, i) = IF ordered = <<>> THEN {} ELSE {ordered}
  /\ \A i \in DOMAIN rows, row \in allRows, expiration \in 1..2 :
       LET before(r) == {<<t.index, t.signal, t.stake>> :
                           t \in {t \in ToSet(MLBacktest(r, expiration).trades) : t.index < i}} IN
       before([rows EXCEPT ![i] = row]) = before(rows)

\* The metrics of a run say of its trades what their definitions promise: the
\* final balance is the initial one and the profits, the drawdown is the deepest
\* fall between any two points of the equity while there is money (an ML
\* backtest can lose more than it had), the streak is the longest run of losses.
MetricsHold(run) ==
  LET m == Metrics(run)
      profits == Profits(run) IN
  /\ m.final = InitialBalance + m.net
  /\ m.wins + m.losses = m.total
  /\ \A j, k \in DOMAIN run.equity :
       j <= k /\ run.equity[j] > 0 /\ run.equity[k] >= 0 =>
         ~Exceeds(<<run.equity[j] - run.equity[k], run.equity[j]>>, m.drawdown)
  /\ \/ m.drawdown = <<0, 1>>
     \/ \E j, k \in DOMAIN run.equity :
          j <= k /\ m.drawdown = <<run.equity[j] - run.equity[k], run.equity[j]>>
  /\ \A j, k \in DOMAIN profits :
       j <= k /\ (\A l \in j..k : profits[l] < 0) => k - j + 1 <= m.streak
  /\ m.streak > 0 => \E j \in DOMAIN profits :
       /\ j + m.streak - 1 \in DOMAIN profits
       /\ \A l \in j..(j + m.streak - 1) : profits[l] < 0

\* They hold of both backtests; a rule-based backtest never exceeds the risk
\* manager's streak; the comparison names the strategy that ends richer.
MetricsAgreeIn(rows) ==
  LET rule == Backtest(rows, 1)
      ml == MLBacktest(rows, 1)
      winner == Winner(Metrics(rule), Metrics(ml)) IN
  /\ MetricsHold(rule) /\ MetricsHold(ml)
  /\ Metrics(rule).streak <= MaxConsecutiveLosses
  /\ winner = "ml" <=> Last(ml.equity) > Last(rule.equity)
  /\ winner = "rule_based" <=> Last(ml.equity) < Last(rule.equity)

\* The SELL trades that closed flat.
FlatSells(rows, expiration, run) ==
  {k \in DOMAIN run.trades :
     LET t == run.trades[k] IN
     t.signal = "SELL" /\ rows[t.index + expiration].close = rows[t.index].close}

\* Above a threshold of one half, predictor, ML backtester and ML strategy
\* give a row the same signal, so validation simulates the trades the ML
\* backtest makes.  It counts as won exactly the backtest's wins and the SELL
\* trades that close flat, which the backtest and the broker lose: the label
\* of a flat candle is the label of a fall.
SimulationAgreesIn(rows) ==
  LET expirations == 1..2
      ups == [i \in DOMAIN rows |-> rows[i].up] IN
  /\ \A i \in DOMAIN rows :
       /\ PredictRow(ups[i]).signal = MLSignal(ups[i])
       /\ MinConfidence > 50 => StrategySignal(ups[i]) = MLSignal(ups[i])
  /\ \A expiration \in expirations :
       LET run == MLBacktest(rows, expiration)
           simulated == TradingMetrics(ups, Labels(rows, expiration), 10 * PayoutPercent, MinConfidence) IN
       /\ simulated.total = Len(run.trades)
       /\ simulated.wins = Metrics(run).wins + Cardinality(FlatSells(rows, expiration, run))
=============================================================================
