------------------------------- MODULE MCTools -------------------------------
(***************************************************************************)
(* The tools around the sessions, checked in one run: a behaviour either   *)
(* replays the candle file (FeedReplay), or grows a data set of feature    *)
(* rows for the backtesters and the validation, or grows a trades table    *)
(* for the reports, or lets the programs that share trades.db open, fill    *)
(* and archive it (TradesTable).  The growing sequences are TLC's way to    *)
(* enumerate every input up to a length.                                   *)
(***************************************************************************)
EXTENDS FeedReplay, Validation, Monitoring, TradesTable

CONSTANTS MaxRows, MaxTrades   \* bounds: feature rows, trades

VARIABLES tool, rows, trades

Row(t, v) == [time |-> t, version |-> v]
MCInitialFiles == {<<Row(2,0), Row(1,0), Row(4,0)>>, <<Row(1,0), Row(2,0), Row(2,0)>>}
MCIncoming == {<<Row(5,0), Row(2,1)>>, <<Row(3,0)>>}
MCOtherFile == <<Row(1,1), Row(2,1)>>

\* A rise the rules buy, a fall they sell, a lateral market, a volatile one and
\* an overbought one, with probabilities at, above and between the thresholds.
Market ==
  {[close |-> 4, ema9 |-> 5, ema21 |-> 3, rsi |-> 60, macd |-> 1, atr |-> 2, adx |-> 20, up |-> 42],
   [close |-> 2, ema9 |-> 1, ema21 |-> 3, rsi |-> 40, macd |-> -1, atr |-> 2, adx |-> 20, up |-> 58],
   [close |-> 4, ema9 |-> 5, ema21 |-> 3, rsi |-> 50, macd |-> 1, atr |-> 2, adx |-> 10, up |-> 70],
   [close |-> 1, ema9 |-> 1, ema21 |-> 3, rsi |-> 50, macd |-> -1, atr |-> 9, adx |-> 20, up |-> 30],
   [close |-> 5, ema9 |-> 6, ema21 |-> 3, rsi |-> 70, macd |-> 1, atr |-> 2, adx |-> 20, up |-> 50]}

MCInit ==
  /\ Init /\ rows = <<>> /\ trades = <<>>
  /\ TableInit
  /\ tool \in {"replay", "backtest", "report", "table"}
  /\ tool # "table" => columns = {}
  /\ tool # "replay" => candles = CHOOSE file \in InitialFiles : TRUE

\* A step of the replay.
Replay ==
  /\ tool = "replay"
  /\ Next
  /\ UNCHANGED <<tableVars, tool, rows, trades>>

\* One more feature row.
AddRow ==
  /\ tool = "backtest" /\ Len(rows) < MaxRows
  /\ \E row \in Market : rows' = Append(rows, row)
  /\ UNCHANGED <<vars, tableVars, tool, trades>>

\* One more row of the last session if it is still running, or of a new one.
AddTrade ==
  /\ tool = "report" /\ Len(trades) < MaxTrades
  /\ \E row \in NextRows(trades) : trades' = Append(trades, row)
  /\ UNCHANGED <<vars, tableVars, tool, rows>>

\* A step of the programs that share trades.db.
ShareTable ==
  /\ tool = "table"
  /\ TableNext
  /\ UNCHANGED <<vars, tool, rows, trades>>

MCNext == Replay \/ AddRow \/ AddTrade \/ ShareTable

MCSpec == MCInit /\ [][MCNext]_<<vars, tableVars, tool, rows, trades>>

-----------------------------------------------------------------------------
\* A rule-based backtest trades at a row what the executor would order there
\* with the candles known by then and the results known expiration - 1 rows
\* later; later rows never change an ML trade (Backtester.run,
\* MLBacktester.run, Executor.execute_latest).
LookAheadBounded == tool = "backtest" => LookAheadBoundedIn(rows, Market)

\* Balance, drawdown, streak and winner say of the trades what their names
\* promise (the two _metrics, app/utils/metrics.py, _winner).
MetricsAgree == tool = "backtest" => MetricsAgreeIn(rows)

\* Predictor, ML backtester, ML strategy and the simulation of validation trade
\* the same rows, and differ only on SELL trades that close flat.
SimulationAgrees == tool = "backtest" => SimulationAgreesIn(rows)

\* Test rows come after every training row and its label, folds are disjoint
\* (SafeTimeSeriesSplit, WalkForwardValidator, train_model), for data sets up to
\* 12 rows and searches of 100 to 112.
SplitsAreTemporal == tool = "backtest" => TemporalUpTo(12)

\* Only the payout decides a stress test (StressTester.run), and what the
\* recommendation DEMO_ALLOWED guarantees of the trades it was made from
\* (run_validate_cli, ValidationReportBuilder, evaluate_demo_promotion).
DemoMeans == tool = "backtest" => StressIsPayoutIn(rows) /\ DemoMeansIn(rows)

\* Summaries, monitor, drift check and daily report agree with the sessions
\* that wrote the table (TradesRepository, PerformanceMonitor,
\* ModelDriftDetector, DailyReportBuilder).
ReportsAgree == tool = "report" => ReportsAgreeIn(trades)

\* trades.db serves the program that created it, and no other
\* (TradesRepository, save_trades, run_reset_paper_logs_cli).
TableServesItsCreator == tool = "table" => ServesItsCreator
=============================================================================
