------------------------------ MODULE Monitoring ------------------------------
(***************************************************************************)
(* What the summaries, the performance monitor, the drift check and the    *)
(* daily report compute from the trades table, as operators on the         *)
(* sequence of its rows in the order of their ids.                         *)
(*                                                                         *)
(* A row carries its session (a number), result, profit, balance and       *)
(* confidence, scaled as in Backtests; rates and factors are per mille.    *)
(***************************************************************************)
EXTENDS Backtests, FiniteSets

CONSTANTS
  MinFactorPerMille,       \* settings.MIN_PROFIT_FACTOR
  MinTradesBeforeLive,     \* settings.MIN_TRADES_BEFORE_LIVE
  DriftTrades,             \* settings.DRIFT_MIN_TRADES
  DriftWinPerMille,        \* settings.DRIFT_WIN_RATE_DROP
  DriftFactorPerMille      \* settings.DRIFT_PROFIT_FACTOR_DROP

ASSUME MonitoringAssumption ==
  /\ {MinFactorPerMille, MinTradesBeforeLive, DriftFactorPerMille} \subseteq Nat
  /\ DriftTrades \in Nat \ {0} /\ DriftWinPerMille \in 0..1000

-----------------------------------------------------------------------------
(* The table (csv: app/storage/trades_repository.py)                       *)

\* The rows at some ids, ORDER BY id.
RowsAt(trades, ids) ==
  FoldLeft(LAMBDA found, id : IF id \in ids THEN Append(found, trades[id]) ELSE found,
           <<>>, [id \in DOMAIN trades |-> id])

IsClosed(t) == t.result \in {"WON", "LOST"}
ClosedOf(trades) == RowsAt(trades, {k \in DOMAIN trades : IsClosed(trades[k])})
OfSession(trades, s) == RowsAt(trades, {k \in DOMAIN trades : trades[k].session = s})
With(trades, result) == Cardinality({k \in DOMAIN trades : trades[k].result = result})
ProfitsOf(trades) == [k \in DOMAIN ClosedOf(trades) |-> ClosedOf(trades)[k].profit]
BalancesOf(trades) == [k \in DOMAIN ClosedOf(trades) |-> ClosedOf(trades)[k].balance]

\* get_last_session_id, of a table with rows.
LastSession(trades) == Last(trades).session

\* get_summary, of all rows or of a session's.
GetSummary(trades) ==
  LET net == Total(ProfitsOf(trades))
      current == IF trades = <<>> THEN 0 ELSE Last(trades).balance IN
  [total |-> Len(ClosedOf(trades)), wins |-> With(trades, "WON"), net |-> net,
   current |-> current, initial |-> IF trades = <<>> THEN 0 ELSE current - net]

\* get_sessions_summary
SessionsSummary(trades) ==
  [s \in {trades[k].session : k \in DOMAIN trades} |-> GetSummary(OfSession(trades, s))]

\* The risk state of the process whose session s is.
SessionRisk(trades, s) ==
  FoldLeft(RegisterResult, FreshRisk, ProfitsOf(OfSession(trades, s)))

\* A row session s may store next: an order and how it ended, a HOLD signal, or
\* REFUSED, which stands for LOW_CONFIDENCE, DUPLICATED_CANDLE and
\* BLOCKED_BY_RISK.  Confidences are the least such a row can have, and the drift
\* check does not read that of a refusal.  The PENDING row a dead session leaves
\* may have been turned to ERROR by reconcile, with the balance of reconcile's own
\* fresh broker.
NextRow(trades, s, result) ==
  LET risk == SessionRisk(trades, s)
      profit == IF result \in {"WON", "LOST"} THEN Profit(PositionSize(risk), result = "WON") ELSE 0 IN
  [session |-> s, result |-> result, profit |-> profit,
   confidence |-> IF result = "HOLD" THEN 50 ELSE MinConfidence,
   balance |-> IF result = "ERROR" THEN InitialBalance ELSE risk.balance + profit]

\* The rows the sessions may add to the table: the running session goes on until
\* it leaves an order open, and another one may start.  Orders are opened as
\* can_trade says.
NextRows(trades) ==
  LET last == IF trades = <<>> THEN 0 ELSE LastSession(trades)
      running == IF trades # <<>> /\ Last(trades).result \notin {"PENDING", "ERROR"}
                 THEN {last} ELSE {}
      stored(s) == {"HOLD", "REFUSED"} \cup
                   IF CanTrade(SessionRisk(trades, s)) THEN {"WON", "LOST", "PENDING", "ERROR"} ELSE {} IN
  UNION {{NextRow(trades, s, result) : result \in stored(s)} : s \in running \cup {last + 1}}

-----------------------------------------------------------------------------
(* The monitor and the drift check                                         *)

\* The losses since the last trade that did not lose.
TrailingLosses(profits) == FoldLeft(LAMBDA n, p : IF p < 0 THEN n + 1 ELSE 0, 0, profits)

\* Wrong: wins of earlier days make up for the losses.
MutGrossLoss(trades) == Larger(0, -Total(ProfitsOf(trades)))

\* daily_loss: what all losing trades of the table lost.
GrossLoss(trades) == Loss(ProfitsOf(trades))

\* Won less often than breakeven, less a drop.
BelowBreakeven(trades, drop) ==
  1000 * (100 + PayoutPercent) * With(trades, "WON")
    < Len(ClosedOf(trades)) * (100000 - drop * (100 + PayoutPercent))

\* PerformanceMonitor.get_metrics and should_stop_trading
ShouldStop(trades) ==
  LET profits == ProfitsOf(trades)
      total == Len(profits)
      factor == ProfitFactor(profits)
      balance == IF total = 0 THEN 0 ELSE Last(BalancesOf(trades)) IN
  \/ balance # 0 /\ 1000 * GrossLoss(trades) >= balance * DailyLossPerMille
  \/ TrailingLosses(profits) >= MaxConsecutiveLosses
  \/ total > 0 /\ 1000 * factor[1] < MinFactorPerMille * factor[2]
  \/ total >= MinTradesBeforeLive /\ total > 0 /\ BelowBreakeven(trades, 0)

\* ModelDriftDetector.analyze: the warnings it raises.
DriftWarnings(trades) ==
  LET seen == RowsAt(trades, {k \in DOMAIN trades : IsClosed(trades[k]) \/ trades[k].result = "HOLD"})
      profits == ProfitsOf(trades)
      factor == IF Losses(profits) = 0 THEN <<999, 1>> ELSE ProfitFactor(profits)
      confidence == Total([k \in DOMAIN seen |-> seen[k].confidence]) IN
  IF Len(profits) < DriftTrades THEN {}
  ELSE {w \in {"win_rate", "profit_factor", "hold_ratio", "confidence"} :
          \/ w = "win_rate" /\ BelowBreakeven(trades, DriftWinPerMille)
          \/ w = "profit_factor"
             /\ 1000 * factor[1] < Larger(100, MinFactorPerMille - DriftFactorPerMille) * factor[2]
          \/ w = "hold_ratio" /\ 4 * With(seen, "HOLD") > 3 * Len(seen)
          \/ w = "confidence" /\ confidence < MinConfidence * Len(seen)}

DriftRisk(trades) ==
  LET warnings == Cardinality(DriftWarnings(trades)) IN
  IF warnings >= 3 THEN "HIGH" ELSE IF warnings > 0 THEN "MEDIUM" ELSE "LOW"

\* DailyReportBuilder.build: what it reads from the trades, current being the
\* running session or 0.
DailyReport(trades, current) ==
  LET profits == ProfitsOf(trades)
      session == IF current # 0 \/ trades = <<>> THEN current ELSE LastSession(trades)
      summary == GetSummary(OfSession(trades, session)) IN
  [net |-> Total(profits), session |-> session, sessionNet |-> summary.net,
   start |-> summary.initial, end |-> summary.current, streak |-> LosingStreak(profits),
   drawdown |-> Drawdown(BalancesOf(trades)), drift |-> DriftRisk(trades)]

\* RuntimeMetrics.collect, current being the session started last, which may have
\* stored nothing yet.  Nothing writes current_balance to runtime_state.json, so
\* the balance comes from the table; 0 counts as missing.
RuntimeMetrics(trades, current) ==
  LET all == GetSummary(trades)
      session == GetSummary(OfSession(trades, current)) IN
  [net |-> all.net, sessionNet |-> session.net, sessionTotal |-> session.total,
   balance |-> IF session.current # 0 THEN session.current ELSE all.current,
   factor |-> ProfitFactor(ProfitsOf(trades))]

-----------------------------------------------------------------------------
(* Properties of every table the sessions write                            *)

\* What the reports say of the sessions in the table.  Their profits and trade
\* counts add up to the all-time ones.  A session's initial balance in its
\* summary and in the daily report, computed backwards from its last row, is
\* the balance it opened with, except that a last row overwritten by reconcile
\* shifts it by the session's profit.  The monitor stops no later than the risk
\* manager of the last session, whatever earlier sessions won.  runtime-status
\* and the daily report show the same profits, and the former the balance of the
\* last row, also for a session that has just started afresh.  The report's
\* drawdown is never below a session's own, its streak never below the one the
\* monitor counts.  Orders alone never raise the confidence warning nor a HIGH
\* drift risk, whatever they lost: both need the stored HOLD rows.
ReportsAgreeIn(trades) ==
  LET sessions == SessionsSummary(trades)
      all == GetSummary(trades)
      report == DailyReport(trades, 0)
      started == IF trades = <<>> THEN 0 ELSE LastSession(trades)
      ids == DOMAIN sessions IN
  /\ all.net = Total([s \in ids |-> sessions[s].net])
  /\ all.total = Total([s \in ids |-> sessions[s].total])
  /\ \A s \in ids : sessions[s].initial =
       InitialBalance - IF Last(OfSession(trades, s)).result = "ERROR" THEN sessions[s].net ELSE 0
  /\ trades # <<>> => report.start = sessions[LastSession(trades)].initial
  /\ trades # <<>> => LET risk == SessionRisk(trades, LastSession(trades)) IN
       (risk.losses >= MaxConsecutiveLosses
          \/ 1000 * risk.dailyPnl <= -(risk.initial * DailyLossPerMille)) => ShouldStop(trades)
  /\ \A s \in ids : ~Exceeds(Drawdown(BalancesOf(OfSession(trades, s))), report.drawdown)
  /\ LET fresh == RuntimeMetrics(trades, started + 1) IN
     fresh.net = report.net /\ fresh.sessionNet = 0 /\ fresh.balance = all.current
  /\ trades # <<>> => LET shown == RuntimeMetrics(trades, started) IN
       shown.sessionNet = report.sessionNet /\ shown.balance = report.end
  /\ report.streak >= TrailingLosses(ProfitsOf(trades))
  /\ "confidence" \in DriftWarnings(trades) \/ report.drift = "HIGH" => With(trades, "HOLD") > 0
=============================================================================
