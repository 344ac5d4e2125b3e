---------------------------- MODULE PaperSession ----------------------------
(***************************************************************************)
(* Successive paper sessions over one candle file (run-paper-session):     *)
(* LiveTradingEngine, OrderManager, PaperBroker, RiskManager, the replay   *)
(* cursor of MockRealtimeDataFeed, CandleStorage and the two trade stores. *)
(* One process runs at a time; it may die between any two durable writes,  *)
(* and the next session starts from what the files say.                    *)
(*                                                                         *)
(* Candles are numbered as the rows of the candle file, from 0.  What the  *)
(* model predicts and which way the price moves are free choices.          *)
(***************************************************************************)
EXTENDS RiskManager, Sequences, FiniteSets

CONSTANTS
  Total,          \* rows of the candle file
  Window,         \* max(MIN_CANDLES, FEATURE_WINDOW_SIZE)
  FeatureWarmUp,  \* leading rows of a window without indicators
  LiveMaxSteps,   \* settings.LIVE_MAX_STEPS
  Expiration,     \* settings.EXPIRATION_CANDLES
  Gaps,           \* candles that come more than two timeframes after the previous one
  Flatable,       \* candles whose indicators may be NaN (a flat market)
  Predictions,    \* what the predictor may answer
  TornWrites,     \* whether a crash may truncate the cursor file
  MaxSessions, MaxCrashes, MaxResets   \* bounds on the environment

ASSUME SessionAssumption ==
  /\ Total \in Nat /\ Window \in Nat \ {0} /\ FeatureWarmUp \in 0..(Window - 1)
  /\ LiveMaxSteps \in Nat \ {0} /\ Expiration \in Nat \ {0}
  /\ Gaps \subseteq Nat /\ Flatable \subseteq Nat
  /\ Predictions \subseteq {"HOLD", "LOW", "TRADE"}
  /\ TornWrites \in BOOLEAN
  /\ MaxSessions \in Nat /\ MaxCrashes \in Nat /\ MaxResets \in Nat

VARIABLES
  flat,        \* candles whose indicator row is dropped
  cursorFile,  \* last_index of feed_cursor.json, -1 when absent or unreadable
  collected,   \* candles in collected_candles.csv
  csvLog,      \* rows of live_trades.csv
  db,          \* rows of the trades table
  windows,     \* data windows of completed sessions, in sessions.json
  kill,        \* kill_switch.json
  sessions,    \* sessions started: the current session's id
  dead,        \* sessions that crashed or failed
  resets,      \* reset-feed-cursor commands run
  pc,          \* where the running session is
  feed,        \* the feed object: start index, next index, candles taken, limit
  steps,       \* iterations of the engine's loop
  balance,     \* PaperBroker.balance
  risk,        \* RiskManager
  traded,      \* OrderManager._traded_timestamps
  order,       \* the open order: entry candle, stake, exit candles still to take
  trade,       \* the trade record being stored
  opened       \* observation: every order opened, with the latest candle then

disk == <<cursorFile, collected, csvLog, db, windows>>
environment == <<flat, kill, sessions, dead, resets>>
engine == <<feed, steps, balance, risk, traded, order>>
vars == <<disk, environment, pc, engine, trade, opened>>

Candle == 0..(Total - 1)
Min2(a, b) == IF a < b THEN a ELSE b
Max2(a, b) == IF a > b THEN a ELSE b

Results == {"HOLD", "LOW_CONFIDENCE", "DUPLICATED_CANDLE", "BLOCKED_BY_RISK",
            "PENDING", "WON", "LOST"}
Row == [session : Nat, candle : Int, result : Results, profit : Int, balance : Int]
FeedState == [start : Nat, cursor : 0..Total, taken : Nat, limit : Nat]
OrderState == [entry : Candle \cup {-1}, amount : Int, left : 0..Expiration]
OpenedOrder == [session : Nat, entry : Candle, latest : Candle]
NoRow == [session |-> 0, candle |-> -1, result |-> "HOLD", profit |-> 0, balance |-> 0]
NoFeed == [start |-> 0, cursor |-> 0, taken |-> 0, limit |-> 0]
NoOrder == [entry |-> -1, amount |-> 0, left |-> 0]

-----------------------------------------------------------------------------
(* The feed (csv: app/market/data_feed.py, mock_realtime_feed.py)          *)

\* _resolve_start_index: continue after the cursor, or from the first row.
NextIndex == cursorFile + 1

\* LIVE_MAX_STEPS cut to what remains, then used by both engine and feed.
StepLimit == Min2(LiveMaxSteps, Max2(1, Total - NextIndex))

MutPlannedWindow == <<NextIndex, NextIndex + StepLimit>>

\* _planned_feed_window: the indices this session is expected to consume.
PlannedWindow == <<NextIndex, Min2(Total - 1, NextIndex + StepLimit - 1)>>

\* _window_already_used, with ALLOW_REPLAY_SAME_WINDOW off.
WindowUsed == \E i \in 1..Len(windows) : windows[i] = PlannedWindow

HasNext == feed.taken < feed.limit /\ feed.cursor < Total

MutTakeCandleCursorLate ==
  /\ HasNext
  /\ feed' = [feed EXCEPT !.cursor = @ + 1, !.taken = @ + 1]
  /\ cursorFile' = feed.cursor - 1

MutTakeCandleUnchecked ==
  /\ feed' = [feed EXCEPT !.cursor = @ + 1, !.taken = @ + 1]
  /\ cursorFile' = feed.cursor

\* get_next_candle: the cursor file is rewritten before the candle is used.
TakeCandle ==
  /\ HasNext
  /\ feed' = [feed EXCEPT !.cursor = @ + 1, !.taken = @ + 1]
  /\ cursorFile' = feed.cursor

\* get_latest_candles: the rows up to the cursor, older sessions' included.
WindowStart == Max2(0, feed.cursor - Window)
WindowRows == WindowStart..(feed.cursor - 1)

\* validate_candles_df: two consecutive rows of the window too far apart.
WindowCorrupt == \E c \in WindowRows \ {WindowStart} : c \in Gaps

\* build_features(...).dropna(): rows past the indicators' warm-up, not NaN.
FeatureRows == {c \in (WindowStart + FeatureWarmUp)..(feed.cursor - 1) : c \notin flat}

\* featured.iloc[-1]
IsFeatureRow(c) == c \in FeatureRows /\ \A d \in FeatureRows : d <= c

-----------------------------------------------------------------------------
(* Starting, ending and losing a session                                   *)

NoProcess ==
  /\ pc' = "idle"
  /\ feed' = NoFeed
  /\ steps' = 0
  /\ balance' = InitialBalance
  /\ risk' = FreshRisk
  /\ traded' = {}
  /\ order' = NoOrder
  /\ trade' = NoRow

Init ==
  /\ flat \in SUBSET Flatable
  /\ cursorFile = -1
  /\ collected = {}
  /\ csvLog = <<>> /\ db = <<>> /\ windows = <<>>
  /\ kill = FALSE
  /\ sessions = 0 /\ dead = {} /\ resets = 0
  /\ pc = "idle"
  /\ feed = NoFeed /\ steps = 0
  /\ balance = InitialBalance /\ risk = FreshRisk
  /\ traded = {} /\ order = NoOrder /\ trade = NoRow
  /\ opened = <<>>

\* run_paper_session_cli passes every check and builds a fresh engine.
StartSession ==
  /\ pc = "idle" /\ sessions < MaxSessions
  /\ ~kill
  /\ LiveMaxSteps >= Window /\ Total >= Window
  /\ NextIndex < Total                       \* else EndOfFeedError
  /\ ~WindowUsed
  /\ pc' = "loop"
  /\ sessions' = sessions + 1
  /\ feed' = [start |-> NextIndex, cursor |-> NextIndex, taken |-> 0, limit |-> StepLimit]
  /\ UNCHANGED <<disk, flat, kill, dead, resets, steps, balance, risk, traded, order, trade, opened>>

\* The loop condition fails: the supervisor records the window consumed.
FinishSession ==
  /\ pc = "loop"
  /\ ~(HasNext /\ steps < feed.limit)
  /\ windows' = IF feed.cursor > feed.start
                THEN Append(windows, <<feed.start, feed.cursor - 1>>) ELSE windows
  /\ NoProcess
  /\ UNCHANGED <<cursorFile, collected, csvLog, db, environment, opened>>

\* The process dies, or an exception ends it: memory is lost, files stay.
LoseProcess ==
  /\ pc # "idle"
  /\ Cardinality(dead) < MaxCrashes
  /\ dead' = dead \cup {sessions}
  /\ NoProcess
  /\ UNCHANGED <<collected, csvLog, db, windows, flat, kill, sessions, resets, opened>>

Crash == LoseProcess /\ UNCHANGED cursorFile

\* It dies in _write_cursor, with the file truncated and not rewritten.
CrashInCursorWrite ==
  /\ TornWrites /\ pc \in {"loop", "await"} /\ HasNext
  /\ LoseProcess
  /\ cursorFile' = -1

-----------------------------------------------------------------------------
(* The engine loop (app/execution/live_engine.py)                          *)

NextCandle ==
  /\ pc = "loop" /\ steps < feed.limit
  /\ TakeCandle
  /\ steps' = steps + 1
  /\ pc' = "store"
  /\ UNCHANGED <<collected, csvLog, db, windows, environment, balance, risk, traded, order, trade, opened>>

\* CandleStorage.append_candle: collected candles are kept once each.
Collect == collected' = collected \cup {feed.cursor - 1}

StoreCandle ==
  /\ pc = "store"
  /\ Collect
  /\ pc' = "check"
  /\ UNCHANGED <<cursorFile, csvLog, db, windows, environment, engine, trade, opened>>

\* Warm-up, a corrupt window, or no row with every feature: no decision.
SkipCandle ==
  /\ pc = "check"
  /\ \/ Cardinality(WindowRows) < Window
     \/ WindowCorrupt
     \/ FeatureRows = {}
  /\ pc' = "loop"
  /\ UNCHANGED <<disk, environment, engine, trade, opened>>

CanDecide ==
  /\ pc = "check"
  /\ Cardinality(WindowRows) = Window
  /\ ~WindowCorrupt

Record(candle, result, profit, newBalance) ==
  [session |-> sessions, candle |-> candle, result |-> result,
   profit |-> profit, balance |-> newBalance]

\* can_trade, a zero position, or PaperBroker.place_order refuses.
BlockedByRisk(amount) == ~CanTrade(risk) \/ amount <= 0 \/ amount > balance

MutRefusalNoDuplicateCheck(prediction, candle) ==
  CASE prediction = "HOLD" -> "HOLD"
    [] prediction = "LOW"  -> "LOW_CONFIDENCE"
    [] OTHER -> IF BlockedByRisk(PositionSize(risk)) THEN "BLOCKED_BY_RISK" ELSE "NONE"

\* OrderManager.execute_signal's checks in their order; "NONE": it executes.
Refusal(prediction, candle) ==
  CASE prediction = "HOLD" -> "HOLD"
    [] prediction = "LOW"  -> "LOW_CONFIDENCE"
    [] prediction = "TRADE" /\ candle \in traded -> "DUPLICATED_CANDLE"
    [] OTHER -> IF BlockedByRisk(PositionSize(risk)) THEN "BLOCKED_BY_RISK" ELSE "NONE"

\* The signal is not executed: a row with the refusal and no profit.
DeclineSignal ==
  /\ CanDecide
  /\ \E prediction \in Predictions, candle \in FeatureRows :
       /\ IsFeatureRow(candle)
       /\ Refusal(prediction, candle) # "NONE"
       /\ trade' = Record(candle, Refusal(prediction, candle), 0, balance)
  /\ pc' = "log"
  /\ UNCHANGED <<disk, environment, engine, opened>>

OpenOrder ==
  /\ CanDecide
  /\ \E prediction \in Predictions, candle \in FeatureRows :
       /\ IsFeatureRow(candle)
       /\ Refusal(prediction, candle) = "NONE"
       /\ order' = [entry |-> candle, amount |-> PositionSize(risk), left |-> Expiration]
       /\ traded' = traded \cup {candle}
       /\ opened' = Append(opened, [session |-> sessions, entry |-> candle, latest |-> feed.cursor - 1])
  /\ pc' = "await"
  /\ UNCHANGED <<disk, environment, feed, steps, balance, risk, trade>>

MutAwaitSkipsOne ==
  /\ pc = "await" /\ order.left > 0
  /\ TakeCandle
  /\ order' = [order EXCEPT !.left = @ - 1]
  /\ pc' = "await"
  /\ UNCHANGED <<collected, csvLog, db, windows, environment, steps, balance, risk, traded, trade, opened>>

\* _consume_expiration_candle: one candle of the wait, stored before the next.
AwaitCandle ==
  /\ pc = "await" /\ order.left > 0
  /\ TakeCandle
  /\ order' = [order EXCEPT !.left = @ - 1]
  /\ pc' = "storeExit"
  /\ UNCHANGED <<collected, csvLog, db, windows, environment, steps, balance, risk, traded, trade, opened>>

StoreExitCandle ==
  /\ pc = "storeExit"
  /\ Collect
  /\ pc' = "await"
  /\ UNCHANGED <<cursorFile, csvLog, db, windows, environment, engine, trade, opened>>

MutLeavePendingAtFileEnd ==
  /\ pc = "await" /\ order.left > 0 /\ feed.cursor = Total
  /\ trade' = Record(order.entry, "PENDING", 0, balance)
  /\ order' = NoOrder
  /\ pc' = "log"
  /\ UNCHANGED <<disk, environment, feed, steps, balance, risk, traded, opened>>

MutLeavePendingRegisters ==
  /\ pc = "await" /\ order.left > 0 /\ ~HasNext
  /\ trade' = Record(order.entry, "PENDING", 0, balance)
  /\ risk' = RegisterResult(risk, -order.amount)
  /\ order' = NoOrder
  /\ pc' = "log"
  /\ UNCHANGED <<disk, environment, feed, steps, balance, traded, opened>>

\* The feed ends first: the row says PENDING and nothing is registered.
LeavePending ==
  /\ pc = "await" /\ order.left > 0 /\ ~HasNext
  /\ trade' = Record(order.entry, "PENDING", 0, balance)
  /\ order' = NoOrder
  /\ pc' = "log"
  /\ UNCHANGED <<disk, environment, feed, steps, balance, risk, traded, opened>>

MutResolveStaleBalance ==
  /\ pc = "await" /\ order.left = 0
  /\ \E won \in BOOLEAN : LET profit == Profit(order.amount, won) IN
       /\ balance' = balance + profit
       /\ risk' = RegisterResult(risk, profit)
       /\ trade' = Record(order.entry, IF won THEN "WON" ELSE "LOST", profit, balance)
  /\ order' = NoOrder
  /\ pc' = "log"
  /\ UNCHANGED <<disk, environment, feed, steps, traded, opened>>

\* PaperBroker.resolve_order, then RiskManager.register_result.
ResolveOrder ==
  /\ pc = "await" /\ order.left = 0
  /\ \E won \in BOOLEAN : LET profit == Profit(order.amount, won) IN
       /\ balance' = balance + profit
       /\ risk' = RegisterResult(risk, profit)
       /\ trade' = Record(order.entry, IF won THEN "WON" ELSE "LOST", profit, balance + profit)
  /\ order' = NoOrder
  /\ pc' = "log"
  /\ UNCHANGED <<disk, environment, feed, steps, traded, opened>>

\* TradeLogger.log_trade
LogTrade ==
  /\ pc = "log"
  /\ csvLog' = Append(csvLog, trade)
  /\ pc' = "insert"
  /\ UNCHANGED <<cursorFile, collected, db, windows, environment, engine, trade, opened>>

MutInsertPendingLost ==
  /\ pc = "insert"
  /\ db' = IF trade.result = "PENDING" THEN db ELSE Append(db, trade)
  /\ trade' = NoRow
  /\ pc' = "loop"
  /\ UNCHANGED <<cursorFile, collected, csvLog, windows, environment, engine, opened>>

\* TradesRepository.insert_trade
InsertTrade ==
  /\ pc = "insert"
  /\ db' = Append(db, trade)
  /\ trade' = NoRow
  /\ pc' = "loop"
  /\ UNCHANGED <<cursorFile, collected, csvLog, windows, environment, engine, opened>>

-----------------------------------------------------------------------------
(* The operator's commands, from another terminal                          *)

KillOn ==
  /\ ~kill /\ kill' = TRUE
  /\ UNCHANGED <<disk, flat, sessions, dead, resets, pc, engine, trade, opened>>

KillOff ==
  /\ kill /\ kill' = FALSE
  /\ UNCHANGED <<disk, flat, sessions, dead, resets, pc, engine, trade, opened>>

\* reset-feed-cursor --confirm unlinks the file.
ResetCursor ==
  /\ resets < MaxResets
  /\ resets' = resets + 1
  /\ cursorFile' = -1
  /\ UNCHANGED <<collected, csvLog, db, windows, flat, kill, sessions, dead, pc, engine, trade, opened>>

EngineStep ==
  \/ NextCandle \/ StoreCandle \/ SkipCandle \/ DeclineSignal \/ OpenOrder
  \/ AwaitCandle \/ StoreExitCandle \/ LeavePending \/ ResolveOrder
  \/ LogTrade \/ InsertTrade \/ FinishSession

Next ==
  \/ StartSession \/ EngineStep
  \/ Crash \/ CrashInCursorWrite
  \/ KillOn \/ KillOff \/ ResetCursor

Spec == Init /\ [][Next]_vars

\* The process is scheduled as long as it runs; nobody must start a session,
\* use the kill switch or crash.
FairSpec == Spec /\ WF_vars(EngineStep)

-----------------------------------------------------------------------------
(* Properties                                                              *)

\* Every variable holds a value the program can give it.
TypeOK ==
  /\ flat \subseteq Flatable
  /\ cursorFile \in -1..(Total - 1) /\ collected \subseteq Candle
  /\ csvLog \in Seq(Row) /\ db \in Seq(Row) /\ windows \in Seq(Candle \X Candle)
  /\ kill \in BOOLEAN
  /\ sessions \in Nat /\ dead \subseteq 1..sessions /\ resets \in Nat
  /\ pc \in {"idle", "loop", "store", "check", "await", "storeExit", "log", "insert"}
  /\ feed \in FeedState
  /\ steps \in Nat /\ balance \in Int /\ risk \in RiskState /\ traded \subseteq Candle
  /\ order \in OrderState
  /\ trade \in Row
  /\ opened \in Seq(OpenedOrder)

LastBalance ==
  IF csvLog # <<>> /\ csvLog[Len(csvLog)].session = sessions
  THEN csvLog[Len(csvLog)].balance
  ELSE InitialBalance

\* Broker, risk manager and journal agree: whenever no row waits to be logged,
\* PaperBroker.balance, RiskManager.balance, the day's profit and the balance of
\* the session's last logged row are one number (resolve_order, register_result
\* and _trade_record each keep their own).
BooksAgree ==
  pc \notin {"idle", "log"} =>
    /\ balance = LastBalance
    /\ risk.balance = balance
    /\ risk.initial + risk.dailyPnl = balance

RowsOf(rows, session) == {i \in 1..Len(rows) : rows[i].session = session}

\* The rows of the same session before the i-th row: their number is its place.
Before(rows, i) == {h \in RowsOf(rows, rows[i].session) : h < i}

\* The CSV log leads the table: a session's table rows are a prefix of its log
\* rows, and one row may be missing only while it is being inserted, or for ever
\* in a session that died there (log_trade before insert_trade, no repair).
LogLeadsTable ==
  /\ \A s \in 1..sessions :
       LET behind == Cardinality(RowsOf(csvLog, s)) - Cardinality(RowsOf(db, s)) IN
         /\ behind \in 0..1
         /\ behind = 1 => s \in dead \/ (s = sessions /\ pc = "insert")
  /\ \A i \in 1..Len(csvLog), k \in 1..Len(db) :
       /\ csvLog[i].session = db[k].session
       /\ Cardinality(Before(csvLog, i)) = Cardinality(Before(db, k))
       => csvLog[i] = db[k]

\* Sessions never decide twice on a candle: as long as nobody resets the cursor,
\* orders are opened on later and later candles, across crashes and restarts.
NoCandleReplayed ==
  resets = 0 =>
    \A i, j \in 1..Len(opened) : i < j => opened[i].latest < opened[j].latest

\* Within a session a candle is the entry of one order at most, even when the
\* latest rows have no features and an older one is chosen again.
OneOrderPerCandleInSession ==
  \A i, j \in 1..Len(opened) :
    i < j /\ opened[i].session = opened[j].session => opened[i].entry # opened[j].entry

\* The same across sessions: what "a trade was already opened for this candle"
\* (order_manager.py) says.
OneOrderPerCandle ==
  resets = 0 =>
    \A i, j \in 1..Len(opened) : i < j => opened[i].entry # opened[j].entry

\* The orders of a session among the log's rows from j up to i, i not included.
Orders(s, j, i) ==
  {k \in j..(i - 1) : csvLog[k].session = s /\ csvLog[k].result \in {"WON", "LOST", "PENDING"}}

\* MAX_CONSECUTIVE_LOSSES lost orders in a row are the last orders of a session:
\* the losses right before another order of it are fewer.
LossStreakEndsTrading ==
  \A s \in 1..sessions : \A i \in RowsOf(csvLog, s), j \in 1..Len(csvLog) :
    /\ i \in Orders(s, j, i + 1)
    /\ \A k \in Orders(s, j, i) : csvLog[k].result = "LOST"
    => Cardinality(Orders(s, j, i)) < MaxConsecutiveLosses

\* A session never loses more than the daily limit and one stake of the opening
\* balance, whatever it won before.
DailyLossBounded ==
  1000 * (InitialBalance - balance)
    <= InitialBalance * DailyLossPerMille + 1000 * CeilDiv(InitialBalance * RiskRate, 1000)

\* No two completed sessions used the same data window, even after the cursor
\* was reset: the window planned before the start is the one really consumed.
WindowsDistinct ==
  \A i, j \in 1..Len(windows) : i < j => windows[i] # windows[j]

\* Every consumed candle was collected, but for one per crash between the cursor
\* write and CandleStorage.append_candle.
HolesOnlyFromCrashes ==
  Cardinality((0..cursorFile) \ collected)
    <= Cardinality(dead) + (IF pc \in {"store", "storeExit"} THEN 1 ELSE 0)

\* The two stores implement the abstract journal.
Journal == INSTANCE TradeJournal WITH
  OpeningBalance <- InitialBalance, Rows <- Row, NoRow <- NoRow,
  log <- csvLog, table <- db,
  staged  <- IF pc = "insert" THEN trade ELSE NoRow,
  account <- IF pc = "log" THEN trade.balance - trade.profit ELSE balance

\* A session's rows chain its balance, log first and table next (TradeJournal).
StoresImplementJournal == Journal!Spec

\* A session that keeps being scheduled ends.
SessionEnds == (pc # "idle") ~> (pc = "idle")

Settled(k) ==
  \/ opened[k].session \in dead
  \/ \E i \in 1..Len(db) :
       /\ db[i].session = opened[k].session /\ db[i].candle = opened[k].entry
       /\ db[i].result \in {"WON", "LOST", "PENDING"}

\* Every order opened reaches the table, unless its session died.
OrdersSettle ==
  \A k \in 1..Total : (k <= Len(opened)) ~> (k <= Len(opened) /\ Settled(k))
=============================================================================
