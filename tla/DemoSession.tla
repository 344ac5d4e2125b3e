---------------------------- MODULE DemoSession ----------------------------
(***************************************************************************)
(* Demo trading (run-demo): DemoExecutor and ExecutionGuard over the stub  *)
(* broker, with the two programs that touch the same files from other      *)
(* terminals: kill-on / kill-off and reconcile.                            *)
(*                                                                         *)
(* The bot may die between any two effects; the broker's orders live in    *)
(* its memory and die with it, the candle cursor, the execution state, the *)
(* kill switch and the two trade stores stay.                              *)
(***************************************************************************)
EXTENDS RiskManager, Sequences, FiniteSetsExt

CONSTANTS
  Total,              \* rows of the candle file
  Window,             \* max(MIN_CANDLES, FEATURE_WINDOW_SIZE)
  MinCandles,         \* settings.MIN_CANDLES
  FeatureWarmUp,      \* leading rows of a window without indicators
  LiveMaxSteps,       \* settings.LIVE_MAX_STEPS
  Flatable,           \* candles whose indicators may be NaN (a flat market)
  DemoInitialBalance, \* settings.DEMO_INITIAL_BALANCE
  PaperPending,       \* PENDING rows left by paper sessions, without order id
  MaxSessions, MaxCrashes, MaxResets, MaxReconciles  \* bounds on the environment

ASSUME DemoAssumption ==
  /\ Total \in Nat /\ Window \in Nat \ {0} /\ MinCandles \in 1..Window
  /\ FeatureWarmUp \in 0..(Window - 1) /\ LiveMaxSteps \in Nat \ {0}
  /\ Flatable \subseteq Nat /\ DemoInitialBalance \in Nat /\ PaperPending \in Nat
  /\ {MaxSessions, MaxCrashes, MaxResets, MaxReconciles} \subseteq Nat

VARIABLES
  flat,        \* candles whose indicator row is dropped
  cursorFile,  \* last_index of feed_cursor.json, -1 when absent or unreadable
  lastTraded,  \* execution_state.json: the asset's last traded candle, or NoCandle
  switch,      \* kill_switch.json: "on", "off", or "torn" while it is rewritten
  operator,    \* what kill-on or kill-off is about to write, or "none"
  db,          \* rows of the trades table
  csvLog,      \* rows of live_trades.csv
  sessions,    \* demo sessions started: the current session's id
  dead,        \* sessions that crashed or failed
  resets,      \* reset-feed-cursor commands run
  pc,          \* where the running bot is
  feed,        \* the feed object: next row, rows taken
  risk,        \* RiskManager
  broker,      \* DemoStubBroker: balance and number of orders it holds
  order,       \* the order in hand: id, candle, stake, result and profit
  todo,        \* reconcile's snapshot: the rows of the table still to ask about
  rpc,         \* reconcile: "idle", "run", or "done" once it has printed
  reconciles,  \* reconcile commands run
  placed,      \* observation: demo orders in the order they were placed
  replay,      \* observation: sessions that started at row 0
  late,        \* observation: orders placed since the switch was last "off"
  alone        \* observation: no bot has run since reconcile took its snapshot

files == <<cursorFile, lastTraded, db, csvLog>>
bot == <<pc, feed, risk, broker, order>>
operators == <<switch, operator, todo, rpc, reconciles>>
history == <<flat, sessions, dead, resets>>
observed == <<placed, replay, late, alone>>
vars == <<files, bot, operators, history, observed>>

NoCandle == -1
Unreadable == -2
PaperRow == 0   \* stands for the NULL order_id of paper rows
NoOrder == [id |-> PaperRow, candle |-> NoCandle, amount |-> 0,
            result |-> "PENDING", profit |-> 0]

Row == [order : Nat, session : Nat, candle : Int,
        result : {"PENDING", "WON", "LOST", "ERROR"}, profit : Int]

-----------------------------------------------------------------------------
(* The feed and its window                                                 *)

NextIndex == cursorFile + 1
HasNext == feed.taken < LiveMaxSteps /\ feed.cursor < Total

WindowStart == Max({0, feed.cursor - Window})
WindowRows == WindowStart..(feed.cursor - 1)

\* build_features(window).dropna(); the last one decides.
FeatureRows == {c \in (WindowStart + FeatureWarmUp)..(feed.cursor - 1) : c \notin flat}
Latest == Max(FeatureRows)

-----------------------------------------------------------------------------
(* The bot                                                                 *)

NoBot ==
  /\ pc' = "idle"
  /\ feed' = [cursor |-> 0, taken |-> 0]
  /\ risk' = FreshRisk
  /\ broker' = [balance |-> DemoInitialBalance, orders |-> 0]
  /\ order' = NoOrder

Init ==
  /\ flat \in SUBSET Flatable
  /\ cursorFile = -1 /\ lastTraded = NoCandle
  /\ switch = "off" /\ operator = "none"
  /\ db = [i \in 1..PaperPending |-> [order |-> PaperRow, session |-> 0, candle |-> NoCandle,
                                      result |-> "PENDING", profit |-> 0]]
  /\ csvLog = <<>>
  /\ sessions = 0 /\ dead = {} /\ resets = 0
  /\ pc = "idle" /\ feed = [cursor |-> 0, taken |-> 0]
  /\ risk = FreshRisk
  /\ broker = [balance |-> DemoInitialBalance, orders |-> 0]
  /\ order = NoOrder
  /\ todo = {} /\ rpc = "idle" /\ reconciles = 0
  /\ placed = <<>> /\ replay = 0 /\ late = 0 /\ alone = FALSE

\* run_demo_cli builds the feed, the broker, the guard and the executor.
StartDemo ==
  /\ pc = "idle" /\ sessions < MaxSessions
  /\ NextIndex < Total                        \* else EndOfFeedError
  /\ sessions' = sessions + 1
  /\ pc' = "loop"
  /\ feed' = [cursor |-> NextIndex, taken |-> 0]
  /\ replay' = IF NextIndex = 0 THEN replay + 1 ELSE replay
  /\ alone' = FALSE
  /\ UNCHANGED <<files, operators, flat, dead, resets, risk, broker, order, placed, late>>

FinishDemo ==
  /\ pc = "loop" /\ ~HasNext
  /\ NoBot
  /\ UNCHANGED <<files, operators, history, observed>>

MutTakeUnchecked ==
  /\ pc = "loop"
  /\ feed.taken < LiveMaxSteps
  /\ feed' = [cursor |-> feed.cursor + 1, taken |-> feed.taken + 1]
  /\ cursorFile' = feed.cursor
  /\ pc' = "window"
  /\ UNCHANGED <<lastTraded, db, csvLog, risk, broker, order, operators, history, observed>>

\* get_next_candle, with its cursor write.
TakeCandle ==
  /\ pc = "loop"
  /\ HasNext
  /\ feed' = [cursor |-> feed.cursor + 1, taken |-> feed.taken + 1]
  /\ cursorFile' = feed.cursor
  /\ pc' = "window"
  /\ UNCHANGED <<lastTraded, db, csvLog, risk, broker, order, operators, history, observed>>

SkipCandle ==
  /\ pc = "window"
  /\ Cardinality(WindowRows) < MinCandles \/ FeatureRows = {}
  /\ pc' = "loop"
  /\ UNCHANGED <<files, feed, risk, broker, order, operators, history, observed>>

MutCheckSwitchIgnored ==
  /\ pc = "window"
  /\ Cardinality(WindowRows) >= MinCandles /\ FeatureRows # {}
  /\ pc' = "guard"
  /\ UNCHANGED <<files, feed, risk, broker, order, operators, history, observed>>

\* validate_before_order reads the kill switch first ...
CheckSwitch ==
  /\ pc = "window"
  /\ Cardinality(WindowRows) >= MinCandles /\ FeatureRows # {}
  /\ switch \in {"on", "off"}
  /\ pc' = IF switch = "off" THEN "guard" ELSE "blocked"
  /\ UNCHANGED <<files, feed, risk, broker, order, operators, history, observed>>

\* ... and a second time, for the reason, when it is active.
ReadReason ==
  /\ pc = "blocked" /\ switch # "torn"
  /\ pc' = "loop"
  /\ UNCHANGED <<files, feed, risk, broker, order, operators, history, observed>>

\* The rest of the guard: HOLD or low confidence, checked before the files, may
\* be the answer for every candle, so no other refusal needs a case of its own.
Decline ==
  /\ pc = "guard"
  /\ pc' = "loop"
  /\ UNCHANGED <<files, feed, risk, broker, order, operators, history, observed>>

ThisPlacement == [session |-> sessions, replay |-> replay, candle |-> Latest]

\* The guard accepts and the broker takes the order.
PlaceOrder ==
  /\ pc = "guard"
  /\ broker.balance > 0
  /\ lastTraded \notin {Latest, Unreadable}
  /\ CanTrade(risk)
  /\ PositionSize(risk) > 0                   \* else the broker's ERROR
  /\ placed' = Append(placed, ThisPlacement)
  /\ order' = [NoOrder EXCEPT !.id = Len(placed'), !.candle = Latest,
                              !.amount = PositionSize(risk)]
  /\ broker' = [broker EXCEPT !.orders = @ + 1]
  /\ late' = IF switch = "off" THEN 0 ELSE late + 1
  /\ pc' = "placed"
  /\ UNCHANGED <<files, feed, risk, operators, history, replay, alone>>

RowOf(o) == [order |-> o.id, session |-> sessions, candle |-> o.candle,
             result |-> o.result, profit |-> o.profit]

InsertPending ==
  /\ pc = "placed"
  /\ db' = Append(db, RowOf(order))
  /\ pc' = "inserted"
  /\ UNCHANGED <<cursorFile, lastTraded, csvLog, feed, risk, broker, order,
                 operators, history, observed>>

MutMarkTradedForgotten ==
  /\ pc = "inserted"
  /\ pc' = "marked"
  /\ UNCHANGED <<files, feed, risk, broker, order, operators, history, observed>>

\* ExecutionState.set_last_traded_timestamp
MarkTraded ==
  /\ pc = "inserted"
  /\ lastTraded' = order.candle
  /\ pc' = "marked"
  /\ UNCHANGED <<cursorFile, db, csvLog, feed, risk, broker, order,
                 operators, history, observed>>

\* The stub pays 87% whatever settings.PAYOUT says.
StubProfit(amount, won) ==
  IF won THEN CeilDiv(amount * 87, 100) ELSE -amount

MutResolveWinsOnly ==
  /\ pc = "marked"
  /\ LET won == broker.orders % 2 = 1
         profit == StubProfit(order.amount, won)
     IN  /\ broker' = [broker EXCEPT !.balance = @ + profit]
         /\ risk' = IF won THEN RegisterResult(risk, profit) ELSE risk
         /\ order' = [order EXCEPT !.result = IF won THEN "WON" ELSE "LOST", !.profit = profit]
  /\ pc' = "resolved"
  /\ UNCHANGED <<files, feed, operators, history, observed>>

\* get_order_status settles by the parity of the orders held; register_result.
ResolveOrder ==
  /\ pc = "marked"
  /\ LET won == broker.orders % 2 = 1
         profit == StubProfit(order.amount, won)
     IN  /\ broker' = [broker EXCEPT !.balance = @ + profit]
         /\ risk' = RegisterResult(risk, profit)
         /\ order' = [order EXCEPT !.result = IF won THEN "WON" ELSE "LOST", !.profit = profit]
  /\ pc' = "resolved"
  /\ UNCHANGED <<files, feed, operators, history, observed>>

LogTrade ==
  /\ pc = "resolved"
  /\ csvLog' = Append(csvLog, RowOf(order))
  /\ pc' = "logged"
  /\ UNCHANGED <<cursorFile, lastTraded, db, feed, risk, broker, order,
                 operators, history, observed>>

MutUpdateProfitLost(rows, id, result, profit) ==
  [i \in DOMAIN rows |->
     IF id # PaperRow /\ rows[i].order = id THEN [rows[i] EXCEPT !.result = result] ELSE rows[i]]

MutUpdateNothing(rows, id, result, profit) == rows

\* UPDATE ... WHERE order_id = ?: NULL equals no row, a closed row is rewritten.
Updated(rows, id, result, profit) ==
  [i \in DOMAIN rows |->
     IF id # PaperRow /\ rows[i].order = id
     THEN [rows[i] EXCEPT !.result = result, !.profit = profit]
     ELSE rows[i]]

UpdateRow ==
  /\ pc = "logged"
  /\ db' = Updated(db, order.id, order.result, order.profit)
  /\ order' = NoOrder
  /\ pc' = "loop"
  /\ UNCHANGED <<cursorFile, lastTraded, csvLog, feed, risk, broker,
                 operators, history, observed>>

\* json.loads fails on a file being rewritten: the supervisor ends the session.
ReadFails ==
  /\ \/ /\ pc = "window" /\ switch = "torn"
        /\ Cardinality(WindowRows) >= MinCandles /\ FeatureRows # {}
     \/ pc = "blocked" /\ switch = "torn"
     \/ pc = "guard" /\ lastTraded = Unreadable
  /\ dead' = dead \cup {sessions}
  /\ NoBot
  /\ UNCHANGED <<files, operators, flat, sessions, resets, observed>>

LoseBot ==
  /\ pc # "idle" /\ Cardinality(dead) < MaxCrashes
  /\ dead' = dead \cup {sessions}
  /\ NoBot
  /\ UNCHANGED <<db, csvLog, operators, flat, sessions, resets, observed>>

Crash == LoseBot /\ UNCHANGED <<cursorFile, lastTraded>>

\* It dies in _write_cursor, after write_text truncated the file: no session
\* can read it, and the next one starts at row 0.
CrashInCursorWrite ==
  /\ pc = "loop" /\ HasNext
  /\ LoseBot
  /\ cursorFile' = -1
  /\ UNCHANGED lastTraded

\* It dies in set_last_traded_timestamp, after write_text truncated the file.
CrashInMark ==
  /\ pc = "inserted"
  /\ LoseBot
  /\ lastTraded' = Unreadable
  /\ UNCHANGED cursorFile

-----------------------------------------------------------------------------
(* The other terminals                                                     *)

\* kill-on or kill-off opens kill_switch.json for writing ...
TruncateSwitch ==
  /\ operator = "none"
  /\ operator' \in {"on", "off"} \ {switch}
  /\ switch' = "torn"
  /\ UNCHANGED <<files, bot, todo, rpc, reconciles, history, observed>>

\* ... and writes it.
WriteSwitch ==
  /\ operator # "none"
  /\ switch' = operator
  /\ operator' = "none"
  /\ late' = IF operator = "off" THEN 0 ELSE late
  /\ UNCHANGED <<files, bot, todo, rpc, reconciles, history, placed, replay, alone>>

ResetCursor ==
  /\ resets < MaxResets
  /\ resets' = resets + 1
  /\ cursorFile' = -1
  /\ UNCHANGED <<lastTraded, db, csvLog, bot, operators, flat, sessions, dead, observed>>

\* SELECT ... WHERE result = 'PENDING': rows stay where they are and keep their id.
PendingRows == {i \in 1..Len(db) : db[i].result = "PENDING"}

\* reconcile: a broker of its own, and the pending rows as they are now.
StartReconcile ==
  /\ rpc # "run" /\ reconciles < MaxReconciles
  /\ todo' = PendingRows
  /\ rpc' = "run"
  /\ reconciles' = reconciles + 1
  /\ alone' = (pc = "idle")
  /\ UNCHANGED <<files, bot, switch, operator, history, placed, replay, late>>

MutReconcileKnownOnly ==
  /\ rpc = "run" /\ todo # {}
  /\ todo' = todo \ {Min(todo)}
  /\ UNCHANGED <<files, bot, switch, operator, rpc, reconciles, history, observed>>

\* That broker holds no order, so its answer is ERROR and the next row takes it.
ReconcileOne ==
  /\ rpc = "run" /\ todo # {}
  /\ db' = Updated(db, db[Min(todo)].order, "ERROR", 0)
  /\ todo' = todo \ {Min(todo)}
  /\ UNCHANGED <<cursorFile, lastTraded, csvLog, bot, switch, operator, rpc, reconciles,
                 history, observed>>

FinishReconcile ==
  /\ rpc = "run" /\ todo = {}
  /\ rpc' = "done"
  /\ UNCHANGED <<files, bot, switch, operator, todo, reconciles, history, observed>>

BotStep ==
  \/ TakeCandle \/ SkipCandle \/ CheckSwitch \/ ReadReason \/ Decline \/ PlaceOrder
  \/ InsertPending \/ MarkTraded \/ ResolveOrder \/ LogTrade \/ UpdateRow
  \/ ReadFails \/ FinishDemo

Reconcile == StartReconcile \/ ReconcileOne \/ FinishReconcile

Next ==
  \/ StartDemo \/ BotStep \/ Crash \/ CrashInCursorWrite \/ CrashInMark
  \/ TruncateSwitch \/ WriteSwitch \/ ResetCursor
  \/ Reconcile

Spec == Init /\ [][Next]_vars

\* A running bot is scheduled; nothing else has to happen.
FairSpec == Spec /\ WF_vars(BotStep)

-----------------------------------------------------------------------------
(* Properties                                                              *)

\* Every variable holds a value the programs can give it.
TypeOK ==
  /\ flat \subseteq Flatable /\ cursorFile \in -1..(Total - 1)
  /\ lastTraded \in {NoCandle, Unreadable} \cup 0..(Total - 1)
  /\ switch \in {"on", "off", "torn"} /\ operator \in {"none", "on", "off"}
  /\ db \in Seq(Row) /\ csvLog \in Seq(Row)
  /\ sessions \in Nat /\ dead \subseteq 1..sessions /\ resets \in Nat
  /\ pc \in {"idle", "loop", "window", "blocked", "guard", "placed", "inserted",
             "marked", "resolved", "logged"}
  /\ feed \in [cursor : 0..Total, taken : Nat] /\ risk \in RiskState
  /\ broker \in [balance : Int, orders : Nat]
  /\ order \in [id : Nat, candle : Int, amount : Int,
                result : {"PENDING", "WON", "LOST"}, profit : Int]
  /\ todo \subseteq 1..Len(db) /\ rpc \in {"idle", "run", "done"} /\ reconciles \in Nat
  /\ placed \in Seq([session : Nat, replay : Nat, candle : Int])
  /\ replay \in Nat /\ late \in Nat /\ alone \in BOOLEAN

LastOfSession(k) == \A j \in (k + 1)..Len(placed) : placed[j].session # placed[k].session

Abandoned(k) == placed[k].session \in dead /\ LastOfSession(k)

\* From one start at row 0 to the next, no candle gets two orders: the execution
\* state keeps it from being traded twice across sessions, crashes and cursor
\* resets under a running bot, and in spite of flat rows.  Only a bot that died
\* between place_demo_order and mark_traded may have its last candle traded again.
OneDemoOrderPerCandle ==
  \A i, j \in 1..Len(placed) :
    /\ i < j
    /\ placed[i].replay = placed[j].replay /\ placed[i].candle = placed[j].candle
    => Abandoned(i)

\* Once kill-on has begun to write, one order may still be placed: the guard read
\* the switch before.  The next signal is blocked or fails.
KillSwitchHolds == late <= 1

\* What session s has won or lost, in a store's rows.
ProfitOf(rows, s) ==
  LET sum[n \in 0..Len(rows)] ==
        IF n = 0 THEN 0
        ELSE sum[n - 1] + (IF rows[n].session = s THEN rows[n].profit ELSE 0)
  IN  sum[Len(rows)]

\* Broker, risk manager and CSV log book the same results, though the two
\* balances start from different settings.
DemoBooksAgree ==
  pc \notin {"idle", "resolved"} =>
    /\ broker.balance - DemoInitialBalance = risk.dailyPnl
    /\ risk.balance - InitialBalance = risk.dailyPnl
    /\ ProfitOf(csvLog, sessions) = risk.dailyPnl

\* The table never contradicts the log: a logged trade's row says the same result
\* and profit, or what a concurrent reconcile wrote over it, or it is PENDING
\* because the bot is about to update it or died before it could.
LedgerMatchesLog ==
  \A i \in 1..Len(csvLog) : \E j \in 1..Len(db) :
    /\ db[j].order = csvLog[i].order
    /\ \/ db[j] = csvLog[i]
       \/ db[j].result = "ERROR" /\ db[j].profit = 0
       \/ /\ db[j].result = "PENDING"
          /\ db[j].session \in dead \/ (pc = "logged" /\ order.id = db[j].order)

\* When reconcile ends and no bot has run meanwhile, every order the broker took
\* is closed, and what is PENDING are the rows of paper sessions, all of them:
\* without an order id they are counted as updated, but the UPDATE matches none.
ReconcileClosesOrders ==
  rpc = "done" /\ alone =>
    \A i \in 1..Len(db) : db[i].result = "PENDING" <=> db[i].order = PaperRow

\* A row closed as WON or LOST is final.
ClosedStaysClosed ==
  [][\A i \in 1..Len(db) : db[i].result \in {"WON", "LOST"} => db'[i] = db[i]]_vars

Closed(k) ==
  \/ placed[k].session \in dead
  \/ \E i \in 1..Len(db) : db[i].order = k /\ db[i].result # "PENDING"

\* Every order the broker took is closed in the table, unless its session died.
OrdersClose ==
  \A k \in 1..Total : (k <= Len(placed)) ~> (k <= Len(placed) /\ Closed(k))
=============================================================================
