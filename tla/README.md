# A TLA+ model of BOT-TRADING-YEDA

BOT-TRADING-YEDA (`src/bot-trading`) is a paper and demo trading bot: it replays
candles from CSV files, asks a trained model for a CALL, PUT or HOLD, filters the
answer through risk rules, opens binary-option orders with a simulated broker and
keeps its results in a CSV log and a SQLite table. Around that core there is a
session supervisor with JSON state files, a kill switch, an order reconciler, a
model registry with promotion and rollback, and a set of training, validation and
backtesting tools.

This directory holds the formal model: TLA+ modules, TLC configurations that check
them on small instances, and proofs that TLAPS checks for every value of the
constants. `PROJECT.json` lists components, runs, mutants, theorems, hazards and
findings, and maps every definition to the source lines it stands for. Paths below
are relative to `src/bot-trading/app`.

The state of the project: every component that keeps state is modelled and checked:
the **paper session**, the **demo session** with kill switch and reconcile, the
**session commands** over their JSON files, the **model life cycle**, the **candle
feeds** over files that change, and the shared **trades table**. Backtests, validation
and monitoring are modelled as operators and checked over all small inputs. Proved for
every value of the constants are all invariants of the paper session, the demo session,
the session commands, the model life cycle, the feeds and the trades table, the two
refinements, the splits of training and validation, what the backtests, their metrics,
the stress tests, the recommendation of a report and the demo gate compute from any
rows, and what summaries, monitor and reports say of any table the sessions write. Every
invariant of every passing run has a theorem. Liveness is model-checked.

---------------------------------------------------------------------------

## 1. The system

### Components, their state and their operations

| Component | State it keeps | Operations that change it | Model |
|---|---|---|---|
| Live paper engine: `execution/live_engine.py`, `order_manager.py`, `brokers/paper_broker.py` | in memory: balance, traded timestamps, open order, loop counter | `run`, `_process_window`, `_consume_expiration_candle`, `execute_signal`, `place_order`, `resolve_order` | `PaperSession` |
| Risk manager: `risk/risk_manager.py` | in memory: balance, opening balance, day's profit, losses in a row | `can_trade`, `get_position_size`, `register_result`, `evaluate`, `reset_daily_limits` (never called) | `RiskManager`, `Backtests` |
| Candle feeds: `market/data_feed.py`, `mock_realtime_feed.py`, `candle_storage.py` | `feed_cursor.json`, `collected_candles.csv`, the candle file; feed object in memory | `get_next_candle`, `_write_cursor`, `append_candle`; commands `reset-feed-cursor`, `append-candles`, `collect-data`, `live-paper` | by row in `PaperSession` and `DemoSession`, by timestamp in `FeedReplay` |
| Validation and features: `market/data_quality.py`, `features.py` | none | `validate_candles_df`, `clean_candles_df`, `build_features`, `create_features` | guards of the sessions; `FeedReplay`, `Backtests` |
| Demo executor: `execution/demo_executor.py`, `execution_guard.py`, `execution_state.py`, `brokers/demo_stub_broker.py` | `execution_state.json`; broker orders and balance in memory | `execute`, `validate_before_order`, `mark_traded`, `place_demo_order`, `get_order_status` | `DemoSession` |
| Kill switch: `execution/kill_switch.py` | `kill_switch.json` | `activate`, `deactivate` | both sessions, `SessionControl` |
| Reconciliation: `execution/order_reconciliation.py` | rows of the table | `reconcile_pending_orders` | `DemoSession` |
| Trade stores: `storage/trades_repository.py`, `storage/database.py`, `execution/trade_logger.py` | `trades` table, `live_trades.csv` | `insert_trade`, `update_trade_result`, `log_trade`, `save_trades`, `reset-paper-logs` | `TradeJournal` (abstract), both sessions, `TradesTable` |
| Session control: `runtime/supervisor.py`, `session_manager.py`, `runtime_state.py` | `sessions.json`, `current_session.json`, `runtime_state.json` | `run_with_supervision`, `start_session`, `update_session`, `end_session`, `save_heartbeat`, `update` | `SessionControl`; window records also in `PaperSession` and `FeedReplay` |
| Model life cycle: `mlops/model_registry.py`, `model_promotion.py`, `model_versioning.py`, `retraining_pipeline.py` | `model_registry.json`, production, backup and version files | `register_model`, `set_status`, `promote`, `rollback`, `retrain`, `register-current-model`, `train` | `ModelSlot` (abstract), `ModelLifecycle` |
| Backtesting: `execution/backtester.py`, `ml_backtester.py`, `comparison.py`, `executor.py` | none (pure) | – | `Backtests` |
| Validation and promotion gate: `validation/*`, `ml/promotion_gate.py` | none (pure) | – | `Validation` |
| Monitoring and reports: `monitoring/*`, `mlops/daily_report.py`, `model_drift_detector.py` | none (read the table) | – | `Monitoring` |
| Training and prediction: `ml/train.py`, `ml/predict.py`, `strategies/*` | model files | `train_model` | signals, splits and metrics in `Backtests` and `Validation`; the file in `ModelLifecycle`; fitting is left out |
| HTTP API and command line: `main.py` | none of their own | the commands | actions of the modules above |
| Recovery manager, health check, alerts, dashboard, deployment, real brokers | – | – | not modelled, see section 5 |

### How the components interact

`run-paper-session` (`main.py`) checks the kill switch, the model, the feed status
and whether the data window was used before, and hands a `LiveTradingEngine` to the
supervisor, which records the session in `sessions.json`. The engine pulls candles
from the feed. Each pull rewrites the cursor file *before* the candle is used. The
candle is stored, the window is validated and turned into features, and the last
feature row decides. `OrderManager` filters HOLD, low confidence and duplicates, asks
the risk manager, and opens a paper order. The engine then consumes
`EXPIRATION_CANDLES` more candles from the same feed, settles the order, tells the
risk manager, and writes the row first to the CSV log and then to the table.

`run-demo` uses the same feed and risk manager with `DemoExecutor`: the guard reads
`kill_switch.json` and `execution_state.json`, the stub broker takes the order, a
PENDING row is inserted, the candle is marked as traded, the broker is asked for the
result, the risk manager books it, the log gets a row, and the PENDING row is updated.
`reconcile` and `kill-on`/`kill-off` are separate processes that work on the same
files without locks.

Both session commands run their engine inside the supervisor, which keeps
`runtime_state.json`, `current_session.json` and `sessions.json` by reading, changing
and rewriting them, arms the kill switch on critical errors, and is followed by a daily
report about the session in the current file. `train`, `retrain`, `validate`,
`register-current-model`, `promote` and `rollback` work on the model files and the
registry. `append-candles`, `collect-data` and `live-paper` share the candle file and
the cursor with the sessions. The HTTP API stores backtests in the very file and table
the sessions store their trades in.

### What is hard in it

* **Crashes and restarts.** Everything that decides (balances, risk counters, the
  paper session's duplicate check, the broker's orders) is in memory; the cursor, the
  execution state, the logs and the table survive. Every order of effects matters.
* **Files rewritten in place.** `write_text` truncates and writes: another process, or
  the next one after a crash, may read an unreadable file.
* **Several processes without locks.** `reconcile` and the kill switch against a
  running bot; session and state files updated by read-modify-write; tools that move
  the cursor of a running session.
* **Failures of the failure path.** The handler of a failed session reads the same
  files, before it arms the kill switch.
* **Installs in several effects.** Registry, backup and production file change one
  after the other, in opposite orders in `promote` and `rollback`.
* **Row numbers in a file that changes.** The cursor is a row number, windows are
  timestamps, and `append-candles` sorts.
* **Resource limits.** The step limit, the end of the file and the wait for
  expiration candles compete for the same feed.
* **Stale entries.** The row that decides is the last that survives `dropna`, which
  need not be the candle just received.
* **Money.** Three copies of a balance, and limits tested before a stake whose size
  follows the balance.

### What makes each component correct

| Component | Properties |
|---|---|
| Paper session | the three balances agree (`BooksAgree`); a session's loss is bounded (`DailyLossBounded`); a losing streak ends its trading (`LossStreakEndsTrading`); one order per candle (`OneOrderPerCandleInSession`, `OneOrderPerCandle`); it ends, and orders settle (`SessionEnds`, `OrdersSettle`) |
| Feed and windows | no candle decided twice (`NoCandleReplayed`), none missing from the collection but for crashes (`HolesOnlyFromCrashes`), no window used twice (`WindowsDistinct`) |
| Stores | log before table, at most one row apart (`LogLeadsTable`), and a journal whose rows chain the balance (`StoresImplementJournal`) |
| Demo session | one order per candle across restarts (`OneDemoOrderPerCandle`), an activated kill switch lets at most one order through (`KillSwitchHolds`), the books agree (`DemoBooksAgree`), orders close (`OrdersClose`) |
| Reconciliation | table and log do not contradict each other (`LedgerMatchesLog`), every order closed afterwards (`ReconcileClosesOrders`), a closed row is final (`ClosedStaysClosed`) |
| Session control | the history tells how a session ended (`HistoryTellsOutcome`), nobody ends a session whose engine runs (`NoPrematureEnd`), critical failures arm the switch (`CriticalArmsSwitch`), state file and report speak of the right session (`StatusFollowsCommand`, `ReportNamesItsSession`) |
| Model life cycle | at most one PRODUCTION entry (`OneProduction`), whose file is the installed one (`ProductionIsInstalled`); no model in use is replaced before it is copied aside (`ImplementsModelSlot`); an approved candidate is installed (`PromoteInstalls`) |
| Feeds over changing files | the file is read row by row (`ReplayContinues`), the checked window is the one recorded (`PlannedIsRecorded`) and none is recorded twice (`NoWindowTwice`) |
| Backtesting, validation, monitoring | how far a backtest looks ahead (`LookAheadBounded`), splits in the order of time (`SplitsAreTemporal`); metrics say what their names promise (`MetricsAgree`), simulation and backtest count the same trades (`SimulationAgrees`), what DEMO_ALLOWED means (`DemoMeans`, `DemoBeatsBreakeven`), reports agree with the sessions (`ReportsAgree`) |
| Trades table | who can store in a table depends only on who created it (`TableServesItsCreator`) |

---------------------------------------------------------------------------

## 2. The modules

### `RiskManager`

The risk record of one process and the arithmetic of a stake. `CanTrade`,
`PositionSize` and `RegisterResult` are the methods of `risk/risk_manager.py` in the
same order of tests; `FreshRisk` is `__init__`. Money is an integer number of units.
The code's floats are never rounded to zero, so products are rounded *up* (`CeilDiv`):
a positive balance at a positive rate has a positive stake. `RiskAssumption` states
the ranges `config.py` validates (`RISK_PER_TRADE` up to 2 %, of which `__init__` uses
at most 1 %: `RiskRate`; `MAX_DAILY_LOSS` up to 10 %).

### `TradeJournal`: what the two stores promise

An abstract specification that knows nothing of candles or orders: a row is logged and
continues the running balance, it is then stored in the table, and at any time the
session may close, after which an unstored row is lost and the balance starts anew.
`PaperSession` implements it with `log <- csvLog`, `table <- db`, `staged` the row
between the two writes, and `account` the broker's balance as the log knows it.

### `PaperSession`: `run-paper-session`, session after session

Candles are the rows of the feed file, `0..Total-1`. Two things are free choices: what
the model predicts (`Predictions`: HOLD, low confidence, or a tradable signal) and
whether an order wins. CALL and PUT are not told apart, since nothing but the result
depends on them; the result is free, so a draw, which the broker books as lost, is
one of its choices.

| Variable | Code |
|---|---|
| `cursorFile` | `last_index` of `feed_cursor.json` (-1: absent or unreadable, what `_read_cursor` makes of both) |
| `collected`, `csvLog`, `db` | `collected_candles.csv`, `live_trades.csv`, table `trades` |
| `windows` | start and end index of the COMPLETED entries of `sessions.json` |
| `kill`, `flat` | the kill switch; the candles whose indicator row is NaN |
| `feed`, `steps` | `MockRealtimeDataFeed` (`start_index`, `_cursor`, `_steps`, `max_steps`) and the loop's counter |
| `balance`, `risk`, `traded`, `order`, `trade` | `PaperBroker.balance`, `RiskManager`, `_traded_timestamps`, the order in hand, the trade record |
| `pc` | where the process is between two effects that outlive it |
| `sessions`, `dead`, `resets`, `opened` | history: sessions started, lost, cursor resets, orders opened |

| Action | Code |
|---|---|
| `StartSession`, `FinishSession` | the guards and the end of `run_paper_session_cli` (`main.py:714-773`), with the planned window and `_window_already_used` |
| `NextCandle`, `AwaitCandle` (`TakeCandle`) | `get_next_candle` with `_write_cursor`, in the loop and in the wait |
| `StoreCandle`, `StoreExitCandle` | `CandleStorage.append_candle` |
| `SkipCandle` | warm-up, corrupt window, no feature row |
| `DeclineSignal`, `OpenOrder` | `OrderManager.execute_signal` in its order of tests (`Refusal`), `PaperBroker.place_order` |
| `LeavePending`, `ResolveOrder` | the feed ends during the wait; `resolve_order` and `register_result` |
| `LogTrade`, `InsertTrade` | `log_trade`, then `insert_trade` |
| `Crash`, `CrashInCursorWrite` | the process dies between two effects, or inside `write_text` of the cursor |
| `KillOn`, `KillOff`, `ResetCursor` | the commands `kill-on`, `kill-off`, `reset-feed-cursor --confirm` |

`flat` is chosen once, at the start, because indicators are a function of the file.
The kill switch of a paper session is read before it starts and not again.

### `DemoSession`: `run-demo`, `kill-on`/`kill-off` and `reconcile`

The same feed (without collection, validation or a window record, which `run_demo_cli`
does not have), and `DemoExecutor.execute` one effect at a time: `CheckSwitch` and
`PlaceOrder` are the guard's reads, separated so that other processes can run between
them, followed by `InsertPending`, `MarkTraded`, `ResolveOrder`, `LogTrade` and
`UpdateRow`. `Decline` stands for every refusal of the guard: HOLD and low confidence
are free answers of the model and are possible for every candle. The stub
broker settles by the parity of the orders it holds and pays a fixed 87 %, as
`demo_stub_broker.py` does; its orders live in its memory and vanish with the process.

`TruncateSwitch` and `WriteSwitch` are the two halves of the kill switch's
`write_text`: a guard that reads in between gets an exception (`ReadFails`), which the
supervisor turns into the end of the session. `CrashInMark` leaves
`execution_state.json` truncated in the same way, `CrashInCursorWrite` the cursor file,
which the next session reads as none and starts at row 0. `replay` counts the
sessions that started there, after a reset or a torn write; an order remembers the replay
it was placed in. `StartReconcile` takes the snapshot
of pending rows, and every `ReconcileOne` updates one row with the answer of
reconcile's *own* stub broker, which holds no orders and so answers ERROR. `Updated`
is SQL's `UPDATE ... WHERE order_id = ?`: it matches closed rows too, and never NULL
(`PaperRow`).

A row of the table is the row of `TradesRepository` with its order id; reconcile's
list, `todo`, holds row numbers, since a row is never deleted.

`MCPaperSession` and `MCDemoSession` give the set-valued constants for TLC.

### `SessionControl`: `run-paper-session` and `run-demo-session` over the three JSON files

A process is in a `step`, the call of `run_with_supervision` or of the command around
it that comes next; `After` gives their order. An update of a file is two actions,
`Read` (a copy in hand) and `Write` (the changed copy, `NewContent`), so that two
commands can overwrite each other's changes. A file somebody is about to write may
already be truncated (`Unreadable`); `ReadRaises` is the exception of `json.loads`,
which the handler turns into a failed session before the end and which nobody catches
in the handler itself. `EngineEnds` has the four outcomes the supervisor and
`end_session` tell apart: returned, failed, failed with a critical token, and failed
with the token "kill". `Arm` is the critical branch, `Report` the daily report,
`Crash` leaves a file torn when it hits a write, `KillOff` is the operator's.

| Variable | Code |
|---|---|
| `file` | `runtime_state.json`, `current_session.json`, `sessions.json` |
| `kill` | `kill_switch.json` |
| `proc` | per command: kind, step, the copy read, the session dict in hand, the engine's outcome, the subject of its report |
| `launched`, `crashes`, `overlapped`, `unacked` | history: commands given, deaths, commands that ran beside another, critical failures nobody has taken note of |

What two overlapping commands may lose is not promised by any document;
`NoPrematureEnd` and `CriticalArmsSwitch` hold for them too, the other properties
speak of commands that ran alone (`Alone`), after whatever crashes and overlaps came
before.

### `ModelSlot` and `ModelLifecycle`: the model files and the registry

`ModelSlot` is the promise about `best_model.joblib`: what is in use is copied aside
before another file takes its place, so an interrupted install leaves it in one of the
two files; only training bypasses the copy. The promise is about one install,
not about its retry. `ModelLifecycle` has the registry as a list of
entries and one action per effect: `Retrain`, `RegisterCandidate`;
`Promote` or `Rollback`, then `Archive`, `Backup`, `Copy` and `Publish`, in the order
of each (`promote` archives first, `rollback` between copy and publish). Each write may
be cut short by the death of the command (`Torn`), and `Crash` is a death between two.
One command runs at a time. A model is its number in the order of training. `adrift`
remembers that `train` wrote straight into the production file, or that an install
died, since when registry and file need not agree.

### `FeedReplay`: the feed over files that change

Rows are timestamps with a version (two quotes of one candle). `Normalize`,
`CleanCandles` and `Merge` are the candle file operations: a stable sort (`SortRows`
puts each row at its rank), and `drop_duplicates`, which keeps the first quote of a
timestamp (`FirstQuotes`) or the last (`LastQuotes`). Rows of equal timestamps stay in
file order, which the default sort of pandas does for small files; `StartIndices` is
`_resolve_start_index` for each replay setting; `PlannedWindow` and
`WindowAlreadyUsed` are the check of `run_paper_session_cli`. `PlanSession` and
`OpenSession` are two actions, because the window is checked against the file before
the supervisor starts and the feed is opened after. `OpenTool` is `live-paper` or
`collect-data`, `AppendCandles` and `ResetCursor` the commands. `disturbed` remembers
that an operator moved the replay, `calm` that a plan was not made for a random start,
an unsorted file, or a file another command may have changed since. `DieInCursorWrite`
is a death inside `_write_cursor`, which leaves no readable cursor.

### `Backtests`, `Validation`, `Monitoring`: the pure code

Operators over sequences: feature rows with close, indicators and the probability the
model gives; trades. Loops are folds. `Backtests` has the signals, `RiskManager.evaluate`
with its volatility check, both backtesters, `execute_latest`, the metrics and the
simulated metrics. `Validation` has the splits, walk-forward, stress scenarios, Monte
Carlo, overfitting warnings, the report's recommendation and the demo gate; which folds
scikit-learn can fit, the leakage audit and the stability score are free; labels look one
candle ahead, the default of `EXPIRATION_CANDLES`. `MCValidation` validates every small data
set at the default payout, threshold and limits. `Monitoring`
has the summaries, `PerformanceMonitor`, the drift check, the daily report and
`RuntimeMetrics`, and the rows a session can store next (`NextRows`), so that only
tables that sessions write are looked at. A query is a fold over the ids it selects
(`RowsAt`). Money is in integer units, rates in percent
or per mille, a ratio is a pair that is compared by cross multiplication. Each module
ends with its properties, as operators of the input (`LookAheadBoundedIn` and so on).

### `TradesTable`: one file, two owners

The sessions (`TradesRepository`) and the HTTP API (`save_trades`) each create a table
`trades` in `data/logs/trades.db` with their own columns, unless it exists, and each
adds its own later columns to whatever it finds. An action opens the table and then
needs columns; `last` says whether they were there.

### `MCTools`

Composes `FeedReplay`, the pure code and `TradesTable` in one run: a behaviour is about
one `tool` and either replays the feed, or grows a sequence of rows or of trades (TLC's
way to enumerate all inputs up to a length), or opens the table.

---------------------------------------------------------------------------

## 3. What is checked

### Runs

| Run (`.cfg`) | Question | States |
|---|---|---|
| `paper_sessions` (`MCPaperSession`) | Do the books agree, do the stores keep their order and refine `TradeJournal`, is any candle decided twice or lost, does a losing streak end trading, do windows repeat? With gaps, flat candles, one crash anywhere and one cursor reset. | 386 k |
| `paper_risk_and_progress` (`MCPaperRisk`) | Is the loss of a session bounded when the daily limit is about one and a half stakes, with torn cursor writes? Does a scheduled session end, and does every order settle? | 35 k |
| `paper_stale_entry` (violation) | Is a candle traded at most once across sessions? No, see below. | |
| `paper_torn_cursor` (violation) | Does a new session continue after the last consumed candle, also after a torn cursor write? No. | |
| `demo_orders` (`MCDemoSession`) | One order per candle and replay of the file, across two crashes, torn writes, restarts and flat candles; at most one order after kill-on; the three books agree. | 4.1 M |
| `demo_reconcile` (`MCDemoReconcile`) | A bot, its crash and a concurrent reconcile on one table with a row of a paper session: does the table contradict the log, which rows does reconcile leave pending, do all orders close? | 147 k |
| `demo_reconcile_race` (violation) | Does a row closed as WON or LOST stay so? No. | |
| `session_control` (`MCSessionControl`) | Two session commands, one after the other or overlapping, one crash, torn files: do history, state file and report tell the truth, is the switch armed? | 1.6 M |
| `model_lifecycle` (`MCModelLifecycle`) | Every order of the model commands, two of them dying at any effect: one PRODUCTION entry, its file installed, nothing lost? | 492 k |
| `model_promote` (violation) | Is an approved candidate the PRODUCTION model when `promote` is over? No. | |
| `demo_below_breakeven` (violation, `MCValidation`) | Is the average win rate of a model that is DEMO_ALLOWED above breakeven? No. | |
| `tools` (`MCTools`) | Feeds over changing files; all data sets of up to 5 rows, all tables of up to 5 trades; every order of openings of `trades.db`. | 1.7 M |

### The bounds, and why they are enough

* *File and window.* Windows of 2 or 3 candles and 4 to 8 rows: a session warms up,
  decides several times, waits for an expiration candle and still leaves rows for the
  sessions after it. The step limit is above the window (a start is refused otherwise)
  and below the file, so that sessions end at the limit, at the end of the file, and in
  the middle of a wait.
* *Sessions, crashes and resets.* Two or three sessions with one crash at any point
  (two in `demo_orders`: one that tears the cursor, one in the middle of an order),
  and one cursor reset: a fault needs a first session to leave a trace, a crash or a
  reset, and a second one to meet it; the third starts after both.
* *Flat candles.* Every subset of two neighbouring candles: one or two entries become
  stale, before, after and across the border of sessions.
* *Money.* An opening balance of 3000 and stakes of 1 % (30 units): `CeilDiv` rounds
  in wins and in stakes after losses. The streak limit is 2 (3 where the daily limit
  must come first), the daily limit 1.5 % in the run that is about it: it falls between
  the first and the second lost stake. `RiskPerMille = 20` there exercises the cap of
  `RiskRate`.
* *Expiration.* One candle, the default; every position of the wait relative to the
  limits already occurs with it. The proofs hold for any number.
* *Reconcile.* One reconcile against two sessions; its snapshot has up to three rows, one
  of a paper session.
* *Session commands.* Two, which may overlap, and one crash: every interleaving of the
  reads and writes of both, and a second command that meets what a dead one left.
* *Models.* Three models, three entries, two deaths: a production model, its
  replacement and a third to roll back to; a torn file and a second command that
  meets it.
* *Feeds.* Files of three rows, out of order or with duplicates, two files to append
  (behind, between and in front of the rows read, and another quote of a known
  candle), a window of one row, sessions of two rows, three sessions and two other
  commands.
* *Data sets.* Every sequence of up to five rows out of five markets (a rise the rules
  buy, a fall they sell, a lateral, a volatile and an overbought one) with
  probabilities at, above and between the thresholds; every table of up to five rows a
  session can store. The settings are small so that their limits are met: a streak of
  2, a daily limit of 1.2 %, drift after 2 trades, walk-forward parts of 1 and 3 rows,
  a payout of 51 %, near which its reductions tell winners from losers. Splits are
  checked for all sizes up to 12 and the search for 100 to 112.
  `demo_below_breakeven` needs three folds, and so eleven rows of three markets.

`CHECK_DEADLOCK FALSE` stands in every configuration because the system really stops:
sessions are bounded, the file ends, and no command needs to be given.

### Fairness

`FairSpec` adds weak fairness of `EngineStep` (`BotStep` in the demo): the operating
system schedules a running process, and nothing in the loop blocks. No fairness is
assumed of anything the environment does: nobody must start a session, touch
the kill switch, run reconcile, or crash. `SessionEnds`, `OrdersSettle` and
`OrdersClose` therefore say that an order settles *unless its session dies*, and that
is all the code can promise, for it has no recovery of open orders.

The other modules assume no fairness: their commands end by themselves or are
abandoned, and what they promise is safety.

### Every property can fail

`PROJECT.json` names for each property of a passing run a mutant: a definition
of the model changed the way a plausible bug would change the code, such as the cursor
written one candle late, a duplicate check dropped, `<` for `<=` in the loss streak, a
balance read before the update. TLC finds the property violated under the same configuration.
The `Mut...` operators in the modules are these variants; nothing else uses them.

### Findings

1. **A candle can be traded in two sessions** (`paper_stale_entry`). The engine trades
   `featured.iloc[-1]`, the last row that survives `dropna`. If the newest rows have
   NaN indicators at the start of a session, that row may be one the session before
   already traded, and `OrderManager` remembers traded timestamps in memory only.
   Within one session the check works (`OneOrderPerCandleInSession`, proved). The demo
   session keeps the last traded candle in a file, which is enough while the cursor moves on
   (`OneDemoOrderPerCandle`) and no longer (finding 2).
2. **A torn cursor write replays the file** (`paper_torn_cursor`). `_write_cursor`
   truncates `feed_cursor.json` in place; a process that dies there leaves invalid
   JSON, which reads as "no cursor", and the next session starts at row 0. Without
   torn writes the property is proved. A demo session reads through the same feed and
   cursor file: it starts over in the same way, and `was_already_traded` compares with
   the last traded timestamp only, so every earlier candle can get a second order though
   the bot had marked it. This is why `OneDemoOrderPerCandle` speaks of one `replay`.
3. **reconcile rewrites closed rows** (`demo_reconcile_race`). It updates by
   `order_id` from a snapshot and does not ask whether the row is still PENDING. Its
   broker knows none of the bot's orders, so a WON row becomes ERROR with profit 0.
4. **promote cannot install anything** (`model_promote`). An approval needs the path of
   a validation report in the entry, and only `register-current-model` writes one. Its
   entry is for the production file itself: `promote` archives the current model, fails
   to copy the file onto itself, and leaves a registry without PRODUCTION model.
   Candidates of `retrain` are always rejected.
5. **DEMO_ALLOWED below breakeven** (`demo_below_breakeven`). `README.md:481` asks for an
   average win rate above breakeven, `validation_report.py:42` for one above 0. Two folds
   of 67 % and one of 0 % make 44 %, against a breakeven of 53.5 %. What DEMO_ALLOWED does
   guarantee is `DemoMeans`.

Seen while modelling, and stated by properties that hold of the code as it is, without a
run of their own:

* `SimulationAgrees`: the simulated metrics of training and validation win the SELL
  trades that close flat, which backtest and broker lose.
* `DemoMeans`: slippage, latency and a lost connection
  cannot change what a stress test concludes; the overfitting risk is computed from
  literals and never HIGH; the Monte Carlo probability of profit is 0 or 1. What is left:
  60 % of the folds won more than breakeven, and the whole data set and the backtest made
  money.
* `MetricsAgree` holds of settings whose stake is not zero. `config.py` accepts
  `RISK_PER_TRADE` and `INITIAL_BALANCE` of 0; every result is 0 then, and 0 counts as a
  loss in one place and as neither in another. The ML backtest's equity is a sum of
  results and not bounded below: once its peak is followed by a negative balance the
  relative drawdown exceeds the whole.
* `ReportsAgree` is proved for a daily limit above zero. `config.py` accepts
  `MAX_DAILY_LOSS` 0; risk manager and monitor then disagree before the first trade.
* `LookAheadBounded`: with an expiration of `e` candles the risk limits of `Backtester.run`
  know the results of `e - 1` candles too many, because a result is booked when the trade
  is entered. With an expiration of one candle, the default, it does not look ahead. TLC
  checks one and two candles, `RuleLooksAhead` is proved for any number.
* `TableServesItsCreator`: a first request to the HTTP API creates a table in which no
  session can store a trade, until `reset-paper-logs`.
* `CriticalArmsSwitch` excludes overlapping commands whose failure handler fails: it
  reads `runtime_state.json` before it arms the switch.
* `ReconcileClosesOrders`: a paper row left PENDING has no `order_id`; reconcile counts it
  as updated, but `UPDATE ... WHERE order_id = NULL` matches nothing.
* `ImplementsModelSlot` allows `Save` of a torn file: `copy_to_production` copies whatever
  the production file holds to the one backup, so the retry of an install that died in the
  copy overwrites the last readable copy of the model that was in use.
* `ReplayContinues` excludes an append of older candles: the file is sorted, the cursor is
  a row number, and the rows already read move up, so that a session reads some again. It
  excludes tools on another CSV too: there is one cursor file, and the next session starts
  at row 0. `_window_already_used` compares windows for equality and accepts one that only
  overlaps an earlier session's.
* `PlannedIsRecorded` and `NoWindowTwice` exclude random starts: the feed that is asked for
  its status and the feed that is read draw a start each.
* The default sort of pandas is not stable for large files; the model keeps rows of equal
  timestamps in file order, and no property depends on it.

---------------------------------------------------------------------------

## 4. What is proved

Every theorem holds for all values of the constants the module's named assumptions
allow, and for behaviours of any length; the assumptions say what `config.py` validates
and that special values differ, and TLC evaluates them in the runs. The form is the
same throughout: an inductive invariant, checked by TLC on the run's configuration
before it was proved, with one lemma per action, and one conjunct per fact the next
step relies on. The tables name for each theorem the invariant and what it adds to the
property, which is as a rule what a program in the middle of its work knows.

### The paper session

`PaperSession_proofs`, for every size of file and window, every expiration, every set
of gaps and flat candles, every risk setting `config.py` admits, and any number of
sessions, crashes and resets, from `RiskAssumption` and `SessionAssumption`. What both
sessions need of the risk manager is in `RiskManager_proofs`.

| Theorem | Statement | Inductive invariant |
|---|---|---|
| `TypeCorrect` | `[]TypeOK` | `TypeInv`: a candle is stored only after one was taken, so `feed.cursor - 1` is a candle; a running process has a session id |
| `BooksCorrect` | `[]BooksAgree` | `BooksInv`: `BooksAgree` skips the moment when a row waits to be logged; the invariant says that row already carries the broker's balance and the current session's id, and that no logged row belongs to a session to come |
| `NoReplay` | `[]NoCandleReplayed`, if writes are not torn | `CursorInv`: a running feed is one ahead of the cursor file, and no order was opened later than the cursor, strictly earlier while a decision is pending |
| `OneOrder` | `[]OneOrderPerCandleInSession` | `EntryInv`: `_traded_timestamps` holds the entries of the session's orders |
| `DailyLoss` | `[]DailyLossBounded` | `LossInv`: a waiting order was opened with permission to trade, and stakes what the balance it still has allows |
| `StreakEnds` | `[]LossStreakEndsTrading` | `StreakInv`: the losses the risk manager counts are at least those the session logged last (`Trailing`), with the row in hand taken into account |
| `NoWindowTwice` | `[]WindowsDistinct` | `WindowInv`: a running session stays inside the window it planned, and no completed one had that window |
| `HolesCorrect` | `[]HolesOnlyFromCrashes` | `HolesInv`: up to the candle stored last at most one is missing per dead session; the running session is not dead and its cursor file names the candle it took last, unless a reset removed it |
| `LogLeads` | `[]LogLeadsTable` | `LeadInv`: the row between the two writes is the last of the log and the only one of its session the table lacks |
| `JournalRefined` | `Spec => StoresImplementJournal` | `TypeInv` and `BooksInv`: every step is a step of `TradeJournal` or leaves it alone |

The arguments, in short. *Books*: only `ResolveOrder` moves money, it moves all three
copies by the same profit, and the row built there carries the result. *Replay*:
`TakeCandle` is the only step that writes the cursor in a run without resets, it
increases it, and an order is opened on the candle just taken. The assumption on torn writes is
exactly finding 2. *Daily loss*: the limit is tested before an order is opened, so the
loss was below the limit then; one stake can be lost afterwards. When the balance is at
or below the opening balance, that stake is at most the opening stake. When it is
above, the surplus covers the difference, because a rounded-up 1 % grows no faster than
the balance (`StakeGrowth`, `OneStakeLost`). *Streak*: a stake is never zero while the
balance is positive, so a lost order is counted; a PENDING order leaves the counter
alone, which is why the run of losses is counted over orders and not over rows.
*Windows*: `FinishSession` records a window only when the loop came to its end, and
the planned window lies inside the file, so the feed ends exactly where it does. *Holes*: the
cursor is written before the candle is stored, so a hole is a death between the two,
or inside the write. *Stores*: log and table grow by the same row, one step apart.
*Journal*: the row in hand is `staged` between the two writes, and the balance the log
will show next is the broker's, or the row's balance less its profit while the row
waits.

### The demo session

`DemoSession_proofs`, for any candle file, any number of bots, crashes, switch commands
and reconciles, from `RiskAssumption` and `DemoAssumption`.

| Theorem | Statement | Inductive invariant |
|---|---|---|
| `TypeCorrect` | `[]TypeOK` | `TypeInv`: the guard has a row to decide on, an order in hand is on a candle of the file |
| `KillSwitch` | `[]KillSwitchHolds` | `KillInv`: while the switch is open, and while a bot is at its guard, no order was placed under a closed one |
| `BooksCorrect` | `[]DemoBooksAgree` | `BooksInv`: between a settlement and its log line the log is behind by exactly that order's profit |
| `LedgerAgrees` | `[]LedgerMatchesLog` | `StoresInv`: order ids name the orders placed; the order in hand is the last of them, is in the table from its insertion on (`OwnRow`: pending, or what a reconcile made of it) and in the log from its logging on |
| `OneOrder` | `[]OneDemoOrderPerCandle` | `OrdersInv`: the orders of one replay are on candles in the order of the cursor, and none is later than the execution state says, but the last one of a bot that is at it or died at it (`Abandoned`) |
| `OrdersReconciled` | `[]ReconcileClosesOrders` | `ReconcileInv`: rows without order id stay PENDING, and what else is pending while a reconcile has the files for itself is still on its list |

The exception in `LedgerMatchesLog` is finding 3. The broker names orders by `uuid4`;
the model numbers them as they are placed, so that an id names one order across all
bots.

### Session control

`SessionControl_proofs`, for any number of overlapping commands and crashes, from
`ControlAssumption` and `DocumentAssumption`: neither the mark of an absent file nor
that of a torn one is a document.

| Theorem | Statement | Inductive invariant |
|---|---|---|
| `TypeCorrect` | `[]TypeOK` | `TypeInv`: what a command has in hand is of the kind its step writes, and its session is its own |
| `EndsInOrder` | `[]NoPrematureEnd` | `EndInv`: until its engine is over, no file, no session in hand and no *copy* of the history in anybody's hand says that the session ended |
| `OutcomesKept` | `[]HistoryTellsOutcome` | `ToldInv`: the entry of a lone session that is over is in `sessions.json` and in every copy somebody is about to write back |
| `CriticalArms` | `[]CriticalArmsSwitch` | `CriticalInv`: the switch is armed before a critical failure's session is marked, and before a lone command's handler can fail |
| `StatusTells` | `[]StatusFollowsCommand` | `StatusInv` (`RuntimeTells`): what `runtime_state.json` says at every step of the last command, if it is alone |
| `ReportsOwnSession` | `[]ReportNamesItsSession` | is inductive with the others |

The copies are the point: a command that read the history before another one ended
writes it back later, and `EndInv` and `ToldInv` must speak of what is in hand as well as of
what is in the files. The last four theorems rest on three facts that are inductive together
(`SessionInv`): which outcome a step can have (`OutcomeInv`), that commands that run side by
side are known to (`CompanyInv`), and what a command that runs alone relies on, step by
step (`AloneInv`): its copies are what the files say.

### The model life cycle

`ModelLifecycle_proofs` proves, for any number of models, entries and deaths, all that
the run `model_lifecycle` checks, from `LifecycleAssumption`: the bounds are naturals,
`Torn` and `None` differ and are no numbers.

| Theorem | Statement | Why it holds |
|---|---|---|
| `TypeCorrect` | `[]TypeOK` | an entry's version was written before the entry and no version is written twice (`Listed`) |
| `OneProductionModel` | `[]OneProduction` | whoever writes PRODUCTION found no other (`RegisterCurrent`) or has archived it (`NoProduction` in `CommandInv`) |
| `InstalledCorrect` | `[]ProductionIsInstalled` | at `publish` the entry's path is what the production file holds (`InstallInv`) |
| `SlotRefined` | `Spec => ImplementsModelSlot` | at `copy` the backup equals the production file, or there was none |

The invariant `IInv` says how far a command in progress has come. It is needed because
the properties speak of finished commands: a `rollback` between copy and archive has a
PRODUCTION entry whose file is no longer installed (`Swapped`), and a `promote` between
archive and publish has none. The registry may be `Torn` at any time and nothing is
known of it then; that is why every step has a lemma for the complete write and shares
`TornKeeps` for the other. `OverKeeps` is the end of a command, `StaysListed` and
`EntryAppended` the two ways the list changes.

### The candle feeds

`FeedReplay_proofs`, for any candle files, appended files, replay settings, numbers of
sessions and commands, from `FeedAssumption`.

| Theorem | Statement | Inductive invariant |
|---|---|---|
| `TypeCorrect` | `[]FeedTypeOK` | `TypeInv`: an open feed is inside the rows it read, its limit is what they leave, a session is planned over a file with rows |
| `PlannedRecorded`, `WindowsDiffer` | `[]PlannedIsRecorded`, `[]NoWindowTwice` | `WindowsInv`: the window of a plan nothing came upon belongs to the start its feed will get and is in no completed session (`CalmPlan`), that of its feed likewise (`CalmReader`) |
| `ReplayCorrect` | `[]ReplayContinues` | `ReplayInv`: the rows taken are the first of the sorted file and the cursor names the last (`ConsumedInv`); an open feed stands where they end, over a part of the file that appends have kept (`OpenFeedInv`) |

They rest on what the file operations do, for every file: `SortFacts` and `SortInOrder`
(a sort by rank is a bijection onto the kept rows and in order), `NormalizeKeeps` and
`NormalizeFixed` (a sorted file stays as it is), `CleanSorts` and `MergeSorts` (in order
without duplicates). `MergeKeepsRows` is the heart of the replay: an append that leaves
the timestamps of the first rows leaves these rows, because the quote already in the
file is never replaced; so the row numbers of what was taken keep their meaning. An
append that inserts an earlier timestamp is one of the moves `disturbed` is about, a
death inside `_write_cursor` another. `OneStart`: every replay setting but random has
one start, which is why check and feed agree on it when nothing comes between.

### Backtests and validation

`Backtests_proofs` and most of `MCTools_proofs`: rows are any sequence of
`FeatureRow`, the settings any that the assumptions admit. The theorems about the run,
`...OfRows`, say that the property TLC checks on five markets and five rows holds with
`MaxRows` and every other constant left open.

| Theorem | Statement |
|---|---|
| `SignalsAgree` | predictor, ML backtester and, above a threshold of one half, ML strategy read the same signal from every probability |
| `MetricsAgreement`, `MetricsOfRows` | `[]MetricsAgree`: final balance, profit factor, drawdown, losing streak and winner are what their names say of the trades; the rule-based backtest never has a longer streak than the risk manager allows. Hypothesis: a balance and a risk that are not zero |
| `SimulationAgreement`, `SimulationOfRows` | `[]SimulationAgrees`: backtest, strategy and simulation trade the same rows and differ only on SELL trades that close flat |
| `RuleLooksAhead` | for every expiration, what the rule-based backtest trades at a row is what the executor orders on the candles up to it and the results known `expiration - 1` rows later |
| `LookAheadIsBounded`, `LookAheadOfRows` | `[]LookAheadBounded`: the same for one and two candles, as the run checks it; no trade of the ML backtest depends on a later row |
| `StressIsPayout` | of all stress scenarios only a lower payout can change the verdict, and the moderate test is the one at 5 % less |
| `DemoMeaning`, `DemoMeansOfRows` | `[]DemoMeans`: of a model that is DEMO_ALLOWED at least 60 % of the folds won more than breakeven, the whole data set made money at the full payout, and so did the backtest if there is one; reordering the results keeps their total, so the resampled probability is 0 or 1; an eligible artifact made money |
| `SafeSplits` | for any number of rows, splits, gap and training minimum, the folds of `SafeTimeSeriesSplit` have their test rows after all their training rows and the gap, do not overlap in their tests, and are as many as asked for or as the rows allow |
| `SplitsKeepTime`, `SplitsTemporal` | safe splits, the parts the searches use, walk-forward folds and the split of `train_model` keep the order of time for data of any size |

These are statements about loops, and the induction theorems of the library take an
operator as a parameter, which the provers cannot instantiate. The proofs go another
way. A loop is a fold, and a fold has a *run*: a function from the number of rows seen
to the loop's state, which starts at the initial value and satisfies the step's equation
at every index (the lemmas that end in `Run` and `Loop`, one per loop, from the
definition of the folds in the community modules). A fact about every index then
follows by a least counterexample: the set of indices at which it fails has a least
member (`LeastNumber`, from the well-foundedness of the naturals), which is not 0 and
whose predecessor satisfies the fact (`IntervalInduction`; `SubsetInduction` for sets,
by their size). What remains is one lemma per kind of step, as in the proofs about
sessions.

* *Metrics.* A win, a loss and a stretch of losses are each traced through the fold that
  counts it; the drawdown is the deepest of the falls, compared by cross multiplication.
  That a lost trade is counted as lost needs a stake that is not zero.
* *Look-ahead.* When the rule-based backtest trades, its risk record is what the results
  of the trades entered before that row give, which are known `expiration - 1` rows
  later (`KnownRun`, `KnownWhenTraded`), and neither backtest's step reads a row beyond
  its expiration (`RuleLooksAhead`, `MLSeesNoFurther`).
* *Stress.* The payout appears in the profits only, every profit is monotone in it, and
  the scenarios other than the two payouts leave it as it is.
* *DEMO_ALLOWED.* An order of the results is a bijection of their indices, and a total
  does not depend on it (`ReorderedTotal`: take the last result out of both sequences).
  Net profit and win rate are tied by `Earned`: what the stakes cost and the net profit
  is what the wins brought. So a fold that made money won more than breakeven
  (`EarningBeats`, `FoldEarns`) and 60 % of the folds did (`ProfitableBeat`); a stress
  test that passes at 5 % less payout earns at the full one (`MoreEarned`,
  `StressedEarns`); and a win rate three points above breakeven makes money
  (`EligibleRate`, `EligibleEarns`).

### The trades table and the composed run

| Theorem | Statement |
|---|---|
| `TablesAreTold` | `[](tool = "report" => Told(trades))`: the table is one the sessions write. Hypothesis: a balance above one unit |
| `ReportsOfTables` | `[]ReportsAgree`: summaries, monitor, drift check, daily report and runtime-status agree with the sessions, for tables of any length. Hypotheses: a balance above one unit, a daily limit above zero |
| `TableServes` | `MCSpec => []TableServesItsCreator`, by `TableInv`: the table has the columns its creator always makes and none that only the other program makes (`Own`) |
| `ReplayIsTheFeeds` | the replay of the composed run is a behaviour of `FeedReplay`, whose theorems hold of it |

`ReportsAgree` relates what the code computes of the whole table to what it computes of
one session's rows, so its proof follows the table as it grows by a row (`NextRows`).
`Told` is the inductive invariant, and each of its parts has a lemma that ends in `Grows`:

* `Numbered`: sessions are numbered from 1, each has a row. `Closing`: its last row shows
  the balance it ends with, or the opening balance if reconcile closed it. `Solvent`: no
  session loses everything, so no balance is 0, which the reports read as missing.
* `AddedUp`: the sessions' profits and trades add up to the table's. `LostTogether`: the
  table lost no less than a session. `ShownInOrder`: the balances of a session are
  embedded in those of the table. `CurrentLast`: the last session's row, balance and
  losses in a row are the table's.

A selection of rows is a fold over their ids and has a run (`RowsAtRun`), as have the
losses in a row (`TrailingRun`) and the risk record of a session (`RiskRun`), which is
what its results add up to (`RiskMeans`). From `Told` follow the parts of the property:
a part of a series of balances falls no deeper than the whole (`PartFallsLess`), the
monitor, which holds what the table lost against the last balance, stops no later than the
risk manager, and orders alone raise neither the confidence warning nor a HIGH risk
(`OrdersWarnLess`). The hypotheses are needed: a balance of one unit is staked whole, as
the model rounds stakes up (`StakeLeaves`: any other balance is not), and with
`MAX_DAILY_LOSS` 0, which `config.py` accepts, the risk manager refuses every trade
while the monitor, with no trade in the table, says that all is well.

### Only model-checked

* `SessionEnds`, `OrdersSettle`, `OrdersClose`: liveness under fairness, which the
  proof system does not support (nor `ENABLED`).
* The claims of the five violation runs, which do not hold. Where a claim holds under
  a hypothesis that the code does not grant, the hypothesis is in the theorem
  (`NoReplay`).

---------------------------------------------------------------------------

## 5. What is not modelled, and why

* Fitting classifiers, indicator formulas, threshold and hyperparameter search results:
  numerical code; the rest depends on them through probabilities, rows without
  features, and which folds can be fitted, and all three are free choices.
* `DATA_FEED_SOURCE=csv`: the feed keeps no cursor; a session over it reads the same rows
  each time.
* `runtime/recovery.py`: only tests call it.
* The header migration of the CSV log, reading of foreign column names, sample data.
* The text of refusals, printed lines, argument parsing, dashboard, alerts, health check,
  deployment: they read the state modelled here or format it.
* `reset_daily_limits`: no code of the application calls it.
* The IQ Option and Exnova adapters: every operation raises "not implemented".
* Real trading: `config.py` and the guard refuse it; no path leads to it.
* Two bots trading at once over the same cursor and table. Two session *commands* at once
  are in `SessionControl`, a session beside a tool in `FeedReplay`, a bot beside reconcile
  and the kill switch in `DemoSession`.
* Two model commands at once: `ModelLifecycle` runs one at a time, with deaths.

---------------------------------------------------------------------------

## 6. The plan

In order of importance.

1. `RiskManager`, `TradeJournal`, `PaperSession`: the core. *Done.*
2. `PaperSession_proofs`, `RiskManager_proofs`: all its invariants. *Done.*
3. `DemoSession`: guard, kill switch, executor, reconcile. *Done.*
4. `SessionControl`: the session commands over the runtime files. *Done.*
5. `ModelSlot`, `ModelLifecycle`: registry, promotion, rollback, retraining. *Done, and
   proved.*
6. `FeedReplay`, `TradesTable`: the files other programs share with the sessions.
   *Done.*
7. `Backtests`, `Validation`, `Monitoring`: the pure algorithms. *Done.*
8. `DemoSession_proofs`, `SessionControl_proofs`, `FeedReplay_proofs`: every invariant of
   the components that keep state. *Done.*
9. `Backtests_proofs`, `MCTools_proofs`: what the pure code computes from any rows. *Done.*
10. Next: action properties of the sessions that follow from the invariants (the cursor
    file never goes back but by a reset or a torn write; a logged row never changes), and
    `TradesTable` as a specification of its own.
