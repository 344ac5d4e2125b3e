------------------------------ MODULE TradesTable ------------------------------
(***************************************************************************)
(* The file data/logs/trades.db, which two programs take for their own:    *)
(* the sessions through TradesRepository, the HTTP API through             *)
(* save_trades.  Both call their table "trades", create it unless it       *)
(* exists and add the columns later versions introduced; the columns of    *)
(* the first to create it are the ones the other then meets.  TRADES_DB_PATH  *)
(* is the default of save_trades, which knows no other.                    *)
(***************************************************************************)

VARIABLES
  columns,   \* the columns of the table; {} while there is no file
  creator,   \* the program that created it, or "nobody" (history)
  last       \* the last operation and whether it succeeded (history)

tableVars == <<columns, creator, last>>

Both == {"id", "timestamp", "signal", "confidence", "balance", "reason"}

\* create_tables
LiveColumns ==
  Both \cup {"session_id", "asset", "amount", "entry_price", "exit_price", "result", "profit",
             "mode", "order_id", "created_at"}

\* SCHEMA
BacktestColumns == Both \cup {"strategy", "entry", "exit", "won", "stake", "pnl"}

\* TRADE_FIELDS, which insert_trade names.
TradeFields == LiveColumns \ {"id", "created_at"}

\* TRADE_COLUMNS, the columns of Backtester's trades.
TradeColumns == BacktestColumns \ {"id"}

\* The columns of the trades compare_rule_vs_ml returns: the probability is
\* there even when the model never traded.
ComparedColumns == TradeColumns \cup {"probability_up"}

\* Wrong: the order id came later and is not added to an older table.
MutOpenRepository(table) == IF table = {} THEN LiveColumns ELSE table \cup {"session_id"}

\* TradesRepository.__init__
OpenRepository(table) == IF table = {} THEN LiveColumns ELSE table \cup {"session_id", "order_id"}

\* connect_sqlite
ConnectSqlite(table) == IF table = {} THEN BacktestColumns ELSE table \cup {"strategy", "won"}

-----------------------------------------------------------------------------
\* No file, or one that an earlier version of either program created.
TableInit ==
  /\ \/ columns = {} /\ creator = "nobody"
     \/ /\ \E lacking \in SUBSET {"session_id", "order_id"} : columns = LiveColumns \ lacking
        /\ creator = "session"
     \/ /\ \E lacking \in SUBSET {"strategy", "won"} : columns = BacktestColumns \ lacking
        /\ creator = "backtest"
  /\ last = [operation |-> "none", ok |-> TRUE]

\* A program with the given owner opens the table, which leaves it with these
\* columns, and does an operation that needs others.
Operate(owner, operation, opened, needed) ==
  /\ columns' = opened
  /\ creator' = IF columns = {} THEN owner ELSE creator
  /\ last' = [operation |-> operation, ok |-> needed \subseteq opened]

\* A session, or a command that reports on them, opens its repository and does
\* no more than read whole rows.
Open == Operate("session", "open", OpenRepository(columns), {})

\* A session stores a row.
InsertTrade == Operate("session", "insert_trade", OpenRepository(columns), TradeFields)

\* reconcile: get_pending_trades comes first, and names the result.
Reconcile == Operate("session", "reconcile", OpenRepository(columns), {"result"})

\* POST /backtest of a strategy that traded; save_trades stores nothing else.
SaveBacktest == Operate("backtest", "backtest", ConnectSqlite(columns), TradeColumns)

\* POST /compare-strategies, likewise.
SaveComparison == Operate("backtest", "comparison", ConnectSqlite(columns), ComparedColumns)

\* reset-paper-logs --confirm: whatever the file is, it is moved away and the
\* repository creates another.
ResetPaperLogs ==
  /\ columns' = OpenRepository({}) /\ creator' = "session"
  /\ last' = [operation |-> "reset", ok |-> TRUE]

TableNext ==
  Open \/ InsertTrade \/ Reconcile \/ SaveBacktest \/ SaveComparison \/ ResetPaperLogs

-----------------------------------------------------------------------------
\* Who is served does not depend on the versions, nor on how often the two
\* programs opened the file and added columns to it: sessions store their rows
\* and reconcile them, exactly when a session (or a reset) created the file;
\* backtests are stored exactly when the API did; a comparison never is.  One
\* request to the API on a machine without the file, even one that fails, makes
\* every later session fail at its first trade until the logs are reset.
ServesItsCreator ==
  /\ last.operation \in {"insert_trade", "reconcile"} => (last.ok <=> creator = "session")
  /\ last.operation = "backtest" => (last.ok <=> creator = "backtest")
  /\ last.operation = "comparison" => ~last.ok
=============================================================================
