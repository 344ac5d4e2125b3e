---------------------------- MODULE TradeJournal ----------------------------
(***************************************************************************)
(* What the two trade stores of a paper session promise, without saying    *)
(* how a session works: the CSV log is written ahead of the SQLite table,  *)
(* one row at a time; a session's rows chain its balance from the opening  *)
(* balance; and the database misses a logged row only when the session     *)
(* died between the two writes, in which case it was that session's last.  *)
(***************************************************************************)
EXTENDS Integers, Sequences

CONSTANTS
  OpeningBalance,  \* the balance every session starts from
  Rows,            \* rows a session may write: they carry profit and balance
  NoRow

VARIABLES
  log,      \* rows of the CSV log, in order
  table,    \* rows of the SQLite table, in order
  staged,   \* the row logged and not yet in the table, or NoRow
  account   \* balance of the running session, OpeningBalance when none runs

jvars == <<log, table, staged, account>>

Init ==
  /\ log = <<>>
  /\ table = <<>>
  /\ staged = NoRow
  /\ account = OpeningBalance

\* One row goes to the log; its balance continues the session's.
Log ==
  /\ staged = NoRow
  /\ staged' \in Rows
  /\ staged'.balance = account + staged'.profit
  /\ account' = staged'.balance
  /\ log' = Append(log, staged')
  /\ UNCHANGED table

\* The same row reaches the table.
Store ==
  /\ staged # NoRow
  /\ table' = Append(table, staged)
  /\ staged' = NoRow
  /\ UNCHANGED <<log, account>>

\* The session ends or dies: what was not stored never will be.
Close ==
  /\ staged' = NoRow
  /\ account' = OpeningBalance
  /\ UNCHANGED <<log, table>>

Next == Log \/ Store \/ Close

Spec == Init /\ [][Next]_jvars
=============================================================================
