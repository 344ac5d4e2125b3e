----------------------------- MODULE FeedReplay -----------------------------
(***************************************************************************)
(* The replay of the candle file by MockRealtimeDataFeed while the file    *)
(* and the settings change between and during sessions: run-paper-session  *)
(* resuming, resetting, at a random row or at FEED_START_INDEX;            *)
(* collect-data and live-paper, which read through the same cursor file;   *)
(* append-candles and reset-feed-cursor.                                   *)
(*                                                                         *)
(* A row is its timestamp and a version: two versions of a timestamp are   *)
(* two quotes of the same candle.  What a session does with its candles is *)
(* PaperSession's.  Row indices count from 0, as in the code.              *)
(***************************************************************************)
EXTENDS Naturals, Sequences, FiniteSets, SequencesExt

CONSTANTS
  InitialFiles,  \* what CANDLES_CSV_PATH may hold at first
  Incoming,      \* files given to append-candles
  OtherFile,     \* rows of another CSV, given with --csv
  Window,        \* max(MIN_CANDLES, FEATURE_WINDOW_SIZE)
  LiveMaxSteps,  \* settings.LIVE_MAX_STEPS
  StartIndex,    \* settings.FEED_START_INDEX, when it is set
  Modes,         \* settings of the replay: "resume", "reset", "random", "index"
  MaxSessions, MaxCommands   \* bounds: sessions planned, other commands run

Candle == [time : Nat, version : Nat]

ASSUME FeedAssumption ==
  /\ InitialFiles \subseteq Seq(Candle) /\ Incoming \subseteq Seq(Candle) /\ OtherFile \in Seq(Candle)
  /\ Window \in Nat \ {0} /\ LiveMaxSteps \in Nat \ {0} /\ StartIndex \in Nat
  /\ Modes \subseteq {"resume", "reset", "random", "index"}
  /\ MaxSessions \in Nat /\ MaxCommands \in Nat

VARIABLES
  candles,    \* rows of CANDLES_CSV_PATH, in file order
  collected,  \* rows of COLLECTED_CANDLES_PATH
  cursor,     \* feed_cursor.json: csv path, last index and its timestamp
  history,    \* sessions.json: planned and recorded windows of completed sessions
  plan,       \* the session that passed its checks and has not opened its feed
  reader,     \* the feeds open: of the session, of live-paper or collect-data
  planned,    \* sessions planned
  commands,   \* other commands run
  consumed,   \* observation: rows of CANDLES_CSV_PATH taken, while undisturbed
  disturbed   \* observation: the replay was moved by an operator

vars == <<candles, collected, cursor, history, plan, reader, planned, commands, consumed, disturbed>>

Main == "CANDLES_CSV_PATH"
Other == "other"
NoCursor == [path |-> "none", index |-> 0, time |-> 0]
NoPlan == [mode |-> "none", steps |-> 0, window |-> <<>>, calm |-> FALSE]
Closed == [path |-> "none", data |-> <<>>, start |-> 0, next |-> 0, limit |-> 0,
           window |-> <<>>, calm |-> FALSE]
Feeds == {"session", "tool"}
IsOpen(f) == reader[f].path # "none"
Least(a, b) == IF a < b THEN a ELSE b
Most(a, b) == IF a > b THEN a ELSE b

-----------------------------------------------------------------------------
(* Candle files (csv: app/market/candle_schema.py, data_quality.py)        *)

\* Row i is sorted before row j; equal timestamps keep their order.
Precedes(rows, i, j) ==
  rows[i].time < rows[j].time \/ (rows[i].time = rows[j].time /\ i < j)

\* sort_values and reset_index: the kept rows in that order.
Place(rows, kept, i) == 1 + Cardinality({j \in kept : Precedes(rows, j, i)})
SortRows(rows, kept) ==
  [k \in 1..Cardinality(kept) |-> rows[CHOOSE i \in kept : Place(rows, kept, i) = k]]

\* normalize_candles: sorted by timestamp, duplicates kept.
Normalize(rows) == SortRows(rows, DOMAIN rows)

\* drop_duplicates on the timestamp, keep="first" and keep="last".
FirstQuotes(rows) == {i \in DOMAIN rows : \A j \in 1..(i - 1) : rows[j].time # rows[i].time}
LastQuotes(rows) == {i \in DOMAIN rows : \A j \in (i + 1)..Len(rows) : rows[j].time # rows[i].time}

\* Wrong: normalises only.
MutCleanCandles(rows) == Normalize(rows)

\* clean_candles_df: sorted, and the last of equal timestamps wins.
CleanCandles(rows) ==
  LET data == Normalize(rows) IN SortRows(data, LastQuotes(data))

\* Wrong: the incoming quote of a known candle wins.
MutMerge(existing, incoming) ==
  LET combined == Normalize(incoming) \o Normalize(existing) IN
  SortRows(combined, FirstQuotes(combined))

\* run_append_candles_cli: the quote already in the file wins.
Merge(existing, incoming) ==
  LET combined == Normalize(existing) \o Normalize(incoming) IN
  SortRows(combined, FirstQuotes(combined))

-----------------------------------------------------------------------------
(* Where a feed starts, and what a session plans (csv: mock_realtime_feed) *)

FileOf(path) == IF path = Main THEN candles ELSE OtherFile

\* _resolve_start_index: the starts possible, none where it raises.
StartIndices(mode, path) ==
  LET total == Len(FileOf(path))
      lower == Least(Window, Most(1, total) - 1) IN
  CASE mode = "index"  -> {i \in {StartIndex} : i < total}
    [] mode = "random" -> IF total = 0 THEN {0} ELSE lower..Most(lower, total - 1)
    [] mode = "reset"  -> {0}
    [] mode = "resume" -> IF cursor.path # path THEN {0}
                          ELSE {i \in {cursor.index + 1} : i < total}

\* LIVE_MAX_STEPS cut to the rows that remain.
SessionSteps(start) == Least(LiveMaxSteps, Most(1, Len(candles) - start))

\* Wrong: takes the end as exclusive.
MutPlannedWindow(start, steps) ==
  LET end == Least(Len(candles) - 1, start + steps) IN
  <<candles[start + 1].time, candles[end + 1].time>>

\* _planned_feed_window: timestamps of the rows as the raw file has them.
PlannedWindow(start, steps) ==
  LET end == Least(Len(candles) - 1, start + steps - 1) IN
  <<candles[start + 1].time, candles[end + 1].time>>

\* Wrong: looks at the latest session only.
MutWindowAlreadyUsed(window) ==
  history # <<>> /\ Last(history).recorded = window

\* _window_already_used, with ALLOW_REPLAY_SAME_WINDOW off.
WindowAlreadyUsed(window) == \E i \in DOMAIN history : history[i].recorded = window

OpenFeed(path, start, limit, window, calm) ==
  [path |-> path, data |-> Normalize(FileOf(path)), start |-> start, next |-> start,
   limit |-> limit, window |-> window, calm |-> calm]

HasNext(f) == reader[f].next < Least(Len(reader[f].data), reader[f].start + reader[f].limit)

\* A command other than the session's own: a session still planned is no longer calm.
OtherCommand ==
  /\ commands < MaxCommands
  /\ commands' = commands + 1
  /\ plan' = [plan EXCEPT !.calm = FALSE]

\* The observations, when what happens may move the replay.
Disturb(moved) ==
  /\ disturbed' = (disturbed \/ moved)
  /\ consumed' = IF moved THEN <<>> ELSE consumed

-----------------------------------------------------------------------------
Init ==
  /\ candles \in InitialFiles
  /\ collected = <<>> /\ cursor = NoCursor /\ history = <<>> /\ plan = NoPlan
  /\ reader = [f \in Feeds |-> Closed]
  /\ planned = 0 /\ commands = 0
  /\ consumed = <<>> /\ disturbed = FALSE

\* run_paper_session_cli up to the supervisor: the status is read from a feed
\* of its own, the window from the raw file.
PlanSession ==
  /\ plan = NoPlan /\ ~IsOpen("session") /\ planned < MaxSessions
  /\ LiveMaxSteps >= Window /\ Len(candles) >= Window
  /\ \E mode \in Modes : \E start \in StartIndices(mode, Main) :
       LET steps == SessionSteps(start)
           window == PlannedWindow(start, steps) IN
       /\ ~WindowAlreadyUsed(window)
       /\ plan' = [mode |-> mode, steps |-> steps, window |-> window,
                   calm |-> mode # "random" /\ candles = Normalize(candles)]
  /\ planned' = planned + 1
  /\ UNCHANGED <<candles, collected, cursor, history, reader, commands, consumed, disturbed>>

\* run_live_paper_cli creates the feed the session reads, or raises.
OpenSession ==
  /\ plan # NoPlan
  /\ LET starts == StartIndices(plan.mode, Main) IN
     IF starts = {} THEN UNCHANGED <<reader, consumed, disturbed>>
     ELSE /\ \E start \in starts :
               reader' = [reader EXCEPT !["session"] =
                            OpenFeed(Main, start, plan.steps, plan.window, plan.calm)]
          /\ Disturb(plan.mode # "resume" \/ IsOpen("tool"))
  /\ plan' = NoPlan
  /\ UNCHANGED <<candles, collected, cursor, history, planned, commands>>

\* live-paper or collect-data, on the candle file or another: no check, no record.
OpenTool ==
  /\ ~IsOpen("tool")
  /\ \E path \in {Main, Other}, mode \in Modes \cap {"resume", "reset"} :
       \E start \in StartIndices(mode, path) :
         /\ reader' = [reader EXCEPT !["tool"] = OpenFeed(path, start, LiveMaxSteps, <<>>, FALSE)]
         /\ Disturb(path # Main \/ mode # "resume" \/ IsOpen("session"))
  /\ OtherCommand
  /\ UNCHANGED <<candles, collected, cursor, history, planned>>

\* get_next_candle: the cursor file names the row taken; collect-data stores it.
TakeCandle(f) ==
  LET feed == reader[f]
      row == feed.data[feed.next + 1] IN
  /\ IsOpen(f) /\ HasNext(f)
  /\ reader' = [reader EXCEPT ![f].next = @ + 1]
  /\ cursor' = [path |-> feed.path, index |-> feed.next, time |-> row.time]
  /\ consumed' = IF disturbed THEN consumed ELSE Append(consumed, row)
  /\ collected' = IF f = "tool" THEN CleanCandles(Append(collected, row)) ELSE collected
  /\ plan' = IF f = "tool" THEN [plan EXCEPT !.calm = FALSE] ELSE plan
  /\ UNCHANGED <<candles, history, planned, commands, disturbed>>

\* The engine's loop is over: _session_feed_metadata goes to sessions.json.
FinishSession ==
  LET feed == reader["session"] IN
  /\ IsOpen("session") /\ ~HasNext("session")
  /\ history' = Append(history,
       [planned |-> feed.window, calm |-> feed.calm,
        recorded |-> <<feed.data[feed.start + 1].time, feed.data[feed.next].time>>])
  /\ reader' = [reader EXCEPT !["session"] = Closed]
  /\ UNCHANGED <<candles, collected, cursor, plan, planned, commands, consumed, disturbed>>

\* A session that fails, a tool that ends or dies: no window is recorded.
CloseFeed(f) ==
  /\ IsOpen(f)
  /\ reader' = [reader EXCEPT ![f] = Closed]
  /\ UNCHANGED <<candles, collected, cursor, history, plan, planned, commands, consumed, disturbed>>

\* A process that dies inside _write_cursor leaves the file truncated, which
\* _read_cursor takes for none: the row read is lost and the next feed resets.
DieInCursorWrite(f) ==
  /\ IsOpen(f) /\ HasNext(f)
  /\ cursor' = NoCursor
  /\ reader' = [reader EXCEPT ![f] = Closed]
  /\ plan' = [plan EXCEPT !.calm = FALSE]
  /\ Disturb(TRUE)
  /\ UNCHANGED <<candles, collected, history, planned, commands>>

\* Rows before n read the same timestamps in both files.
SameUpTo(n, rows, other) ==
  \A i \in 1..n : i \in DOMAIN rows =>
    i \in DOMAIN other /\ rows[i].time = other[i].time

\* run_append_candles_cli: the file is rewritten; cursor and open feeds are not.
AppendCandles ==
  /\ OtherCommand
  /\ \E incoming \in Incoming : candles' = Merge(candles, incoming)
  /\ LET known == Normalize(candles)
         taken == IF cursor.path = Main THEN cursor.index + 1 ELSE 0
         held == {Len(reader[f].data) : f \in {g \in Feeds : reader[g].path = Main}} IN
     Disturb(\E n \in {taken} \cup held : ~SameUpTo(n, known, candles'))
  /\ UNCHANGED <<collected, cursor, history, reader, planned>>

\* reset-feed-cursor --confirm
ResetCursor ==
  /\ OtherCommand
  /\ cursor' = NoCursor
  /\ Disturb(TRUE)
  /\ UNCHANGED <<candles, collected, history, reader, planned>>

Next ==
  \/ PlanSession
  \/ OpenSession
  \/ OpenTool
  \/ \E f \in Feeds : TakeCandle(f)
  \/ FinishSession
  \/ \E f \in Feeds : CloseFeed(f)
  \/ \E f \in Feeds : DieInCursorWrite(f)
  \/ AppendCandles
  \/ ResetCursor

Spec == Init /\ [][Next]_vars

-----------------------------------------------------------------------------
InOrder(rows) == \A i, j \in DOMAIN rows : i < j => rows[i].time < rows[j].time

\* Types, and a collected file that is always in order without duplicates
\* (collect-data rewrites it after every candle).
FeedTypeOK ==
  /\ InOrder(collected)
  /\ cursor.path \in {Main, Other, "none"}
  /\ plan.mode \in Modes \cup {"none"}
  /\ \A f \in Feeds : reader[f].path \in {Main, Other, "none"}
                      /\ reader[f].start <= reader[f].next
                      /\ reader[f].next <= Len(reader[f].data)
  /\ planned <= MaxSessions /\ commands <= MaxCommands /\ disturbed \in BOOLEAN

\* As long as nobody resets or moves the cursor, reads another file, runs two
\* feeds at once, appends rows behind what has been read or dies inside
\* _write_cursor, the sessions and tools together read the sorted file row by
\* row from its start, whatever order they start, fail and end in and whatever
\* is appended in front: no row is skipped, read twice, or replaced afterwards
\* by another quote, and the cursor names the last row read (_write_cursor,
\* _resolve_start_index).
ReplayContinues ==
  ~disturbed =>
    /\ consumed = SubSeq(Normalize(candles), 1, Len(consumed))
    /\ consumed # <<>> => /\ cursor.path = Main
                          /\ cursor.index + 1 = Len(consumed)
                          /\ cursor.time = Last(consumed).time

\* A completed session records exactly the window it was checked for, unless
\* the file was out of order, the start was random (the check draws a start of
\* its own), or another command ran, or died inside _write_cursor, between the
\* check and the opening of the feed (_planned_feed_window,
\* LiveTradingEngine._session_feed_metadata).
PlannedIsRecorded ==
  \A i \in DOMAIN history : history[i].calm => history[i].recorded = history[i].planned

\* Such a session never repeats the data window of an earlier completed one,
\* also after a cursor reset or loss, a replay setting or an append that moved
\* rows: ALLOW_REPLAY_SAME_WINDOW=false (run_paper_session_cli).
NoWindowTwice ==
  \A i, j \in DOMAIN history :
    i < j /\ history[j].calm => history[i].recorded # history[j].recorded
=============================================================================
