--------------------------- MODULE SessionControl ---------------------------
(***************************************************************************)
(* The commands run-paper-session and run-demo-session as processes over   *)
(* the three JSON files of runtime/*: runtime_state.json, the current      *)
(* session's file and sessions.json.                                       *)
(*                                                                         *)
(* Every write is write_text in place and every update reads the file,     *)
(* changes a copy and writes it back, without locks.  So an update is two  *)
(* actions here, Read and Write; a file somebody is about to write may     *)
(* already be truncated, and a crash in a write leaves it so.  A step      *)
(* names the call a process is in, in the order of the code.               *)
(***************************************************************************)
EXTENDS Naturals, FiniteSets

CONSTANTS
  MaxCommands,  \* session commands given, numbered in the order they start
  MaxRunning,   \* commands that run at the same time
  MaxCrashes,   \* processes that die
  Torn,         \* content of a file that was truncated and not written
  None          \* no file, or nothing in hand

ASSUME ControlAssumption ==
  /\ {MaxCommands, MaxRunning, MaxCrashes} \subseteq Nat
  /\ Torn # None

VARIABLES
  file,       \* contents of the three files, each possibly Torn
  kill,       \* kill_switch.json is active
  proc,       \* the command processes
  launched,   \* commands given so far
  crashes,    \* processes that died
  overlapped, \* observation: commands that ran beside another one
  unacked     \* observation: critical failures since the last kill-off

vars == <<file, kill, proc, launched, crashes, overlapped, unacked>>

Commands == 1..MaxCommands
NoSession == 0

\* DEFAULT_RUNTIME_STATE and the ids the supervisor adds; save() replaces the
\* whole file, so a key its argument lacks is gone or back to its default.
DefaultState == [status |-> "IDLE", current |-> NoSession]

\* Outcomes of an engine: what _is_critical and end_session make of the text.
Critical == {"critical", "kill"}
Failures == {"plain"} \cup Critical

Idle == [kind |-> "none", step |-> "idle", copy |-> None, mine |-> None,
         outcome |-> "none", subject |-> NoSession]

\* The steps, the file each one touches, and the step after it.
Runtime == {"started_at", "current", "running", "stopped", "error", "failed"}
Current == {"update", "heartbeat", "end"}
History == {"enter", "updateEntry", "endEntry"}
Blind == {"start", "block"}             \* written without reading first
Over == {"idle", "done", "raised", "dead", "crashed"}

FileOf(step) ==
  CASE step \in Runtime \cup {"block"} -> "runtime"
    [] step \in Current \cup {"start"} -> "session"
    [] step \in History -> "history"

Running == {c \in Commands : proc[c].step \notin Over}

\* run_with_supervision in order: state updates (the one of last_session_id
\* repeats that of current_session_id and is one step with it), the engine, the
\* result, the heartbeat, STOPPED, the end; on an exception last_error,
\* FAILED, the kill switch, the end, and the exception again.
After(c) ==
  LET p == proc[c] IN
  CASE p.step = "endEntry" -> IF p.outcome = "ok" THEN "report" ELSE "raised"
    [] OTHER -> [started_at |-> "start", start |-> "enter", enter |-> "current",
                 current |-> "running", running |-> "engine",
                 update |-> "updateEntry", updateEntry |-> "heartbeat",
                 heartbeat |-> "stopped", stopped |-> "end", end |-> "endEntry",
                 error |-> "failed", failed |-> "arm", block |-> "done"][p.step]

MutStateAfter(c, state) ==
  CASE proc[c].step = "current" -> [state EXCEPT !.current = c]
    [] proc[c].step = "running" -> [state EXCEPT !.status = "RUNNING"]
    [] proc[c].step = "stopped" -> [state EXCEPT !.status = "STOPPED"]
    [] OTHER -> state

\* What RuntimeState.update saves for a step, from the copy it loaded.
StateAfter(c, state) ==
  CASE proc[c].step = "current" -> [state EXCEPT !.current = c]
    [] proc[c].step = "running" -> [state EXCEPT !.status = "RUNNING"]
    [] proc[c].step = "stopped" -> [state EXCEPT !.status = "STOPPED"]
    [] proc[c].step = "failed" -> [state EXCEPT !.status = "FAILED"]
    [] OTHER -> state                     \* started_at, last_error

\* What update_session, save_heartbeat and end_session make of the session;
\* a failure is STOPPED too, unless its text contains "kill".
SessionAfter(c, session) ==
  CASE proc[c].step = "update" -> [session EXCEPT !.window = TRUE]
    [] proc[c].step = "end" ->
         [session EXCEPT !.status = IF proc[c].outcome = "kill" THEN "KILLED" ELSE "STOPPED"]
    [] OTHER -> session                   \* heartbeat_at

MutUpsert(sessions, s) == [id \in {s.id} |-> [status |-> s.status, window |-> s.window]]

\* _upsert_history: the list without the session's old entry, and its new one.
Upsert(sessions, s) ==
  [id \in DOMAIN sessions \cup {s.id} |->
     IF id = s.id THEN [status |-> s.status, window |-> s.window] ELSE sessions[id]]

MutNewContent(c) ==
  CASE proc[c].step = "start" -> [id |-> c, status |-> "RUNNING", window |-> FALSE]
    [] proc[c].step = "block" -> [DefaultState EXCEPT !.status = "BLOCKED"]
    [] proc[c].step \in Runtime -> StateAfter(c, proc[c].copy)
    [] proc[c].step \in Current -> SessionAfter(c, proc[c].copy)
    [] proc[c].step \in History -> proc[c].mine

\* What step of command c writes: start_session a fresh session, a BLOCKED
\* command the default state, the others their changed copy.
NewContent(c) ==
  CASE proc[c].step = "start" -> [id |-> c, status |-> "RUNNING", window |-> FALSE]
    [] proc[c].step = "block" -> [DefaultState EXCEPT !.status = "BLOCKED"]
    [] proc[c].step \in Runtime -> StateAfter(c, proc[c].copy)
    [] proc[c].step \in Current -> SessionAfter(c, proc[c].copy)
    [] proc[c].step \in History -> Upsert(proc[c].copy, proc[c].mine)

\* c is about to write: it has read, or its step does not read.
Writing(c) == c \in Running /\ (proc[c].copy # None \/ proc[c].step \in Blind)
Reading(c) == proc[c].step \in Runtime \cup Current \cup History /\ proc[c].copy = None

Unreadable(f) ==
  file[f] = Torn \/ \E d \in Commands : Writing(d) /\ FileOf(proc[d].step) = f

-----------------------------------------------------------------------------
Init ==
  /\ file = [runtime |-> DefaultState, session |-> None, history |-> [id \in {} |-> None]]
  /\ kill = FALSE
  /\ proc = [c \in Commands |-> Idle] /\ launched = 0 /\ crashes = 0
  /\ overlapped = {} /\ unacked = {}

Goto(c, step) == proc' = [proc EXCEPT ![c].step = step, ![c].copy = None]

\* A command starts, beside those that run.
Start(kind, step) ==
  /\ launched < MaxCommands /\ Cardinality(Running) < MaxRunning
  /\ launched' = launched + 1
  /\ proc' = [proc EXCEPT ![launched'] = [Idle EXCEPT !.kind = kind, !.step = step]]
  /\ overlapped' = IF Running = {} THEN overlapped ELSE overlapped \cup Running \cup {launched'}
  /\ UNCHANGED <<file, kill, crashes, unacked>>

\* run_paper_session_cli asks the kill switch before anything else;
\* run_demo_session_cli leaves that to the guard of every order.
LaunchPaper == Start("paper", IF kill THEN "block" ELSE "guards")
LaunchDemo == Start("demo", "started_at")

\* The other guards of run_paper_session_cli: step limit, candle count, end
\* of feed and used window (PaperSession has them; here the answer is free).
\* The last one reads sessions.json.
PassGuards(c) ==
  /\ proc[c].step = "guards"
  /\ \/ file.history # Torn /\ Goto(c, "started_at")
     \/ Goto(c, "block")
  /\ UNCHANGED <<file, kill, launched, crashes, overlapped, unacked>>

MutRead(c) ==
  /\ Reading(c)
  /\ file[FileOf(proc[c].step)] # Torn
  /\ proc' = [proc EXCEPT ![c].copy = file[FileOf(proc[c].step)]]
  /\ UNCHANGED <<file, kill, launched, crashes, overlapped, unacked>>

\* The file of the step is read.  update_session, save_heartbeat and
\* end_session return silently when it holds another session.
Read(c) ==
  /\ Reading(c)
  /\ LET f == FileOf(proc[c].step) IN
     /\ file[f] # Torn
     /\ IF f = "session" /\ (file[f] = None \/ file[f].id # c)
        THEN Goto(c, CASE proc[c].step = "update" -> "heartbeat"
                       [] proc[c].step = "heartbeat" -> "stopped"
                       [] OTHER -> IF proc[c].outcome = "ok" THEN "report" ELSE "raised")
        ELSE proc' = [proc EXCEPT ![c].copy = file[f]]
  /\ UNCHANGED <<file, kill, launched, crashes, overlapped, unacked>>

\* The changed copy is written.  A session dict stays in hand for the
\* history entry that follows.
Write(c) ==
  /\ Writing(c)
  /\ LET f == FileOf(proc[c].step) IN
     /\ file' = [file EXCEPT ![f] = NewContent(c)]
     /\ proc' = [proc EXCEPT ![c].step = After(c), ![c].copy = None,
                             ![c].mine = IF f = "session" THEN NewContent(c) ELSE None]
  /\ UNCHANGED <<kill, launched, crashes, overlapped, unacked>>

\* json.loads raises: inside the try block the handler takes over, before it
\* and in the handler itself nobody does.
ReadRaises(c) ==
  /\ \/ Reading(c) /\ Unreadable(FileOf(proc[c].step))
     \/ proc[c].step = "guards" /\ Unreadable("history")
     \/ proc[c].step = "report" /\ (Unreadable("session") \/ Unreadable("history"))
  /\ proc' = IF proc[c].outcome = "ok" /\ proc[c].step # "report"
             THEN [proc EXCEPT ![c].step = "error", ![c].outcome = "plain"]
             ELSE [proc EXCEPT ![c].step = "dead"]
  /\ UNCHANGED <<file, kill, launched, crashes, overlapped, unacked>>

\* The engine returns: a dict with the window (paper) or None (demo); or it
\* raises, with or without a token the supervisor calls critical.
EngineEnds(c, outcome) ==
  /\ proc[c].step = "engine"
  /\ proc' = [proc EXCEPT ![c].outcome = outcome, ![c].step =
       IF outcome # "ok" THEN "error" ELSE IF proc[c].kind = "paper" THEN "update" ELSE "heartbeat"]
  /\ unacked' = IF outcome \in Critical THEN unacked \cup {c} ELSE unacked
  /\ UNCHANGED <<file, kill, launched, crashes, overlapped>>

MutArm(c) ==
  /\ proc[c].step = "arm"
  /\ kill' = (kill \/ proc[c].outcome = "kill")
  /\ Goto(c, "end")
  /\ UNCHANGED <<file, launched, crashes, overlapped, unacked>>

\* A critical error arms the kill switch.
Arm(c) ==
  /\ proc[c].step = "arm"
  /\ kill' = (kill \/ proc[c].outcome \in Critical)
  /\ Goto(c, "end")
  /\ UNCHANGED <<file, launched, crashes, overlapped, unacked>>

MutReport(c) ==
  /\ proc[c].step = "report" /\ file.session \notin {None, Torn} /\ file.history # Torn
  /\ proc' = [proc EXCEPT ![c].step = "done", ![c].subject =
       IF file.session.status = "RUNNING" THEN file.session.id ELSE NoSession]
  /\ UNCHANGED <<file, kill, launched, crashes, overlapped, unacked>>

\* run_daily_report_cli: the report is about the session of the current
\* session's file, which exists once a session started; it compares the data
\* windows of the sessions that sessions.json lists.
Report(c) ==
  /\ proc[c].step = "report" /\ file.session \notin {None, Torn} /\ file.history # Torn
  /\ proc' = [proc EXCEPT ![c].step = "done", ![c].subject = file.session.id]
  /\ UNCHANGED <<file, kill, launched, crashes, overlapped, unacked>>

\* The process dies, in a write perhaps after the file was truncated.
Crash(c) ==
  /\ c \in Running /\ crashes < MaxCrashes
  /\ proc' = [proc EXCEPT ![c].step = "crashed", ![c].copy = None, ![c].mine = None]
  /\ \/ file' = file
     \/ Writing(c) /\ file' = [file EXCEPT ![FileOf(proc[c].step)] = Torn]
  /\ crashes' = crashes + 1
  /\ UNCHANGED <<kill, launched, overlapped, unacked>>

\* The operator may trade again: what had failed is taken note of.
KillOff ==
  /\ kill' = FALSE /\ unacked' = {}
  /\ UNCHANGED <<file, proc, launched, crashes, overlapped>>

Next ==
  \/ LaunchPaper \/ LaunchDemo
  \/ \E c \in Commands :
       \/ PassGuards(c) \/ Read(c) \/ Write(c) \/ ReadRaises(c)
       \/ (\E outcome \in {"ok"} \cup Failures : EngineEnds(c, outcome))
       \/ Arm(c) \/ Report(c) \/ Crash(c)
  \/ KillOff

Spec == Init /\ [][Next]_vars

-----------------------------------------------------------------------------
Session == [id : Commands, status : {"RUNNING", "STOPPED", "KILLED"}, window : BOOLEAN]
Entry == [status : {"RUNNING", "STOPPED", "KILLED"}, window : BOOLEAN]
State == [status : {"IDLE", "RUNNING", "STOPPED", "FAILED", "BLOCKED"},
          current : {NoSession} \cup Commands]
SomeHistory == UNION {[ids -> Entry] : ids \in SUBSET Commands}

\* A missing file and a truncated one are no documents.
ASSUME DocumentAssumption ==
  /\ None \notin State /\ None \notin Session /\ None \notin SomeHistory
  /\ Torn \notin State /\ Torn \notin Session /\ Torn \notin SomeHistory

\* Every file holds a whole document of its kind or is torn, and a copy in
\* hand is a document of the file the step is about (runtime/*).
TypeOK ==
  /\ file.runtime \in State \cup {Torn} /\ file.session \in Session \cup {None, Torn}
  /\ file.history = Torn \/ file.history \in SomeHistory
  /\ kill \in BOOLEAN
  /\ launched \in 0..MaxCommands /\ crashes \in 0..MaxCrashes
  /\ overlapped \subseteq 1..launched /\ unacked \subseteq 1..launched
  /\ \A c \in Commands : LET p == proc[c] IN
       /\ p.copy # None => CASE p.step \in Runtime -> p.copy \in State
                              [] p.step \in Current -> p.copy \in Session /\ p.copy.id = c
                              [] p.step \in History -> p.copy \in SomeHistory
                              [] OTHER -> FALSE
       /\ p.mine # None => p.mine \in Session /\ p.mine.id = c
       /\ p.subject \in {NoSession} \cup Commands

Ended(c) == proc[c].step \in {"done", "raised"}
Alone(c) == c \notin overlapped

\* A session whose command ran alone is in sessions.json for good, once the
\* command is over: stopped, or killed when its error said so, with its data
\* window exactly if a paper engine returned.  Entries of sessions that came
\* later, crashed ones included, never disturb it (SessionManager).
HistoryTellsOutcome ==
  \A c \in Commands :
    Ended(c) /\ Alone(c) /\ proc[c].outcome # "none" /\ file.history # Torn =>
      /\ c \in DOMAIN file.history
      /\ file.history[c] = [status |-> IF proc[c].outcome = "kill" THEN "KILLED" ELSE "STOPPED",
                            window |-> proc[c].kind = "paper" /\ proc[c].outcome = "ok"]

\* No file says a session ended while its engine runs, also when two commands
\* overwrite each other's files: only the session's own command ends it
\* (the session_id comparisons of end_session and update_session).
NoPrematureEnd ==
  \A c \in Commands : proc[c].step = "engine" =>
    /\ file.session \notin {None, Torn} => file.session.id # c \/ file.session.status = "RUNNING"
    /\ file.history # Torn /\ c \in DOMAIN file.history => file.history[c].status = "RUNNING"

\* A critical failure arms the kill switch before its session is marked as
\* ended, and nothing but kill-off disarms it; a failure of a command alone
\* arms it even if the handler itself fails (run_with_supervision).
CriticalArmsSwitch ==
  \A c \in unacked :
    \/ proc[c].step \in {"end", "endEntry", "raised"}
    \/ proc[c].step = "dead" /\ Alone(c)
    => kill

\* When nothing runs, runtime_state.json tells how the last command ended and
\* which session it had, whatever was left by crashes before; a blocked
\* command leaves no session ids (RuntimeState.save, BotSupervisor).
StatusFollowsCommand ==
  LET p == proc[launched] IN
  Running = {} /\ launched > 0 /\ Ended(launched) /\ Alone(launched) =>
    file.runtime =
      IF p.outcome = "none" THEN [status |-> "BLOCKED", current |-> NoSession]
      ELSE [status |-> IF p.outcome = "ok" THEN "STOPPED" ELSE "FAILED",
            current |-> launched]

\* The daily report written after a session is about that session, also when
\* it traded nothing (DailyReportBuilder.build after end_session).
ReportNamesItsSession ==
  \A c \in Commands :
    proc[c].step = "done" /\ proc[c].outcome = "ok" /\ Alone(c) => proc[c].subject = c
=============================================================================
