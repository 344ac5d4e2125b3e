------------------------ MODULE SessionControl_proofs ------------------------
(***************************************************************************)
(* Theorems of SessionControl, for any number of commands, of commands     *)
(* that run side by side, and of crashes.                                  *)
(***************************************************************************)
EXTENDS SessionControl, TLAPS

-----------------------------------------------------------------------------
(* Types                                                                   *)

Steps == Runtime \cup Current \cup History \cup Blind \cup Over
           \cup {"guards", "engine", "arm", "report"}
Kinds == {"none", "paper", "demo"}
Outcomes == {"none", "ok"} \cup Failures
Copies == State \cup Session \cup SomeHistory \cup {None}

Mines == Session \cup {None}
Subjects == {NoSession} \cup Commands

Process == [kind : Kinds, step : Steps, copy : Copies, mine : Mines,
            outcome : Outcomes, subject : Subjects]
Files == [runtime : State \cup {Torn}, session : Session \cup {None, Torn},
          history : SomeHistory \cup {Torn}]

\* What TypeOK leaves open: the files and the processes as a whole, commands
\* that were not given yet, and that a history step has its session in hand.
ProcessOK ==
  /\ file \in Files
  /\ proc \in [Commands -> Process]
  /\ \A c \in Commands : c > launched => proc[c] = Idle
  /\ \A c \in Commands : proc[c].step \in History =>
                            proc[c].mine \in Session /\ proc[c].mine.id = c

TypeInv == TypeOK /\ ProcessOK

\* A history keeps its shape when a session's entry is put in.
LEMMA UpsertType ==
  ASSUME NEW h \in SomeHistory, NEW s \in Session
  PROVE  /\ Upsert(h, s) \in SomeHistory
         /\ DOMAIN Upsert(h, s) = DOMAIN h \cup {s.id}
         /\ Upsert(h, s)[s.id] = [status |-> s.status, window |-> s.window]
         /\ \A c \in DOMAIN h : c # s.id => Upsert(h, s)[c] = h[c]
<1>1. PICK ids \in SUBSET Commands : h \in [ids -> Entry]
  BY DEF SomeHistory
<1>2. s.id \in Commands /\ [status |-> s.status, window |-> s.window] \in Entry
  BY DEF Session, Entry
<1>3. Upsert(h, s) \in [ids \cup {s.id} -> Entry]
  BY <1>1, <1>2 DEF Upsert
<1>4. ids \cup {s.id} \in SUBSET Commands
  BY <1>2
<1>5. Upsert(h, s) \in SomeHistory
  BY <1>3, <1>4 DEF SomeHistory
<1> QED
  BY <1>1, <1>5 DEF Upsert

\* Process c moves on to step s with k and m in hand, outcome o and report
\* subject t; the others stay.
Moves(c, s, k, m, o, t) ==
  /\ proc' \in [Commands -> Process]
  /\ proc'[c].kind = proc[c].kind /\ proc'[c].step = s
  /\ proc'[c].copy = k /\ proc'[c].mine = m
  /\ proc'[c].outcome = o /\ proc'[c].subject = t
  /\ \A d \in Commands : d # c => proc'[d] = proc[d]

\* Every way in which the actions change some fields of one process.
LEMMA MovedProcess ==
  ASSUME proc \in [Commands -> Process], NEW c \in Commands, NEW s \in Steps,
         NEW k \in Copies, NEW m \in Mines, NEW o \in Outcomes, NEW t \in Subjects
  PROVE  LET p == proc[c] IN
         /\ proc' = [proc EXCEPT ![c].copy = k]
              => Moves(c, p.step, k, p.mine, p.outcome, p.subject)
         /\ proc' = [proc EXCEPT ![c].step = s]
              => Moves(c, s, p.copy, p.mine, p.outcome, p.subject)
         /\ proc' = [proc EXCEPT ![c].step = s, ![c].copy = k]
              => Moves(c, s, k, p.mine, p.outcome, p.subject)
         /\ proc' = [proc EXCEPT ![c].step = s, ![c].copy = k, ![c].mine = m]
              => Moves(c, s, k, m, p.outcome, p.subject)
         /\ proc' = [proc EXCEPT ![c].step = s, ![c].outcome = o]
              => Moves(c, s, p.copy, p.mine, o, p.subject)
         /\ proc' = [proc EXCEPT ![c].outcome = o, ![c].step = s]
              => Moves(c, s, p.copy, p.mine, o, p.subject)
         /\ proc' = [proc EXCEPT ![c].step = s, ![c].subject = t]
              => Moves(c, s, p.copy, p.mine, p.outcome, t)
BY DEF Process, Moves

\* What a process may have in hand at a step.
HandsFit(c, s, k, m) ==
  /\ k # None => \/ s \in Runtime /\ k \in State
                 \/ s \in Current /\ k \in Session /\ k.id = c
                 \/ s \in History /\ k \in SomeHistory
  /\ m # None => m \in Session /\ m.id = c
  /\ s \in History => m \in Session /\ m.id = c

\* The steps of the three files are different steps.
LEMMA StepKinds ==
  /\ Runtime \cap Current = {} /\ Runtime \cap History = {} /\ Current \cap History = {}
  /\ \A s \in Steps : s \in Runtime \cup {"block"} => FileOf(s) = "runtime"
  /\ \A s \in Steps : s \in Current \cup {"start"} => FileOf(s) = "session"
  /\ \A s \in Steps : s \in History => FileOf(s) = "history"
  /\ Over \cap (Runtime \cup Current \cup History \cup Blind
                  \cup {"guards", "engine", "arm", "report"}) = {}
BY DEF Runtime, Current, History, Blind, Over, FileOf

\* TypeOK's word on the processes, in these terms.
LEMMA HandsOfType ==
  ASSUME TypeInv, NEW c \in Commands
  PROVE  HandsFit(c, proc[c].step, proc[c].copy, proc[c].mine)
BY DEF TypeInv, TypeOK, ProcessOK, HandsFit

\* A move of one given command with fitting hands keeps the processes well typed.
LEMMA MoveTypes ==
  ASSUME TypeInv, NEW c \in Commands, NEW s, NEW k, NEW m, NEW o, NEW t \in Subjects,
         Moves(c, s, k, m, o, t), HandsFit(c, s, k, m),
         launched' \in 0..MaxCommands, launched <= launched', c <= launched',
         /\ file' \in Files /\ kill' \in BOOLEAN /\ crashes' \in 0..MaxCrashes
         /\ overlapped' \subseteq 1..launched' /\ unacked' \subseteq 1..launched'
  PROVE  TypeInv'
<1>1. ASSUME NEW d \in Commands
      PROVE  /\ HandsFit(d, proc'[d].step, proc'[d].copy, proc'[d].mine)
             /\ proc'[d].subject \in Subjects
  <2>1. CASE d = c
    BY <2>1 DEF Moves
  <2>2. CASE d # c
    BY <2>2, HandsOfType DEF Moves, TypeInv, ProcessOK, Process
  <2> QED
    BY <2>1, <2>2
<1>2. \A d \in Commands : d > launched' => proc'[d] = Idle
  BY ControlAssumption DEF TypeInv, TypeOK, ProcessOK, Moves, Commands
<1>3. ProcessOK'
  BY <1>1, <1>2 DEF ProcessOK, Moves, HandsFit
<1>4. \A d \in Commands : LET p == proc'[d] IN
       /\ p.copy # None => CASE p.step \in Runtime -> p.copy \in State
                              [] p.step \in Current -> p.copy \in Session /\ p.copy.id = d
                              [] p.step \in History -> p.copy \in SomeHistory
                              [] OTHER -> FALSE
       /\ p.mine # None => p.mine \in Session /\ p.mine.id = d
       /\ p.subject \in {NoSession} \cup Commands
  BY <1>1, StepKinds DEF HandsFit, Subjects
<1> QED
  BY <1>3, <1>4 DEF Files, TypeInv, TypeOK

\* The step a write leads to.
LEMMA AfterStep ==
  ASSUME TypeInv, NEW c \in Commands, Writing(c)
  PROVE  LET p == proc[c] IN
         /\ p.step \in Runtime \cup Current \cup History \cup Blind
         /\ After(c) \in Steps
         /\ After(c) \in History => p.step \in Current \cup {"start"}
         /\ p.step = "started_at" => After(c) = "start"
         /\ p.step = "start" => After(c) = "enter"
         /\ p.step = "enter" => After(c) = "current"
         /\ p.step = "current" => After(c) = "running"
         /\ p.step = "running" => After(c) = "engine"
         /\ p.step = "update" => After(c) = "updateEntry"
         /\ p.step = "updateEntry" => After(c) = "heartbeat"
         /\ p.step = "heartbeat" => After(c) = "stopped"
         /\ p.step = "stopped" => After(c) = "end"
         /\ p.step = "end" => After(c) = "endEntry"
         /\ p.step = "endEntry" => After(c) = IF p.outcome = "ok" THEN "report" ELSE "raised"
         /\ p.step = "error" => After(c) = "failed"
         /\ p.step = "failed" => After(c) = "arm"
         /\ p.step = "block" => After(c) = "done"
<1>1. proc[c].step \in Runtime \cup Current \cup History \cup Blind
  BY HandsOfType DEF Writing, HandsFit
<1> QED
  BY <1>1 DEF After, Runtime, Current, History, Blind, Over, Steps

\* What a state update saves is a state with the fields the step sets.
LEMMA StateAfterType ==
  ASSUME TypeInv, NEW c \in Commands, NEW s \in State, proc[c].step \in Runtime
  PROVE  /\ StateAfter(c, s) \in State
         /\ proc[c].step = "current" =>
              StateAfter(c, s).current = c /\ StateAfter(c, s).status = s.status
         /\ proc[c].step # "current" => StateAfter(c, s).current = s.current
         /\ proc[c].step = "running" => StateAfter(c, s).status = "RUNNING"
         /\ proc[c].step = "stopped" => StateAfter(c, s).status = "STOPPED"
         /\ proc[c].step = "failed" => StateAfter(c, s).status = "FAILED"
         /\ proc[c].step \in {"started_at", "error"} => StateAfter(c, s) = s
BY DEF StateAfter, State, Runtime

\* What a session update saves is the same session, ended only by end_session.
LEMMA SessionAfterType ==
  ASSUME TypeInv, NEW c \in Commands, NEW s \in Session
  PROVE  /\ SessionAfter(c, s) \in Session
         /\ SessionAfter(c, s).id = s.id
         /\ proc[c].step # "end" => SessionAfter(c, s).status = s.status
         /\ proc[c].step # "update" => SessionAfter(c, s).window = s.window
         /\ proc[c].step = "update" => SessionAfter(c, s).window = TRUE
         /\ proc[c].step = "end" =>
              SessionAfter(c, s).status = IF proc[c].outcome = "kill" THEN "KILLED" ELSE "STOPPED"
BY DEF SessionAfter, Session

\* A write puts a whole document into the file of its step.
LEMMA WrittenContent ==
  ASSUME TypeInv, NEW c \in Commands, Writing(c)
  PROVE  /\ proc[c].step \in Runtime \cup {"block"} => NewContent(c) \in State
         /\ proc[c].step \in Current \cup {"start"} =>
              NewContent(c) \in Session /\ NewContent(c).id = c
         /\ proc[c].step \in History => NewContent(c) \in SomeHistory
<1> DEFINE p == proc[c]
<1>1. HandsFit(c, p.step, p.copy, p.mine)
  BY HandsOfType
<1>2. CASE p.step = "start"
  <2>1. NewContent(c) = [id |-> c, status |-> "RUNNING", window |-> FALSE]
    BY <1>2 DEF NewContent, Runtime, Current, History
  <2> QED
    BY <1>2, <2>1 DEF Session, Runtime, History
<1>3. CASE p.step = "block"
  <2>1. NewContent(c) = [DefaultState EXCEPT !.status = "BLOCKED"]
    BY <1>3 DEF NewContent, Runtime, Current, History
  <2> QED
    BY <1>3, <2>1 DEF State, DefaultState, Current, History
<1>4. CASE p.step \in Runtime
  <2>1. NewContent(c) = StateAfter(c, p.copy) /\ p.copy # None /\ p.copy \in State
    BY <1>1, <1>4, StepKinds DEF NewContent, Writing, HandsFit, Runtime, Blind
  <2> QED
    BY <1>4, <2>1, StateAfterType DEF Runtime, Current, History
<1>5. CASE p.step \in Current
  <2>1. p.step \notin Runtime \cup History \cup Blind
    BY <1>5 DEF Current, Runtime, History, Blind
  <2>2. p.copy \in Session /\ p.copy.id = c
    BY <1>1, <2>1 DEF Writing, HandsFit
  <2>3. NewContent(c) = SessionAfter(c, p.copy)
    BY <1>5, <2>1 DEF NewContent, Blind
  <2> QED
    BY <1>5, <2>1, <2>2, <2>3, SessionAfterType, ZenonT(40) DEF Blind
<1>6. CASE p.step \in History
  <2>1. p.step \notin Runtime \cup Current \cup Blind
    BY <1>6 DEF Current, Runtime, History, Blind
  <2>2. p.copy \in SomeHistory /\ p.mine \in Session
    BY <1>1, <1>6, <2>1 DEF Writing, HandsFit
  <2>3. NewContent(c) = Upsert(p.copy, p.mine)
    BY <1>6, <2>1 DEF NewContent, Blind
  <2> QED
    BY <1>6, <2>1, <2>2, <2>3, UpsertType, ZenonT(40) DEF Blind
<1> QED
  BY <1>2, <1>3, <1>4, <1>5, <1>6

\* One file of the three is replaced.
LEMMA ReplacedFile ==
  ASSUME file \in Files, NEW f \in {"runtime", "session", "history"}, NEW v,
         file' = [file EXCEPT ![f] = v],
         f = "runtime" => v \in State \cup {Torn},
         f = "session" => v \in Session \cup {None, Torn},
         f = "history" => v \in SomeHistory \cup {Torn}
  PROVE  /\ file' \in Files
         /\ file'[f] = v
         /\ \A g \in {"runtime", "session", "history"} : g # f => file'[g] = file[g]
BY DEF Files

\* The fields of a process, and that a command with work to do was given.
LEMMA FieldsOfProcess ==
  ASSUME TypeInv, NEW c \in Commands
  PROVE  /\ proc \in [Commands -> Process]
         /\ proc[c].kind \in Kinds /\ proc[c].step \in Steps /\ proc[c].copy \in Copies
         /\ proc[c].mine \in Mines /\ proc[c].outcome \in Outcomes
         /\ proc[c].subject \in Subjects
         /\ None \in Copies /\ None \in Mines
         /\ proc[c].step # "idle" => c <= launched
         /\ launched \in 0..MaxCommands
BY DEF TypeInv, TypeOK, ProcessOK, Process, Copies, Mines, Idle, Commands

\* A step that is not a waiting one and needs no copy leaves empty hands.
LEMMA EmptyHands ==
  ASSUME TypeInv, NEW c \in Commands,
         proc[c].step \notin Runtime \cup Current \cup History \/ Reading(c)
  PROVE  proc[c].copy = None
BY HandsOfType DEF HandsFit, Reading

\* A launch makes one new process, at its first step, and keeps the types.
LEMMA StartMoves ==
  ASSUME TypeInv, NEW kind \in Kinds, NEW s \in Steps \ History, Start(kind, s)
  PROVE  /\ launched' = launched + 1 /\ launched' \in Commands
         /\ proc[launched'] = Idle
         /\ proc'[launched'] = [Idle EXCEPT !.kind = kind, !.step = s]
         /\ \A d \in Commands : d # launched' => proc'[d] = proc[d]
         /\ proc' \in [Commands -> Process]
         /\ TypeInv'
<1>1. launched' = launched + 1 /\ launched' \in Commands
  BY ControlAssumption DEF Start, TypeInv, TypeOK, Commands
<1>2. [Idle EXCEPT !.kind = kind, !.step = s] \in Process
  BY DEF Idle, Process, Steps, Over, Copies, Mines, Outcomes, Subjects
<1>3. /\ proc' = [proc EXCEPT ![launched'] = [Idle EXCEPT !.kind = kind, !.step = s]]
      /\ proc \in [Commands -> Process]
  BY DEF Start, TypeInv, ProcessOK
<1>4. /\ proc'[launched'] = [Idle EXCEPT !.kind = kind, !.step = s]
      /\ \A d \in Commands : d # launched' => proc'[d] = proc[d]
      /\ proc' \in [Commands -> Process]
  BY <1>1, <1>2, <1>3
<1>5. proc[launched'] = Idle
  BY <1>1, ControlAssumption DEF TypeInv, TypeOK, ProcessOK, Commands
<1>7. ASSUME NEW d \in Commands, d \in Running
      PROVE  d \in 1..launched
  BY <1>7, FieldsOfProcess DEF Running, Over, Commands
<1>8. overlapped' \subseteq 1..launched'
  BY <1>1, <1>7 DEF Start, TypeInv, TypeOK, Running
<1>9. ASSUME NEW d \in Commands
      PROVE  /\ HandsFit(d, proc'[d].step, proc'[d].copy, proc'[d].mine)
             /\ proc'[d].subject \in Subjects
  <2>1. CASE d = launched'
    BY <1>4, <2>1 DEF Idle, HandsFit, Subjects
  <2>2. CASE d # launched'
    BY <1>4, <2>2, HandsOfType, FieldsOfProcess
  <2> QED
    BY <2>1, <2>2
<1>10. \A d \in Commands : d > launched' => proc'[d] = Idle
  BY <1>1, <1>4 DEF TypeInv, TypeOK, ProcessOK, Commands
<1>11. ProcessOK'
  BY <1>4, <1>9, <1>10 DEF Start, TypeInv, ProcessOK, HandsFit
<1>12. \A d \in Commands : LET p == proc'[d] IN
       /\ p.copy # None => CASE p.step \in Runtime -> p.copy \in State
                              [] p.step \in Current -> p.copy \in Session /\ p.copy.id = d
                              [] p.step \in History -> p.copy \in SomeHistory
                              [] OTHER -> FALSE
       /\ p.mine # None => p.mine \in Session /\ p.mine.id = d
       /\ p.subject \in {NoSession} \cup Commands
  BY <1>9, StepKinds DEF HandsFit, Subjects
<1>13. TypeOK'
  BY <1>1, <1>8, <1>12 DEF Start, TypeInv, TypeOK, Commands
<1> QED
  BY <1>1, <1>4, <1>5, <1>11, <1>13 DEF TypeInv

\* What a handler other than Start leaves alone keeps its type.
LEMMA HandlersKeep ==
  ASSUME TypeInv, NEW c \in Commands,
         \/ PassGuards(c) \/ Read(c) \/ Write(c) \/ ReadRaises(c)
         \/ (\E outcome \in {"ok"} \cup Failures : EngineEnds(c, outcome))
         \/ Arm(c) \/ Report(c) \/ Crash(c)
  PROVE  /\ launched' = launched /\ overlapped' = overlapped
         /\ launched' \in 0..MaxCommands /\ launched <= launched' /\ c <= launched'
         /\ overlapped' \subseteq 1..launched'
         /\ proc[c].subject \in Subjects
         /\ file' = file => file' \in Files
         /\ kill' = kill => kill' \in BOOLEAN
         /\ crashes' = crashes => crashes' \in 0..MaxCrashes
         /\ unacked' = unacked => unacked' \subseteq 1..launched'
<1>1. launched' = launched /\ overlapped' = overlapped
  BY DEF PassGuards, Read, Write, ReadRaises, EngineEnds, Arm, Report, Crash
<1>2. proc[c].step # "idle"
  BY DEF PassGuards, Read, Write, ReadRaises, EngineEnds, Arm, Report, Crash,
     Reading, Writing, Running, Over, Runtime, Current, History, Blind
<1>3. c <= launched /\ proc[c].subject \in Subjects
  BY <1>2, FieldsOfProcess
<1> QED
  BY <1>1, <1>3 DEF TypeInv, TypeOK, ProcessOK

\* The answer of the guards.
LEMMA PassGuardsMoves ==
  ASSUME TypeInv, NEW c \in Commands, PassGuards(c)
  PROVE  LET p == proc[c] IN
         /\ p.step = "guards"
         /\ \/ file.history # Torn /\ Moves(c, "started_at", None, p.mine, p.outcome, p.subject)
            \/ Moves(c, "block", None, p.mine, p.outcome, p.subject)
         /\ UNCHANGED <<file, kill, unacked>>
         /\ TypeInv'
<1>1. {"started_at", "block"} \subseteq Steps /\ proc[c].step = "guards"
  BY DEF Steps, Runtime, Blind, PassGuards
<1>2. \A s \in Steps : Goto(c, s) => Moves(c, s, None, proc[c].mine, proc[c].outcome, proc[c].subject)
  BY FieldsOfProcess, MovedProcess DEF Goto
<1>3. \/ file.history # Torn /\ Moves(c, "started_at", None, proc[c].mine, proc[c].outcome, proc[c].subject)
      \/ Moves(c, "block", None, proc[c].mine, proc[c].outcome, proc[c].subject)
  BY <1>1, <1>2 DEF PassGuards
<1>4. HandsFit(c, "started_at", None, proc[c].mine) /\ HandsFit(c, "block", None, proc[c].mine)
  BY HandsOfType DEF HandsFit, History
<1>5. TypeInv'
  BY <1>3, <1>4, HandlersKeep, MoveTypes DEF PassGuards
<1> QED
  BY <1>1, <1>3, <1>5 DEF PassGuards

\* Where a process goes that finds another session in the current file.
Skipped(p) ==
  CASE p.step = "update" -> "heartbeat"
    [] p.step = "heartbeat" -> "stopped"
    [] OTHER -> IF p.outcome = "ok" THEN "report" ELSE "raised"

\* A read takes a whole document of the step's file in hand, or, when that is
\* another session's, skips the update.
LEMMA ReadMoves ==
  ASSUME TypeInv, NEW c \in Commands, Read(c)
  PROVE  LET p == proc[c]  f == FileOf(p.step) IN
         /\ p.step \in Runtime \cup Current \cup History /\ p.copy = None
         /\ file[f] # Torn
         /\ \/ /\ p.step \in Current /\ (file.session = None \/ file.session.id # c)
               /\ Moves(c, Skipped(p), None, p.mine, p.outcome, p.subject)
            \/ /\ p.step \in Current => file.session \in Session /\ file.session.id = c
               /\ Moves(c, p.step, file[f], p.mine, p.outcome, p.subject)
         /\ UNCHANGED <<file, kill, unacked>>
         /\ TypeInv'
<1> DEFINE p == proc[c]
           f == FileOf(p.step)
<1>1. p.step \in Runtime \cup Current \cup History /\ p.copy = None /\ file[f] # Torn
  BY DEF Read, Reading
<1>2. p.step \in Steps /\ HandsFit(c, p.step, p.copy, p.mine)
  BY FieldsOfProcess, HandsOfType
<1>3. /\ p.step \in Runtime => f = "runtime" /\ file[f] \in State
      /\ p.step \in Current => f = "session" /\ file[f] \in Session \cup {None}
      /\ p.step \in History => f = "history" /\ file[f] \in SomeHistory
  BY <1>1, <1>2, StepKinds DEF TypeInv, TypeOK
<1>4. CASE f = "session" /\ (file[f] = None \/ file[f].id # c)
  <2>1. p.step \in Current
    BY <1>1, <1>3, <1>4
  <2>2. Skipped(p) \in Steps /\ Skipped(p) \notin History
    BY <2>1 DEF Skipped, Steps, Current, Runtime, Over, History
  <2>3. Goto(c, Skipped(p))
    BY <1>4 DEF Read, Skipped
  <2>4. Moves(c, Skipped(p), None, p.mine, p.outcome, p.subject)
    BY <2>2, <2>3, FieldsOfProcess, MovedProcess DEF Goto
  <2>5. HandsFit(c, Skipped(p), None, p.mine)
    BY <1>2, <2>2 DEF HandsFit
  <2>6. TypeInv'
    BY <2>4, <2>5, HandlersKeep, MoveTypes DEF Read
  <2> QED
    BY <1>1, <1>4, <2>1, <2>4, <2>6 DEF Read
<1>5. CASE ~(f = "session" /\ (file[f] = None \/ file[f].id # c))
  <2>1. proc' = [proc EXCEPT ![c].copy = file[f]]
    BY <1>5 DEF Read
  <2>2. file[f] \in Copies
    BY <1>1, <1>3 DEF Copies
  <2>3. Moves(c, p.step, file[f], p.mine, p.outcome, p.subject)
    BY <2>1, <2>2, FieldsOfProcess, MovedProcess
  <2>4. p.step \in Current => file.session \in Session /\ file.session.id = c
    BY <1>3, <1>5
  <2>5. HandsFit(c, p.step, file[f], p.mine)
    BY <1>1, <1>2, <1>3, <2>4 DEF HandsFit
  <2>6. TypeInv'
    BY <2>3, <2>5, HandlersKeep, MoveTypes DEF Read
  <2> QED
    BY <1>1, <2>3, <2>4, <2>6 DEF Read
<1> QED
  BY <1>4, <1>5

\* A write replaces the step's file and moves on; a session stays in hand.
LEMMA WriteMoves ==
  ASSUME TypeInv, NEW c \in Commands, Write(c)
  PROVE  LET p == proc[c]  f == FileOf(p.step) IN
         /\ p.step \in Runtime \cup Current \cup History \cup Blind
         /\ p.copy # None \/ p.step \in Blind
         /\ file' \in Files /\ file'[f] = NewContent(c)
         /\ \A g \in {"runtime", "session", "history"} : g # f => file'[g] = file[g]
         /\ Moves(c, After(c), None, IF f = "session" THEN NewContent(c) ELSE None,
                  p.outcome, p.subject)
         /\ UNCHANGED <<kill, unacked>>
         /\ TypeInv'
<1> DEFINE p == proc[c]
           f == FileOf(p.step)
           m == IF f = "session" THEN NewContent(c) ELSE None
<1>1. Writing(c) /\ file' = [file EXCEPT ![f] = NewContent(c)]
      /\ proc' = [proc EXCEPT ![c].step = After(c), ![c].copy = None, ![c].mine = m]
  BY DEF Write
<1>2. p.step \in Steps /\ p.step \in Runtime \cup Current \cup History \cup Blind
  BY <1>1, FieldsOfProcess, AfterStep
<1>3. /\ p.step \in Runtime \cup {"block"} => f = "runtime" /\ NewContent(c) \in State
      /\ p.step \in Current \cup {"start"} =>
           f = "session" /\ NewContent(c) \in Session /\ NewContent(c).id = c
      /\ p.step \in History => f = "history" /\ NewContent(c) \in SomeHistory
  BY <1>1, <1>2, StepKinds, WrittenContent
<1>4. /\ file' \in Files /\ file'[f] = NewContent(c)
      /\ \A g \in {"runtime", "session", "history"} : g # f => file'[g] = file[g]
  <2>1. file \in Files
    BY DEF TypeInv, ProcessOK
  <2>2. CASE p.step \in Runtime \cup {"block"}
    BY <1>1, <1>3, <2>1, <2>2, ReplacedFile
  <2>3. CASE p.step \in Current \cup {"start"}
    BY <1>1, <1>3, <2>1, <2>3, ReplacedFile
  <2>4. CASE p.step \in History
    BY <1>1, <1>3, <2>1, <2>4, ReplacedFile
  <2> QED
    BY <1>2, <2>2, <2>3, <2>4 DEF Blind
<1>5. m \in Mines /\ (m # None => m \in Session /\ m.id = c)
  <2>1. f = "session" => p.step \in Current \cup {"start"}
    BY <1>2, <1>3 DEF Blind
  <2> QED
    BY <1>3, <2>1 DEF Mines
<1>6. Moves(c, After(c), None, m, p.outcome, p.subject)
  <2>1. After(c) \in Steps
    BY <1>1, AfterStep
  <2> HIDE DEF m
  <2> QED
    BY <1>1, <1>5, <2>1, FieldsOfProcess, MovedProcess
<1>7. HandsFit(c, After(c), None, m)
  <2>1. After(c) \in History => m \in Session /\ m.id = c
    BY <1>1, <1>3, AfterStep
  <2> HIDE DEF m
  <2> QED
    BY <1>5, <2>1 DEF HandsFit
<1>8. TypeInv'
  <2> HIDE DEF m
  <2>1. file' \in Files /\ c <= launched
    BY <1>2, <1>4, FieldsOfProcess DEF Runtime, Current, History, Blind
  <2> QED
    BY <1>6, <1>7, <2>1, HandlersKeep, MoveTypes DEF Write
<1> QED
  BY <1>1, <1>2, <1>4, <1>6, <1>8 DEF Write, Writing

\* A failed read sends a session that was going well to the handler, and ends
\* every other command; nothing else changes.
LEMMA ReadRaisesMoves ==
  ASSUME TypeInv, NEW c \in Commands, ReadRaises(c)
  PROVE  LET p == proc[c] IN
         /\ p.copy = None
         /\ \/ Reading(c) /\ Unreadable(FileOf(p.step))
            \/ p.step = "guards" /\ Unreadable("history")
            \/ p.step = "report" /\ (Unreadable("session") \/ Unreadable("history"))
         /\ \/ p.outcome = "ok" /\ Moves(c, "error", None, p.mine, "plain", p.subject)
            \/ Moves(c, "dead", None, p.mine, p.outcome, p.subject)
         /\ UNCHANGED <<file, kill, unacked>>
         /\ TypeInv'
<1> DEFINE p == proc[c]
<1>1. p.copy = None /\ p.step \in Steps
  BY EmptyHands, FieldsOfProcess
     DEF ReadRaises, Reading, Runtime, Current, History
<1>2. {"error", "dead"} \subseteq Steps \ History /\ "plain" \in Outcomes
  BY DEF Steps, Runtime, Over, History, Outcomes, Failures
<1>3. \/ p.outcome = "ok" /\ Moves(c, "error", None, p.mine, "plain", p.subject)
      \/ Moves(c, "dead", None, p.mine, p.outcome, p.subject)
  BY <1>1, <1>2, FieldsOfProcess, MovedProcess DEF ReadRaises
<1>4. HandsFit(c, "error", None, p.mine) /\ HandsFit(c, "dead", None, p.mine)
  BY <1>2, HandsOfType DEF HandsFit
<1>5. c <= launched
  BY HandlersKeep
<1>6. TypeInv'
  BY <1>3, <1>4, <1>5, HandlersKeep, MoveTypes DEF ReadRaises
<1> QED
  BY <1>1, <1>3, <1>6 DEF ReadRaises

\* An engine that returns or raises.
LEMMA EngineMoves ==
  ASSUME TypeInv, NEW c \in Commands, NEW outcome \in {"ok"} \cup Failures, EngineEnds(c, outcome)
  PROVE  LET p == proc[c]
             s == IF outcome # "ok" THEN "error"
                  ELSE IF p.kind = "paper" THEN "update" ELSE "heartbeat"
         IN
         /\ p.step = "engine" /\ p.copy = None
         /\ Moves(c, s, None, p.mine, outcome, p.subject)
         /\ unacked' = IF outcome \in Critical THEN unacked \cup {c} ELSE unacked
         /\ UNCHANGED <<file, kill>>
         /\ TypeInv'
<1> DEFINE p == proc[c]
           s == IF outcome # "ok" THEN "error"
                ELSE IF p.kind = "paper" THEN "update" ELSE "heartbeat"
<1>1. p.step = "engine" /\ p.copy = None
  BY EmptyHands DEF EngineEnds, Runtime, Current, History
<1>2. s \in Steps \ History /\ outcome \in Outcomes
  BY DEF Steps, Runtime, Current, History, Outcomes
<1>3. proc' = [proc EXCEPT ![c].outcome = outcome, ![c].step = s]
  BY DEF EngineEnds
<1> HIDE DEF s
<1>4. Moves(c, s, None, p.mine, outcome, p.subject)
  BY <1>1, <1>2, <1>3, FieldsOfProcess, MovedProcess
<1>5. HandsFit(c, s, None, p.mine)
  BY <1>2, HandsOfType DEF HandsFit
<1>6. c <= launched /\ unacked' \subseteq 1..launched
  BY HandlersKeep, FieldsOfProcess DEF EngineEnds, TypeInv, TypeOK, Commands
<1>7. TypeInv'
  BY <1>4, <1>5, <1>6, HandlersKeep, MoveTypes DEF EngineEnds
<1> QED
  BY <1>1, <1>4, <1>7 DEF EngineEnds, s

\* The handler's question whether the error was critical.
LEMMA ArmMoves ==
  ASSUME TypeInv, NEW c \in Commands, Arm(c)
  PROVE  LET p == proc[c] IN
         /\ p.step = "arm"
         /\ Moves(c, "end", None, p.mine, p.outcome, p.subject)
         /\ kill' = (kill \/ p.outcome \in Critical)
         /\ UNCHANGED <<file, unacked>>
         /\ TypeInv'
<1> DEFINE p == proc[c]
<1>1. "end" \in Steps \ History
  BY DEF Steps, Current, History
<1>2. Moves(c, "end", None, p.mine, p.outcome, p.subject)
  BY <1>1, FieldsOfProcess, MovedProcess DEF Arm, Goto
<1>3. HandsFit(c, "end", None, p.mine)
  BY <1>1, HandsOfType DEF HandsFit
<1>4. kill' \in BOOLEAN /\ c <= launched
  BY HandlersKeep DEF Arm
<1>5. TypeInv'
  BY <1>2, <1>3, <1>4, HandlersKeep, MoveTypes DEF Arm
<1> QED
  BY <1>2, <1>5 DEF Arm

\* The daily report.
LEMMA ReportMoves ==
  ASSUME TypeInv, NEW c \in Commands, Report(c)
  PROVE  LET p == proc[c] IN
         /\ p.step = "report" /\ file.session \in Session /\ p.copy = None
         /\ Moves(c, "done", None, p.mine, p.outcome, file.session.id)
         /\ UNCHANGED <<file, kill, unacked>>
         /\ TypeInv'
<1> DEFINE p == proc[c]
<1>1. p.copy = None
  BY EmptyHands DEF Report, Runtime, Current, History
<1>2. file.session \in Session /\ file.session.id \in Subjects
  BY DEF Report, TypeInv, TypeOK, Session, Subjects
<1>3. "done" \in Steps \ History
  BY DEF Steps, Over, History
<1>4. Moves(c, "done", None, p.mine, p.outcome, file.session.id)
  BY <1>1, <1>2, <1>3, FieldsOfProcess, MovedProcess DEF Report
<1>5. HandsFit(c, "done", None, p.mine)
  BY <1>3, HandsOfType DEF HandsFit
<1>6. c <= launched
  BY HandlersKeep
<1>7. TypeInv'
  BY <1>2, <1>4, <1>5, <1>6, HandlersKeep, MoveTypes DEF Report
<1> QED
  BY <1>1, <1>2, <1>4, <1>7 DEF Report

\* A process that dies, in a write perhaps.
LEMMA CrashMoves ==
  ASSUME TypeInv, NEW c \in Commands, Crash(c)
  PROVE  LET p == proc[c]  f == FileOf(p.step) IN
         /\ c \in Running
         /\ Moves(c, "crashed", None, None, p.outcome, p.subject)
         /\ \/ file' = file
            \/ /\ Writing(c) /\ file' \in Files
               /\ file'[f] = Torn
               /\ \A g \in {"runtime", "session", "history"} : g # f => file'[g] = file[g]
         /\ UNCHANGED <<kill, unacked>>
         /\ TypeInv'
<1> DEFINE p == proc[c]
           f == FileOf(p.step)
<1>1. "crashed" \in Steps \ History
  BY DEF Steps, Over, History
<1>2. Moves(c, "crashed", None, None, p.outcome, p.subject)
  BY <1>1, FieldsOfProcess, MovedProcess DEF Crash
<1>3. HandsFit(c, "crashed", None, None)
  BY <1>1 DEF HandsFit
<1>4. \/ file' = file
      \/ /\ Writing(c) /\ file' \in Files
         /\ file'[f] = Torn
         /\ \A g \in {"runtime", "session", "history"} : g # f => file'[g] = file[g]
  <2>1. CASE Writing(c) /\ file' = [file EXCEPT ![f] = Torn]
    <3>1. f \in {"runtime", "session", "history"}
      BY <2>1, AfterStep, FieldsOfProcess, StepKinds DEF Blind
    <3> HIDE DEF f
    <3> QED
      BY <2>1, <3>1, ReplacedFile DEF TypeInv, ProcessOK
  <2> QED
    BY <2>1 DEF Crash
<1>5. file' \in Files /\ c <= launched
  BY <1>4, HandlersKeep DEF TypeInv, ProcessOK
<1>6. crashes' \in 0..MaxCrashes
  BY ControlAssumption DEF Crash, TypeInv, TypeOK
<1>7. TypeInv'
  BY <1>2, <1>3, <1>5, <1>6, HandlersKeep, MoveTypes DEF Crash
<1> QED
  BY <1>2, <1>4, <1>7 DEF Crash

\* LaunchPaper and LaunchDemo start at a step that reads or blocks.
LEMMA LaunchMoves ==
  ASSUME TypeInv, LaunchPaper \/ LaunchDemo
  PROVE  \E kind \in {"paper", "demo"}, s \in {"guards", "block", "started_at"} :
           /\ Start(kind, s)
           /\ proc[launched'] = Idle
           /\ proc'[launched'] = [Idle EXCEPT !.kind = kind, !.step = s]
           /\ launched' = launched + 1 /\ launched' \in Commands
           /\ \A d \in Commands : d # launched' => proc'[d] = proc[d]
           /\ UNCHANGED <<file, kill, unacked>>
           /\ TypeInv'
<1>1. \E kind \in {"paper", "demo"}, s \in {"guards", "block", "started_at"} : Start(kind, s)
  BY DEF LaunchPaper, LaunchDemo
<1>2. PICK kind \in {"paper", "demo"}, s \in {"guards", "block", "started_at"} : Start(kind, s)
  BY <1>1
<1>3. kind \in Kinds /\ s \in Steps \ History
  BY DEF Kinds, Steps, Runtime, Blind, History
<1> QED
  BY <1>2, <1>3, StartMoves DEF Start

\* Every step keeps the files whole or torn and the hands fitting.
LEMMA TypeStep ==
  ASSUME TypeInv, [Next]_vars
  PROVE  TypeInv'
<1>1. CASE UNCHANGED vars
  BY <1>1 DEF vars, TypeInv, TypeOK, ProcessOK
<1>2. CASE LaunchPaper \/ LaunchDemo
  BY <1>2, LaunchMoves
<1>3. CASE KillOff
  BY <1>3 DEF KillOff, TypeInv, TypeOK, ProcessOK
<1>4. ASSUME NEW c \in Commands,
             \/ PassGuards(c) \/ Read(c) \/ Write(c) \/ ReadRaises(c)
             \/ (\E outcome \in {"ok"} \cup Failures : EngineEnds(c, outcome))
             \/ Arm(c) \/ Report(c) \/ Crash(c)
      PROVE  TypeInv'
  BY <1>4, PassGuardsMoves, ReadMoves, WriteMoves, ReadRaisesMoves, EngineMoves,
     ArmMoves, ReportMoves, CrashMoves
<1> QED
  BY <1>1, <1>2, <1>3, <1>4 DEF Next

\* The files before the first command.
LEMMA TypeInit == Init => TypeInv
<1> SUFFICES ASSUME Init PROVE TypeInv
  OBVIOUS
<1>1. DefaultState \in State
  BY DEF DefaultState, State
<1>2. [id \in {} |-> None] \in SomeHistory
  <2>1. [id \in {} |-> None] \in [{} -> Entry] /\ {} \in SUBSET Commands
    OBVIOUS
  <2> QED
    BY <2>1 DEF SomeHistory
<1>3. Idle \in Process /\ Idle.step \notin History
  BY DEF Idle, Process, Steps, Over, Kinds, Copies, Mines, Outcomes, Subjects, History
<1>4. file \in Files
  BY <1>1, <1>2 DEF Init, Files
<1>5. ProcessOK
  BY <1>3, <1>4 DEF Init, ProcessOK
<1>6. TypeOK
  <2>1. \A c \in Commands :
          proc[c].copy = None /\ proc[c].mine = None /\ proc[c].subject = NoSession
    BY DEF Init, Idle
  <2>2. launched \in 0..MaxCommands /\ crashes \in 0..MaxCrashes /\ kill \in BOOLEAN
    <3>1. launched = 0 /\ crashes = 0 /\ kill \in BOOLEAN
      BY DEF Init
    <3>2. MaxCommands \in Nat /\ MaxCrashes \in Nat
      BY ControlAssumption
    <3> QED
      BY <3>1, <3>2
  <2>3. overlapped \subseteq 1..launched /\ unacked \subseteq 1..launched
    BY DEF Init
  <2>4. /\ file.runtime \in State \cup {Torn} /\ file.session \in Session \cup {None, Torn}
        /\ file.history = Torn \/ file.history \in SomeHistory
    BY <1>4 DEF Files
  <2> QED
    BY <2>1, <2>2, <2>3, <2>4 DEF TypeOK
<1> QED
  BY <1>5, <1>6 DEF TypeInv

\* The inductive form: types, with the shape of files and processes.
THEOREM TypeInvariance == Spec => []TypeInv
<1> QED
  BY TypeInit, TypeStep, PTL DEF Spec

\* TypeOK as the run checks it: no interleaving, torn write or crash puts a
\* document of one kind into another file, or another session's in hand.
THEOREM TypeCorrect == Spec => []TypeOK
<1>1. TypeInv => TypeOK
  BY DEF TypeInv
<1> QED
  BY <1>1, TypeInvariance, PTL

-----------------------------------------------------------------------------
(* A session that has not ended                                            *)

\* The steps up to the engine's end.
EarlySteps == {"idle", "guards", "block", "started_at", "start", "enter", "current",
               "running", "engine"}
StillRunning(c, entries) == c \in DOMAIN entries => entries[c].status = "RUNNING"

\* Until its engine is over, no file, no session dict in hand and no copy of the
\* history in anybody's hand says that a session ended.
EndInv ==
  \A c \in Commands : proc[c].step \in EarlySteps =>
    /\ file.session \notin {None, Torn} => file.session.id # c \/ file.session.status = "RUNNING"
    /\ file.history # Torn => StillRunning(c, file.history)
    /\ proc[c].mine # None => proc[c].mine.status = "RUNNING"
    /\ \A d \in Commands :
         proc[d].step \in History /\ proc[d].copy # None => StillRunning(c, proc[d].copy)

\* A step that writes no file and takes no history in hand keeps that.
LEMMA EndKept ==
  ASSUME TypeInv, EndInv, NEW c \in Commands, NEW s, NEW k, NEW o, NEW t,
         Moves(c, s, k, proc[c].mine, o, t), file' = file,
         s \in EarlySteps => proc[c].step \in EarlySteps,
         s \in History /\ k # None => file.history # Torn /\ k = file.history
  PROVE  EndInv'
<1> SUFFICES ASSUME NEW e \in Commands, proc'[e].step \in EarlySteps
             PROVE  /\ proc[e].step \in EarlySteps
                    /\ proc'[e].mine # None => proc'[e].mine.status = "RUNNING"
                    /\ \A d \in Commands :
                         proc'[d].step \in History /\ proc'[d].copy # None
                           => StillRunning(e, proc'[d].copy)
  BY DEF EndInv
<1>1. proc[e].step \in EarlySteps /\ proc'[e].mine = proc[e].mine
  BY DEF Moves
<1>2. ASSUME NEW d \in Commands, proc'[d].step \in History, proc'[d].copy # None
      PROVE  StillRunning(e, proc'[d].copy)
  <2>1. CASE d = c
    BY <1>1, <1>2, <2>1 DEF Moves, EndInv
  <2>2. CASE d # c
    BY <1>1, <1>2, <2>2 DEF Moves, EndInv
  <2> QED
    BY <2>1, <2>2
<1> QED
  BY <1>1, <1>2 DEF EndInv

\* What a write says of a session that has not ended.
LEMMA WriteKeepsRunning ==
  ASSUME TypeInv, EndInv, NEW c \in Commands, Write(c), NEW e \in Commands,
         proc'[e].step \in EarlySteps
  PROVE  /\ proc[e].step \in EarlySteps
         /\ proc[c].step \in Current \cup {"start"} =>
              NewContent(c).id # e \/ NewContent(c).status = "RUNNING"
         /\ proc[c].step \in History => StillRunning(e, NewContent(c))
<1> DEFINE p == proc[c]
<1>1. HandsFit(c, p.step, p.copy, p.mine) /\ Writing(c)
  BY HandsOfType DEF Write
<1>2. Moves(c, After(c), None, IF FileOf(p.step) = "session" THEN NewContent(c) ELSE None,
            p.outcome, p.subject)
  BY WriteMoves
<1>3. /\ e = c => p.step \in EarlySteps \ {"idle", "guards", "engine"}
      /\ proc[e].step \in EarlySteps
  <2>1. CASE e = c
    <3>1. After(c) \in EarlySteps
      BY <1>2, <2>1 DEF Moves
    <3>2. p.step \in Runtime \cup Current \cup History \cup Blind
      BY <1>1, AfterStep
    <3> QED
      BY <1>1, <2>1, <3>1, <3>2, AfterStep
         DEF EarlySteps, Runtime, Current, History, Blind
  <2>2. CASE e # c
    BY <1>2, <2>2 DEF Moves
  <2> QED
    BY <2>1, <2>2
<1>4. CASE p.step = "start"
  <2>1. NewContent(c).status = "RUNNING" /\ p.step \notin History
    BY <1>4 DEF NewContent, Runtime, Current, History
  <2> QED
    BY <1>3, <2>1
<1>5. CASE p.step \in Current
  <2>1. NewContent(c).id = c /\ p.step \notin History
    BY <1>1, <1>5, WrittenContent, StepKinds
  <2>2. e # c
    BY <1>3, <1>5 DEF Current, EarlySteps
  <2> QED
    BY <1>3, <2>1, <2>2
<1>6. CASE p.step \in History
  <2>1. p.step \notin Runtime \cup Current \cup Blind
    BY <1>6 DEF Current, Runtime, History, Blind
  <2>2. p.copy \in SomeHistory /\ p.mine \in Session /\ p.mine.id = c /\ p.copy # None
    BY <1>1, <1>6, <2>1 DEF Writing, HandsFit
  <2>3. NewContent(c) = Upsert(p.copy, p.mine)
    BY <1>6, <2>1 DEF NewContent, Blind
  <2>4. StillRunning(e, p.copy)
    BY <1>3, <1>6, <2>2 DEF EndInv
  <2>5. e = c => p.mine.status = "RUNNING"
    BY <1>3, <2>2, DocumentAssumption DEF EndInv
  <2>6. StillRunning(e, Upsert(p.copy, p.mine))
    <3> DEFINE h == p.copy
               m == p.mine
    <3>1. /\ DOMAIN Upsert(h, m) = DOMAIN h \cup {c}
          /\ Upsert(h, m)[c] = [status |-> m.status, window |-> m.window]
          /\ \A d \in DOMAIN h : d # c => Upsert(h, m)[d] = h[d]
      BY <2>2, UpsertType, SMTT(30)
    <3> QED
      BY <2>4, <2>5, <3>1 DEF StillRunning
  <2> QED
    BY <1>3, <2>1, <2>3, <2>6 DEF Blind
<1>7. CASE p.step \notin History \cup Current \cup {"start"}
  BY <1>3, <1>7
<1> QED
  BY <1>4, <1>5, <1>6, <1>7

\* Every step keeps it: other commands never change this session's status.
LEMMA EndStep ==
  ASSUME TypeInv, EndInv, [Next]_vars
  PROVE  EndInv'
<1>1. CASE UNCHANGED vars
  BY <1>1 DEF vars, EndInv
<1>2. CASE LaunchPaper \/ LaunchDemo
  <2>1. PICK kind \in {"paper", "demo"}, s \in {"guards", "block", "started_at"} :
          /\ proc[launched'] = Idle
          /\ proc'[launched'] = [Idle EXCEPT !.kind = kind, !.step = s]
          /\ launched' = launched + 1 /\ launched' \in Commands
          /\ \A d \in Commands : d # launched' => proc'[d] = proc[d]
          /\ UNCHANGED <<file, kill, unacked>>
    BY <1>2, LaunchMoves
  <2>3. /\ proc'[launched'].mine = None
        /\ proc'[launched'].copy = None /\ proc[launched'].step = "idle"
    BY <2>1 DEF Idle
  <2>4. ASSUME NEW d \in Commands
        PROVE  /\ proc'[d].copy # None => proc'[d] = proc[d]
               /\ proc'[d].mine # None => proc'[d] = proc[d]
               /\ proc'[d].step \in EarlySteps => proc[d].step \in EarlySteps
    BY <2>1, <2>3 DEF EarlySteps
  <2> QED
    BY <2>1, <2>4 DEF EndInv
<1>3. CASE KillOff
  BY <1>3 DEF KillOff, EndInv
<1>4. ASSUME NEW c \in Commands, Write(c)
      PROVE  EndInv'
  <2> DEFINE p == proc[c]
             m == IF FileOf(p.step) = "session" THEN NewContent(c) ELSE None
  <2>1. /\ p.step \in Runtime \cup Current \cup History \cup Blind /\ p.step \in Steps
        /\ file'[FileOf(p.step)] = NewContent(c)
        /\ \A g \in {"runtime", "session", "history"} : g # FileOf(p.step) => file'[g] = file[g]
        /\ Moves(c, After(c), None, m, p.outcome, p.subject)
    BY <1>4, WriteMoves, FieldsOfProcess
  <2>2. /\ p.step \in Runtime \cup {"block"} => FileOf(p.step) = "runtime"
        /\ p.step \in Current \cup {"start"} => FileOf(p.step) = "session"
        /\ p.step \in History => FileOf(p.step) = "history"
    BY <2>1, StepKinds
  <2> HIDE DEF m
  <2> SUFFICES ASSUME NEW e \in Commands, proc'[e].step \in EarlySteps
               PROVE  /\ file'.session \notin {None, Torn} =>
                           file'.session.id # e \/ file'.session.status = "RUNNING"
                      /\ file'.history # Torn => StillRunning(e, file'.history)
                      /\ proc'[e].mine # None => proc'[e].mine.status = "RUNNING"
                      /\ \A d \in Commands :
                           proc'[d].step \in History /\ proc'[d].copy # None
                             => StillRunning(e, proc'[d].copy)
    BY DEF EndInv
  <2>3. /\ proc[e].step \in EarlySteps
        /\ p.step \in Current \cup {"start"} =>
             NewContent(c).id # e \/ NewContent(c).status = "RUNNING"
        /\ p.step \in History => StillRunning(e, NewContent(c))
    BY <1>4, WriteKeepsRunning
  <2>4. file'.session \notin {None, Torn} => file'.session.id # e \/ file'.session.status = "RUNNING"
    BY <2>1, <2>2, <2>3 DEF EndInv, Blind
  <2>5. file'.history # Torn => StillRunning(e, file'.history)
    BY <2>1, <2>2, <2>3 DEF EndInv, Blind
  <2>6. proc'[e].mine # None => proc'[e].mine.status = "RUNNING"
    <3>1. CASE e # c
      BY <2>1, <2>3, <3>1 DEF Moves, EndInv
    <3>2. CASE e = c
      <4>1. m # None => p.step \in Current \cup {"start"} /\ m = NewContent(c)
        BY <2>1, <2>2 DEF m, Blind
      <4>2. p.step \in Current \cup {"start"} => NewContent(c).id = c
        BY <1>4, WrittenContent DEF Write
      <4> QED
        BY <2>1, <2>3, <3>2, <4>1, <4>2 DEF Moves
    <3> QED
      BY <3>1, <3>2
  <2>7. \A d \in Commands : proc'[d].step \in History /\ proc'[d].copy # None
          => StillRunning(e, proc'[d].copy)
    BY <2>1, <2>3 DEF Moves, EndInv
  <2> QED
    BY <2>4, <2>5, <2>6, <2>7
<1>5. ASSUME NEW c \in Commands, Crash(c)
      PROVE  EndInv'
  <2>1. /\ Moves(c, "crashed", None, None, proc[c].outcome, proc[c].subject)
        /\ \A g \in {"runtime", "session", "history"} : file'[g] = file[g] \/ file'[g] = Torn
    BY <1>5, CrashMoves
  <2>2. "crashed" \notin EarlySteps
    BY DEF EarlySteps
  <2> QED
    BY <2>1, <2>2 DEF Moves, EndInv
<1>6. ASSUME NEW c \in Commands, PassGuards(c) PROVE EndInv'
  <2>1. {"guards", "started_at", "block"} \subseteq EarlySteps
    BY DEF EarlySteps
  <2> QED
    BY <1>6, <2>1, PassGuardsMoves, EndKept
<1>7. ASSUME NEW c \in Commands, Read(c) PROVE EndInv'
  <2> DEFINE p == proc[c]
             f == FileOf(p.step)
  <2>1. /\ p.step \in Runtime \cup Current \cup History /\ file[f] # Torn
        /\ UNCHANGED file
        /\ \/ /\ p.step \in Current
              /\ Moves(c, Skipped(p), None, p.mine, p.outcome, p.subject)
           \/ Moves(c, p.step, file[f], p.mine, p.outcome, p.subject)
    BY <1>7, ReadMoves
  <2>2. p.step \in History => f = "history"
    BY FieldsOfProcess, StepKinds
  <2>3. p.step \in Current => Skipped(p) \notin EarlySteps \cup History
    BY DEF Skipped, Current, EarlySteps, History
  <2> QED
    BY <2>1, <2>2, <2>3, EndKept
<1>8. ASSUME NEW c \in Commands, ReadRaises(c) PROVE EndInv'
  <2>1. {"error", "dead"} \cap (EarlySteps \cup History) = {}
    BY DEF EarlySteps, History
  <2> QED
    BY <1>8, <2>1, ReadRaisesMoves, EndKept
<1>9. ASSUME NEW c \in Commands, NEW outcome \in {"ok"} \cup Failures, EngineEnds(c, outcome)
      PROVE  EndInv'
  <2>1. {"error", "update", "heartbeat"} \cap (EarlySteps \cup History) = {}
    BY DEF EarlySteps, History
  <2> QED
    BY <1>9, <2>1, EngineMoves, EndKept
<1>10. ASSUME NEW c \in Commands, Arm(c) PROVE EndInv'
  <2>1. {"end"} \cap (EarlySteps \cup History) = {}
    BY DEF EarlySteps, History
  <2> QED
    BY <1>10, <2>1, ArmMoves, EndKept
<1>11. ASSUME NEW c \in Commands, Report(c) PROVE EndInv'
  <2>1. {"done"} \cap (EarlySteps \cup History) = {}
    BY DEF EarlySteps, History
  <2> QED
    BY <1>11, <2>1, ReportMoves, EndKept
<1> QED
  BY <1>1, <1>2, <1>3, <1>4, <1>5, <1>6, <1>7, <1>8, <1>9, <1>10, <1>11 DEF Next

\* No file says a session ended while its engine runs, for any number of
\* commands that overwrite each other's files and crash in doing so.
THEOREM EndsInOrder == Spec => []NoPrematureEnd
<1>1. Init => EndInv
  BY DEF Init, EndInv, Idle, StillRunning
<1>2. EndInv => NoPrematureEnd
  BY DEF EndInv, NoPrematureEnd, EarlySteps, StillRunning
<1> QED
  BY <1>1, <1>2, EndStep, TypeInvariance, PTL DEF Spec

-----------------------------------------------------------------------------
(* A command that runs alone                                               *)

\* What a command's step says of its engine's outcome.
OutcomeFits(kind, step, outcome) ==
  /\ step \in EarlySteps => outcome = "none"
  /\ step \in {"update", "updateEntry", "heartbeat", "stopped", "report"} => outcome = "ok"
  /\ step \in {"error", "failed", "arm"} => outcome \in Failures
  /\ step \in {"end", "endEntry"} => outcome # "none"
  /\ step = "raised" => outcome \in Failures
  /\ step = "done" => outcome \in {"none", "ok"}
  /\ step \in {"update", "updateEntry"} => kind = "paper"

OutcomeInv ==
  \A c \in Commands : OutcomeFits(proc[c].kind, proc[c].step, proc[c].outcome)

\* Commands that run side by side are known to.
CompanyInv ==
  /\ \A c, d \in Running : c # d => ~Alone(c)
  /\ launched > 0 /\ Alone(launched) => Running \subseteq {launched}

\* A handler moves one given command that is running.
LEMMA HandlerMoves ==
  ASSUME TypeInv, NEW c \in Commands,
         \/ PassGuards(c) \/ Read(c) \/ Write(c) \/ ReadRaises(c)
         \/ (\E outcome \in {"ok"} \cup Failures : EngineEnds(c, outcome))
         \/ Arm(c) \/ Report(c) \/ Crash(c)
  PROVE  /\ c \in Running
         /\ launched' = launched /\ overlapped' = overlapped
         /\ \A d \in Commands : d # c => proc'[d] = proc[d]
         /\ Running' \subseteq Running
<1>1. c \in Running
  BY AfterStep, StepKinds
     DEF PassGuards, Read, Write, ReadRaises, EngineEnds, Arm, Report, Crash, Reading,
         Writing, Running, Over, Runtime, Current, History
<1>2. launched' = launched /\ overlapped' = overlapped
  BY HandlersKeep
<1>3. \A d \in Commands : d # c => proc'[d] = proc[d]
  BY PassGuardsMoves, ReadMoves, WriteMoves, ReadRaisesMoves, EngineMoves, ArmMoves,
     ReportMoves, CrashMoves DEF Moves
<1> QED
  BY <1>1, <1>2, <1>3 DEF Running

\* Every step keeps the outcome in line with the step.
LEMMA OutcomeStep ==
  ASSUME TypeInv, OutcomeInv, [Next]_vars
  PROVE  OutcomeInv'
<1>1. CASE UNCHANGED vars
  BY <1>1 DEF vars, OutcomeInv
<1>2. CASE LaunchPaper \/ LaunchDemo
  <2>1. PICK kind \in {"paper", "demo"}, s \in {"guards", "block", "started_at"} :
          /\ proc'[launched'] = [Idle EXCEPT !.kind = kind, !.step = s]
          /\ \A d \in Commands : d # launched' => proc'[d] = proc[d]
    BY <1>2, LaunchMoves
  <2>2. /\ proc'[launched'].kind = kind /\ proc'[launched'].step = s
        /\ proc'[launched'].outcome = "none"
    BY <2>1 DEF Idle
  <2>3. OutcomeFits(kind, s, "none")
    BY DEF OutcomeFits, EarlySteps
  <2> QED
    BY <2>1, <2>2, <2>3 DEF OutcomeInv
<1>3. CASE KillOff
  BY <1>3 DEF KillOff, OutcomeInv
<1>4. ASSUME NEW c \in Commands, NEW s, NEW k, NEW m, NEW o, NEW t,
             Moves(c, s, k, m, o, t), OutcomeFits(proc[c].kind, s, o)
      PROVE  OutcomeInv'
  BY <1>4 DEF Moves, OutcomeInv
<1>5. ASSUME NEW c \in Commands
      PROVE  OutcomeFits(proc[c].kind, proc[c].step, proc[c].outcome)
  BY DEF OutcomeInv
<1>6. ASSUME NEW c \in Commands, PassGuards(c) PROVE OutcomeInv'
  <2>1. PICK s \in {"started_at", "block"} :
          Moves(c, s, None, proc[c].mine, proc[c].outcome, proc[c].subject)
    BY <1>6, PassGuardsMoves
  <2>2. OutcomeFits(proc[c].kind, s, proc[c].outcome)
    BY <1>5, <1>6 DEF PassGuards, OutcomeFits, EarlySteps
  <2> QED
    BY <1>4, <2>1, <2>2
<1>7. ASSUME NEW c \in Commands, Read(c) PROVE OutcomeInv'
  <2> DEFINE p == proc[c]
  <2>1. CASE Moves(c, p.step, file[FileOf(p.step)], p.mine, p.outcome, p.subject)
    BY <1>4, <1>5, <2>1
  <2>2. CASE p.step \in Current /\ Moves(c, Skipped(p), None, p.mine, p.outcome, p.subject)
    <3>1. p.outcome \in Outcomes
      BY FieldsOfProcess
    <3>2. OutcomeFits(p.kind, Skipped(p), p.outcome)
      BY <1>5, <2>2, <3>1 DEF Skipped, Current, OutcomeFits, EarlySteps, Outcomes
    <3> QED
      BY <1>4, <2>2, <3>2
  <2> QED
    BY <1>7, <2>1, <2>2, ReadMoves
<1>8. ASSUME NEW c \in Commands, Write(c) PROVE OutcomeInv'
  <2> DEFINE p == proc[c]
             m == IF FileOf(p.step) = "session" THEN NewContent(c) ELSE None
  <2>1. Moves(c, After(c), None, m, p.outcome, p.subject)
    BY <1>8, WriteMoves
  <2>2. /\ p.step \in Runtime \cup Current \cup History \cup Blind
        /\ p.outcome \in Outcomes
        /\ Writing(c)
    BY <1>8, WriteMoves, FieldsOfProcess DEF Write
  <2>3. OutcomeFits(p.kind, After(c), p.outcome)
    BY <1>5, <2>2, AfterStep
       DEF OutcomeFits, EarlySteps, Runtime, Current, History, Blind, Outcomes
  <2> HIDE DEF m
  <2> QED
    BY <1>4, <2>1, <2>3
<1>9. ASSUME NEW c \in Commands, ReadRaises(c) PROVE OutcomeInv'
  <2>1. OutcomeFits(proc[c].kind, "error", "plain")
        /\ OutcomeFits(proc[c].kind, "dead", proc[c].outcome)
    BY DEF OutcomeFits, EarlySteps, Failures
  <2> QED
    BY <1>4, <1>9, <2>1, ReadRaisesMoves
<1>10. ASSUME NEW c \in Commands, NEW outcome \in {"ok"} \cup Failures, EngineEnds(c, outcome)
       PROVE  OutcomeInv'
  <2>1. OutcomeFits(proc[c].kind,
          IF outcome # "ok" THEN "error" ELSE IF proc[c].kind = "paper" THEN "update"
          ELSE "heartbeat", outcome)
    BY DEF OutcomeFits, EarlySteps, Failures
  <2> QED
    BY <1>4, <1>10, <2>1, EngineMoves
<1>11. ASSUME NEW c \in Commands, Arm(c) PROVE OutcomeInv'
  <2>1. OutcomeFits(proc[c].kind, "end", proc[c].outcome)
    BY <1>5, <1>11 DEF Arm, OutcomeFits, EarlySteps, Failures, Critical
  <2> QED
    BY <1>4, <1>11, <2>1, ArmMoves
<1>12. ASSUME NEW c \in Commands, Report(c) PROVE OutcomeInv'
  <2>1. OutcomeFits(proc[c].kind, "done", proc[c].outcome)
    BY <1>5, <1>12 DEF Report, OutcomeFits, EarlySteps
  <2> QED
    BY <1>4, <1>12, <2>1, ReportMoves
<1>13. ASSUME NEW c \in Commands, Crash(c) PROVE OutcomeInv'
  <2>1. OutcomeFits(proc[c].kind, "crashed", proc[c].outcome)
    BY DEF OutcomeFits, EarlySteps
  <2> QED
    BY <1>4, <1>13, <2>1, CrashMoves
<1> QED
  BY <1>1, <1>2, <1>3, <1>6, <1>7, <1>8, <1>9, <1>10, <1>11, <1>12, <1>13 DEF Next

\* Every step keeps the record of commands that run side by side.
LEMMA CompanyStep ==
  ASSUME TypeInv, CompanyInv, [Next]_vars
  PROVE  CompanyInv'
<1>1. CASE UNCHANGED vars
  BY <1>1 DEF vars, CompanyInv, Running, Alone
<1>2. CASE LaunchPaper \/ LaunchDemo
  <2>1. PICK kind \in {"paper", "demo"}, s \in {"guards", "block", "started_at"} :
          /\ Start(kind, s)
          /\ launched' \in Commands
          /\ \A d \in Commands : d # launched' => proc'[d] = proc[d]
    BY <1>2, LaunchMoves
  <2>2. Running' \subseteq Running \cup {launched'}
    BY <2>1 DEF Running
  <2>3. CASE Running = {}
    BY <2>2, <2>3 DEF CompanyInv
  <2>4. CASE Running # {}
    <3>1. overlapped' = overlapped \cup Running \cup {launched'}
      BY <2>1, <2>4 DEF Start
    <3> QED
      BY <2>2, <3>1 DEF CompanyInv, Alone
  <2> QED
    BY <2>3, <2>4
<1>3. CASE KillOff
  BY <1>3 DEF KillOff, CompanyInv, Running, Alone
<1>4. ASSUME NEW c \in Commands,
             \/ PassGuards(c) \/ Read(c) \/ Write(c) \/ ReadRaises(c)
             \/ (\E outcome \in {"ok"} \cup Failures : EngineEnds(c, outcome))
             \/ Arm(c) \/ Report(c) \/ Crash(c)
      PROVE  CompanyInv'
  BY <1>4, HandlerMoves DEF CompanyInv, Alone
<1> QED
  BY <1>1, <1>2, <1>3, <1>4 DEF Next

\* The history entry a command has earned when it is over.
Recorded(c) ==
  [status |-> IF proc[c].outcome = "kill" THEN "KILLED" ELSE "STOPPED",
   window |-> proc[c].kind = "paper" /\ proc[c].outcome = "ok"]

AfterStart == {"start", "enter", "current", "running", "engine", "update", "updateEntry",
               "heartbeat", "stopped", "end", "endEntry", "error", "failed", "arm", "report"}

\* What a command that runs alone may rely on: files it has read or written
\* stay whole, the current session is its own and tells what it knows so far,
\* and the copies in hand are what the files say.
AloneFits(c) ==
  LET p == proc[c] IN
  /\ p.step \in AfterStart => file.runtime # Torn
  /\ p.step \in AfterStart \ {"start"} =>
       /\ file.session \in Session /\ file.session.id = c
       /\ file.session.window = (Recorded(c).window /\ p.step # "update")
  /\ p.step \in AfterStart \ {"start", "enter"} => file.history # Torn
  /\ p.copy # None => p.copy = file[FileOf(p.step)]
  /\ p.step \in History => p.mine = file.session
  /\ p.step = "endEntry" => file.session.status = Recorded(c).status

AloneInv == \A c \in Running : Alone(c) => AloneFits(c)

\* Only its own handlers take a step while a command runs alone, and nobody
\* else is writing.
LEMMA AloneMoves ==
  ASSUME TypeInv, CompanyInv, NEW c \in Running', Alone(c)', [Next]_vars
  PROVE  \/ UNCHANGED <<file, proc>> /\ c \in Running /\ Alone(c)
         \/ /\ proc'[c].step \in {"guards", "block", "started_at"} /\ proc'[c].copy = None
            /\ c = launched' /\ UNCHANGED <<file, unacked, kill>>
         \/ /\ c \in Running /\ Alone(c)
            /\ \/ PassGuards(c) \/ Read(c) \/ Write(c) \/ ReadRaises(c)
               \/ (\E outcome \in {"ok"} \cup Failures : EngineEnds(c, outcome))
               \/ Arm(c) \/ Report(c)
<1>1. CASE UNCHANGED vars \/ KillOff
  BY <1>1 DEF vars, KillOff, Running, Alone
<1>2. CASE LaunchPaper \/ LaunchDemo
  <2>1. PICK kind \in {"paper", "demo"}, s \in {"guards", "block", "started_at"} :
          /\ Start(kind, s)
          /\ proc'[launched'] = [Idle EXCEPT !.kind = kind, !.step = s]
          /\ \A d \in Commands : d # launched' => proc'[d] = proc[d]
          /\ UNCHANGED <<file, kill, unacked>>
    BY <1>2, LaunchMoves
  <2>2. Running' \subseteq Running \cup {launched'}
    BY <2>1 DEF Running
  <2>3. Running = {}
    <3>1. Running # {} => overlapped' = overlapped \cup Running \cup {launched'}
      BY <2>1 DEF Start
    <3> QED
      BY <2>2, <3>1 DEF Alone
  <2>4. c = launched'
    BY <2>2, <2>3
  <2>5. proc'[c].step = s /\ proc'[c].copy = None
    BY <2>1, <2>4 DEF Idle
  <2> QED
    BY <2>1, <2>4, <2>5
<1>3. ASSUME NEW d \in Commands,
             \/ PassGuards(d) \/ Read(d) \/ Write(d) \/ ReadRaises(d)
             \/ (\E outcome \in {"ok"} \cup Failures : EngineEnds(d, outcome))
             \/ Arm(d) \/ Report(d) \/ Crash(d)
      PROVE  /\ c \in Running /\ Alone(c)
             /\ \/ PassGuards(c) \/ Read(c) \/ Write(c) \/ ReadRaises(c)
                \/ (\E outcome \in {"ok"} \cup Failures : EngineEnds(c, outcome))
                \/ Arm(c) \/ Report(c)
  <2>1. c \in Running /\ Alone(c) /\ d \in Running
    BY <1>3, HandlerMoves DEF Alone
  <2>2. c = d
    BY <2>1 DEF CompanyInv
  <2>3. ~Crash(c)
    BY CrashMoves DEF Moves, Running, Over
  <2> QED
    BY <1>3, <2>1, <2>2, <2>3
<1> QED
  BY <1>1, <1>2, <1>3 DEF Next

\* A whole file that a command which runs alone is about to read is readable.
LEMMA AloneReads ==
  ASSUME TypeInv, CompanyInv, NEW c \in Running, Alone(c), proc[c].copy = None,
         proc[c].step \notin Blind, NEW f, file[f] # Torn
  PROVE  ~Unreadable(f)
<1> SUFFICES ASSUME NEW d \in Commands, Writing(d) PROVE FALSE
  BY DEF Unreadable
<1>1. d = c
  BY DEF Writing, CompanyInv
<1> QED
  BY <1>1 DEF Writing

\* Alone, a command that has a session never fails to read.
LEMMA AloneNeverRaises ==
  ASSUME TypeInv, CompanyInv, NEW c \in Running, Alone(c), AloneFits(c), ReadRaises(c)
  PROVE  proc[c].step \in {"guards", "started_at", "enter"}
<1> DEFINE p == proc[c]
<1>1. p.copy = None /\ p.step \in Steps
      /\ \/ Reading(c) /\ Unreadable(FileOf(p.step))
         \/ p.step = "guards" /\ Unreadable("history")
         \/ p.step = "report" /\ (Unreadable("session") \/ Unreadable("history"))
  BY ReadRaisesMoves, FieldsOfProcess DEF Running
<1>2. CASE p.step = "report"
  <2>1. file.session # Torn /\ file.history # Torn /\ p.step \notin Blind
    BY <1>2, DocumentAssumption DEF AloneFits, AfterStart, Blind
  <2>2. ~Unreadable("session") /\ ~Unreadable("history")
    BY <1>1, <2>1, AloneReads
  <2> QED
    BY <1>1, <1>2, <2>2 DEF Reading, Runtime, Current, History
<1>3. CASE Reading(c) /\ p.step \notin {"started_at", "enter"}
  <2>1. file[FileOf(p.step)] # Torn
    BY <1>1, <1>3, StepKinds, DocumentAssumption
       DEF Reading, Runtime, Current, History, AloneFits, AfterStart
  <2>2. p.step \notin Blind
    BY <1>3 DEF Reading, Runtime, Current, History, Blind
  <2> QED
    BY <1>1, <1>3, <2>1, <2>2, AloneReads DEF Reading, Runtime, Current, History
<1> QED
  BY <1>1, <1>2, <1>3

\* The command's own writes keep what it relies on.
LEMMA AloneWrites ==
  ASSUME TypeInv, OutcomeInv, NEW c \in Running, AloneFits(c), Write(c)
  PROVE  AloneFits(c)'
<1> DEFINE p == proc[c]
           q == proc'[c]
           n == NewContent(c)
<1>1. /\ p.step \in Runtime \cup Current \cup History \cup Blind /\ p.step \in Steps
      /\ file'[FileOf(p.step)] = n
      /\ \A g \in {"runtime", "session", "history"} : g # FileOf(p.step) => file'[g] = file[g]
      /\ q.step = After(c) /\ q.copy = None
      /\ q.kind = p.kind /\ q.outcome = p.outcome
      /\ FileOf(p.step) = "session" => q.mine = n
      /\ p.copy # None \/ p.step \in Blind
      /\ Writing(c)
  BY WriteMoves, FieldsOfProcess DEF Moves, Running, Write
<1>2. OutcomeFits(p.kind, p.step, p.outcome) /\ Recorded(c)' = Recorded(c)
      /\ Recorded(c).window = (p.kind = "paper" /\ p.outcome = "ok")
      /\ Recorded(c).status = IF p.outcome = "kill" THEN "KILLED" ELSE "STOPPED"
  BY <1>1 DEF OutcomeInv, Recorded, Running
<1>3. CASE p.step \in Runtime \cup {"block"}
  <2>1. /\ file'.runtime = n /\ n # Torn
        /\ file'.session = file.session /\ file'.history = file.history
    BY <1>1, <1>3, StepKinds, WrittenContent, DocumentAssumption DEF Running
  <2>2. /\ p.step = "started_at" => q.step = "start"
        /\ p.step = "current" => q.step = "running"
        /\ p.step = "running" => q.step = "engine"
        /\ p.step = "stopped" => q.step = "end"
        /\ p.step = "error" => q.step = "failed"
        /\ p.step = "failed" => q.step = "arm"
        /\ p.step = "block" => q.step = "done"
    BY <1>1, AfterStep DEF Running
  <2> QED
    BY <1>1, <1>2, <1>3, <2>1, <2>2 DEF Runtime, AloneFits, AfterStart, History
<1>4. CASE p.step \in Current \cup {"start"}
  <2>1. /\ file'.session = n /\ q.mine = n /\ n \in Session /\ n.id = c
        /\ file'.runtime = file.runtime /\ file'.history = file.history
    BY <1>1, <1>4, StepKinds, WrittenContent DEF Running
  <2>2. /\ p.step = "start" => q.step = "enter"
        /\ p.step = "update" => q.step = "updateEntry"
        /\ p.step = "heartbeat" => q.step = "stopped"
        /\ p.step = "end" => q.step = "endEntry"
    BY <1>1, AfterStep DEF Running
  <2>3. CASE p.step = "start"
    <3>1. n.window = FALSE
      BY <2>3 DEF NewContent, Runtime, Current, History
    <3>2. Recorded(c).window = FALSE
      BY <1>2, <2>3 DEF OutcomeFits, EarlySteps
    <3> QED
      BY <1>1, <1>2, <2>1, <2>2, <2>3, <3>1, <3>2 DEF AloneFits, AfterStart
  <2>4. CASE p.step \in Current
    <3>1. n = SessionAfter(c, file.session) /\ file.session \in Session
      <4>1. p.copy = file.session /\ p.copy \in Session
        BY <1>1, <2>4, StepKinds, HandsOfType DEF AloneFits, HandsFit, Running, Current, Blind
      <4>2. n = SessionAfter(c, p.copy)
        BY <2>4 DEF NewContent, Current, Runtime, History
      <4> QED
        BY <4>1, <4>2
    <3>2. /\ p.step # "update" => n.window = file.session.window
          /\ p.step = "update" => n.window = TRUE
          /\ p.step = "end" =>
               n.status = IF p.outcome = "kill" THEN "KILLED" ELSE "STOPPED"
      <4> DEFINE a == SessionAfter(c, file.session)
      <4>1. c \in Commands
        BY DEF Running
      <4>2. /\ p.step # "update" => a.window = file.session.window
            /\ p.step = "update" => a.window = TRUE
            /\ p.step = "end" => a.status = IF p.outcome = "kill" THEN "KILLED" ELSE "STOPPED"
        BY <3>1, <4>1, SessionAfterType
      <4> QED
        BY <3>1, <4>2
    <3>3. p.step = "update" => Recorded(c).window = TRUE
      <4>1. p.step = "update" => p.kind = "paper" /\ p.outcome = "ok"
        BY <1>2 DEF OutcomeFits
      <4> QED
        BY <4>1 DEF Recorded
    <3> QED
      BY <1>1, <1>2, <2>1, <2>2, <2>4, <3>2, <3>3, ZenonT(40) DEF AloneFits, AfterStart, Current, History
  <2> QED
    BY <1>4, <2>3, <2>4
<1>5. CASE p.step \in History
  <2>1. /\ file'.history = n /\ n # Torn
        /\ file'.runtime = file.runtime /\ file'.session = file.session
    BY <1>1, <1>5, StepKinds, WrittenContent, DocumentAssumption DEF Running
  <2>2. /\ p.step = "enter" => q.step = "current"
        /\ p.step = "updateEntry" => q.step = "heartbeat"
        /\ p.step = "endEntry" => q.step \in {"report", "raised"}
    BY <1>1, AfterStep DEF Running
  <2> QED
    BY <1>1, <1>2, <1>5, <2>1, <2>2 DEF AloneFits, AfterStart, History
<1> QED
  BY <1>1, <1>3, <1>4, <1>5 DEF Blind

\* A command alone never finds another session in the current file.
LEMMA AloneReadsOwn ==
  ASSUME TypeInv, NEW c \in Running, AloneFits(c), Read(c)
  PROVE  Moves(c, proc[c].step, file[FileOf(proc[c].step)], proc[c].mine,
               proc[c].outcome, proc[c].subject)
<1>1. proc[c].step \in Current => file.session # None /\ file.session.id = c
  BY DocumentAssumption DEF AloneFits, Current, AfterStart
<1> QED
  BY <1>1, ReadMoves DEF Running

\* Every step keeps what a lone command relies on.
LEMMA AloneStep ==
  ASSUME TypeInv, OutcomeInv, CompanyInv, AloneInv, [Next]_vars
  PROVE  AloneInv'
<1> SUFFICES ASSUME NEW c \in Running', Alone(c)'
             PROVE  AloneFits(c)'
  BY DEF AloneInv
<1>1. CASE UNCHANGED <<file, proc>> /\ c \in Running /\ Alone(c)
  BY <1>1 DEF AloneInv, AloneFits, Recorded
<1>2. CASE /\ proc'[c].step \in {"guards", "block", "started_at"} /\ proc'[c].copy = None
           /\ UNCHANGED file
  BY <1>2 DEF AloneFits, AfterStart, History
<1>3. ASSUME c \in Running, Alone(c),
             \/ PassGuards(c) \/ Read(c) \/ Write(c) \/ ReadRaises(c)
             \/ (\E outcome \in {"ok"} \cup Failures : EngineEnds(c, outcome))
             \/ Arm(c) \/ Report(c)
      PROVE  AloneFits(c)'
  <2> DEFINE p == proc[c]
  <2>1. AloneFits(c) /\ OutcomeFits(p.kind, p.step, p.outcome) /\ c \in Commands
    BY <1>3 DEF AloneInv, OutcomeInv, Running
  <2>2. ASSUME PassGuards(c) PROVE AloneFits(c)'
    <3>1. proc'[c].step \in {"started_at", "block"} /\ proc'[c].copy = None
      BY <2>1, <2>2, PassGuardsMoves DEF Moves
    <3> QED
      BY <3>1 DEF AloneFits, AfterStart, History
  <2>3. ASSUME Read(c) PROVE AloneFits(c)'
    <3>1. Moves(c, p.step, file[FileOf(p.step)], p.mine, p.outcome, p.subject) /\ UNCHANGED file
      BY <1>3, <2>1, <2>3, AloneReadsOwn, ReadMoves
    <3> QED
      BY <2>1, <3>1 DEF Moves, AloneFits, Recorded
  <2>4. ASSUME ReadRaises(c) PROVE FALSE
    <3>1. p.step \in {"guards", "started_at", "enter"}
      BY <1>3, <2>1, <2>4, AloneNeverRaises
    <3>2. p.outcome = "none"
      BY <2>1, <3>1 DEF OutcomeFits, EarlySteps
    <3>3. proc'[c].step = "dead"
      BY <2>1, <2>4, <3>2, ReadRaisesMoves DEF Moves
    <3> QED
      BY <3>3 DEF Running, Over
  <2>5. ASSUME NEW outcome \in {"ok"} \cup Failures, EngineEnds(c, outcome)
        PROVE  AloneFits(c)'
    <3> DEFINE s == IF outcome # "ok" THEN "error"
                    ELSE IF p.kind = "paper" THEN "update" ELSE "heartbeat"
    <3>1. /\ p.step = "engine"
          /\ Moves(c, s, None, p.mine, outcome, p.subject)
          /\ UNCHANGED file
      BY <2>1, <2>5, EngineMoves
    <3>2. p.outcome = "none" /\ s \in {"error", "update", "heartbeat"}
      BY <2>1, <3>1 DEF OutcomeFits, EarlySteps
    <3>3. file.session.window = FALSE
      <4>1. ~Recorded(c).window
        BY <3>2 DEF Recorded
      <4>2. file.session.window = (Recorded(c).window /\ p.step # "update")
        BY <2>1, <3>1 DEF AloneFits, AfterStart
      <4> QED
        BY <4>1, <4>2
    <3>4. ~(Recorded(c)'.window /\ s # "update")
      <4>1. proc'[c].kind = p.kind /\ proc'[c].outcome = outcome
        BY <3>1 DEF Moves
      <4>2. Recorded(c)'.window = (p.kind = "paper" /\ outcome = "ok")
        BY <4>1 DEF Recorded
      <4> QED
        BY <4>2
    <3> HIDE DEF s
    <3> QED
      BY <2>1, <3>1, <3>2, <3>3, <3>4 DEF AloneFits, AfterStart, Moves, History
  <2>6. ASSUME Arm(c) PROVE AloneFits(c)'
    <3>1. /\ p.step = "arm" /\ Moves(c, "end", None, p.mine, p.outcome, p.subject)
          /\ UNCHANGED file
      BY <2>1, <2>6, ArmMoves
    <3> QED
      BY <2>1, <3>1 DEF AloneFits, AfterStart, Moves, History, Recorded
  <2>7. ASSUME Report(c) PROVE FALSE
    BY <2>1, <2>7, ReportMoves DEF Moves, Running, Over
  <2> QED
    BY <1>3, <2>1, <2>2, <2>3, <2>4, <2>5, <2>6, <2>7, AloneWrites
<1> QED
  BY <1>1, <1>2, <1>3, AloneMoves

-----------------------------------------------------------------------------
(* What a lone session leaves behind                                       *)

Told(c) ==
  proc[c].step \in {"report", "done", "raised"} /\ proc[c].outcome # "none" /\ Alone(c)
HasEntry(c, entries) == c \in DOMAIN entries /\ entries[c] = Recorded(c)

\* The entry of a lone session that is over is in sessions.json, and in every
\* copy of it that somebody is about to write back.
ToldInv ==
  \A c \in Commands : Told(c) =>
    /\ file.history # Torn => HasEntry(c, file.history)
    /\ \A d \in Commands :
         proc[d].step \in History /\ proc[d].copy # None => HasEntry(c, proc[d].copy)

\* A step of d that writes no history keeps the entries of the sessions that
\* were over, its own included.
LEMMA ToldKept ==
  ASSUME TypeInv, ToldInv, NEW d \in Commands, NEW s, NEW k, NEW m, NEW o, NEW t,
         Moves(d, s, k, m, o, t), overlapped' = overlapped,
         file'.history = file.history \/ file'.history = Torn,
         s \in History /\ k # None => file.history # Torn /\ k = file.history,
         s \in {"report", "done", "raised"} /\ o # "none" /\ Alone(d) =>
           proc[d].step \in {"report", "done", "raised"} /\ o = proc[d].outcome
  PROVE  ToldInv'
<1> SUFFICES ASSUME NEW c \in Commands, Told(c)'
             PROVE  /\ Recorded(c)' = Recorded(c)
                    /\ file'.history # Torn => HasEntry(c, file'.history)
                    /\ \A e \in Commands :
                         proc'[e].step \in History /\ proc'[e].copy # None
                           => HasEntry(c, proc'[e].copy)
  BY DEF ToldInv, HasEntry
<1>1. Told(c) /\ Recorded(c)' = Recorded(c)
  <2>1. CASE c = d
    BY <2>1 DEF Told, Moves, Alone, Recorded
  <2>2. CASE c # d
    BY <2>2 DEF Told, Moves, Alone, Recorded
  <2> QED
    BY <2>1, <2>2
<1>2. ASSUME NEW e \in Commands, proc'[e].step \in History, proc'[e].copy # None
      PROVE  HasEntry(c, proc'[e].copy)
  <2>1. CASE e = d
    BY <1>1, <1>2, <2>1 DEF Moves, ToldInv
  <2>2. CASE e # d
    BY <1>1, <1>2, <2>2 DEF Moves, ToldInv
  <2> QED
    BY <2>1, <2>2
<1> QED
  BY <1>1, <1>2 DEF ToldInv

\* The last write of a lone session puts its entry in; nobody else is writing.
LEMMA EntryWritten ==
  ASSUME TypeInv, OutcomeInv, CompanyInv, AloneInv, NEW c \in Commands, Write(c),
         Told(c)'
  PROVE  /\ proc[c].step = "endEntry" /\ Recorded(c)' = Recorded(c)
         /\ HasEntry(c, file'.history)
         /\ \A d \in Commands : proc'[d].step \in History => proc'[d].copy = None
<1> DEFINE p == proc[c]
<1>1. /\ p.step \in Runtime \cup Current \cup History \cup Blind /\ p.step \in Steps
      /\ file'[FileOf(p.step)] = NewContent(c)
      /\ proc'[c].step = After(c) /\ proc'[c].copy = None
      /\ proc'[c].kind = p.kind /\ proc'[c].outcome = p.outcome
      /\ \A d \in Commands : d # c => proc'[d] = proc[d]
      /\ p.copy # None \/ p.step \in Blind
      /\ Writing(c)
  BY WriteMoves, FieldsOfProcess DEF Moves, Write
<1>2. c \in Running /\ Alone(c) /\ AloneFits(c) /\ OutcomeFits(p.kind, p.step, p.outcome)
  BY HandlerMoves DEF Told, Alone, AloneInv, OutcomeInv
<1>3. p.step = "endEntry"
  <2>1. After(c) \in {"report", "done", "raised"} /\ p.outcome # "none"
    BY <1>1 DEF Told
  <2> QED
    BY <1>1, <1>2, <2>1, AfterStep
       DEF Runtime, Current, History, Blind, OutcomeFits, EarlySteps
<1>4. HasEntry(c, file'.history)
  <2>1. FileOf(p.step) = "history"
    BY <1>1, <1>3, StepKinds DEF History
  <2>2. p.copy \in SomeHistory /\ p.mine \in Session /\ p.mine.id = c
    BY <1>1, <1>3, HandsOfType DEF HandsFit, Runtime, Current, History, Blind
  <2>3. NewContent(c) = Upsert(p.copy, p.mine)
    BY <1>3 DEF NewContent, Runtime, Current, History
  <2>4. /\ p.mine.status = Recorded(c).status
        /\ p.mine.window = (Recorded(c).window /\ p.step # "update")
    BY <1>2, <1>3 DEF AloneFits, AfterStart, History
  <2>5. p.mine.window = Recorded(c).window
    <3>1. Recorded(c).window \in BOOLEAN
      BY DEF Recorded
    <3> QED
      BY <1>3, <2>4, <3>1
  <2>6. [status |-> p.mine.status, window |-> p.mine.window] = Recorded(c)
    <3>1. [status |-> p.mine.status, window |-> p.mine.window]
            = [status |-> Recorded(c).status, window |-> Recorded(c).window]
      BY <2>4, <2>5
    <3>2. \A x, y : LET r == [status |-> x, window |-> y] IN
            [status |-> r.status, window |-> r.window] = r
      OBVIOUS
    <3> QED
      BY <3>1, <3>2, Zenon DEF Recorded
  <2>7. /\ DOMAIN Upsert(p.copy, p.mine) = DOMAIN p.copy \cup {c}
        /\ Upsert(p.copy, p.mine)[c] = [status |-> p.mine.status, window |-> p.mine.window]
    <3> DEFINE h == p.copy
               m == p.mine
    <3>1. h \in SomeHistory /\ m \in Session /\ m.id = c
      BY <2>2
    <3> HIDE DEF h, m
    <3>2. /\ DOMAIN Upsert(h, m) = DOMAIN h \cup {c}
          /\ Upsert(h, m)[c] = [status |-> m.status, window |-> m.window]
      BY <3>1, UpsertType
    <3> QED
      BY <3>2 DEF h, m
  <2> QED
    BY <1>1, <2>1, <2>3, <2>6, <2>7 DEF HasEntry
<1>5. ASSUME NEW d \in Commands, proc'[d].step \in History
      PROVE  proc'[d].copy = None
  <2>1. CASE d = c
    BY <1>1, <2>1
  <2>2. CASE d # c
    <3>1. d \in Running
      BY <1>1, <1>5, <2>2 DEF Running, History, Over
    <3> QED
      BY <1>2, <2>2, <3>1 DEF CompanyInv
  <2> QED
    BY <2>1, <2>2
<1> QED
  BY <1>1, <1>3, <1>4, <1>5 DEF Recorded

\* Every step keeps the entries: a later command writes back a copy that holds
\* them, with its own session's entry changed at most.
LEMMA ToldStep ==
  ASSUME TypeInv, OutcomeInv, CompanyInv, AloneInv, ToldInv, [Next]_vars
  PROVE  ToldInv'
<1>1. CASE UNCHANGED vars
  BY <1>1 DEF vars, ToldInv, Told, Alone, HasEntry, Recorded
<1>2. CASE LaunchPaper \/ LaunchDemo
  <2>1. PICK kind \in {"paper", "demo"}, s \in {"guards", "block", "started_at"} :
          /\ Start(kind, s)
          /\ proc'[launched'] = [Idle EXCEPT !.kind = kind, !.step = s]
          /\ launched' \in Commands
          /\ \A d \in Commands : d # launched' => proc'[d] = proc[d]
          /\ UNCHANGED <<file, kill, unacked>>
    BY <1>2, LaunchMoves
  <2>2. proc'[launched'].step = s /\ proc'[launched'].copy = None
    BY <2>1 DEF Idle
  <2>3. overlapped \subseteq overlapped'
    BY <2>1 DEF Start
  <2>4. ASSUME NEW c \in Commands, Told(c)'
        PROVE  Told(c) /\ Recorded(c)' = Recorded(c)
    BY <2>1, <2>2, <2>3, <2>4 DEF Told, Alone, Recorded
  <2>5. \A d \in Commands : proc'[d].copy # None => proc'[d] = proc[d]
    BY <2>1, <2>2
  <2> QED
    BY <2>1, <2>4, <2>5 DEF ToldInv, HasEntry
<1>3. CASE KillOff
  BY <1>3 DEF KillOff, ToldInv, Told, Alone, HasEntry, Recorded
<1>4. ASSUME NEW d \in Commands, Write(d)
      PROVE  ToldInv'
  <2> DEFINE p == proc[d]
  <2> SUFFICES ASSUME NEW c \in Commands, Told(c)'
               PROVE  /\ Recorded(c)' = Recorded(c)
                      /\ file'.history # Torn => HasEntry(c, file'.history)
                      /\ \A e \in Commands :
                           proc'[e].step \in History /\ proc'[e].copy # None
                             => HasEntry(c, proc'[e].copy)
    BY DEF ToldInv, HasEntry
  <2>1. CASE c = d
    BY <1>4, <2>1, EntryWritten
  <2>2. CASE c # d
    <3>1. /\ p.step \in Runtime \cup Current \cup History \cup Blind /\ p.step \in Steps
          /\ file'[FileOf(p.step)] = NewContent(d)
          /\ \A g \in {"runtime", "session", "history"} : g # FileOf(p.step) => file'[g] = file[g]
          /\ proc'[d].copy = None
          /\ \A e \in Commands : e # d => proc'[e] = proc[e]
          /\ p.copy # None \/ p.step \in Blind
          /\ overlapped' = overlapped
      BY <1>4, WriteMoves, FieldsOfProcess, HandlersKeep DEF Moves
    <3>2. Told(c) /\ Recorded(c)' = Recorded(c)
      BY <2>2, <3>1 DEF Told, Alone, Recorded
    <3>3. \A e \in Commands : proc'[e].step \in History /\ proc'[e].copy # None
            => HasEntry(c, proc'[e].copy)
      BY <3>1, <3>2 DEF ToldInv
    <3>4. CASE p.step \notin History
      <4>1. file'.history = file.history
        BY <3>1, <3>4, StepKinds DEF Blind
      <4> QED
        BY <3>2, <3>3, <4>1 DEF ToldInv
    <3>5. CASE p.step \in History
      <4> DEFINE h == p.copy
                 m == p.mine
      <4>1. h \in SomeHistory /\ m \in Session /\ m.id = d /\ h # None
        BY <3>1, <3>5, HandsOfType DEF HandsFit, Runtime, Current, History, Blind
      <4>2. file'.history = Upsert(h, m)
        <5>1. FileOf(p.step) = "history"
          BY <3>1, <3>5, StepKinds
        <5>2. NewContent(d) = Upsert(h, m)
          BY <3>5 DEF NewContent, Runtime, Current, History
        <5> QED
          BY <3>1, <5>1, <5>2
      <4>3. HasEntry(c, h)
        BY <3>2, <3>5, <4>1 DEF ToldInv
      <4> HIDE DEF h, m
      <4>4. /\ DOMAIN Upsert(h, m) = DOMAIN h \cup {d}
            /\ \A e \in DOMAIN h : e # d => Upsert(h, m)[e] = h[e]
        BY <4>1, UpsertType
      <4>5. HasEntry(c, Upsert(h, m))
        BY <2>2, <4>3, <4>4 DEF HasEntry
      <4> QED
        BY <3>2, <3>3, <4>2, <4>5
    <3> QED
      BY <3>4, <3>5
  <2> QED
    BY <2>1, <2>2
<1>5. ASSUME NEW d \in Commands, PassGuards(d) PROVE ToldInv'
  <2>1. {"started_at", "block"} \cap (History \cup {"report", "done", "raised"}) = {}
    BY DEF History
  <2> QED
    BY <1>5, <2>1, PassGuardsMoves, HandlersKeep, ToldKept
<1>6. ASSUME NEW d \in Commands, Read(d) PROVE ToldInv'
  <2> DEFINE p == proc[d]
             f == FileOf(p.step)
  <2>1. d \in Running /\ overlapped' = overlapped /\ UNCHANGED file /\ file[f] # Torn
        /\ p.step \in Runtime \cup Current \cup History /\ p.step \in Steps
    BY <1>6, ReadMoves, HandlerMoves, FieldsOfProcess
  <2>2. p.step \in History => f = "history"
    BY <2>1, StepKinds
  <2>3. p.step \notin {"report", "done", "raised"}
    BY <2>1 DEF Runtime, Current, History
  <2>4. CASE Moves(d, p.step, file[f], p.mine, p.outcome, p.subject)
    BY <2>1, <2>2, <2>3, <2>4, ToldKept
  <2>5. CASE Moves(d, Skipped(p), None, p.mine, p.outcome, p.subject) /\ ~Alone(d)
    <3>1. Skipped(p) \notin History
      BY DEF Skipped, History
    <3> QED
      BY <2>1, <2>5, <3>1, ToldKept
  <2>6. Alone(d) => Moves(d, p.step, file[f], p.mine, p.outcome, p.subject)
    BY <1>6, <2>1, AloneReadsOwn DEF AloneInv
  <2> QED
    BY <1>6, <2>4, <2>5, <2>6, ReadMoves
<1>7. ASSUME NEW d \in Commands, ReadRaises(d) PROVE ToldInv'
  <2>1. {"error", "dead"} \cap (History \cup {"report", "done", "raised"}) = {}
    BY DEF History
  <2> QED
    BY <1>7, <2>1, ReadRaisesMoves, HandlersKeep, ToldKept
<1>8. ASSUME NEW d \in Commands, NEW outcome \in {"ok"} \cup Failures, EngineEnds(d, outcome)
      PROVE  ToldInv'
  <2>1. {"error", "update", "heartbeat"} \cap (History \cup {"report", "done", "raised"}) = {}
    BY DEF History
  <2> QED
    BY <1>8, <2>1, EngineMoves, HandlersKeep, ToldKept
<1>9. ASSUME NEW d \in Commands, Arm(d) PROVE ToldInv'
  <2>1. {"end"} \cap (History \cup {"report", "done", "raised"}) = {}
    BY DEF History
  <2> QED
    BY <1>9, <2>1, ArmMoves, HandlersKeep, ToldKept
<1>10. ASSUME NEW d \in Commands, Report(d) PROVE ToldInv'
  <2>1. "done" \notin History
    BY DEF History
  <2> QED
    BY <1>10, <2>1, ReportMoves, HandlersKeep, ToldKept
<1>11. ASSUME NEW d \in Commands, Crash(d) PROVE ToldInv'
  <2>1. {"crashed"} \cap (History \cup {"report", "done", "raised"}) = {}
    BY DEF History
  <2>2. file'.history = file.history \/ file'.history = Torn
    BY <1>11, CrashMoves
  <2> QED
    BY <1>11, <2>1, <2>2, CrashMoves, HandlersKeep, ToldKept
<1> QED
  BY <1>1, <1>2, <1>3, <1>4, <1>5, <1>6, <1>7, <1>8, <1>9, <1>10, <1>11 DEF Next

\* A critical failure that nobody has taken note of has armed the switch before
\* its session is marked as ended, and before a lone command's handler can fail.
CriticalInv ==
  \A c \in unacked :
    /\ proc[c].outcome \in Critical
    /\ proc[c].step \in {"end", "endEntry", "raised"} => kill
    /\ proc[c].step = "dead" /\ Alone(c) => kill

\* Every step keeps it: kill-off forgets the failures it disarms.
LEMMA CriticalStep ==
  ASSUME TypeInv, OutcomeInv, CompanyInv, AloneInv, CriticalInv, [Next]_vars
  PROVE  CriticalInv'
<1> USE DEF CriticalInv
<1>0. unacked \subseteq Commands /\ \A c \in unacked : c <= launched
  BY ControlAssumption DEF TypeInv, TypeOK, Commands
<1>1. CASE UNCHANGED vars
  BY <1>1 DEF vars, Alone
<1>2. CASE KillOff
  BY <1>2 DEF KillOff
<1>3. CASE LaunchPaper \/ LaunchDemo
  <2>1. PICK kind \in {"paper", "demo"}, s \in {"guards", "block", "started_at"} :
          /\ Start(kind, s)
          /\ launched' = launched + 1
          /\ \A d \in Commands : d # launched' => proc'[d] = proc[d]
          /\ UNCHANGED <<file, kill, unacked>>
    BY <1>3, LaunchMoves
  <2>2. \A c \in unacked : c # launched'
    BY <1>0, <2>1 DEF TypeInv, TypeOK
  <2>3. overlapped \subseteq overlapped'
    BY <2>1 DEF Start
  <2> QED
    BY <1>0, <2>1, <2>2, <2>3 DEF Alone
<1>4. ASSUME NEW d \in Commands, NEW s, NEW k, NEW m, NEW t,
             Moves(d, s, k, m, proc[d].outcome, t),
             UNCHANGED <<overlapped, kill, unacked>>,
             d \in unacked => /\ s \in {"end", "endEntry", "raised"} =>
                                   kill \/ proc[d].step \in {"end", "endEntry"}
                              /\ s = "dead" /\ Alone(d) => kill
      PROVE  CriticalInv'
  BY <1>0, <1>4 DEF Moves, Alone
<1>5. ASSUME NEW d \in Commands, d \in unacked
      PROVE  /\ proc[d].outcome \in Critical
             /\ OutcomeFits(proc[d].kind, proc[d].step, proc[d].outcome)
             /\ proc[d].step \notin EarlySteps \cup {"update", "updateEntry", "heartbeat",
                                                     "stopped", "report", "done"}
  BY <1>5 DEF OutcomeInv, OutcomeFits, Critical
<1>6. ASSUME NEW d \in Commands, PassGuards(d) PROVE CriticalInv'
  <2>1. proc[d].step = "guards" /\ overlapped' = overlapped
    BY <1>6, HandlersKeep DEF PassGuards
  <2> QED
    BY <1>4, <1>6, <2>1, PassGuardsMoves
<1>7. ASSUME NEW d \in Commands, Read(d) PROVE CriticalInv'
  <2> DEFINE p == proc[d]
  <2>1. overlapped' = overlapped /\ UNCHANGED <<kill, unacked>>
        /\ p.step \in Runtime \cup Current \cup History
    BY <1>7, HandlersKeep, ReadMoves
  <2>2. CASE Moves(d, p.step, file[FileOf(p.step)], p.mine, p.outcome, p.subject)
    BY <1>4, <2>1, <2>2 DEF Runtime, Current, History
  <2>3. CASE p.step \in Current /\ Moves(d, Skipped(p), None, p.mine, p.outcome, p.subject)
    <3>1. Skipped(p) # "dead" /\ (Skipped(p) = "raised" => p.step = "end")
          /\ Skipped(p) \notin {"end", "endEntry"}
      BY <2>3 DEF Skipped, Current
    <3> QED
      BY <1>4, <2>1, <2>3, <3>1
  <2> QED
    BY <1>7, <2>2, <2>3, ReadMoves
<1>8. ASSUME NEW d \in Commands, Write(d) PROVE CriticalInv'
  <2> DEFINE p == proc[d]
             m == IF FileOf(p.step) = "session" THEN NewContent(d) ELSE None
  <2>1. /\ Moves(d, After(d), None, m, p.outcome, p.subject)
        /\ UNCHANGED <<overlapped, kill, unacked>>
        /\ p.step \in Runtime \cup Current \cup History \cup Blind
        /\ Writing(d)
    BY <1>8, HandlersKeep, WriteMoves DEF Write
  <2>2. d \in unacked => /\ After(d) \in {"end", "endEntry", "raised"} =>
                                p.step \in {"end", "endEntry"}
                         /\ After(d) # "dead"
    BY <1>5, <2>1, AfterStep DEF Runtime, Current, History, Blind, EarlySteps
  <2> HIDE DEF m
  <2> QED
    BY <1>4, <2>1, <2>2
<1>9. ASSUME NEW d \in Commands, ReadRaises(d) PROVE CriticalInv'
  <2> DEFINE p == proc[d]
  <2>1. UNCHANGED <<overlapped, kill, unacked>> /\ d \in Running
    BY <1>9, HandlersKeep, HandlerMoves, ReadRaisesMoves
  <2>2. CASE p.outcome = "ok" /\ Moves(d, "error", None, p.mine, "plain", p.subject)
    BY <1>0, <1>5, <2>1, <2>2 DEF Moves, Alone, Critical
  <2>3. CASE Moves(d, "dead", None, p.mine, p.outcome, p.subject)
    <3>1. Alone(d) => p.step \in EarlySteps
      BY <1>9, <2>1, AloneNeverRaises DEF AloneInv, EarlySteps
    <3> QED
      BY <1>4, <1>5, <2>1, <2>3, <3>1
  <2> QED
    BY <1>9, <2>2, <2>3, ReadRaisesMoves
<1>10. ASSUME NEW d \in Commands, NEW outcome \in {"ok"} \cup Failures, EngineEnds(d, outcome)
       PROVE  CriticalInv'
  <2> DEFINE s == IF outcome # "ok" THEN "error"
                  ELSE IF proc[d].kind = "paper" THEN "update" ELSE "heartbeat"
  <2>1. /\ proc[d].step = "engine"
        /\ Moves(d, s, None, proc[d].mine, outcome, proc[d].subject)
        /\ unacked' = IF outcome \in Critical THEN unacked \cup {d} ELSE unacked
        /\ kill' = kill /\ overlapped' = overlapped
    BY <1>10, EngineMoves, HandlersKeep
  <2>2. d \notin unacked
    BY <1>5, <2>1 DEF EarlySteps
  <2>3. s \notin {"end", "endEntry", "raised", "dead"}
    OBVIOUS
  <2> HIDE DEF s
  <2> QED
    BY <1>0, <2>1, <2>2, <2>3 DEF Moves, Alone
<1>11. ASSUME NEW d \in Commands, Arm(d) PROVE CriticalInv'
  <2>1. /\ Moves(d, "end", None, proc[d].mine, proc[d].outcome, proc[d].subject)
        /\ kill' = (kill \/ proc[d].outcome \in Critical)
        /\ unacked' = unacked /\ overlapped' = overlapped
    BY <1>11, ArmMoves, HandlersKeep
  <2> QED
    BY <1>0, <2>1 DEF Moves, Alone
<1>12. ASSUME NEW d \in Commands, Report(d) PROVE CriticalInv'
  BY <1>4, <1>12, ReportMoves, HandlersKeep
<1>13. ASSUME NEW d \in Commands, Crash(d) PROVE CriticalInv'
  BY <1>4, <1>13, CrashMoves, HandlersKeep
<1> QED
  BY <1>1, <1>2, <1>3, <1>6, <1>7, <1>8, <1>9, <1>10, <1>11, <1>12, <1>13 DEF Next

\* What runtime_state.json says of the last command given, at each of its steps.
WithSession == {"running", "engine", "update", "updateEntry", "heartbeat", "stopped", "end",
                "endEntry", "error", "failed", "arm", "report", "raised"}
RuntimeTells(c) ==
  LET p == proc[c]  r == file.runtime
      over == p.step = "done" /\ p.outcome # "none"
  IN
  /\ p.step \in WithSession \/ over => r \in State /\ r.current = c
  /\ p.step \in {"end", "endEntry", "report", "raised"} \/ over =>
       r.status = IF p.outcome = "ok" THEN "STOPPED" ELSE "FAILED"
  /\ p.step = "arm" => r.status = "FAILED"
  /\ p.step = "done" /\ p.outcome = "none" => r = [status |-> "BLOCKED", current |-> NoSession]

StatusInv == launched > 0 /\ Alone(launched) => RuntimeTells(launched)

\* A write of the last command, alone: its copy is what the file says.
LEMMA StatusWritten ==
  ASSUME TypeInv, OutcomeInv, NEW c \in Running, AloneFits(c), RuntimeTells(c), Write(c)
  PROVE  RuntimeTells(c)'
<1> DEFINE p == proc[c]
           q == proc'[c]
           n == NewContent(c)
<1>1. /\ p.step \in Runtime \cup Current \cup History \cup Blind /\ p.step \in Steps
      /\ file'[FileOf(p.step)] = n
      /\ \A g \in {"runtime", "session", "history"} : g # FileOf(p.step) => file'[g] = file[g]
      /\ q.step = After(c) /\ q.outcome = p.outcome
      /\ p.copy # None \/ p.step \in Blind
      /\ Writing(c) /\ c \in Commands
  BY WriteMoves, FieldsOfProcess DEF Moves, Running, Write
<1>2. OutcomeFits(p.kind, p.step, p.outcome)
  BY <1>1 DEF OutcomeInv
<1>3. CASE p.step \in Runtime
  <2>1. file'.runtime = n /\ p.copy = file.runtime /\ p.copy \in State
    BY <1>1, <1>3, StepKinds, HandsOfType
       DEF AloneFits, HandsFit, Runtime, Current, History, Blind
  <2>2. n = StateAfter(c, p.copy)
    BY <1>3 DEF NewContent, Runtime, Current, History
  <2> DEFINE r == file.runtime
             a == StateAfter(c, file.runtime)
  <2>3. a \in State /\ file'.runtime = a
    BY <1>1, <1>3, <2>1, <2>2, StateAfterType
  <2>4. /\ p.step = "current" => a.current = c
        /\ p.step # "current" => a.current = r.current
        /\ p.step = "stopped" => a.status = "STOPPED"
        /\ p.step = "failed" => a.status = "FAILED"
    BY <1>1, <1>3, <2>1, StateAfterType
  <2>5. /\ p.step = "started_at" => q.step = "start"
        /\ p.step = "current" => q.step = "running"
        /\ p.step = "running" => q.step = "engine"
        /\ p.step = "stopped" => q.step = "end"
        /\ p.step = "error" => q.step = "failed"
        /\ p.step = "failed" => q.step = "arm"
    BY <1>1, AfterStep
  <2>6. p.step = "stopped" => p.outcome = "ok"
    BY <1>2 DEF OutcomeFits
  <2> HIDE DEF a
  <2> QED
    BY <1>1, <1>3, <2>3, <2>4, <2>5, <2>6 DEF Runtime, RuntimeTells, WithSession
<1>4. CASE p.step = "block"
  <2>1. file'.runtime = n /\ q.step = "done"
    BY <1>1, <1>4, StepKinds, AfterStep
  <2>2. p.outcome = "none"
    BY <1>2, <1>4 DEF OutcomeFits, EarlySteps
  <2>3. n = [status |-> "BLOCKED", current |-> NoSession]
    <3>1. n = [DefaultState EXCEPT !.status = "BLOCKED"]
      BY <1>4 DEF NewContent, Runtime, Current, History
    <3> QED
      BY <3>1 DEF DefaultState
  <2> QED
    BY <1>1, <2>1, <2>2, <2>3 DEF RuntimeTells, WithSession
<1>5. CASE p.step \in Current \cup History \cup {"start"}
  <2>1. file'.runtime = file.runtime
    BY <1>1, <1>5, StepKinds
  <2>2. /\ p.step = "start" => q.step = "enter"
        /\ p.step = "enter" => q.step = "current"
        /\ p.step = "update" => q.step = "updateEntry"
        /\ p.step = "updateEntry" => q.step = "heartbeat"
        /\ p.step = "heartbeat" => q.step = "stopped"
        /\ p.step = "end" => q.step = "endEntry"
        /\ p.step = "endEntry" => q.step \in {"report", "raised"}
    BY <1>1, AfterStep
  <2> QED
    BY <1>1, <1>5, <2>1, <2>2 DEF Current, History, RuntimeTells, WithSession
<1> QED
  BY <1>1, <1>3, <1>4, <1>5 DEF Blind

\* Every step keeps it: while the last command runs alone nobody else writes.
LEMMA StatusStep ==
  ASSUME TypeInv, OutcomeInv, CompanyInv, AloneInv, StatusInv, [Next]_vars
  PROVE  StatusInv'
<1>1. CASE UNCHANGED vars \/ KillOff
  BY <1>1 DEF vars, KillOff, StatusInv, Alone, RuntimeTells
<1>2. CASE LaunchPaper \/ LaunchDemo
  <2>1. PICK kind \in {"paper", "demo"}, s \in {"guards", "block", "started_at"} :
          proc'[launched'] = [Idle EXCEPT !.kind = kind, !.step = s]
    BY <1>2, LaunchMoves
  <2>2. proc'[launched'].step = s
    BY <2>1 DEF Idle
  <2> QED
    BY <2>2 DEF StatusInv, RuntimeTells, WithSession
<1>3. ASSUME NEW c \in Commands, launched' > 0, Alone(launched'),
             \/ PassGuards(c) \/ Read(c) \/ Write(c) \/ ReadRaises(c)
             \/ (\E outcome \in {"ok"} \cup Failures : EngineEnds(c, outcome))
             \/ Arm(c) \/ Report(c) \/ Crash(c),
             overlapped' = overlapped
      PROVE  RuntimeTells(launched)'
  <2> DEFINE p == proc[c]
  <2>1. /\ c = launched /\ launched' = launched /\ c \in Running /\ Alone(c)
    BY <1>3, HandlerMoves DEF CompanyInv, Alone
  <2>2. AloneFits(c) /\ RuntimeTells(c) /\ OutcomeFits(p.kind, p.step, p.outcome)
    BY <1>3, <2>1 DEF AloneInv, StatusInv, OutcomeInv
  <2> SUFFICES RuntimeTells(c)'
    BY <2>1
  <2>3. ASSUME PassGuards(c) PROVE RuntimeTells(c)'
    <3>1. proc'[c].step \in {"started_at", "block"}
      BY <1>3, <2>3, PassGuardsMoves DEF Moves
    <3> QED
      BY <3>1 DEF RuntimeTells, WithSession
  <2>4. ASSUME Read(c) PROVE RuntimeTells(c)'
    <3>1. /\ proc'[c].step = p.step /\ proc'[c].outcome = p.outcome /\ file' = file
      BY <1>3, <2>1, <2>2, <2>4, AloneReadsOwn, ReadMoves DEF Moves
    <3> QED
      BY <2>2, <3>1 DEF RuntimeTells
  <2>5. ASSUME ReadRaises(c) PROVE RuntimeTells(c)'
    <3>1. p.outcome = "none"
      BY <2>1, <2>2, <2>5, AloneNeverRaises DEF OutcomeFits, EarlySteps
    <3>2. proc'[c].step = "dead"
      BY <1>3, <2>5, <3>1, ReadRaisesMoves DEF Moves
    <3> QED
      BY <3>2 DEF RuntimeTells, WithSession
  <2>6. ASSUME NEW outcome \in {"ok"} \cup Failures, EngineEnds(c, outcome)
        PROVE  RuntimeTells(c)'
    <3>1. /\ proc'[c].step \in {"error", "update", "heartbeat"}
          /\ p.step = "engine" /\ file' = file
      BY <1>3, <2>6, EngineMoves DEF Moves
    <3> QED
      BY <2>2, <3>1 DEF RuntimeTells, WithSession
  <2>7. ASSUME Arm(c) PROVE RuntimeTells(c)'
    <3>1. /\ p.step = "arm" /\ proc'[c].step = "end" /\ proc'[c].outcome = p.outcome
          /\ file' = file
      BY <1>3, <2>7, ArmMoves DEF Moves
    <3>2. p.outcome # "ok"
      BY <2>2, <3>1 DEF OutcomeFits, Failures, Critical
    <3> QED
      BY <2>2, <3>1, <3>2 DEF RuntimeTells, WithSession
  <2>8. ASSUME Report(c) PROVE RuntimeTells(c)'
    <3>1. /\ p.step = "report" /\ proc'[c].step = "done" /\ proc'[c].outcome = p.outcome
          /\ file' = file
      BY <1>3, <2>8, ReportMoves DEF Moves
    <3>2. p.outcome = "ok"
      BY <2>2, <3>1 DEF OutcomeFits
    <3> QED
      BY <2>2, <3>1, <3>2 DEF RuntimeTells, WithSession
  <2>9. ASSUME Crash(c) PROVE RuntimeTells(c)'
    BY <1>3, <2>9, CrashMoves DEF Moves, RuntimeTells, WithSession
  <2> QED
    BY <1>3, <2>1, <2>2, <2>3, <2>4, <2>5, <2>6, <2>7, <2>8, <2>9, StatusWritten
<1>4. ASSUME NEW c \in Commands,
             \/ PassGuards(c) \/ Read(c) \/ Write(c) \/ ReadRaises(c)
             \/ (\E outcome \in {"ok"} \cup Failures : EngineEnds(c, outcome))
             \/ Arm(c) \/ Report(c) \/ Crash(c)
      PROVE  StatusInv'
  BY <1>3, <1>4, HandlersKeep DEF StatusInv, Alone
<1> QED
  BY <1>1, <1>2, <1>4 DEF Next

\* A lone report reads its own session's file.
LEMMA ReportStep ==
  ASSUME TypeInv, CompanyInv, AloneInv, OutcomeInv, ReportNamesItsSession, [Next]_vars
  PROVE  ReportNamesItsSession'
<1> USE DEF ReportNamesItsSession
<1>1. CASE UNCHANGED vars \/ KillOff
  BY <1>1 DEF vars, KillOff, Alone
<1>2. CASE LaunchPaper \/ LaunchDemo
  <2>1. PICK kind \in {"paper", "demo"}, s \in {"guards", "block", "started_at"} :
          /\ Start(kind, s)
          /\ proc'[launched'] = [Idle EXCEPT !.kind = kind, !.step = s]
          /\ \A d \in Commands : d # launched' => proc'[d] = proc[d]
    BY <1>2, LaunchMoves
  <2>2. proc'[launched'].step # "done"
    BY <2>1 DEF Idle
  <2>3. overlapped \subseteq overlapped'
    BY <2>1 DEF Start
  <2> QED
    BY <2>1, <2>2, <2>3 DEF Alone
<1>3. ASSUME NEW d \in Commands, overlapped' = overlapped,
             \A c \in Commands : c # d => proc'[c] = proc[c],
             proc'[d].step = "done" /\ proc'[d].outcome = "ok" /\ Alone(d) =>
               proc'[d].subject = d
      PROVE  ReportNamesItsSession'
  BY <1>3 DEF Alone
<1>4. ASSUME NEW d \in Commands, Report(d) PROVE ReportNamesItsSession'
  <2>1. /\ d \in Running /\ overlapped' = overlapped
        /\ \A c \in Commands : c # d => proc'[c] = proc[c]
        /\ proc'[d].subject = file.session.id /\ proc[d].step = "report"
    BY <1>4, HandlerMoves, ReportMoves DEF Moves
  <2>2. Alone(d) => file.session.id = d
    BY <2>1 DEF AloneInv, AloneFits, AfterStart
  <2> QED
    BY <1>3, <2>1, <2>2
<1>5. ASSUME NEW d \in Commands, Write(d) PROVE ReportNamesItsSession'
  <2>1. /\ overlapped' = overlapped
        /\ \A c \in Commands : c # d => proc'[c] = proc[c]
        /\ proc'[d].step = After(d) /\ proc'[d].outcome = proc[d].outcome
        /\ Writing(d)
        /\ proc[d].step \in Runtime \cup Current \cup History \cup Blind
    BY <1>5, HandlerMoves, WriteMoves DEF Moves, Write
  <2>2. proc'[d].step = "done" => proc[d].step = "block"
    BY <2>1, AfterStep DEF Runtime, Current, History, Blind
  <2>3. proc[d].step = "block" => proc[d].outcome = "none"
    BY DEF OutcomeInv, OutcomeFits, EarlySteps
  <2> QED
    BY <1>3, <2>1, <2>2, <2>3
<1>6. ASSUME NEW d \in Commands,
             \/ PassGuards(d) \/ Read(d) \/ ReadRaises(d)
             \/ (\E outcome \in {"ok"} \cup Failures : EngineEnds(d, outcome))
             \/ Arm(d) \/ Crash(d)
      PROVE  ReportNamesItsSession'
  <2>1. overlapped' = overlapped /\ \A c \in Commands : c # d => proc'[c] = proc[c]
    BY <1>6, HandlerMoves
  <2>2. proc'[d].step # "done"
    BY <1>6, PassGuardsMoves, ReadMoves, ReadRaisesMoves, EngineMoves, ArmMoves, CrashMoves
       DEF Moves, Skipped, Runtime, Current, History
  <2> QED
    BY <1>3, <2>1, <2>2
<1> QED
  BY <1>1, <1>2, <1>4, <1>5, <1>6 DEF Next

\* Outcomes, company, what a lone command relies on and what it leaves behind:
\* none of them is inductive without those before it.
SessionInv ==
  /\ OutcomeInv /\ CompanyInv /\ AloneInv
  /\ ToldInv /\ StatusInv /\ CriticalInv /\ ReportNamesItsSession

\* They hold together in every reachable state.
LEMMA SessionInvariance == Spec => []SessionInv
<1>1. Init => SessionInv
  <2> SUFFICES ASSUME Init PROVE SessionInv
    OBVIOUS
  <2>1. \A c \in Commands : proc[c].step = "idle" /\ proc[c].outcome = "none"
    BY DEF Init, Idle
  <2>2. Running = {} /\ unacked = {} /\ launched = 0
    BY <2>1 DEF Init, Running, Over
  <2>3. OutcomeInv
    BY <2>1 DEF OutcomeInv, OutcomeFits, EarlySteps
  <2>4. ToldInv /\ ReportNamesItsSession
    BY <2>1 DEF ToldInv, Told, ReportNamesItsSession
  <2> QED
    BY <2>2, <2>3, <2>4 DEF SessionInv, CompanyInv, AloneInv, StatusInv, CriticalInv
<1>2. TypeInv /\ SessionInv /\ [Next]_vars => SessionInv'
  BY OutcomeStep, CompanyStep, AloneStep, ToldStep, StatusStep, CriticalStep, ReportStep
     DEF SessionInv
<1> QED
  BY <1>1, <1>2, TypeInvariance, PTL DEF Spec

\* The outcome of a lone session stays in sessions.json, whatever later commands
\* overwrite, lose or tear.
THEOREM OutcomesKept == Spec => []HistoryTellsOutcome
<1>1. SessionInv => HistoryTellsOutcome
  BY DEF SessionInv, ToldInv, Told, HasEntry, Recorded, HistoryTellsOutcome, Ended
<1> QED
  BY <1>1, SessionInvariance, PTL

\* A critical failure arms the kill switch before its session is marked as ended.
THEOREM CriticalArms == Spec => []CriticalArmsSwitch
<1>1. SessionInv => CriticalArmsSwitch
  BY DEF SessionInv, CriticalInv, CriticalArmsSwitch
<1> QED
  BY <1>1, SessionInvariance, PTL

\* At rest, runtime_state.json tells how the last lone command ended.
THEOREM StatusTells == Spec => []StatusFollowsCommand
<1>1. TypeInv /\ SessionInv => StatusFollowsCommand
  <2> SUFFICES ASSUME TypeInv, SessionInv, launched > 0, Ended(launched), Alone(launched)
               PROVE  file.runtime =
                        IF proc[launched].outcome = "none"
                        THEN [status |-> "BLOCKED", current |-> NoSession]
                        ELSE [status |-> IF proc[launched].outcome = "ok" THEN "STOPPED"
                                         ELSE "FAILED", current |-> launched]
    BY DEF StatusFollowsCommand
  <2>1. RuntimeTells(launched)
    BY DEF SessionInv, StatusInv
  <2>2. launched \in Commands /\ OutcomeFits(proc[launched].kind, proc[launched].step,
                                             proc[launched].outcome)
    BY ControlAssumption DEF SessionInv, OutcomeInv, TypeInv, TypeOK, Commands
  <2>3. proc[launched].step = "raised" => proc[launched].outcome # "none"
    BY <2>2 DEF OutcomeFits, Failures, Critical
  <2>4. \A r \in State : r = [status |-> r.status, current |-> r.current]
    BY DEF State
  <2>5. CASE proc[launched].outcome = "none"
    BY <2>1, <2>3, <2>5 DEF RuntimeTells, Ended
  <2>6. CASE proc[launched].outcome # "none"
    <3>1. /\ file.runtime \in State /\ file.runtime.current = launched
          /\ file.runtime.status = IF proc[launched].outcome = "ok" THEN "STOPPED" ELSE "FAILED"
      BY <2>1, <2>6 DEF RuntimeTells, Ended, WithSession
    <3> QED
      BY <2>4, <2>6, <3>1
  <2> QED
    BY <2>5, <2>6
<1> QED
  BY <1>1, SessionInvariance, TypeInvariance, PTL

\* A lone session's report is about that session.
THEOREM ReportsOwnSession == Spec => []ReportNamesItsSession
<1>1. SessionInv => ReportNamesItsSession
  BY DEF SessionInv
<1> QED
  BY <1>1, SessionInvariance, PTL
=============================================================================
