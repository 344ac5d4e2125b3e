--------------------------- MODULE ModelLifecycle ---------------------------
(***************************************************************************)
(* The commands train, retrain, validate, register-current-model, promote  *)
(* and rollback over models/best_model.joblib, its backup, the versioned   *)
(* model files, model_registry.json and the validation report.             *)
(*                                                                         *)
(* One command runs at a time.  It may die between two effects, or in one, *)
(* which leaves the file it was writing truncated (Torn).  Models are      *)
(* numbered in the order they are trained; a registry entry is known by    *)
(* its position in the list.                                               *)
(***************************************************************************)
EXTENDS Naturals, Sequences, FiniteSets

CONSTANTS
  MaxModels,    \* models trained
  MaxEntries,   \* registry entries
  MaxCrashes,   \* commands that die
  Torn,         \* content of a file whose writing was interrupted
  None          \* content of a file that does not exist

ASSUME LifecycleAssumption ==
  /\ {MaxModels, MaxEntries, MaxCrashes} \subseteq Nat
  /\ Torn # None /\ {Torn, None} \cap Nat = {}

VARIABLES
  best,      \* models/best_model.joblib
  backup,    \* models/best_model.backup.joblib
  version,   \* models/versions: the file of each retrained model
  registry,  \* the entries of model_registry.json, or Torn
  report,    \* final_validation_report.json: "pass", "fail", or None
  trained,   \* models trained so far
  cmd,       \* the command in progress: name, entry and step
  crashes,   \* commands that died
  adrift     \* observation: best was trained over, or an install died

files == <<best, backup, version>>
vars == <<files, registry, report, trained, cmd, crashes, adrift>>

Models == 1..MaxModels
Best == 0   \* the path of best_model.joblib as an entry's path; model m is the path of m's version
Idle == [name |-> "none", entry |-> 0, step |-> "idle"]
Busy(name, entry, step) == [name |-> name, entry |-> entry, step |-> step]
Readable == registry # Torn
Entries == IF Readable THEN Len(registry) ELSE 0

\* What is in the file an entry names.
At(path) == IF path = Best THEN best ELSE version[path]

\* get_current_model: the last PRODUCTION entry of the list, or 0.
Production(entries) == {i \in DOMAIN entries : entries[i].status = "PRODUCTION"}
CurrentModel(entries) ==
  LET live == Production(entries) IN
  IF live = {} THEN 0 ELSE CHOOSE i \in live : \A j \in live : j <= i

\* evaluate_candidate: only an entry that names the validation report can
\* pass; without one every missing figure counts as failed.
Approves(entry) == entry.report /\ report = "pass"

Init ==
  /\ best = None /\ backup = None /\ version = [m \in Models |-> None]
  /\ registry = <<>> /\ report = None /\ trained = 0
  /\ cmd = Idle /\ crashes = 0 /\ adrift = FALSE

\* A registry write, complete or cut short by the death of the command.
SetRegistry(entries, next) ==
  /\ \/ registry' = entries /\ cmd' = next /\ UNCHANGED crashes
     \/ crashes < MaxCrashes /\ registry' = Torn /\ cmd' = Idle /\ crashes' = crashes + 1

\* The command is over, by return or exception.
Over == cmd' = Idle /\ UNCHANGED crashes

-----------------------------------------------------------------------------
\* train: train_model dumps the new model over the production file.
Train ==
  /\ cmd = Idle /\ trained < MaxModels
  /\ trained' = trained + 1
  /\ \/ best' = trained' /\ UNCHANGED crashes
     \/ crashes < MaxCrashes /\ best' = Torn /\ crashes' = crashes + 1
  /\ adrift' = TRUE
  /\ UNCHANGED <<backup, version, registry, report, cmd>>

\* Wrong: the candidate is trained into the production file.
MutRetrain ==
  /\ cmd = Idle /\ trained < MaxModels /\ Entries < MaxEntries
  /\ trained' = trained + 1 /\ best' = trained'
  /\ version' = [version EXCEPT ![trained'] = trained']
  /\ cmd' = Busy("retrain", trained', "register")
  /\ UNCHANGED <<backup, registry, report, crashes, adrift>>

\* Wrong: the version is registered and never saved.
MutSave ==
  /\ cmd = Idle /\ trained < MaxModels /\ Entries < MaxEntries
  /\ trained' = trained + 1
  /\ cmd' = Busy("retrain", trained', "register")
  /\ UNCHANGED <<files, registry, report, crashes, adrift>>

\* retrain: a model is trained into the candidate file and copied to a
\* version of its own, which is then registered.
Retrain ==
  /\ cmd = Idle /\ trained < MaxModels /\ Entries < MaxEntries
  /\ trained' = trained + 1
  /\ version' = [version EXCEPT ![trained'] = trained']
  /\ cmd' = Busy("retrain", trained', "register")
  /\ UNCHANGED <<best, backup, registry, report, crashes, adrift>>

\* register_model: the candidate is listed, with no report of its own; an
\* unreadable registry raises, and the trained version stays unlisted.
RegisterCandidate ==
  /\ cmd.step = "register"
  /\ IF ~Readable THEN Over /\ UNCHANGED registry ELSE SetRegistry(Append(registry, [path |-> cmd.entry, status |-> "CANDIDATE", report |-> FALSE]), Idle)
  /\ UNCHANGED <<files, report, trained, adrift>>

\* validate: the report on the data and settings of the moment.
Validate(verdict) ==
  /\ cmd = Idle /\ report' = verdict
  /\ UNCHANGED <<files, registry, trained, cmd, crashes, adrift>>

\* Wrong: an entry for the production path is always PRODUCTION.
MutRegisterCurrent ==
  /\ cmd = Idle /\ best \notin {None, Torn} /\ Readable /\ Entries < MaxEntries
  /\ \A i \in DOMAIN registry : registry[i].path # Best
  /\ SetRegistry(Append(registry, [path |-> Best, report |-> TRUE, status |-> "PRODUCTION"]), Idle)
  /\ UNCHANGED <<files, report, trained, adrift>>

\* register-current-model: the production path itself becomes an entry, once,
\* and is PRODUCTION if no other entry is; the file must load as a model.
RegisterCurrent ==
  /\ cmd = Idle /\ best \notin {None, Torn} /\ Readable /\ Entries < MaxEntries
  /\ \A i \in DOMAIN registry : registry[i].path # Best
  /\ SetRegistry(Append(registry, [path |-> Best, report |-> TRUE,
       status |-> IF CurrentModel(registry) = 0 THEN "PRODUCTION" ELSE "CANDIDATE"]), Idle)
  /\ UNCHANGED <<files, report, trained, adrift>>

\* promote: a candidate that fails the evaluation is rejected; otherwise the
\* current model is archived before the candidate's file is copied.
Promote(i) ==
  /\ cmd = Idle /\ Readable /\ i \in DOMAIN registry
  /\ IF ~Approves(registry[i])
     THEN SetRegistry([registry EXCEPT ![i].status = "REJECTED"], Idle)
     ELSE cmd' = Busy("promote", i, "archive") /\ UNCHANGED <<registry, crashes>>
  /\ UNCHANGED <<files, report, trained, adrift>>

\* rollback: any registered model whose file exists, whatever its status.
Rollback(i) ==
  /\ cmd = Idle /\ Readable /\ i \in DOMAIN registry
  /\ At(registry[i].path) # None
  /\ cmd' = Busy("rollback", i, "backup")
  /\ UNCHANGED <<files, registry, report, trained, crashes, adrift>>

\* set_status(current, "ARCHIVED"): before the copy in promote, after it in
\* rollback.
Archive ==
  /\ cmd.step = "archive"
  /\ LET next == IF cmd.name = "promote" THEN "backup" ELSE "publish"
         current == CurrentModel(registry) IN
     IF current = 0
     THEN cmd' = [cmd EXCEPT !.step = next] /\ UNCHANGED <<registry, crashes>>
     ELSE SetRegistry([registry EXCEPT ![current].status = "ARCHIVED"], [cmd EXCEPT !.step = next])
  /\ UNCHANGED <<files, report, trained, adrift>>

\* Wrong: no backup is made.
MutBackup ==
  /\ cmd.step = "backup"
  /\ cmd' = [cmd EXCEPT !.step = "copy"]
  /\ UNCHANGED <<files, registry, report, trained, crashes, adrift>>

\* copy_to_production: a production file that exists is copied to the backup.
Backup ==
  /\ cmd.step = "backup"
  /\ IF best = None
     THEN cmd' = [cmd EXCEPT !.step = "copy"] /\ UNCHANGED <<backup, crashes>>
     ELSE \/ backup' = best /\ cmd' = [cmd EXCEPT !.step = "copy"] /\ UNCHANGED crashes
          \/ crashes < MaxCrashes /\ backup' = Torn /\ cmd' = Idle /\ crashes' = crashes + 1
  /\ UNCHANGED <<best, version, registry, report, trained, adrift>>

\* copy_to_production: the entry's file is copied over the production file.
\* copy2 refuses to copy a file onto itself, and an absent one.
Copy ==
  /\ cmd.step = "copy"
  /\ LET path == registry[cmd.entry].path
         next == IF cmd.name = "promote" THEN "publish" ELSE "archive" IN
     IF path = Best \/ At(path) = None THEN Over /\ UNCHANGED <<best, adrift>>
     ELSE \/ best' = At(path) /\ cmd' = [cmd EXCEPT !.step = next] /\ UNCHANGED <<crashes, adrift>>
          \/ /\ crashes < MaxCrashes /\ best' = Torn /\ adrift' = TRUE
             /\ cmd' = Idle /\ crashes' = crashes + 1
  /\ UNCHANGED <<backup, version, registry, report, trained>>

\* set_status(candidate, "PRODUCTION"): the install is complete.
Publish ==
  /\ cmd.step = "publish"
  /\ SetRegistry([registry EXCEPT ![cmd.entry].status = "PRODUCTION"], Idle)
  /\ adrift' = FALSE
  /\ UNCHANGED <<files, report, trained>>

\* The command dies between two of its effects.
Crash ==
  /\ cmd # Idle /\ crashes < MaxCrashes
  /\ cmd' = Idle /\ crashes' = crashes + 1
  /\ adrift' = (adrift \/ (cmd.name = "rollback" /\ cmd.step = "archive"))
  /\ UNCHANGED <<files, registry, report, trained>>

Next ==
  \/ Train \/ Retrain \/ RegisterCandidate \/ RegisterCurrent
  \/ \E verdict \in {"pass", "fail"} : Validate(verdict)
  \/ \E i \in 1..MaxEntries : Promote(i) \/ Rollback(i)
  \/ Archive \/ Backup \/ Copy \/ Publish \/ Crash

Spec == Init /\ [][Next]_vars

-----------------------------------------------------------------------------
TypeOK ==
  /\ {best, backup} \subseteq Models \cup {None, Torn} /\ version \in [Models -> Models \cup {None}]
  /\ \/ registry = Torn
     \/ /\ registry \in Seq([path : Models \cup {Best}, report : BOOLEAN,
              status : {"CANDIDATE", "PRODUCTION", "ARCHIVED", "REJECTED"}])
        /\ Len(registry) <= MaxEntries
        \* what an entry names was written before the entry, and stays
        /\ \A i \in DOMAIN registry : registry[i].path # Best => version[registry[i].path] = registry[i].path
  /\ report \in {None, "pass", "fail"} /\ trained \in 0..MaxModels /\ crashes \in 0..MaxCrashes
  /\ cmd \in [name : {"none", "retrain", "promote", "rollback"}, entry : 0..MaxModels + MaxEntries,
             step : {"idle", "register", "archive", "backup", "copy", "publish"}]
  /\ adrift \in BOOLEAN

\* The registry never lists two PRODUCTION models, whichever commands died
\* and at whichever effect: get_current_model has nothing to choose from.
OneProduction == Readable => Cardinality(Production(registry)) <= 1

\* The versioned model the registry calls PRODUCTION is the one the
\* production file holds, except after a train straight into that file or an
\* install that died, until an install is complete again.
ProductionIsInstalled ==
  Readable /\ cmd = Idle /\ ~adrift =>
    \A i \in Production(registry) : registry[i].path \in {Best, best}

\* The commands, with their deaths, keep the promise of ModelSlot: a model in
\* use is copied aside before another one replaces it.
Slot == INSTANCE ModelSlot WITH slot <- best, spare <- backup
ImplementsModelSlot == Slot!Spec

\* A candidate that promote has approved is the PRODUCTION model when promote
\* is over, unless promote died (test_model_promotion_promotes_valid_model).
PromoteInstalls ==
  [][cmd.name = "promote" /\ cmd' = Idle /\ crashes' = crashes
       => registry'[cmd.entry].status = "PRODUCTION"]_vars
=============================================================================
