----------------------- MODULE ModelLifecycle_proofs -----------------------
(***************************************************************************)
(* Proofs about the model life cycle, for any number of models, registry   *)
(* entries and deaths of commands: the registry is well formed and never   *)
(* has two PRODUCTION entries, the PRODUCTION model is the installed one,  *)
(* and the commands implement ModelSlot.                                   *)
(*                                                                         *)
(* Torn might be a sequence for all the assumptions say.  So the invariant *)
(* speaks of a registry that is listed, or Torn, and of a command that has *)
(* checked it, and not of one that differs from Torn.                      *)
(***************************************************************************)
EXTENDS ModelLifecycle, FiniteSetTheorems, SequenceTheorems, TLAPS

Statuses == {"CANDIDATE", "PRODUCTION", "ARCHIVED", "REJECTED"}
Entry == [path : Models \cup {Best}, report : BOOLEAN, status : Statuses]

\* Every file but the registry has one of its contents.
FileTypes ==
  /\ best \in Models \cup {None, Torn} /\ backup \in Models \cup {None, Torn}
  /\ version \in [Models -> Models \cup {None}]
  /\ report \in {None, "pass", "fail"} /\ trained \in 0..MaxModels /\ crashes \in 0..MaxCrashes
  /\ cmd \in [name : {"none", "retrain", "promote", "rollback"}, entry : 0..MaxModels + MaxEntries,
             step : {"idle", "register", "archive", "backup", "copy", "publish"}]
  /\ adrift \in BOOLEAN

\* A list of entries for models that exist, at most one of them PRODUCTION.
Listed(entries) ==
  /\ entries \in Seq(Entry) /\ Len(entries) <= MaxEntries
  /\ \A i \in DOMAIN entries : entries[i].path # Best =>
       entries[i].path \in 1..trained /\ version[entries[i].path] = entries[i].path
  /\ \A i, j \in DOMAIN entries :
       entries[i].status = "PRODUCTION" /\ entries[j].status = "PRODUCTION" => i = j

NoProduction(entries) == \A i \in DOMAIN entries : entries[i].status # "PRODUCTION"

RegistryInv == registry = Torn \/ Listed(registry)

Installing == cmd.step \in {"archive", "backup", "copy", "publish"}
Swapped == cmd.name = "rollback" /\ cmd.step = "archive"

\* What a command in progress has done so far.
CommandInv ==
  /\ Installing => Listed(registry) /\ cmd.entry \in DOMAIN registry
                   /\ cmd.name \in {"promote", "rollback"}
  /\ cmd.step = "register" =>
       /\ cmd.entry \in 1..trained /\ version[cmd.entry] = cmd.entry
       /\ Readable => Len(registry) < MaxEntries
  /\ cmd.name = "promote" /\ cmd.step \in {"backup", "copy", "publish"} => NoProduction(registry)
  /\ cmd.name = "rollback" /\ cmd.step = "publish" => NoProduction(registry)
  /\ cmd.step = "copy" => backup = best \/ best = None

Installed(entries) ==
  \A i \in DOMAIN entries : entries[i].status = "PRODUCTION" => entries[i].path \in {Best, best}

\* The PRODUCTION model is the installed one, but between the copy of a
\* rollback and its entry.
InstallInv ==
  /\ (Readable \/ Installing) /\ ~adrift /\ ~Swapped => Installed(registry)
  /\ cmd.step = "publish" \/ Swapped => registry[cmd.entry].path = best

IInv == FileTypes /\ RegistryInv /\ CommandInv /\ InstallInv

-----------------------------------------------------------------------------
\* Changing the status of an entry changes nothing else of the list.
LEMMA StatusChanged ==
  ASSUME NEW entries \in Seq(Entry), NEW i \in DOMAIN entries, NEW status \in Statuses
  PROVE  LET new == [entries EXCEPT ![i].status = status] IN
         /\ new \in Seq(Entry) /\ Len(new) = Len(entries) /\ DOMAIN new = DOMAIN entries
         /\ \A j \in DOMAIN entries :
              /\ new[j].path = entries[j].path
              /\ new[j].status = IF j = i THEN status ELSE entries[j].status
<1> DEFINE new == [entries EXCEPT ![i].status = status]
           changed == [entries[i] EXCEPT !.status = status]
<1>1. \A j \in DOMAIN entries : entries[j] \in Entry
  OBVIOUS
<1>2. changed \in Entry /\ changed.path = entries[i].path /\ changed.status = status
  BY <1>1 DEF Entry
<1>3. new = [entries EXCEPT ![i] = changed]
  OBVIOUS
<1>4. new \in Seq(Entry) /\ Len(new) = Len(entries) /\ DOMAIN new = DOMAIN entries
  BY <1>2, <1>3
<1>5. \A j \in DOMAIN entries : new[j] = IF j = i THEN changed ELSE entries[j]
  BY <1>3
<1> QED
  BY <1>2, <1>4, <1>5

\* It keeps a list well formed, unless it makes a second PRODUCTION entry.
LEMMA StaysListed ==
  ASSUME NEW entries, Listed(entries), NEW i \in DOMAIN entries, NEW status \in Statuses,
         status # "PRODUCTION" \/ NoProduction(entries)
  PROVE  Listed([entries EXCEPT ![i].status = status])
<1>1. entries \in Seq(Entry)
  BY DEF Listed
<1> QED
  BY <1>1, StatusChanged DEF Listed, NoProduction

\* So does a new entry under the same condition.
LEMMA EntryAppended ==
  ASSUME NEW entries, Listed(entries), Len(entries) < MaxEntries, NEW e \in Entry,
         e.path # Best => e.path \in 1..trained /\ version[e.path] = e.path,
         e.status # "PRODUCTION" \/ NoProduction(entries)
  PROVE  Listed(Append(entries, e))
<1> DEFINE new == Append(entries, e)
<1>1. entries \in Seq(Entry) /\ Len(entries) \in Nat
  BY DEF Listed
<1>2. /\ new \in Seq(Entry) /\ Len(new) = Len(entries) + 1 /\ DOMAIN new = 1..(Len(entries) + 1)
      /\ DOMAIN entries = 1..Len(entries)
      /\ \A j \in DOMAIN new : new[j] = IF j = Len(entries) + 1 THEN e ELSE entries[j]
  BY <1>1
<1>3. Len(new) <= MaxEntries
  BY <1>1, <1>2, LifecycleAssumption DEF LifecycleAssumption
<1> QED
  BY <1>1, <1>2, <1>3 DEF Listed, NoProduction

\* get_current_model finds the PRODUCTION entry, or there is none.
LEMMA CurrentFound ==
  ASSUME NEW entries, Listed(entries)
  PROVE  /\ CurrentModel(entries) = 0 => NoProduction(entries)
         /\ CurrentModel(entries) # 0 =>
              /\ CurrentModel(entries) \in DOMAIN entries
              /\ entries[CurrentModel(entries)].status = "PRODUCTION"
<1> DEFINE live == Production(entries)
<1>1. entries \in Seq(Entry) /\ DOMAIN entries \subseteq Nat \ {0}
  BY DEF Listed
<1>2. CASE live = {}
  BY <1>2 DEF CurrentModel, Production, NoProduction
<1>3. CASE live # {}
  <2>1. PICK i \in live : TRUE
    BY <1>3
  <2>2. \A j \in live : j <= i
    BY <1>1, <2>1 DEF Listed, Production
  <2>3. CurrentModel(entries) \in live
    BY <1>3, <2>1, <2>2 DEF CurrentModel
  <2> QED
    BY <1>1, <2>3 DEF Production
<1> QED
  BY <1>2, <1>3

-----------------------------------------------------------------------------
\* Nothing is trained or registered yet.
LEMMA InitInv == Init => IInv
<1> SUFFICES ASSUME Init PROVE IInv
  OBVIOUS
<1>1. FileTypes
  <2>1. 0 \in 0..MaxModels /\ 0 \in 0..MaxCrashes /\ 0 \in 0..MaxModels + MaxEntries
    BY LifecycleAssumption DEF LifecycleAssumption
  <2>2. version \in [Models -> Models \cup {None}]
    BY DEF Init
  <2> QED
    BY <2>1, <2>2 DEF Init, FileTypes, Idle
<1>2. RegistryInv
  BY LifecycleAssumption DEF LifecycleAssumption, Init, RegistryInv, Listed
<1>3. CommandInv /\ InstallInv
  BY DEF Init, Idle, CommandInv, InstallInv, Installing, Swapped, Installed
<1> QED
  BY <1>1, <1>2, <1>3 DEF IInv

\* A train puts a new model into the production file, or dies in it.
LEMMA TrainKeeps == ASSUME IInv, Train PROVE IInv'
<1> USE DEF IInv, Train, Idle, files
<1>1. trained' \in 0..MaxModels /\ trained' \in Models /\ trained' = trained + 1
  BY LifecycleAssumption DEF LifecycleAssumption, FileTypes, Models
<1>2. FileTypes'
  BY <1>1, LifecycleAssumption DEF LifecycleAssumption, FileTypes
<1>3. RegistryInv'
  BY <1>1 DEF RegistryInv, Listed, FileTypes
<1>4. CommandInv' /\ InstallInv'
  BY DEF CommandInv, InstallInv, Installing, Swapped
<1> QED
  BY <1>2, <1>3, <1>4

\* A retrained model gets a version of its own, which no entry names yet.
LEMMA RetrainKeeps == ASSUME IInv, Retrain PROVE IInv'
<1> USE DEF IInv, Retrain, Idle, Busy
<1>1. trained' \in 0..MaxModels /\ trained' \in Models /\ trained' = trained + 1
  BY LifecycleAssumption DEF LifecycleAssumption, FileTypes, Models
<1>2. version'[trained'] = trained' /\ version' \in [Models -> Models \cup {None}]
      /\ \A m \in Models : m # trained' => version'[m] = version[m]
  BY <1>1 DEF FileTypes
<1>3. FileTypes'
  BY <1>1, <1>2, LifecycleAssumption DEF LifecycleAssumption, FileTypes, Models
<1>4. Listed(registry) => Listed(registry)'
  <2> SUFFICES ASSUME Listed(registry) PROVE Listed(registry)'
    OBVIOUS
  <2>1. \A m \in 1..trained : m \in Models /\ m # trained'
    BY <1>1, LifecycleAssumption DEF LifecycleAssumption, FileTypes, Models
  <2> QED
    BY <1>1, <1>2, <2>1 DEF Listed, FileTypes
<1>5. RegistryInv'
  BY <1>4 DEF RegistryInv
<1>6. trained' \in 1..trained'
  BY <1>1, LifecycleAssumption DEF LifecycleAssumption, FileTypes, Models
<1>7. Readable => Len(registry) < MaxEntries
  BY DEF Entries
<1>8. CommandInv'
  BY <1>2, <1>6, <1>7 DEF CommandInv, Installing, Readable
<1>9. InstallInv'
  BY DEF InstallInv, Installing, Swapped, Installed, Readable
<1> QED
  BY <1>3, <1>5, <1>8, <1>9

\* A registry write that is cut short ends the command and tears the list;
\* nothing is known of it any more.
LEMMA TornKeeps ==
  ASSUME IInv, crashes < MaxCrashes, registry' = Torn, cmd' = Idle, crashes' = crashes + 1,
         UNCHANGED <<files, report, trained>>, adrift' \in BOOLEAN
  PROVE  IInv'
<1> USE DEF IInv, Idle, files
<1>1. FileTypes'
  BY LifecycleAssumption DEF LifecycleAssumption, FileTypes
<1>2. RegistryInv' /\ CommandInv' /\ InstallInv'
  BY DEF RegistryInv, CommandInv, InstallInv, Installing, Swapped, Readable
<1> QED
  BY <1>1, <1>2

\* A command that is over, with a list that is well formed.
LEMMA OverKeeps ==
  ASSUME IInv, cmd' = Idle, UNCHANGED <<files, report, trained, crashes>>, adrift' \in BOOLEAN,
         RegistryInv', Readable' /\ ~adrift' => Installed(registry)'
  PROVE  IInv'
<1> USE DEF IInv, Idle, files
<1>1. FileTypes'
  BY LifecycleAssumption DEF LifecycleAssumption, FileTypes
<1>2. CommandInv' /\ InstallInv'
  BY DEF CommandInv, InstallInv, Installing, Swapped
<1> QED
  BY <1>1, <1>2

\* A validation only changes the report.
LEMMA ValidateKeeps == ASSUME IInv, NEW verdict \in {"pass", "fail"}, Validate(verdict) PROVE IInv'
<1> USE DEF IInv, Validate, files
<1>1. FileTypes'
  BY DEF FileTypes
<1>2. RegistryInv' /\ CommandInv' /\ InstallInv'
  BY DEF RegistryInv, CommandInv, InstallInv, Installing, Swapped, Readable, Listed, Installed, NoProduction
<1> QED
  BY <1>1, <1>2

\* The candidate's entry names the version just saved.
LEMMA RegisterCandidateKeeps == ASSUME IInv, RegisterCandidate PROVE IInv'
<1> DEFINE e == [path |-> cmd.entry, status |-> "CANDIDATE", report |-> FALSE]
<1> USE DEF IInv, RegisterCandidate, files
<1>1. CASE ~Readable
  <2>1. RegistryInv' /\ ~Readable'
    BY <1>1 DEF Over, Readable, RegistryInv, Listed
  <2> QED
    BY <1>1, <2>1, OverKeeps DEF Over, FileTypes
<1>2. CASE Readable
  <2>1. Listed(registry) /\ Len(registry) < MaxEntries
    BY <1>2 DEF Readable, RegistryInv, CommandInv
  <2>2. e \in Entry /\ e.path \in 1..trained /\ version[e.path] = e.path
    BY LifecycleAssumption DEF LifecycleAssumption, CommandInv, Entry, Statuses, FileTypes, Models
  <2>3. Listed(Append(registry, e))
    BY <2>1, <2>2, EntryAppended
  <2>4. CASE registry' = Append(registry, e) /\ cmd' = Idle /\ UNCHANGED crashes
    <3>1. RegistryInv'
      BY <2>3, <2>4 DEF RegistryInv, Listed
    <3>2. Installed(registry)' <=> Installed(registry)
      BY <2>1, <2>4 DEF Listed, Installed
    <3>3. ~adrift => Installed(registry)
      BY <1>2 DEF InstallInv, Swapped
    <3> QED
      BY <2>4, <3>1, <3>2, <3>3, OverKeeps DEF FileTypes
  <2>5. CASE crashes < MaxCrashes /\ registry' = Torn /\ cmd' = Idle /\ crashes' = crashes + 1
    BY <2>5, TornKeeps DEF FileTypes
  <2> QED
    BY <1>2, <2>4, <2>5 DEF SetRegistry
<1> QED
  BY <1>1, <1>2

\* The production path becomes PRODUCTION only where no entry is.
LEMMA RegisterCurrentKeeps == ASSUME IInv, RegisterCurrent PROVE IInv'
<1> DEFINE e == [path |-> Best, report |-> TRUE,
                 status |-> IF CurrentModel(registry) = 0 THEN "PRODUCTION" ELSE "CANDIDATE"]
<1> USE DEF IInv, RegisterCurrent, files
<1>1. Listed(registry) /\ Readable /\ Len(registry) < MaxEntries
  BY DEF Readable, RegistryInv, Entries
<1>2. e \in Entry /\ e.path = Best /\ (e.status # "PRODUCTION" \/ NoProduction(registry))
  BY <1>1, CurrentFound DEF Entry, Statuses
<1>3. Listed(Append(registry, e))
  BY <1>1, <1>2, EntryAppended
<1>4. CASE registry' = Append(registry, e) /\ cmd' = Idle /\ UNCHANGED crashes
  <2>1. RegistryInv'
    BY <1>3, <1>4 DEF RegistryInv, Listed
  <2>2. ~adrift => Installed(registry)
    BY <1>1 DEF InstallInv, Swapped, Idle
  <2>3. ~adrift => Installed(registry)'
    BY <1>1, <1>2, <1>4, <2>2 DEF Listed, Installed
  <2> QED
    BY <1>4, <2>1, <2>3, OverKeeps DEF FileTypes
<1>5. CASE crashes < MaxCrashes /\ registry' = Torn /\ cmd' = Idle /\ crashes' = crashes + 1
  BY <1>5, TornKeeps DEF FileTypes
<1> QED
  BY <1>4, <1>5 DEF SetRegistry

\* A rejected candidate loses its status; an approved one has changed nothing.
LEMMA PromoteKeeps == ASSUME IInv, NEW i \in 1..MaxEntries, Promote(i) PROVE IInv'
<1> USE DEF IInv, Promote, files
<1>1. Listed(registry) /\ Readable /\ i \in DOMAIN registry /\ registry \in Seq(Entry)
  BY DEF Readable, RegistryInv, Listed
<1>2. ~adrift => Installed(registry)
  BY <1>1 DEF InstallInv, Swapped, Idle
<1>3. CASE ~Approves(registry[i])
  <2> DEFINE new == [registry EXCEPT ![i].status = "REJECTED"]
  <2>1. Listed(new)
    BY <1>1, StaysListed DEF Statuses
  <2>2. CASE registry' = new /\ cmd' = Idle /\ UNCHANGED crashes
    <3>1. RegistryInv'
      BY <1>3, <2>1, <2>2 DEF RegistryInv, Listed
    <3>2. ~adrift => Installed(registry)'
      BY <1>1, <1>2, <1>3, <2>2, StatusChanged DEF Installed, Statuses
    <3> QED
      BY <1>3, <2>2, <3>1, <3>2, OverKeeps DEF FileTypes
  <2>3. CASE crashes < MaxCrashes /\ registry' = Torn /\ cmd' = Idle /\ crashes' = crashes + 1
    BY <1>3, <2>3, TornKeeps DEF FileTypes
  <2> QED
    BY <1>3, <2>2, <2>3 DEF SetRegistry
<1>4. CASE Approves(registry[i])
  <2>1. cmd' = Busy("promote", i, "archive") /\ UNCHANGED <<registry, crashes>>
    BY <1>4
  <2>2. FileTypes'
    BY <2>1, LifecycleAssumption DEF LifecycleAssumption, FileTypes, Busy
  <2>3. Listed(registry)'
    BY <1>1, <2>1 DEF Listed
  <2>4. CommandInv' /\ InstallInv'
    BY <1>1, <1>2, <2>1, <2>3 DEF CommandInv, InstallInv, Installing, Swapped, Installed, Busy
  <2> QED
    BY <2>2, <2>3, <2>4 DEF RegistryInv
<1> QED
  BY <1>3, <1>4

\* A rollback has only chosen its entry.
LEMMA RollbackKeeps == ASSUME IInv, NEW i \in 1..MaxEntries, Rollback(i) PROVE IInv'
<1> USE DEF IInv, Rollback, files
<1>1. Listed(registry) /\ Readable /\ i \in DOMAIN registry
  BY DEF Readable, RegistryInv
<1>2. ~adrift => Installed(registry)
  BY <1>1 DEF InstallInv, Swapped, Idle
<1>3. FileTypes'
  BY LifecycleAssumption DEF LifecycleAssumption, FileTypes, Busy
<1>4. Listed(registry)'
  BY <1>1 DEF Listed
<1>5. CommandInv' /\ InstallInv'
  BY <1>1, <1>2, <1>4 DEF CommandInv, InstallInv, Installing, Swapped, Installed, Busy
<1> QED
  BY <1>3, <1>4, <1>5 DEF RegistryInv

\* When the current model is archived, no entry is PRODUCTION.
LEMMA ArchiveKeeps == ASSUME IInv, Archive PROVE IInv'
<1> DEFINE next == IF cmd.name = "promote" THEN "backup" ELSE "publish"
           current == CurrentModel(registry)
           new == [registry EXCEPT ![current].status = "ARCHIVED"]
<1> USE DEF IInv, Archive, files
<1>1. Listed(registry) /\ registry \in Seq(Entry) /\ cmd.entry \in DOMAIN registry
      /\ cmd.name \in {"promote", "rollback"}
  BY DEF CommandInv, Installing, Listed
<1>2. cmd.name = "rollback" => registry[cmd.entry].path = best
  BY DEF InstallInv, Swapped
<1>3. ASSUME cmd' = [cmd EXCEPT !.step = next], UNCHANGED crashes,
             Listed(registry'), NoProduction(registry'), DOMAIN registry' = DOMAIN registry,
             registry'[cmd.entry].path = registry[cmd.entry].path
      PROVE  IInv'
  <2>1. cmd'.name = cmd.name /\ cmd'.entry = cmd.entry /\ cmd'.step = next
    BY <1>3 DEF FileTypes
  <2>2. FileTypes'
    BY <1>3 DEF FileTypes
  <2>3. Listed(registry)'
    BY <1>3 DEF Listed
  <2>4. CommandInv'
    BY <1>1, <1>3, <2>1, <2>3 DEF CommandInv, Installing, NoProduction
  <2>5. InstallInv'
    BY <1>1, <1>2, <1>3, <2>1 DEF InstallInv, Installing, Swapped, Installed, NoProduction
  <2> QED
    BY <2>2, <2>3, <2>4, <2>5 DEF RegistryInv
<1>4. CASE current = 0
  <2>1. NoProduction(registry)
    BY <1>1, <1>4, CurrentFound
  <2> QED
    BY <1>1, <1>3, <1>4, <2>1
<1>5. CASE current # 0
  <2>1. current \in DOMAIN registry /\ registry[current].status = "PRODUCTION"
    BY <1>1, <1>5, CurrentFound
  <2>2. Listed(new)
    BY <1>1, <2>1, StaysListed DEF Statuses
  <2>3. DOMAIN new = DOMAIN registry /\ new[cmd.entry].path = registry[cmd.entry].path
        /\ NoProduction(new)
    BY <1>1, <2>1, StatusChanged DEF Listed, NoProduction, Statuses
  <2>4. CASE registry' = new /\ cmd' = [cmd EXCEPT !.step = next] /\ UNCHANGED crashes
    BY <1>3, <2>2, <2>3, <2>4
  <2>5. CASE crashes < MaxCrashes /\ registry' = Torn /\ cmd' = Idle /\ crashes' = crashes + 1
    BY <2>5, TornKeeps DEF FileTypes
  <2> QED
    BY <1>5, <2>4, <2>5 DEF SetRegistry
<1> QED
  BY <1>4, <1>5

\* The installed model is in the backup before it is copied over.
LEMMA BackupKeeps == ASSUME IInv, Backup PROVE IInv'
<1> USE DEF IInv, Backup
<1>1. Listed(registry) /\ cmd.entry \in DOMAIN registry /\ cmd.name \in {"promote", "rollback"}
  BY DEF CommandInv, Installing
<1>2. ~adrift => Installed(registry)
  BY DEF InstallInv, Installing, Swapped
<1>3. FileTypes'
  BY LifecycleAssumption DEF LifecycleAssumption, FileTypes, Idle
<1>4. Listed(registry)'
  BY <1>1 DEF Listed
<1>5. CASE cmd' = [cmd EXCEPT !.step = "copy"] /\ (best = None \/ backup' = best)
  <2>1. cmd'.name = cmd.name /\ cmd'.entry = cmd.entry /\ cmd'.step = "copy"
    BY <1>5 DEF FileTypes
  <2>2. CommandInv' /\ InstallInv'
    BY <1>1, <1>2, <1>4, <1>5, <2>1
       DEF CommandInv, InstallInv, Installing, Swapped, Installed, NoProduction
  <2> QED
    BY <1>3, <1>4, <2>2 DEF RegistryInv
<1>6. CASE cmd' = Idle
  <2>1. CommandInv' /\ InstallInv'
    BY <1>2, <1>6 DEF CommandInv, InstallInv, Installing, Swapped, Installed, Idle
  <2> QED
    BY <1>3, <1>4, <2>1 DEF RegistryInv
<1> QED
  BY <1>5, <1>6

\* The copied version is the one its entry names.
LEMMA CopyKeeps == ASSUME IInv, Copy PROVE IInv'
<1> DEFINE path == registry[cmd.entry].path
           next == IF cmd.name = "promote" THEN "publish" ELSE "archive"
<1> USE DEF IInv, Copy
<1>1. Listed(registry) /\ cmd.entry \in DOMAIN registry /\ cmd.name \in {"promote", "rollback"}
  BY DEF CommandInv, Installing
<1>2. ~adrift => Installed(registry)
  BY DEF InstallInv, Installing, Swapped
<1>3. Listed(registry)'
  BY <1>1 DEF Listed
<1>4. CASE path = Best \/ At(path) = None
  <2>1. RegistryInv' /\ (~adrift' => Installed(registry)')
    BY <1>2, <1>3, <1>4 DEF RegistryInv, Installed
  <2> QED
    BY <1>4, <2>1, OverKeeps DEF Over, files, FileTypes
<1>5. CASE path # Best /\ At(path) # None
  <2>1. path \in 1..trained /\ path \in Models /\ At(path) = path
    BY <1>1, <1>5, LifecycleAssumption DEF LifecycleAssumption, Listed, At, FileTypes, Models
  <2>2. CASE best' = At(path) /\ cmd' = [cmd EXCEPT !.step = next] /\ UNCHANGED <<crashes, adrift>>
    <3>1. cmd'.name = cmd.name /\ cmd'.entry = cmd.entry /\ cmd'.step = next
      BY <2>2 DEF FileTypes
    <3>2. FileTypes'
      BY <2>1, <2>2 DEF FileTypes
    <3>3. cmd.name = "promote" => NoProduction(registry)
      BY DEF CommandInv
    <3>4. CommandInv'
      BY <1>1, <1>3, <3>1, <3>3 DEF CommandInv, Installing, NoProduction
    <3>5. registry'[cmd'.entry].path = best'
      BY <2>1, <2>2, <3>1
    <3>6. InstallInv'
      BY <1>1, <3>1, <3>3, <3>5 DEF InstallInv, Installing, Swapped, Installed, NoProduction
    <3> QED
      BY <1>3, <3>2, <3>4, <3>6 DEF RegistryInv
  <2>3. CASE /\ crashes < MaxCrashes /\ best' = Torn /\ adrift' = TRUE
             /\ cmd' = Idle /\ crashes' = crashes + 1
    <3>1. FileTypes'
      BY <2>3, LifecycleAssumption DEF LifecycleAssumption, FileTypes, Idle
    <3>2. CommandInv' /\ InstallInv'
      BY <2>3 DEF CommandInv, InstallInv, Installing, Swapped, Idle
    <3> QED
      BY <1>3, <3>1, <3>2 DEF RegistryInv
  <2> QED
    BY <1>5, <2>2, <2>3
<1> QED
  BY <1>4, <1>5

\* The entry whose file was installed becomes the only PRODUCTION one.
LEMMA PublishKeeps == ASSUME IInv, Publish PROVE IInv'
<1> DEFINE new == [registry EXCEPT ![cmd.entry].status = "PRODUCTION"]
<1> USE DEF IInv, Publish, files
<1>1. Listed(registry) /\ registry \in Seq(Entry) /\ cmd.entry \in DOMAIN registry
      /\ NoProduction(registry) /\ registry[cmd.entry].path = best
  BY DEF CommandInv, InstallInv, Installing, Listed
<1>2. Listed(new)
  BY <1>1, StaysListed DEF Statuses
<1>3. CASE registry' = new /\ cmd' = Idle /\ UNCHANGED crashes
  <2>1. RegistryInv'
    BY <1>2, <1>3 DEF RegistryInv, Listed
  <2>2. Installed(registry)'
    BY <1>1, <1>3, StatusChanged DEF Installed, NoProduction, Statuses
  <2> QED
    BY <1>3, <2>1, <2>2, OverKeeps
<1>4. CASE crashes < MaxCrashes /\ registry' = Torn /\ cmd' = Idle /\ crashes' = crashes + 1
  BY <1>4, TornKeeps
<1> QED
  BY <1>3, <1>4 DEF SetRegistry

\* A death between two effects changes no file.
LEMMA CrashKeeps == ASSUME IInv, Crash PROVE IInv'
<1> USE DEF IInv, Crash, files
<1>1. FileTypes'
  BY LifecycleAssumption DEF LifecycleAssumption, FileTypes, Idle
<1>2. RegistryInv'
  BY DEF RegistryInv, Listed
<1>3. CommandInv' /\ InstallInv'
  BY DEF CommandInv, InstallInv, Installing, Swapped, Readable, Installed, Idle
<1> QED
  BY <1>1, <1>2, <1>3

\* Neither does a step of another process.
LEMMA StutterKeeps == ASSUME IInv, UNCHANGED vars PROVE IInv'
<1> USE DEF IInv, vars, files
<1>1. FileTypes'
  BY DEF FileTypes
<1>2. RegistryInv' /\ CommandInv' /\ InstallInv'
  BY DEF RegistryInv, CommandInv, InstallInv, Installing, Swapped, Readable, Listed, Installed, NoProduction
<1> QED
  BY <1>1, <1>2

\* Every step keeps the invariant.
LEMMA StepInv == IInv /\ [Next]_vars => IInv'
<1> SUFFICES ASSUME IInv, [Next]_vars PROVE IInv'
  OBVIOUS
<1>1. CASE Train
  BY <1>1, TrainKeeps
<1>2. CASE Retrain
  BY <1>2, RetrainKeeps
<1>3. CASE RegisterCandidate
  BY <1>3, RegisterCandidateKeeps
<1>4. CASE RegisterCurrent
  BY <1>4, RegisterCurrentKeeps
<1>5. CASE \E verdict \in {"pass", "fail"} : Validate(verdict)
  BY <1>5, ValidateKeeps
<1>6. CASE \E i \in 1..MaxEntries : Promote(i)
  BY <1>6, PromoteKeeps
<1>7. CASE \E i \in 1..MaxEntries : Rollback(i)
  BY <1>7, RollbackKeeps
<1>8. CASE Archive
  BY <1>8, ArchiveKeeps
<1>9. CASE Backup
  BY <1>9, BackupKeeps
<1>10. CASE Copy
  BY <1>10, CopyKeeps
<1>11. CASE Publish
  BY <1>11, PublishKeeps
<1>12. CASE Crash
  BY <1>12, CrashKeeps
<1>13. CASE UNCHANGED vars
  BY <1>13, StutterKeeps
<1> QED
  BY <1>1, <1>2, <1>3, <1>4, <1>5, <1>6, <1>7, <1>8, <1>9, <1>10, <1>11, <1>12, <1>13 DEF Next

\* The invariant holds in every reachable state.
LEMMA InvHolds == Spec => []IInv
<1>1. Init => IInv
  BY InitInv
<1>2. IInv /\ [Next]_vars => IInv'
  BY StepInv
<1> QED
  BY <1>1, <1>2, PTL DEF Spec

-----------------------------------------------------------------------------
\* Every file has one of its contents, and what a registry entry names was
\* written before the entry and stays (register_model, save_candidate).
THEOREM TypeCorrect == Spec => []TypeOK
<1>1. IInv => TypeOK
  <2> SUFFICES ASSUME IInv PROVE TypeOK
    OBVIOUS
  <2>1. FileTypes /\ RegistryInv
    BY DEF IInv
  <2>2. CASE registry = Torn
    BY <2>1, <2>2 DEF FileTypes, TypeOK
  <2>3. CASE Listed(registry)
    BY <2>1, <2>3 DEF FileTypes, TypeOK, Listed, Entry, Statuses
  <2> QED
    BY <2>1, <2>2, <2>3 DEF RegistryInv
<1> QED
  BY <1>1, InvHolds, PTL

\* Whichever commands died and wherever, the registry lists at most one
\* PRODUCTION model (promote, rollback and register-current-model).
THEOREM OneProductionModel == Spec => []OneProduction
<1>1. IInv => OneProduction
  <2> SUFFICES ASSUME IInv, Readable PROVE Cardinality(Production(registry)) <= 1
    BY DEF OneProduction
  <2>1. Listed(registry)
    BY DEF IInv, RegistryInv, Readable
  <2>2. CASE Production(registry) = {}
    BY <2>2, FS_EmptySet
  <2>3. CASE Production(registry) # {}
    <3>1. PICK i \in Production(registry) : TRUE
      BY <2>3
    <3>2. Production(registry) = {i}
      BY <2>1, <3>1 DEF Listed, Production
    <3>3. Cardinality({i}) = 1
      BY FS_Singleton, Zenon
    <3> QED
      BY <3>2, <3>3
  <2> QED
    BY <2>2, <2>3
<1> QED
  BY <1>1, InvHolds, PTL

\* The production file holds the version the registry calls PRODUCTION,
\* except after a train over it or an install that died.
THEOREM InstalledCorrect == Spec => []ProductionIsInstalled
<1>1. IInv => ProductionIsInstalled
  BY DEF IInv, InstallInv, ProductionIsInstalled, Production, Installed, Swapped, Idle
<1> QED
  BY <1>1, InvHolds, PTL

\* The commands implement ModelSlot: only what has been copied aside is
\* replaced (copy_to_production), and only training bypasses the copy.
THEOREM SlotRefined == Spec => ImplementsModelSlot
<1> USE DEF Slot!vars
<1>1. Init => Slot!Init
  BY DEF Init, Slot!Init
<1>2. ASSUME IInv, [Next]_vars PROVE [Slot!Next]_(Slot!vars)
  <2> USE DEF files
  <2>1. CASE Train
    BY <2>1 DEF Train, Slot!Train, Slot!Next
  <2>2. CASE Retrain
    BY <2>2 DEF Retrain, Slot!Train, Slot!Next
  <2>3. CASE RegisterCandidate \/ RegisterCurrent
    BY <2>3 DEF RegisterCandidate, RegisterCurrent
  <2>4. CASE \E verdict \in {"pass", "fail"} : Validate(verdict)
    BY <2>4 DEF Validate
  <2>5. CASE \E i \in 1..MaxEntries : Promote(i) \/ Rollback(i)
    BY <2>5 DEF Promote, Rollback
  <2>6. CASE Archive \/ Publish \/ Crash
    BY <2>6 DEF Archive, Publish, Crash
  <2>7. CASE Backup
    BY <2>7 DEF Backup, Slot!Save, Slot!Next
  <2>8. CASE Copy
    <3> DEFINE path == registry[cmd.entry].path
    <3>1. CASE path = Best \/ At(path) = None
      BY <2>8, <3>1 DEF Copy
    <3>2. CASE path # Best /\ At(path) # None
      <4>1. At(path) \in 1..trained
        BY <1>2, <2>8, <3>2 DEF IInv, CommandInv, Installing, Listed, At, Copy
      <4>2. backup = best \/ best = None
        BY <1>2, <2>8 DEF IInv, CommandInv, Copy
      <4>3. best' \in (1..trained) \cup {Torn} /\ UNCHANGED <<backup, trained>>
        BY <2>8, <3>2, <4>1 DEF Copy
      <4> QED
        BY <4>2, <4>3 DEF Slot!Replace, Slot!Fill, Slot!Next
    <3> QED
      BY <3>1, <3>2
  <2>9. CASE UNCHANGED vars
    BY <2>9 DEF vars
  <2> QED
    BY <1>2, <2>1, <2>2, <2>3, <2>4, <2>5, <2>6, <2>7, <2>8, <2>9 DEF Next
<1> QED
  BY <1>1, <1>2, InvHolds, PTL DEF Spec, Slot!Spec, ImplementsModelSlot
=============================================================================
