-------------------------------- MODULE Backups --------------------------------
(***************************************************************************)
(* The daily backup, beside an application that adds and deletes accounts,   *)
(* and the restore: an archive is a dump of the database and a copy of the    *)
(* session files and keys, made one after the other; it is verified, copied  *)
(* for its week and its month, and the oldest ones are removed; at its end   *)
(* the run tells of it in the file of alerts, which others rewrite too.      *)
(***************************************************************************)
EXTENDS Naturals, FiniteSets

CONSTANTS Accounts, LastDay, BackupScenarios
CONSTANT AlertWriters           \* the other processes that keep alerts in that file
CONSTANTS DailyKeep, WeeklyKeep, MonthlyKeep, WeekLength, MonthLength

Folders == {"daily", "weekly", "monthly"}
Days == 1..LastDay                              \* the bound: one run a day
Keep(folder) == CASE folder = "daily" -> DailyKeep [] folder = "weekly" -> WeeklyKeep
                  [] folder = "monthly" -> MonthlyKeep
NameOf(folder, day) == CASE folder = "daily" -> day
                         [] folder = "weekly" -> day \div WeekLength
                         [] folder = "monthly" -> day \div MonthLength

VARIABLES
  live,      \* the accounts with a row, with a session file, about to lose their row
  archives,  \* of each folder: its archives
  backup,    \* the run: pc, day, the rows and the files it has read
  restore,   \* the restore: pc and its archive
  aside,     \* the session files that restores have moved aside
  alarm,     \* the alert backup_failed
  held,      \* what another process has read of it and is about to write back
  told,      \* history: the last outcome was told, with nobody about to undo it
  done,      \* history: completed days, torn copies, the last outcome
  mixed,     \* history: rows and files of a restore that failed, or met a run
  gone,      \* history: the session files that were deleted with their account
  bkLeft,    \* the bound: changes, faults and restores that are left
  bkPlan     \* the scenario; never changes

alertVars == <<alarm, held, told>>
backupVars ==
  <<live, archives, backup, restore, aside, alertVars, done, mixed, gone, bkLeft, bkPlan>>

ASSUME BackupAssumption ==
  /\ {DailyKeep, WeeklyKeep, MonthlyKeep, WeekLength, MonthLength} \subseteq Nat \ {0}
  /\ LastDay \in Nat /\ \A case \in BackupScenarios : case.days \in 0..LastDay

BackupScenario == [days : 0..LastDay, changes : Nat, faults : Nat, restores : Nat,
                   others : Nat]
Archive == [day : Days, rows : SUBSET Accounts, files : SUBSET Accounts, whole : BOOLEAN,
            beside : BOOLEAN]           \* beside: history, something changed meanwhile
NoBackup == [pc |-> "off", day |-> 0, rows |-> {}, files |-> {}, beside |-> FALSE]
NoRestore == [pc |-> "off", from |-> {}]

BackupsInit ==
  /\ bkPlan \in BackupScenarios
  /\ live = [rows |-> {}, files |-> {}, leaving |-> {}]
  /\ archives = [f \in Folders |-> {}]
  /\ backup = NoBackup /\ restore = NoRestore
  /\ aside = {} /\ mixed = FALSE /\ gone = {}
  /\ alarm = FALSE /\ held = [w \in AlertWriters |-> {}] /\ told = TRUE
  /\ done = [days |-> {}, torn |-> {}, last |-> "none"]
  /\ bkLeft = bkPlan

Phase(pc) == backup' = [backup EXCEPT !.pc = pc]
Upset ==                          \* the files change between the dump and their copy
  backup' = [backup EXCEPT !.beside = @ \/ backup.pc = "files"]
Spent(what) == bkLeft[what] > 0 /\ bkLeft' = [bkLeft EXCEPT ![what] = @ - 1]
Running == restore.pc = "off"                      \* it is stopped for a restore

------------------------------------------------------------------------------
(* The application: a login writes the file and then the row, a deletion     *)
(* removes the file and then the row; it may stop in between for good.       *)

AddFile(a) ==
  /\ Running /\ a \notin live.files /\ a \notin live.rows /\ Spent("changes")
  /\ live' = [live EXCEPT !.files = @ \union {a}]
  /\ UNCHANGED <<archives, backup, restore, aside, alertVars, done, mixed, gone, bkPlan>>

AddRow(a) ==
  /\ Running /\ a \in live.files \ live.rows
  /\ live' = [live EXCEPT !.rows = @ \union {a}]
  /\ UNCHANGED <<archives, backup, restore, aside, alertVars, done, mixed, gone, bkLeft, bkPlan>>

DeleteFile(a) ==
  /\ Running /\ a \in live.rows /\ a \notin live.leaving /\ Spent("changes")
  /\ live' = [live EXCEPT !.files = @ \ {a}, !.leaving = @ \union {a}]
  /\ gone' = gone \union {a} /\ Upset
  /\ UNCHANGED <<archives, restore, aside, alertVars, done, mixed, bkPlan>>

DeleteRow(a) ==
  /\ Running /\ a \in live.leaving
  /\ live' = [live EXCEPT !.rows = @ \ {a}, !.leaving = @ \ {a}]
  /\ UNCHANGED <<archives, backup, restore, aside, alertVars, done, mixed, gone, bkLeft, bkPlan>>

------------------------------------------------------------------------------
(* backup_maintenance.run: a failed step ends it with an alert, a crash      *)
(* without, and what it was writing may stay, torn.                          *)

Dump ==
  /\ backup.pc = "off" /\ backup.day < bkPlan.days
  /\ backup' = [pc |-> "files", day |-> backup.day + 1, rows |-> live.rows, files |-> {},
                beside |-> mixed \/ ~Running \/ live.leaving # {}]
  /\ UNCHANGED <<live, archives, restore, aside, alertVars, done, mixed, gone, bkLeft, bkPlan>>

CopyFiles ==
  /\ backup.pc = "files"
  /\ backup' = [backup EXCEPT !.pc = "pack", !.files = live.files]
  /\ UNCHANGED <<live, archives, restore, aside, alertVars, done, mixed, gone, bkLeft, bkPlan>>

Packed(whole) == [day |-> backup.day, rows |-> backup.rows, files |-> backup.files,
                 whole |-> whole, beside |-> backup.beside]
Added(folder, whole) == [archives EXCEPT ![folder] = @ \union {Packed(whole)}]
Has(folder) ==
  \E a \in archives[folder] : NameOf(folder, a.day) = NameOf(folder, backup.day)

Pack ==                                  \* the archive may be spoilt on the disk
  /\ backup.pc = "pack" /\ Phase("verify")
  /\ \/ archives' = Added("daily", TRUE) /\ UNCHANGED bkLeft
     \/ archives' = Added("daily", FALSE) /\ Spent("faults")
  /\ UNCHANGED <<live, restore, aside, alertVars, done, mixed, gone, bkPlan>>

Verify ==
  /\ backup.pc = "verify"
  /\ IF Packed(TRUE) \in archives["daily"]
     THEN Phase("weekly") /\ UNCHANGED <<done, told>>
     ELSE Phase("failed") /\ done' = [done EXCEPT !.last = "failed"] /\ told' = FALSE
  /\ UNCHANGED <<live, archives, restore, aside, alarm, held, mixed, gone, bkLeft, bkPlan>>

CopyFor(folder, next) ==                 \* only if there is none of that name
  /\ backup.pc = folder /\ Phase(next)
  /\ archives' = IF Has(folder) THEN archives ELSE Added(folder, TRUE)
  /\ UNCHANGED <<live, restore, aside, alertVars, done, mixed, gone, bkLeft, bkPlan>>

\* Variant: the files are sorted the other way round.
KeptOldest(folder) ==
  {a \in archives[folder] :
     Cardinality({b \in archives[folder] : b.day < a.day}) < Keep(folder)}

Kept(folder) ==
  {a \in archives[folder] :
     Cardinality({b \in archives[folder] : b.day > a.day}) < Keep(folder)}

Superfluous(folder) == archives[folder] \ Kept(folder)
Before(folder) == CASE folder = "daily" -> {} [] folder = "weekly" -> {"daily"}
                    [] folder = "monthly" -> {"daily", "weekly"}

Prune(folder) ==                        \* prune, one file after the other
  /\ backup.pc = "prune" /\ \A f \in Before(folder) : Superfluous(f) = {}
  /\ \E a \in Superfluous(folder) :
       /\ \A b \in Superfluous(folder) : b.day <= a.day
       /\ archives' = [archives EXCEPT ![folder] = @ \ {a}]
  /\ UNCHANGED <<live, backup, restore, aside, alertVars, done, mixed, gone, bkLeft, bkPlan>>

Complete ==
  /\ backup.pc = "prune" /\ \A f \in Folders : Superfluous(f) = {}
  /\ Phase("passed") /\ told' = FALSE
  /\ done' = [done EXCEPT !.days = @ \union {backup.day}, !.last = "ok"]
  /\ UNCHANGED <<live, archives, restore, aside, alarm, held, mixed, gone, bkLeft, bkPlan>>

RunSteps == {"files", "pack", "verify", "weekly", "monthly", "prune"}
Writes == IF backup.pc = "pack" THEN "daily" ELSE backup.pc

Stops(next, last) ==
  /\ backup.pc \in RunSteps /\ Spent("faults") /\ Phase(next)
  /\ \/ UNCHANGED archives /\ done' = [done EXCEPT !.last = last]
     \/ /\ Writes \in Folders /\ ~Has(Writes)
        /\ archives' = Added(Writes, FALSE)
        /\ done' = [done EXCEPT !.last = last,
                                !.torn = @ \union {<<Writes, NameOf(Writes, backup.day)>>}]
  /\ UNCHANGED <<live, restore, aside, alarm, held, mixed, gone, bkPlan>>

FailRun == Stops("failed", "failed") /\ told' = FALSE
CrashRun == Stops("off", done.last) /\ UNCHANGED told

------------------------------------------------------------------------------
(* ops_alerts.set_alert: it reads all alerts of the file and writes them     *)
(* back, under a lock of its own process.                                    *)

Tell ==
  /\ backup.pc \in {"failed", "passed"} /\ Phase("off")
  /\ alarm' = (backup.pc = "failed") /\ told' = \A w \in AlertWriters : held[w] = {}
  /\ UNCHANGED <<live, archives, restore, aside, held, done, mixed, gone, bkLeft, bkPlan>>

TellNothing ==                           \* its failure is ignored
  /\ backup.pc \in {"failed", "passed"} /\ Spent("faults") /\ Phase("off")
  /\ UNCHANGED <<live, archives, restore, aside, alertVars, done, mixed, gone, bkPlan>>

OtherReads(w) ==                         \* two that write use one temporary file
  /\ held[w] = {} /\ Spent("others")
  /\ \/ held' = [held EXCEPT ![w] = {alarm}] /\ UNCHANGED told
     \/ /\ \E v \in AlertWriters : held[v] # {}
        /\ held' = [held EXCEPT ![w] = {FALSE}] /\ told' = FALSE
  /\ UNCHANGED <<live, archives, backup, restore, aside, alarm, done, mixed, gone, bkPlan>>

OtherWrites(w) ==
  /\ \E on \in held[w] : alarm' = on
  /\ held' = [held EXCEPT ![w] = {}]
  /\ UNCHANGED <<live, archives, backup, restore, aside, told, done, mixed, gone, bkLeft, bkPlan>>

------------------------------------------------------------------------------
(* restore_runtime: the database first, then the session files, with those   *)
(* that were there moved aside.  A failure on the way leaves what was done.  *)

PickArchive(a) ==
  /\ Running /\ Spent("restores") /\ a.whole               \* verify
  /\ restore' = [pc |-> "db", from |-> {a}]
  /\ Upset
  /\ UNCHANGED <<live, archives, aside, alertVars, done, mixed, gone, bkPlan>>

RestoreDb ==
  /\ restore.pc = "db"
  /\ \E a \in restore.from : live' = [live EXCEPT !.rows = a.rows, !.leaving = {}]
  /\ mixed' = TRUE /\ restore' = [restore EXCEPT !.pc = "move"]
  /\ UNCHANGED <<archives, backup, aside, alertVars, done, gone, bkLeft, bkPlan>>

MoveFiles ==
  /\ restore.pc = "move"
  /\ aside' = aside \union live.files /\ live' = [live EXCEPT !.files = {}]
  /\ restore' = [restore EXCEPT !.pc = "copy"]
  /\ UNCHANGED <<archives, backup, alertVars, done, mixed, gone, bkLeft, bkPlan>>

CopyTree ==
  /\ restore.pc = "copy" /\ restore' = NoRestore
  /\ \E a \in restore.from : live' = [live EXCEPT !.files = a.files] /\ mixed' = a.beside
  /\ UNCHANGED <<archives, backup, aside, alertVars, done, gone, bkLeft, bkPlan>>

FailRestore ==
  /\ ~Running /\ Spent("faults") /\ restore' = NoRestore
  /\ \/ UNCHANGED <<live, mixed>>
     \/ /\ restore.pc = "db" /\ mixed' = TRUE    \* pg_restore is no transaction
        /\ live' = [live EXCEPT !.rows = {}]
  /\ UNCHANGED <<archives, backup, aside, alertVars, done, gone, bkPlan>>

------------------------------------------------------------------------------
BackupsProgress ==
  \/ Dump \/ CopyFiles \/ Pack \/ Verify \/ CopyFor("weekly", "monthly")
  \/ CopyFor("monthly", "prune") \/ (\E f \in Folders : Prune(f)) \/ Complete \/ Tell
  \/ \E w \in AlertWriters : OtherWrites(w)
  \/ RestoreDb \/ MoveFiles \/ CopyTree

BackupsEvent ==
  \/ \E a \in Accounts : AddFile(a) \/ AddRow(a) \/ DeleteFile(a) \/ DeleteRow(a)
  \/ FailRun \/ CrashRun \/ TellNothing \/ FailRestore
  \/ \E w \in AlertWriters : OtherReads(w)
  \/ \E f \in Folders : \E a \in archives[f] : PickArchive(a)

BackupsNext == BackupsProgress \/ BackupsEvent

BackupsSpec == BackupsInit /\ [][BackupsNext]_backupVars /\ WF_backupVars(BackupsProgress)
==============================================================================
