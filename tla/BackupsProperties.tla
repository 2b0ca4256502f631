-------------------------- MODULE BackupsProperties --------------------------
(* What the backups promise to whoever must restore one.                     *)
EXTENDS Backups

BackupPcs == RunSteps \union {"off", "failed", "passed"}
Application == [rows : SUBSET Accounts, files : SUBSET Accounts, leaving : SUBSET Accounts]
Run == [pc : BackupPcs, day : Nat, rows : SUBSET Accounts, files : SUBSET Accounts,
        beside : BOOLEAN]
Completed == [days : SUBSET Days, torn : SUBSET (Folders \X Nat),
              last : {"none", "ok", "failed"}]

BackupsTypeOK ==
  /\ bkPlan \in BackupScenarios
  /\ live \in Application
  /\ archives \in [Folders -> SUBSET Archive]
  /\ backup \in Run /\ backup.day <= bkPlan.days
  /\ restore \in [pc : {"off", "db", "move", "copy"}, from : SUBSET Archive]
  /\ aside \subseteq Accounts /\ gone \subseteq Accounts /\ mixed \in BOOLEAN
  /\ alarm \in BOOLEAN /\ told \in BOOLEAN /\ held \in [AlertWriters -> SUBSET BOOLEAN]
  /\ done \in Completed

(* There is always a whole archive at least as young as the last completed   *)
(* run, whatever failed since, tore its archive or pruned by half.           *)
LastRunIsKept ==
  \A d \in done.days : \E a \in archives["daily"] : a.day >= d /\ a.whole

(* So there is for its week and its month, except one that an earlier run    *)
(* tore: no later run replaces it.                                           *)
PeriodsAreKept ==
  \A d \in done.days, f \in {"weekly", "monthly"} :
    \E a \in archives[f] :
      NameOf(f, a.day) >= NameOf(f, d) /\ (a.whole \/ <<f, NameOf(f, a.day)>> \in done.torn)

(* No folder grows past what it keeps and the runs since the last prune.     *)
FoldersAreBounded ==
  \A f \in Folders :
    Cardinality({a \in archives[f] : \E d \in done.days : a.day <= d}) <= Keep(f)

(* A run that has come to a step has made what the steps before it make, and *)
(* no archive is of a later day or, in its folder, of the day of another.    *)
StepsAreDone ==
  /\ \A f \in Folders : \A a \in archives[f] :
       /\ a.day <= backup.day
       /\ backup.pc \in {"files", "pack"} => a.day < backup.day
       /\ \A b \in archives[f] : NameOf(f, a.day) = NameOf(f, b.day) => a = b
       /\ f # "daily" => a.whole \/ <<f, NameOf(f, a.day)>> \in done.torn
  /\ \A d \in done.days : d <= backup.day /\ (backup.pc \in RunSteps => d < backup.day)
  /\ backup.pc # "off" => backup.day \in Days
  /\ backup.pc \in {"weekly", "monthly", "prune"} =>
       \E a \in archives["daily"] : a.day = backup.day /\ a.whole
  /\ backup.pc \in {"monthly", "prune"} => Has("weekly")
  /\ backup.pc = "prune" => Has("monthly")

(* In an archive every account has its session file, although the rows are   *)
(* dumped before the files are copied, unless an account was deleted or a    *)
(* restore was under way meanwhile.                                          *)
ArchivesMatch ==
  \A f \in Folders : \A a \in archives[f] : a.beside \/ a.rows \subseteq a.files

(* What a run has read so far would make such an archive.                    *)
CopiesMatch ==
  /\ backup.pc = "files" /\ ~backup.beside => Running /\ backup.rows \subseteq live.files
  /\ backup.pc \in RunSteps \ {"files"} /\ ~backup.beside => backup.rows \subseteq backup.files

(* So has every account of the application, but for one that is being        *)
(* deleted; not from the first step of a restore until one has ended well.   *)
RowsHaveFiles == mixed \/ live.rows \subseteq live.files \union live.leaving

(* A restore destroys no session file: what it does not bring back is aside. *)
NoFileIsLost == \A f \in Folders : \A a \in archives[f] : a.whole =>
    a.files \subseteq live.files \union aside \union gone

(* The files that a run has copied are not lost either.  A restore has the   *)
(* rows of its archive from its first step, and no file before its last.     *)
RestoreGoesOn ==
  /\ backup.pc \in RunSteps \ {"files"} => backup.files \subseteq live.files \union aside \union gone
  /\ \A a \in restore.from : a.beside \/ a.rows \subseteq a.files
  /\ restore.pc \in {"move", "copy"} => mixed /\ \A a \in restore.from : live.rows = a.rows
  /\ restore.pc = "copy" => live.files = {}
  /\ \A a, b \in restore.from : a = b

(* The alert is on exactly if the last run that came to an end has failed,   *)
(* whoever has rewritten the file since; not if the call that tells of it    *)
(* failed or came between another's read and write, nor after two others     *)
(* have met in the file.                                                     *)
AlarmIsTrue ==
  told => (alarm <=> done.last = "failed") /\ \A w \in AlertWriters : held[w] \subseteq {alarm}

(* A run tells of what has been its outcome.                                 *)
EndsAreTold ==
  /\ backup.pc = "failed" => done.last = "failed"
  /\ backup.pc = "passed" => done.last = "ok"

BackupsInv ==
  /\ BackupsTypeOK /\ LastRunIsKept /\ PeriodsAreKept /\ FoldersAreBounded /\ StepsAreDone
  /\ ArchivesMatch /\ CopiesMatch /\ RowsHaveFiles /\ NoFileIsLost /\ RestoreGoesOn /\ AlarmIsTrue
  /\ EndsAreTold
================================================================================
