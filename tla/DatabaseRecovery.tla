---------------------------- MODULE DatabaseRecovery ----------------------------
(***************************************************************************)
(* The database file, its backups and its restore.                         *)
(*                                                                         *)
(* The service (createApplication) appends audit records to a SQLite file  *)
(* in WAL mode; createBackup copies that file while the service may run;   *)
(* restoreBackup validates a backup and puts it in the file's place, for   *)
(* which the service has to be stopped.  They are three processes that     *)
(* share files and no lock, and each may end at any point.                 *)
(*                                                                         *)
(* Of SQLite, which is external, the model has this: what has been         *)
(* committed is in the main file or in the write-ahead log beside it; the  *)
(* last connection that closes moves the log into the file; whoever opens  *)
(* a file with a log beside it reads through that log, also if it was      *)
(* written over another file, except where the file is empty.              *)
(***************************************************************************)
EXTENDS Naturals, Sequences

CONSTANTS
  Backups,     \* the backup directories there may be
  MaxRecords,  \* bound: audit records ever written
  None

ASSUME RecordsAssumption == MaxRecords \in Nat /\ None \notin Backups

VARIABLES
  environment,  \* "production" or "development"
  live,         \* the database file with its log
  validation,   \* .restore-validation.sqlite with its log
  copies,       \* each backup directory: its database file and whether it has its metadata
  service,      \* "off", "starting" or "ready"
  backup,       \* createBackup: where it is and its directory
  restore,      \* restoreBackup: where it is, its source; history: was the source whole and
                \* the validation clean: no old log, and no backup still writing
  written,      \* audit records written so far
  restored,     \* history: the whole backup restored since the service last ran
  shared        \* history: a process had the database open while a restore replaced it

vars == <<environment, live, validation, copies, service, backup, restore, written, restored,
          shared>>

\* What a file holds: it is not there, has no bytes, a header and no tables, a damaged
\* database, or the audit records.  A hash stands for all records before its own, so a
\* record is its number here, and a chain is broken only in a damaged database.
Image(is) == [is |-> is, rows |-> <<>>]
Absent == Image("absent")
Empty == Image("empty")
Blank == Image("blank")
Torn == Image("torn")

File(image) == [main |-> image, wal |-> Absent, fits |-> TRUE]

Idle == [at |-> "off", dir |-> None]
NoRestore == [at |-> "off", dir |-> None, whole |-> FALSE, clean |-> TRUE]

Init ==
  /\ environment \in {"production", "development"}
  /\ live = File(Absent) /\ validation = File(Absent)
  /\ copies = [b \in Backups |-> [file |-> Absent, whole |-> FALSE]]
  /\ service = "off" /\ backup = Idle /\ restore = NoRestore
  /\ written = 0 /\ restored = None /\ shared = FALSE

-----------------------------------------------------------------------------
(* SQLite and ToniDatabase *)

\* What a connection may find in a file.
Views(f) ==
  CASE f.wal = Absent \/ f.main \in {Absent, Empty} -> {f.main}
    [] f.wal # Absent /\ f.main \notin {Absent, Empty} -> IF f.fits THEN {f.wal} ELSE {Torn, f.wal}

\* Mutant: the tables are made anew each time.
InitializedAnew(image) == Image("log")

\* initialize: the tables are made where they are missing.
Initialized(image) == IF image.is \in {"absent", "empty", "blank"} THEN Image("log") ELSE image

\* A committed write goes to the log; the constructor has given the file a header.
Write(f, image) ==
  [main |-> IF f.main \in {Absent, Empty} THEN Blank ELSE f.main, wal |-> image, fits |-> TRUE]

Opened(f, image) ==
  IF Initialized(image) = f.main THEN File(f.main) ELSE Write(f, Initialized(image))

\* verifyDatabase: SQLite finds the file whole.
Intact(image) == image.is # "torn"

\* AuditRepository.verify: the table of records is there and its chain holds.
ChainHolds(image) == image.is = "log"

\* verifyDatabase and verifyAuditChain do not throw.
Verifies(image) == Intact(image) /\ ChainHolds(image)

\* Who has the live database open.
Users ==
  (IF service = "off" THEN {} ELSE {"service"})
    \cup (IF backup.at = "copying" THEN {"backup"} ELSE {})

\* What a connection to the live database leaves when it closes, others may stay.
Closed(file, image, others) == IF others = {} THEN File(image) ELSE file

-----------------------------------------------------------------------------
(* The service *)

\* createApplication opens the database.
Start ==
  /\ service = "off"
  /\ \E image \in Views(live) : live' = Opened(live, image)
  /\ service' = "starting" /\ restored' = None
  /\ shared' = (shared \/ restore.at = "copying")
  /\ UNCHANGED <<environment, validation, copies, backup, restore, written>>

Added(image) == [image EXCEPT !.rows = Append(@, written + 1)]

\* AuditRepository.append.
AppendRecord(image) ==
  /\ written < MaxRecords /\ written' = written + 1
  /\ live' = Write(live, Added(image))

\* runStartupChecks: what a check throws is thrown on, rather than noted.
ChecksAreRequired == environment = "production"

\* Mutant: what the check throws is noted in production too.
CheckNotes ==
  /\ service = "starting" /\ service' = "ready"
  /\ \E image \in Views(live) :
       IF Verifies(image) THEN AppendRecord(image) ELSE UNCHANGED <<live, written>>
  /\ UNCHANGED <<environment, validation, copies, backup, restore, restored, shared>>

\* The check of the audit storage; a start that it ends closes the database.
Check ==
  /\ service = "starting"
  /\ \E image \in Views(live) :
       \/ Verifies(image) /\ AppendRecord(image) /\ service' = "ready"
       \/ /\ ~Verifies(image) /\ UNCHANGED written
          /\ IF ChecksAreRequired
             THEN service' = "off" /\ live' = Closed(live, image, Users \ {"service"})
             ELSE service' = "ready" /\ UNCHANGED live
  /\ UNCHANGED <<environment, validation, copies, backup, restore, restored, shared>>

\* An audit record of the running service.
Record ==
  /\ service = "ready"
  /\ \E image \in Views(live) : Verifies(image) /\ AppendRecord(image)
  /\ UNCHANGED <<environment, validation, copies, service, backup, restore, restored, shared>>

\* A start that fails for another reason closes the database.
StartFails ==
  /\ service = "starting" /\ service' = "off"
  /\ \E image \in Views(live) : live' = Closed(live, image, Users \ {"service"})
  /\ UNCHANGED <<environment, validation, copies, backup, restore, written, restored, shared>>

\* A shutdown: a last record, if it can be written, and the database is closed.
Stop ==
  /\ service = "ready" /\ service' = "off"
  /\ \E image \in Views(live) :
       \/ /\ Verifies(image) /\ written < MaxRecords /\ written' = written + 1
          /\ live' = Closed(Write(live, Added(image)), Added(image), Users \ {"service"})
       \/ live' = Closed(live, image, Users \ {"service"}) /\ UNCHANGED written
  /\ UNCHANGED <<environment, validation, copies, backup, restore, restored, shared>>

\* The process ends: the log stays beside the file.
Crash ==
  /\ service # "off" /\ service' = "off"
  /\ UNCHANGED <<environment, live, validation, copies, backup, restore, written, restored,
                 shared>>

-----------------------------------------------------------------------------
(* createBackup *)

SaveCopy(image, whole) ==
  copies' = [copies EXCEPT ![backup.dir] = [file |-> image, whole |-> whole]]

\* Mutant: the database is copied without being verified.
BackupTrusts(b) ==
  /\ backup.at = "off" /\ copies[b].file = Absent
  /\ \E image \in Views(live) : live' = Opened(live, image)
  /\ backup' = [at |-> "copying", dir |-> b]
  /\ copies' = [copies EXCEPT ![b].file = Empty]
  /\ shared' = (shared \/ restore.at = "copying")
  /\ UNCHANGED <<environment, validation, service, restore, written, restored>>

\* A new directory; the database is opened and verified, and its copy begins as a file
\* without bytes.
BackupBegins(b) ==
  /\ backup.at = "off" /\ copies[b].file = Absent
  /\ \E image \in Views(live) :
       IF Verifies(Initialized(image))
       THEN /\ live' = Opened(live, image)
            /\ backup' = [at |-> "copying", dir |-> b]
            /\ copies' = [copies EXCEPT ![b].file = Empty]
       ELSE live' = Closed(live, image, Users) /\ UNCHANGED <<backup, copies>>
  /\ shared' = (shared \/ restore.at = "copying")
  /\ UNCHANGED <<environment, validation, service, restore, written, restored>>

\* SQLite's backup has ended with what the database then holds, or has failed and removed
\* its file; the connection is closed.
BackupCopied ==
  /\ backup.at = "copying"
  /\ \E image \in Views(live) :
       /\ live' = Closed(live, image, Users \ {"backup"})
       /\ \/ SaveCopy(image, FALSE) /\ backup' = [backup EXCEPT !.at = "finishing"]
          \/ SaveCopy(Absent, FALSE) /\ backup' = Idle
  /\ UNCHANGED <<environment, validation, service, restore, written, restored, shared>>

\* The audit and log files are copied, then the metadata is written; either may fail.
BackupEnds ==
  /\ backup.at = "finishing" /\ backup' = Idle
  /\ \E whole \in BOOLEAN : SaveCopy(copies[backup.dir].file, whole)
  /\ UNCHANGED <<environment, live, validation, service, restore, written, restored, shared>>

\* The process ends during the copy.
BackupDies ==
  /\ backup.at = "copying" /\ backup' = Idle
  /\ \E image \in {Empty, Torn} : SaveCopy(image, FALSE)
  /\ UNCHANGED <<environment, live, validation, service, restore, written, restored, shared>>

-----------------------------------------------------------------------------
(* restoreBackup *)

\* The source is copied over what an earlier validation has left, whose log stays.
RestoreBegins(b) ==
  /\ restore.at = "off" /\ copies[b].file # Absent
  /\ validation' = [validation EXCEPT !.main = copies[b].file, !.fits = FALSE]
  /\ restore' = [at |-> "validating", dir |-> b, whole |-> copies[b].whole,
                 clean |-> validation.wal = Absent /\ backup.dir # b]
  /\ UNCHANGED <<environment, live, copies, service, backup, written, restored, shared>>

\* Mutant: the copy is opened and closed, not verified.
RestoreTrusts ==
  /\ restore.at = "validating"
  /\ validation' = File(Absent) /\ restore' = [restore EXCEPT !.at = "opening"]
  /\ UNCHANGED <<environment, live, copies, service, backup, written, restored, shared>>

\* The copy is opened, made a database, verified, closed and removed; or this throws.
RestoreValidates ==
  /\ restore.at = "validating"
  /\ \E image \in Views(validation) :
       IF Verifies(Initialized(image))
       THEN validation' = File(Absent) /\ restore' = [restore EXCEPT !.at = "opening"]
       ELSE validation' = File(image) /\ restore' = NoRestore
  /\ UNCHANGED <<environment, live, copies, service, backup, written, restored, shared>>

\* The process ends while the copy is open: its log stays if it was written to.
ValidationDies ==
  /\ restore.at = "validating" /\ restore' = NoRestore
  /\ \E image \in Views(validation) : validation' = Opened(validation, image)
  /\ UNCHANGED <<environment, live, copies, service, backup, written, restored, shared>>

\* Mutant: the file is overwritten without the database being opened and closed before.
RestoreOverwrites ==
  /\ restore.at = "opening"
  /\ live' = [main |-> Torn, wal |-> live.wal, fits |-> FALSE]
  /\ restore' = [restore EXCEPT !.at = "copying"]
  /\ restored' = None /\ shared' = (shared \/ Users # {})
  /\ UNCHANGED <<environment, validation, copies, service, backup, written>>

\* The live database is opened and closed, which takes its log away if no one else has it
\* open; then its file is being overwritten.  A file that is no database may not open, and
\* a backup that failed has taken the source away.
RestoreOpens ==
  /\ restore.at = "opening"
  /\ \/ /\ copies[restore.dir].file # Absent
        /\ live' = [main |-> Torn, wal |-> IF Users = {} THEN Absent ELSE live.wal,
                    fits |-> FALSE]
        /\ restore' = [restore EXCEPT !.at = "copying"]
        /\ restored' = None /\ shared' = (shared \/ Users # {})
     \/ /\ Torn \in Views(live) \/ copies[restore.dir].file = Absent
        /\ restore' = NoRestore /\ UNCHANGED <<live, restored, shared>>
  /\ UNCHANGED <<environment, validation, copies, service, backup, written>>

\* The file is copied, and the restore is reported as done.
RestoreEnds ==
  /\ restore.at = "copying" /\ restore' = NoRestore
  /\ live' = IF copies[restore.dir].file = Absent THEN live
             ELSE [live EXCEPT !.main = copies[restore.dir].file]
  /\ restored' = IF restore.whole THEN restore.dir ELSE None
  /\ UNCHANGED <<environment, validation, copies, service, backup, written, shared>>

\* The process ends before the copy is complete, or the copy fails and Node removes what it
\* wrote: the file is damaged, has no bytes or, where no one has it open, is gone.
RestoreDies ==
  /\ restore.at \in {"opening", "copying"} /\ restore' = NoRestore
  /\ IF restore.at = "copying"
     THEN \E image \in {Torn, Empty} \cup (IF Users = {} THEN {Absent} ELSE {}) :
            live' = [live EXCEPT !.main = image]
     ELSE UNCHANGED live
  /\ UNCHANGED <<environment, validation, copies, service, backup, written, restored, shared>>

Next ==
  \/ Start \/ StartFails \/ Check \/ Record \/ Stop \/ Crash
  \/ (\E b \in Backups : BackupBegins(b) \/ RestoreBegins(b))
  \/ BackupCopied \/ BackupEnds \/ BackupDies
  \/ RestoreValidates \/ ValidationDies \/ RestoreOpens \/ RestoreEnds \/ RestoreDies

Spec == Init /\ [][Next]_vars

-----------------------------------------------------------------------------
(* Properties *)

Images ==
  [is : {"absent", "empty", "blank", "torn", "log"},
   rows : UNION {[1..n -> 1..MaxRecords] : n \in 0..MaxRecords}]
Files == [main : Images, wal : Images, fits : BOOLEAN]

\* The type of every variable.
TypeOK ==
  /\ environment \in {"production", "development"}
  /\ live \in Files /\ validation \in Files
  /\ copies \in [Backups -> [file : Images, whole : BOOLEAN]]
  /\ service \in {"off", "starting", "ready"}
  /\ backup \in [at : {"off", "copying", "finishing"}, dir : Backups \cup {None}]
  /\ restore \in [at : {"off", "validating", "opening", "copying"}, dir : Backups \cup {None},
                  whole : BOOLEAN, clean : BOOLEAN]
  /\ written \in 0..MaxRecords /\ restored \in Backups \cup {None} /\ shared \in BOOLEAN

\* What restore reports as restored is what the next process reads: no log that an ended
\* service has left is read over it.  Unless a service or a backup had the database open
\* meanwhile (ops/README.md: "Stop the service before restore").
RestoredIsBackup ==
  restored # None /\ ~shared => Views(live) = {copies[restored].file}

\* A service that is ready in production has a database that verifies, also after a restore
\* that was broken off; unless it was replaced under it.
ReadyIsVerified ==
  service = "ready" /\ environment = "production" /\ ~shared =>
    \A image \in Views(live) : Verifies(image)

\* A damaged copy, which a backup that was broken off leaves, never takes the place of the
\* live database; unless the backup is still being written, or an earlier restore died while
\* it validated an empty copy, whose log is then validated instead.
RestoreIsValidated ==
  restore.at = "copying" /\ restore.clean => copies[restore.dir].file # Torn

\* A backup with its metadata is one that a restore accepts: its database verifies, whatever
\* the service wrote while it was copied.  Unless a restore replaced the database under a
\* process that had it open.
BackupsVerify ==
  ~shared => \A b \in Backups : copies[b].whole => Verifies(copies[b].file)

\* Copies are sound on either way: those a backup leaves, and those a restore puts in place.
CopiesVerify == RestoreIsValidated /\ BackupsVerify

\* No record is lost but to a restore: whoever opens, appends to, copies or closes a database
\* that verifies, beside whom and wherever they end, leaves one that verifies with the same
\* records, and the new one if one was written.
RecordsStay ==
  [][restore.at # "copying" /\ restore'.at # "copying" =>
       \A image \in Views(live) : Views(live) = {image} /\ Verifies(image) =>
         \E later \in Views(live') :
           /\ Views(live') = {later} /\ Verifies(later)
           /\ later.rows \in {image.rows, Append(image.rows, written')}]_vars

=============================================================================
