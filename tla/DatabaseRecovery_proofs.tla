------------------------ MODULE DatabaseRecovery_proofs ------------------------
(***************************************************************************)
(* Safety of DatabaseRecovery for every set of backups and every number of *)
(* records.                                                                *)
(*                                                                         *)
(* RecoveryInv is inductive.  A backup that has its metadata is not        *)
(* touched again and, unless a restore disturbed it, holds a database that *)
(* verifies (WholeInv, BackupInv); a restore that nobody interferes with   *)
(* replaces a database that nobody has open and that has no log            *)
(* (RestoreInv); what it put there stays until the service starts          *)
(* (RestoredInv).                                                          *)
(***************************************************************************)
EXTENDS DatabaseRecovery, SequenceTheorems, TLAPS

\* The files that may exist once w records have been written.
RowsTo(w) == UNION {[1..n -> 1..w] : n \in 0..w}
ImagesTo(w) == [is : {"absent", "empty", "blank", "torn", "log"}, rows : RowsTo(w)]
FilesTo(w) == [main : ImagesTo(w), wal : ImagesTo(w), fits : BOOLEAN]

\* Whatever a connection finds in file f verifies.
Sound(f) == \A image \in Views(f) : Verifies(image)

TypeInv ==
  /\ environment \in {"production", "development"}
  /\ live \in FilesTo(written) /\ validation \in FilesTo(written)
  /\ copies \in [Backups -> [file : ImagesTo(written), whole : BOOLEAN]]
  /\ service \in {"off", "starting", "ready"}
  /\ backup \in [at : {"off", "copying", "finishing"}, dir : Backups \cup {None}]
  /\ restore \in [at : {"off", "validating", "opening", "copying"}, dir : Backups \cup {None},
                  whole : BOOLEAN, clean : BOOLEAN]
  /\ written \in 0..MaxRecords /\ restored \in Backups \cup {None} /\ shared \in BOOLEAN

WholeInv ==
  \A b \in Backups : copies[b].whole =>
    copies[b].file # Absent /\ (~shared => Verifies(copies[b].file))

BackupInv ==
  /\ backup.at # "off" =>
       backup.dir \in Backups /\ copies[backup.dir].file # Absent /\ ~copies[backup.dir].whole
  /\ backup.at = "copying" => live.main # Absent /\ (~shared => Sound(live))
  /\ backup.at = "finishing" /\ ~shared => Verifies(copies[backup.dir].file)

RestoreInv ==
  restore.at # "off" =>
    /\ restore.dir \in Backups
    /\ restore.whole => copies[restore.dir].whole
    /\ restore.clean =>
         /\ backup.dir # restore.dir /\ copies[restore.dir].file # Absent
         /\ restore.at = "validating" =>
              validation.main = copies[restore.dir].file /\ validation.wal = Absent
         /\ restore.at \in {"opening", "copying"} => Intact(copies[restore.dir].file)
    /\ restore.at = "copying" => restored = None
    /\ restore.at = "copying" /\ ~shared =>
         service = "off" /\ backup.at # "copying" /\ live.wal = Absent

RestoredInv ==
  restored # None /\ ~shared =>
    /\ service = "off" /\ copies[restored].whole
    /\ live.main = copies[restored].file /\ live.wal = Absent

RecoveryInv ==
  TypeInv /\ WholeInv /\ BackupInv /\ RestoreInv /\ RestoredInv /\ ReadyIsVerified

-----------------------------------------------------------------------------
(* What files may hold *)

\* The images that are no log have kinds of their own; only a log verifies.
LEMMA ImageKinds ==
  /\ Absent.is = "absent" /\ Empty.is = "empty" /\ Blank.is = "blank" /\ Torn.is = "torn"
  /\ \A image : Verifies(image) <=> image.is = "log"
BY DEF Absent, Empty, Blank, Torn, Image, Verifies, Intact, ChainHolds

\* An image without records may exist from the beginning.
LEMMA NoRowsType ==
  ASSUME NEW w \in Nat, NEW is \in {"absent", "empty", "blank", "torn", "log"}
  PROVE  Image(is) \in ImagesTo(w)
<1>1. <<>> \in [1..0 -> 1..w] /\ 0 \in 0..w
  OBVIOUS
<1>2. <<>> \in RowsTo(w)
  BY <1>1 DEF RowsTo
<1> QED
  BY <1>2 DEF Image, ImagesTo

\* The images without records may exist however few have been written.
LEMMA ConstantsType ==
  ASSUME NEW w \in Nat
  PROVE  Absent \in ImagesTo(w) /\ Empty \in ImagesTo(w) /\ Blank \in ImagesTo(w)
         /\ Torn \in ImagesTo(w)
BY NoRowsType DEF Absent, Empty, Blank, Torn

\* A file may go on to hold what it could hold before.
LEMMA RowsGrow ==
  ASSUME NEW v \in Nat, NEW w \in Nat, v <= w
  PROVE  RowsTo(v) \subseteq RowsTo(w)
<1> SUFFICES ASSUME NEW n \in 0..v, NEW rows \in [1..n -> 1..v] PROVE rows \in RowsTo(w)
  BY DEF RowsTo
<1>1. n \in 0..w /\ rows \in [1..n -> 1..w]
  OBVIOUS
<1> QED
  BY <1>1 DEF RowsTo

\* The same of images and of files with their log.
LEMMA ImagesGrow ==
  ASSUME NEW v \in Nat, NEW w \in Nat, v <= w
  PROVE  ImagesTo(v) \subseteq ImagesTo(w) /\ FilesTo(v) \subseteq FilesTo(w)
<1>1. ImagesTo(v) \subseteq ImagesTo(w)
  BY RowsGrow DEF ImagesTo
<1>2. FilesTo(v) \subseteq FilesTo(w)
  BY <1>1 DEF FilesTo
<1> QED
  BY <1>1, <1>2

\* The type that the proofs use is narrower than the model's.
LEMMA TypeInvImplies == TypeInv => TypeOK
<1> SUFFICES ASSUME TypeInv PROVE TypeOK
  OBVIOUS
<1>1. written \in Nat /\ MaxRecords \in Nat /\ written <= MaxRecords
  BY RecordsAssumption DEF TypeInv
<1>2. ImagesTo(MaxRecords) = Images /\ FilesTo(MaxRecords) = Files
  BY DEF ImagesTo, Images, FilesTo, Files, RowsTo
<1>3. ImagesTo(written) \subseteq Images /\ FilesTo(written) \subseteq Files
  BY <1>1, <1>2, ImagesGrow
<1> QED
  BY <1>3 DEF TypeInv, TypeOK

\* A record more.
LEMMA AddedType ==
  ASSUME written \in Nat, NEW image \in ImagesTo(written)
  PROVE  Added(image) \in ImagesTo(written + 1) /\ Added(image).is = image.is
<1>1. PICK n \in 0..written : image.rows \in [1..n -> 1..written]
  BY DEF ImagesTo, RowsTo
<1>2. image.rows \in Seq(1..written) /\ Len(image.rows) = n
  BY <1>1
<1>3. Append(image.rows, written + 1) \in [1..(n + 1) -> 1..(written + 1)]
  <2>1. image.rows \in [1..n -> 1..(written + 1)] /\ n \in Nat
    BY <1>1
  <2>2. image.rows \in Seq(1..(written + 1)) /\ written + 1 \in 1..(written + 1)
    BY <2>1
  <2>3. /\ Append(image.rows, written + 1) \in Seq(1..(written + 1))
        /\ Len(Append(image.rows, written + 1)) = n + 1
    BY <1>2, <2>2
  <2> QED
    BY <2>3, LenProperties
<1>4. Append(image.rows, written + 1) \in RowsTo(written + 1)
  BY <1>3 DEF RowsTo
<1> QED
  BY <1>4 DEF Added, ImagesTo

\* What a connection finds is an image, and there is something that it finds.
LEMMA ViewsType ==
  ASSUME NEW w \in Nat, NEW f \in FilesTo(w)
  PROVE  /\ Views(f) \subseteq ImagesTo(w) /\ Views(f) # {}
         /\ f.main # Absent => Absent \notin Views(f)
<1>1. f.main \in ImagesTo(w) /\ f.wal \in ImagesTo(w) /\ Torn \in ImagesTo(w)
  BY ConstantsType DEF FilesTo
<1>2. Torn # Absent
  BY ImageKinds
<1>3. CASE f.wal = Absent \/ f.main \in {Absent, Empty}
  BY <1>1, <1>3 DEF Views
<1>4. CASE f.wal # Absent /\ f.main \notin {Absent, Empty}
  BY <1>1, <1>2, <1>4 DEF Views
<1> QED
  BY <1>3, <1>4

\* Without a log, the file is what is found.
LEMMA MainViews == ASSUME NEW f, f.wal = Absent PROVE Views(f) = {f.main}
BY DEF Views

\* A file without a log is found as it is.
LEMMA FileFacts ==
  ASSUME NEW w \in Nat, NEW image \in ImagesTo(w)
  PROVE  File(image) \in FilesTo(w) /\ Views(File(image)) = {image} /\ File(image).main = image
         /\ File(image).wal = Absent
BY ConstantsType DEF File, FilesTo, Views

\* What has been committed is what is found.
LEMMA WriteFacts ==
  ASSUME NEW w \in Nat, NEW f \in FilesTo(w), NEW image \in ImagesTo(w), image # Absent
  PROVE  /\ Write(f, image) \in FilesTo(w) /\ Views(Write(f, image)) = {image}
         /\ Write(f, image).main # Absent
<1>1. Blank # Absent /\ Blank # Empty /\ Blank \in ImagesTo(w) /\ f.main \in ImagesTo(w)
  BY ImageKinds, ConstantsType DEF FilesTo
<1> DEFINE g == Write(f, image)
<1>2. g.main \notin {Absent, Empty} /\ g.main \in ImagesTo(w) /\ g.wal = image /\ g.fits = TRUE
  BY <1>1 DEF Write
<1>3. g \in FilesTo(w)
  BY <1>1 DEF Write, FilesTo
<1> HIDE DEF g
<1>4. Views(g) = {image}
  BY <1>2 DEF Views
<1> QED
  BY <1>2, <1>3, <1>4 DEF g

\* A connection that is opened finds what there was, with tables.
LEMMA OpenedFacts ==
  ASSUME NEW w \in Nat, NEW f \in FilesTo(w), NEW image \in ImagesTo(w)
  PROVE  /\ Opened(f, image) \in FilesTo(w) /\ Views(Opened(f, image)) = {Initialized(image)}
         /\ Opened(f, image).main # Absent
         /\ image.is = "log" => Initialized(image) = image
         /\ image.is = "torn" <=> Initialized(image).is = "torn"
<1>1. /\ Initialized(image) \in ImagesTo(w) /\ Initialized(image) # Absent
      /\ image.is = "log" => Initialized(image) = image
      /\ image.is = "torn" <=> Initialized(image).is = "torn"
  <2>1. Image("log") \in ImagesTo(w) /\ Image("log").is = "log"
    BY NoRowsType DEF Image
  <2>2. CASE image.is \in {"absent", "empty", "blank"}
    BY <2>1, <2>2, ImageKinds DEF Initialized
  <2>3. CASE image.is \notin {"absent", "empty", "blank"}
    BY <2>3, ImageKinds DEF Initialized
  <2> QED
    BY <2>2, <2>3
<1>2. CASE Initialized(image) = f.main
  BY <1>1, <1>2, FileFacts DEF Opened
<1>3. CASE Initialized(image) # f.main
  BY <1>1, <1>3, WriteFacts DEF Opened
<1> QED
  BY <1>1, <1>2, <1>3

-----------------------------------------------------------------------------
(* The steps *)

\* The invariant holds where there is neither a database nor a backup.
LEMMA InitSafe == Init => RecoveryInv
<1> SUFFICES ASSUME Init PROVE RecoveryInv
  OBVIOUS
<1>1. MaxRecords \in Nat /\ Absent \in ImagesTo(0)
  BY RecordsAssumption, ConstantsType
<1>2. File(Absent) \in FilesTo(0)
  BY <1>1, FileFacts
<1>3. TypeInv
  <2>1. copies \in [Backups -> [file : ImagesTo(0), whole : BOOLEAN]]
    BY <1>1 DEF Init
  <2>2. /\ backup \in [at : {"off", "copying", "finishing"}, dir : Backups \cup {None}]
        /\ restore \in [at : {"off", "validating", "opening", "copying"}, dir : Backups \cup {None},
                        whole : BOOLEAN, clean : BOOLEAN]
    BY DEF Init, Idle, NoRestore
  <2>3. written = 0 /\ live \in FilesTo(0) /\ validation \in FilesTo(0) /\ 0 \in 0..MaxRecords
    BY <1>1, <1>2 DEF Init
  <2> QED
    BY <2>1, <2>2, <2>3 DEF Init, TypeInv
<1>4. WholeInv /\ BackupInv /\ RestoreInv /\ RestoredInv /\ ReadyIsVerified
  BY DEF Init, WholeInv, BackupInv, RestoreInv, RestoredInv, ReadyIsVerified, Idle, NoRestore
<1> QED
  BY <1>3, <1>4 DEF RecoveryInv

\* Written records are within their bound, and TypeInv is about a natural number.
LEMMA WrittenType == TypeInv => written \in Nat /\ MaxRecords \in Nat
BY RecordsAssumption DEF TypeInv

\* The service's steps: they leave backups and restores alone, and what is sound stays sound.
ServiceStep ==
  /\ UNCHANGED <<environment, validation, copies, backup, restore>>
  /\ service' \in {"off", "starting", "ready"}
  /\ written' \in {written, written + 1} /\ written' <= MaxRecords
  /\ live' \in FilesTo(written')
  /\ live.main # Absent => live'.main # Absent
  /\ ~shared /\ Sound(live) => Sound(live')
  /\ service' = "ready" /\ environment = "production" /\ ~shared' => Sound(live')
  /\ \/ service = "off" /\ restored' = None /\ shared' = (shared \/ restore.at = "copying")
     \/ service # "off" /\ restored' = restored /\ shared' = shared

\* A step of the service keeps the invariant when it has the form of ServiceStep.
LEMMA ServiceSafe == ASSUME RecoveryInv, ServiceStep PROVE RecoveryInv'
<1>1. /\ written \in Nat /\ written' \in 0..MaxRecords /\ written' \in Nat
      /\ ImagesTo(written) \subseteq ImagesTo(written') /\ FilesTo(written) \subseteq FilesTo(written')
  <2>1. written \in Nat /\ MaxRecords \in Nat
    BY WrittenType DEF RecoveryInv
  <2>2. written' \in Nat /\ written <= written' /\ written' <= MaxRecords
    BY <2>1 DEF ServiceStep
  <2> QED
    BY <2>1, <2>2, ImagesGrow
<1>2. TypeInv'
  <2>1. live' \in FilesTo(written') /\ validation' \in FilesTo(written')
    BY <1>1 DEF ServiceStep, RecoveryInv, TypeInv
  <2>2. copies' \in [Backups -> [file : ImagesTo(written'), whole : BOOLEAN]]
    BY <1>1 DEF ServiceStep, RecoveryInv, TypeInv
  <2>3. service' \in {"off", "starting", "ready"} /\ restored' \in Backups \cup {None} /\ shared' \in BOOLEAN
    BY DEF ServiceStep, RecoveryInv, TypeInv
  <2> QED
    BY <1>1, <2>1, <2>2, <2>3 DEF ServiceStep, RecoveryInv, TypeInv
<1>3. ~shared' => ~shared
  BY DEF ServiceStep
<1>4. WholeInv' /\ BackupInv'
  <2>1. WholeInv'
    BY <1>3 DEF ServiceStep, RecoveryInv, WholeInv
  <2>2. UNCHANGED <<copies, backup>> /\ (live.main # Absent => live'.main # Absent)
        /\ (~shared /\ Sound(live) => Sound(live'))
    BY DEF ServiceStep
  <2>3. BackupInv'
    BY <1>3, <2>2 DEF RecoveryInv, BackupInv
  <2> QED
    BY <2>1, <2>3
<1>5. ~shared' => restore.at # "copying"
  <2>1. CASE service = "off"
    BY <2>1 DEF ServiceStep
  <2>2. CASE service # "off"
    BY <2>2 DEF ServiceStep, RecoveryInv, RestoreInv
  <2> QED
    BY <2>1, <2>2
<1>6. RestoreInv'
  BY <1>3, <1>5 DEF ServiceStep, RecoveryInv, RestoreInv
<1>7. ~shared' => restored' = None
  BY DEF ServiceStep, RecoveryInv, RestoredInv
<1>8. RestoredInv' /\ ReadyIsVerified'
  BY <1>7 DEF ServiceStep, RestoredInv, ReadyIsVerified, Sound
<1> QED
  BY <1>2, <1>4, <1>6, <1>8 DEF RecoveryInv

\* A record appended to a database that verifies leaves one that verifies.
LEMMA AppendFacts ==
  ASSUME RecoveryInv, NEW image \in Views(live), Verifies(image), written < MaxRecords
  PROVE  LET w == Write(live, Added(image)) IN
         /\ w \in FilesTo(written + 1) /\ w.main # Absent /\ Sound(w)
         /\ File(Added(image)) \in FilesTo(written + 1) /\ File(Added(image)).main # Absent
         /\ Sound(File(Added(image)))
<1>1. written \in Nat /\ live \in FilesTo(written) /\ live \in FilesTo(written + 1)
  BY WrittenType, ImagesGrow DEF RecoveryInv, TypeInv
<1>2. image \in ImagesTo(written) /\ image.is = "log"
  BY <1>1, ViewsType, ImageKinds
<1>3. Added(image) \in ImagesTo(written + 1) /\ Verifies(Added(image)) /\ Added(image) # Absent
  BY <1>1, <1>2, AddedType, ImageKinds
<1>4. written + 1 \in Nat
  BY <1>1
<1> QED
  BY <1>1, <1>3, <1>4, WriteFacts, FileFacts DEF Sound

\* What the last connection leaves is what was found before.
LEMMA ClosedFacts ==
  ASSUME RecoveryInv, NEW image \in Views(live), NEW others
  PROVE  /\ Closed(live, image, others) \in FilesTo(written)
         /\ live.main # Absent => Closed(live, image, others).main # Absent
         /\ Sound(live) => Sound(Closed(live, image, others))
<1>1. written \in Nat /\ live \in FilesTo(written)
  BY WrittenType DEF RecoveryInv, TypeInv
<1>2. image \in ImagesTo(written) /\ (live.main # Absent => image # Absent)
  BY <1>1, ViewsType
<1>3. CASE others = {}
  BY <1>1, <1>2, <1>3, FileFacts DEF Closed, Sound
<1>4. CASE others # {}
  BY <1>1, <1>4 DEF Closed
<1> QED
  BY <1>3, <1>4

\* A service that starts opens a sound database as a sound one, or finds none.
LEMMA StartSafe == ASSUME RecoveryInv, Start PROVE RecoveryInv'
<1>1. written \in Nat /\ live \in FilesTo(written) /\ written <= MaxRecords
  BY WrittenType DEF RecoveryInv, TypeInv
<1>2. PICK image \in Views(live) : live' = Opened(live, image)
  BY DEF Start
<1>3. image \in ImagesTo(written)
  BY <1>1, <1>2, ViewsType
<1>4. /\ live' \in FilesTo(written) /\ live'.main # Absent /\ Views(live') = {Initialized(image)}
      /\ image.is = "log" => Initialized(image) = image
  BY <1>1, <1>2, <1>3, OpenedFacts
<1>5. Sound(live) => Sound(live')
  BY <1>2, <1>4, ImageKinds DEF Sound
<1>6. written' = written /\ written' \in {written, written + 1} /\ written' <= MaxRecords
  BY <1>1 DEF Start
<1>7. ServiceStep
  BY <1>4, <1>5, <1>6 DEF Start, ServiceStep
<1> QED
  BY <1>7, ServiceSafe

\* A start or a shutdown that leaves the database as it was found, or closes it.
LEMMA StartFailsSafe == ASSUME RecoveryInv, StartFails PROVE RecoveryInv'
<1>1. PICK image \in Views(live) : live' = Closed(live, image, Users \ {"service"})
  BY DEF StartFails
<1>2. written \in Nat /\ written <= MaxRecords
  BY WrittenType DEF RecoveryInv, TypeInv
<1>3. ServiceStep
  BY <1>1, <1>2, ClosedFacts DEF StartFails, ServiceStep
<1> QED
  BY <1>3, ServiceSafe

\* In production the check lets a service be ready only on what verifies.
LEMMA CheckSafe == ASSUME RecoveryInv, Check PROVE RecoveryInv'
<1>1. written \in Nat /\ MaxRecords \in Nat /\ written <= MaxRecords
  BY WrittenType DEF RecoveryInv, TypeInv
<1>2. PICK image \in Views(live) :
        \/ Verifies(image) /\ AppendRecord(image) /\ service' = "ready"
        \/ /\ ~Verifies(image) /\ UNCHANGED written
           /\ IF ChecksAreRequired
              THEN service' = "off" /\ live' = Closed(live, image, Users \ {"service"})
              ELSE service' = "ready" /\ UNCHANGED live
  BY DEF Check
<1>3. CASE Verifies(image) /\ AppendRecord(image) /\ service' = "ready"
  <2>1. /\ written' = written + 1 /\ written' \in {written, written + 1} /\ written' <= MaxRecords
        /\ written < MaxRecords /\ live' = Write(live, Added(image))
    BY <1>1, <1>3 DEF AppendRecord
  <2>2. live' \in FilesTo(written') /\ live'.main # Absent /\ Sound(live')
    BY <1>2, <1>3, <2>1, AppendFacts
  <2>3. ServiceStep
    BY <1>3, <2>1, <2>2 DEF Check, ServiceStep
  <2> QED
    BY <2>3, ServiceSafe
<1>4. CASE UNCHANGED written /\ environment = "production" /\ service' = "off"
           /\ live' = Closed(live, image, Users \ {"service"})
  <2>1. ServiceStep
    BY <1>1, <1>2, <1>4, ClosedFacts DEF Check, ServiceStep
  <2> QED
    BY <2>1, ServiceSafe
<1>5. CASE UNCHANGED written /\ environment # "production" /\ service' = "ready" /\ UNCHANGED live
  <2>1. live \in FilesTo(written)
    BY DEF RecoveryInv, TypeInv
  <2>2. written' \in {written, written + 1} /\ written' <= MaxRecords /\ live' \in FilesTo(written')
    BY <1>1, <1>5, <2>1
  <2>3. ServiceStep
    BY <1>5, <2>2 DEF Check, ServiceStep
  <2> QED
    BY <2>3, ServiceSafe
<1> QED
  BY <1>2, <1>3, <1>4, <1>5 DEF ChecksAreRequired

\* A record appended to a sound chain leaves it sound.
LEMMA RecordSafe == ASSUME RecoveryInv, Record PROVE RecoveryInv'
<1>1. written \in Nat /\ MaxRecords \in Nat
  BY WrittenType DEF RecoveryInv
<1>2. PICK image \in Views(live) : Verifies(image) /\ AppendRecord(image)
  BY DEF Record
<1>3. /\ written' = written + 1 /\ written' \in {written, written + 1} /\ written' <= MaxRecords
      /\ written < MaxRecords /\ live' = Write(live, Added(image))
  BY <1>1, <1>2 DEF AppendRecord
<1>4. live' \in FilesTo(written') /\ live'.main # Absent /\ Sound(live')
  BY <1>2, <1>3, AppendFacts
<1>5. ServiceStep
  BY <1>3, <1>4 DEF Record, ServiceStep
<1> QED
  BY <1>5, ServiceSafe

\* Stopping closes the connection, which may fold the log into the file.
LEMMA StopSafe == ASSUME RecoveryInv, Stop PROVE RecoveryInv'
<1>1. written \in Nat /\ MaxRecords \in Nat /\ written <= MaxRecords
  BY WrittenType DEF RecoveryInv, TypeInv
<1>2. PICK image \in Views(live) :
        \/ /\ Verifies(image) /\ written < MaxRecords /\ written' = written + 1
           /\ live' = Closed(Write(live, Added(image)), Added(image), Users \ {"service"})
        \/ live' = Closed(live, image, Users \ {"service"}) /\ UNCHANGED written
  BY DEF Stop
<1>3. CASE /\ Verifies(image) /\ written < MaxRecords /\ written' = written + 1
           /\ live' = Closed(Write(live, Added(image)), Added(image), Users \ {"service"})
  <2>1. live' \in {Write(live, Added(image)), File(Added(image))}
    BY <1>3 DEF Closed
  <2>2. live' \in FilesTo(written + 1) /\ live'.main # Absent /\ Sound(live')
    BY <1>2, <1>3, <2>1, AppendFacts
  <2>3. written' \in {written, written + 1} /\ written' <= MaxRecords
    BY <1>1, <1>3
  <2>4. ServiceStep
    BY <1>3, <2>2, <2>3 DEF Stop, ServiceStep
  <2> QED
    BY <2>4, ServiceSafe
<1>4. CASE live' = Closed(live, image, Users \ {"service"}) /\ UNCHANGED written
  <2>1. ServiceStep
    BY <1>1, <1>2, <1>4, ClosedFacts DEF Stop, ServiceStep
  <2> QED
    BY <2>1, ServiceSafe
<1> QED
  BY <1>2, <1>3, <1>4

\* A crash leaves the file and its log as they are.
LEMMA CrashSafe == ASSUME RecoveryInv, Crash PROVE RecoveryInv'
<1>1. ServiceStep
  BY WrittenType DEF Crash, ServiceStep, RecoveryInv, TypeInv
<1> QED
  BY <1>1, ServiceSafe

\* After a restore, the next process finds the backup, which verifies.
LEMMA RestoredViews ==
  ASSUME RecoveryInv, restored # None, ~shared
  PROVE  Views(live) = {copies[restored].file} /\ Verifies(copies[restored].file)
<1>1. restored \in Backups
  BY DEF RecoveryInv, TypeInv
<1> QED
  BY <1>1, MainViews DEF RecoveryInv, RestoredInv, WholeInv

\* A database that does not verify is closed again, and nothing else changes.
LEMMA BackupRefusedSafe ==
  ASSUME RecoveryInv, NEW image \in Views(live), ~Verifies(Initialized(image)),
         live' = Closed(live, image, Users), backup.at = "off",
         UNCHANGED <<environment, validation, copies, service, backup, restore, written, restored>>,
         shared' = (shared \/ restore.at = "copying")
  PROVE  RecoveryInv'
<1>1. TypeInv'
  BY ClosedFacts DEF RecoveryInv, TypeInv
<1>2. ~shared' => ~shared /\ restore.at # "copying"
  OBVIOUS
<1>3. WholeInv' /\ BackupInv' /\ RestoreInv'
  BY <1>2 DEF RecoveryInv, WholeInv, BackupInv, RestoreInv
<1>4. image.is # "log"
  BY ImageKinds DEF Initialized
<1>5. RestoredInv'
  BY <1>2, <1>4, RestoredViews, ImageKinds DEF RestoredInv
<1>6. Sound(live) => Sound(live')
  BY ClosedFacts
<1>7. ReadyIsVerified'
  BY <1>2, <1>6 DEF RecoveryInv, ReadyIsVerified, Sound
<1> QED
  BY <1>1, <1>3, <1>5, <1>7 DEF RecoveryInv

\* A backup writes to a directory that nobody restores from.
LEMMA BackupOpenedSafe ==
  ASSUME RecoveryInv, NEW b \in Backups, NEW image \in Views(live), Verifies(Initialized(image)),
         backup.at = "off", copies[b].file = Absent,
         live' = Opened(live, image), backup' = [at |-> "copying", dir |-> b],
         copies' = [copies EXCEPT ![b].file = Empty],
         UNCHANGED <<environment, validation, service, restore, written, restored>>,
         shared' = (shared \/ restore.at = "copying")
  PROVE  RecoveryInv'
<1>1. written \in Nat /\ live \in FilesTo(written) /\ Empty \in ImagesTo(written) /\ Empty # Absent
  BY WrittenType, ConstantsType, ImageKinds DEF RecoveryInv, TypeInv
<1>2. /\ live' \in FilesTo(written) /\ live'.main # Absent /\ Views(live') = {Initialized(image)}
      /\ Sound(live')
  <2>1. image \in ImagesTo(written)
    BY <1>1, ViewsType
  <2>2. /\ live' \in FilesTo(written) /\ live'.main # Absent /\ Views(live') = {Initialized(image)}
    BY <1>1, <2>1, OpenedFacts
  <2> QED
    BY <2>2 DEF Sound
<1>3. /\ copies' \in [Backups -> [file : ImagesTo(written), whole : BOOLEAN]]
      /\ copies'[b].file = Empty /\ copies'[b].whole = copies[b].whole
      /\ \A c \in Backups \ {b} : copies'[c] = copies[c]
  BY <1>1 DEF RecoveryInv, TypeInv
<1>4. copies[b].whole = FALSE
  BY DEF RecoveryInv, TypeInv, WholeInv
<1>5. ~shared' => ~shared /\ restore.at # "copying"
  OBVIOUS
<1>6. TypeInv'
  BY <1>2, <1>3 DEF RecoveryInv, TypeInv
<1>7. WholeInv'
  BY <1>3, <1>4, <1>5 DEF RecoveryInv, WholeInv
<1>8. BackupInv'
  BY <1>1, <1>2, <1>3, <1>4 DEF BackupInv
<1>9. RestoreInv'
  BY <1>1, <1>3, <1>4, <1>5 DEF RecoveryInv, RestoreInv
<1>10. RestoredInv'
  <2>1. SUFFICES ASSUME restored # None, ~shared, restored \in Backups
                 PROVE  /\ service = "off" /\ copies'[restored].whole
                        /\ live'.main = copies'[restored].file /\ live'.wal = Absent
    BY <1>5 DEF RestoredInv, RecoveryInv, TypeInv
  <2>2. /\ service = "off" /\ copies[restored].whole /\ live.main = copies[restored].file
        /\ image = live.main /\ Verifies(image)
    BY <2>1, RestoredViews DEF RecoveryInv, RestoredInv
  <2>3. Initialized(image) = live.main
    BY <2>2, ImageKinds DEF Initialized
  <2>4. live' = File(live.main)
    BY <2>3 DEF Opened
  <2> QED
    BY <1>3, <1>4, <2>2, <2>4 DEF File
<1>11. ReadyIsVerified'
  BY <1>2 DEF ReadyIsVerified, Sound
<1> QED
  BY <1>6, <1>7, <1>8, <1>9, <1>10, <1>11 DEF RecoveryInv

\* A backup begins in a directory that nothing has been copied to.
LEMMA BackupBeginsSafe == ASSUME RecoveryInv, NEW b \in Backups, BackupBegins(b) PROVE RecoveryInv'
<1>1. PICK image \in Views(live) :
       IF Verifies(Initialized(image))
       THEN /\ live' = Opened(live, image)
            /\ backup' = [at |-> "copying", dir |-> b]
            /\ copies' = [copies EXCEPT ![b].file = Empty]
       ELSE live' = Closed(live, image, Users) /\ UNCHANGED <<backup, copies>>
  BY DEF BackupBegins
<1>2. CASE Verifies(Initialized(image))
  BY <1>1, <1>2, BackupOpenedSafe DEF BackupBegins
<1>3. CASE ~Verifies(Initialized(image))
  BY <1>1, <1>3, BackupRefusedSafe DEF BackupBegins
<1> QED
  BY <1>2, <1>3

\* What is saved is saved to the directory of the backup that runs, and to no whole one.
LEMMA SaveCopyFacts ==
  ASSUME RecoveryInv, backup.at # "off", NEW image \in ImagesTo(written), NEW whole \in BOOLEAN,
         SaveCopy(image, whole)
  PROVE  /\ copies' \in [Backups -> [file : ImagesTo(written), whole : BOOLEAN]]
         /\ copies'[backup.dir].file = image /\ copies'[backup.dir].whole = whole
         /\ \A c \in Backups \ {backup.dir} : copies'[c] = copies[c]
         /\ \A c \in Backups : copies[c].whole => c # backup.dir
         /\ backup.dir \in Backups
<1>1. backup.dir \in Backups /\ ~copies[backup.dir].whole
  BY DEF RecoveryInv, BackupInv
<1> QED
  BY <1>1 DEF SaveCopy, RecoveryInv, TypeInv

\* A step of a backup that leaves the live database what it was.
LEMMA BackupStepSafe ==
  ASSUME RecoveryInv, backup.at # "off", NEW image \in ImagesTo(written), NEW whole \in BOOLEAN,
         SaveCopy(image, whole), backup' \in {Idle, [backup EXCEPT !.at = "finishing"]},
         UNCHANGED <<environment, validation, service, restore, written, restored, shared>>,
         live' \in FilesTo(written), Sound(live) => Sound(live'),
         restored # None /\ ~shared => live'.main = live.main /\ live'.wal = Absent,
         restore.at = "copying" /\ ~shared => live' = live,
         whole \/ backup' # Idle => image # Absent /\ (~shared => Verifies(image)),
         whole => backup' = Idle
  PROVE  RecoveryInv'
<1>1. /\ copies' \in [Backups -> [file : ImagesTo(written), whole : BOOLEAN]]
      /\ copies'[backup.dir].file = image /\ copies'[backup.dir].whole = whole
      /\ \A c \in Backups \ {backup.dir} : copies'[c] = copies[c]
      /\ \A c \in Backups : copies[c].whole => c # backup.dir
      /\ backup.dir \in Backups
  BY SaveCopyFacts
<1>2. /\ backup' \in [at : {"off", "copying", "finishing"}, dir : Backups \cup {None}]
      /\ \/ backup'.at = "off" /\ backup'.dir = None /\ backup' = Idle
         \/ backup'.at = "finishing" /\ backup'.dir = backup.dir /\ backup' # Idle
  BY DEF RecoveryInv, TypeInv, Idle
<1>3. None \notin Backups
  BY RecordsAssumption
<1>4. TypeInv'
  BY <1>1, <1>2 DEF RecoveryInv, TypeInv
<1>5. WholeInv'
  BY <1>1 DEF RecoveryInv, WholeInv
<1>6. BackupInv'
  BY <1>1, <1>2 DEF BackupInv
<1>7. RestoreInv'
  BY <1>1, <1>2, <1>3 DEF RecoveryInv, RestoreInv
<1>8. RestoredInv'
  BY <1>1 DEF RecoveryInv, TypeInv, RestoredInv
<1>9. ReadyIsVerified'
  BY DEF RecoveryInv, ReadyIsVerified, Sound
<1> QED
  BY <1>4, <1>5, <1>6, <1>7, <1>8, <1>9 DEF RecoveryInv

\* What VACUUM INTO copies of a sound database verifies.
LEMMA BackupCopiedSafe == ASSUME RecoveryInv, BackupCopied PROVE RecoveryInv'
<1>1. PICK image \in Views(live) :
        /\ live' = Closed(live, image, Users \ {"backup"})
        /\ \/ SaveCopy(image, FALSE) /\ backup' = [backup EXCEPT !.at = "finishing"]
           \/ SaveCopy(Absent, FALSE) /\ backup' = Idle
  BY DEF BackupCopied
<1>2. /\ backup.at = "copying" /\ live.main # Absent /\ (~shared => Sound(live))
      /\ UNCHANGED <<environment, validation, service, restore, written, restored, shared>>
  BY DEF BackupCopied, RecoveryInv, BackupInv
<1>3. /\ image \in ImagesTo(written) /\ image # Absent /\ Absent \in ImagesTo(written)
      /\ ~shared => Verifies(image)
  BY <1>2, WrittenType, ViewsType, ConstantsType DEF RecoveryInv, TypeInv, Sound
<1>4. live' \in FilesTo(written) /\ (Sound(live) => Sound(live'))
  BY <1>1, ClosedFacts
<1>5. restored # None /\ ~shared => live'.main = live.main /\ live'.wal = Absent
  <2>1. SUFFICES ASSUME restored # None, ~shared
                 PROVE  live'.main = live.main /\ live'.wal = Absent
    OBVIOUS
  <2>2. image = live.main /\ live.wal = Absent
    BY <2>1, MainViews DEF RecoveryInv, RestoredInv
  <2> QED
    BY <1>1, <2>2 DEF Closed, File
<1>6. restore.at = "copying" => shared
  BY <1>2 DEF RecoveryInv, RestoreInv
<1>7. CASE SaveCopy(image, FALSE) /\ backup' = [backup EXCEPT !.at = "finishing"]
  BY <1>2, <1>3, <1>4, <1>5, <1>6, <1>7, BackupStepSafe
<1>8. CASE SaveCopy(Absent, FALSE) /\ backup' = Idle
  BY <1>2, <1>3, <1>4, <1>5, <1>6, <1>8, BackupStepSafe
<1> QED
  BY <1>1, <1>7, <1>8

\* A backup becomes whole only when its copy is finished.
LEMMA BackupEndsSafe == ASSUME RecoveryInv, BackupEnds PROVE RecoveryInv'
<1>1. PICK whole \in BOOLEAN : SaveCopy(copies[backup.dir].file, whole)
  BY DEF BackupEnds
<1>2. /\ backup.at = "finishing" /\ backup' = Idle
      /\ UNCHANGED <<environment, live, validation, service, restore, written, restored, shared>>
  BY DEF BackupEnds
<1>3. /\ copies[backup.dir].file \in ImagesTo(written) /\ copies[backup.dir].file # Absent
      /\ ~shared => Verifies(copies[backup.dir].file)
  BY <1>2 DEF RecoveryInv, TypeInv, BackupInv
<1>4. live' \in FilesTo(written) /\ live' = live
  BY <1>2 DEF RecoveryInv, TypeInv
<1>5. restored # None /\ ~shared => live.wal = Absent
  BY DEF RecoveryInv, RestoredInv
<1> QED
  BY <1>1, <1>2, <1>3, <1>4, <1>5, BackupStepSafe

\* A backup that is broken off stays without its metadata.
LEMMA BackupDiesSafe == ASSUME RecoveryInv, BackupDies PROVE RecoveryInv'
<1>1. PICK image \in {Empty, Torn} : SaveCopy(image, FALSE)
  BY DEF BackupDies
<1>2. /\ backup.at = "copying" /\ backup' = Idle
      /\ UNCHANGED <<environment, live, validation, service, restore, written, restored, shared>>
  BY DEF BackupDies
<1>3. image \in ImagesTo(written)
  BY WrittenType, ConstantsType DEF RecoveryInv
<1>4. live' \in FilesTo(written) /\ live' = live
  BY <1>2 DEF RecoveryInv, TypeInv
<1>5. restored # None /\ ~shared => live.wal = Absent
  BY DEF RecoveryInv, RestoredInv
<1> QED
  BY <1>1, <1>2, <1>3, <1>4, <1>5, BackupStepSafe

\* A restore that has not yet reached the live database, or gives up.
LEMMA ValidationSafe ==
  ASSUME RecoveryInv,
         UNCHANGED <<environment, live, copies, service, backup, written, restored, shared>>,
         validation' \in FilesTo(written),
         restore' \in [at : {"off", "validating", "opening", "copying"}, dir : Backups \cup {None},
                      whole : BOOLEAN, clean : BOOLEAN],
         RestoreInv'
  PROVE  RecoveryInv'
<1>1. TypeInv'
  BY DEF RecoveryInv, TypeInv
<1>2. WholeInv' /\ BackupInv' /\ RestoredInv' /\ ReadyIsVerified'
  BY DEF RecoveryInv, WholeInv, BackupInv, RestoredInv, ReadyIsVerified
<1> QED
  BY <1>1, <1>2 DEF RecoveryInv

\* Where nobody else writes the source, and no log was left, the source is what is validated.
LEMMA RestoreBeginsSafe == ASSUME RecoveryInv, NEW b \in Backups, RestoreBegins(b) PROVE RecoveryInv'
<1>1. /\ restore' = [at |-> "validating", dir |-> b, whole |-> copies[b].whole,
                     clean |-> validation.wal = Absent /\ backup.dir # b]
      /\ validation' = [validation EXCEPT !.main = copies[b].file, !.fits = FALSE]
      /\ copies[b].file # Absent
      /\ UNCHANGED <<environment, live, copies, service, backup, written, restored, shared>>
  BY DEF RestoreBegins
<1>2. /\ validation' \in FilesTo(written)
      /\ validation'.main = copies[b].file /\ validation'.wal = validation.wal
  BY <1>1 DEF RecoveryInv, TypeInv, FilesTo
<1>3. copies[b].whole \in BOOLEAN
  BY DEF RecoveryInv, TypeInv
<1>4. restore' \in [at : {"off", "validating", "opening", "copying"}, dir : Backups \cup {None},
                   whole : BOOLEAN, clean : BOOLEAN]
  BY <1>1, <1>3
<1>5. RestoreInv'
  BY <1>1, <1>2 DEF RestoreInv
<1> QED
  BY <1>1, <1>2, <1>4, <1>5, ValidationSafe

\* A copy goes on to replace the live database only when it verified.
LEMMA RestoreValidatesSafe == ASSUME RecoveryInv, RestoreValidates PROVE RecoveryInv'
<1>1. /\ restore.at = "validating"
      /\ UNCHANGED <<environment, live, copies, service, backup, written, restored, shared>>
  BY DEF RestoreValidates
<1>2. PICK image \in Views(validation) :
       IF Verifies(Initialized(image))
       THEN validation' = File(Absent) /\ restore' = [restore EXCEPT !.at = "opening"]
       ELSE validation' = File(image) /\ restore' = NoRestore
  BY DEF RestoreValidates
<1>3. written \in Nat /\ validation \in FilesTo(written) /\ image \in ImagesTo(written)
  BY <1>2, WrittenType, ViewsType DEF RecoveryInv, TypeInv
<1>4. validation' \in FilesTo(written)
  BY <1>2, <1>3, FileFacts, ConstantsType
<1>5. CASE Verifies(Initialized(image)) /\ restore' = [restore EXCEPT !.at = "opening"]
  <2>1. /\ restore' \in [at : {"off", "validating", "opening", "copying"}, dir : Backups \cup {None},
                         whole : BOOLEAN, clean : BOOLEAN]
        /\ restore'.at = "opening" /\ restore'.dir = restore.dir
        /\ restore'.whole = restore.whole /\ restore'.clean = restore.clean
    BY <1>5 DEF RecoveryInv, TypeInv
  <2>2. restore.clean => image = copies[restore.dir].file
    BY <1>1, <1>2, MainViews DEF RecoveryInv, RestoreInv
  <2>3. Intact(image)
    BY <1>5, ImageKinds DEF Initialized, Intact
  <2>4. RestoreInv'
    BY <1>1, <2>1, <2>2, <2>3 DEF RecoveryInv, RestoreInv
  <2> QED
    BY <1>1, <1>4, <2>1, <2>4, ValidationSafe
<1>6. CASE restore' = NoRestore
  BY <1>1, <1>4, <1>6, ValidationSafe DEF NoRestore, RestoreInv
<1> QED
  BY <1>2, <1>5, <1>6

\* A restore that dies while it validates touches no live file.
LEMMA ValidationDiesSafe == ASSUME RecoveryInv, ValidationDies PROVE RecoveryInv'
<1>1. /\ restore' = NoRestore
      /\ UNCHANGED <<environment, live, copies, service, backup, written, restored, shared>>
  BY DEF ValidationDies
<1>2. PICK image \in Views(validation) : validation' = Opened(validation, image)
  BY DEF ValidationDies
<1>3. written \in Nat /\ validation \in FilesTo(written) /\ image \in ImagesTo(written)
  BY <1>2, WrittenType, ViewsType DEF RecoveryInv, TypeInv
<1>4. validation' \in FilesTo(written)
  BY <1>2, <1>3, OpenedFacts
<1> QED
  BY <1>1, <1>4, ValidationSafe DEF NoRestore, RestoreInv

\* A restore that dies while it copies leaves a file that is damaged, empty or gone, and that
\* no restore has reported; one that dies before leaves the database alone.
LEMMA RestoreDiesSafe == ASSUME RecoveryInv, RestoreDies PROVE RecoveryInv'
<1>1. /\ restore.at \in {"opening", "copying"} /\ restore' = NoRestore
      /\ UNCHANGED <<environment, validation, copies, service, backup, written, restored, shared>>
  BY DEF RestoreDies
<1>2. CASE restore.at = "opening"
  <2>1. UNCHANGED live
    BY <1>2 DEF RestoreDies
  <2>2. validation' \in FilesTo(written)
    BY <1>1 DEF RecoveryInv, TypeInv
  <2> QED
    BY <1>1, <2>1, <2>2, ValidationSafe DEF NoRestore, RestoreInv
<1>3. CASE restore.at = "copying"
  <2>1. PICK image \in {Torn, Empty} \cup (IF Users = {} THEN {Absent} ELSE {}) :
          live' = [live EXCEPT !.main = image]
    BY <1>3 DEF RestoreDies
  <2>2. live \in FilesTo(written) /\ image \in ImagesTo(written)
    BY <2>1, WrittenType, ConstantsType DEF RecoveryInv, TypeInv
  <2>3. live' \in FilesTo(written) /\ live'.main = image
    BY <2>1, <2>2 DEF FilesTo
  <2>4. restored = None /\ (~shared => service = "off" /\ backup.at # "copying")
    BY <1>3 DEF RecoveryInv, RestoreInv
  <2>5. backup.at = "copying" => live'.main # Absent
    BY <2>1, <2>3, ImageKinds DEF Users
  <2>6. TypeInv'
    BY <1>1, <2>3 DEF RecoveryInv, TypeInv, NoRestore
  <2>7. WholeInv' /\ BackupInv'
    BY <1>1, <2>4, <2>5 DEF RecoveryInv, WholeInv, BackupInv
  <2>8. RestoreInv' /\ RestoredInv' /\ ReadyIsVerified'
    BY <1>1, <2>4 DEF NoRestore, RestoreInv, RestoredInv, ReadyIsVerified
  <2> QED
    BY <2>6, <2>7, <2>8 DEF RecoveryInv
<1> QED
  BY <1>1, <1>2, <1>3

\* The live database is torn while it is replaced; alone, the restore leaves it no log.
LEMMA RestoreOpensSafe == ASSUME RecoveryInv, RestoreOpens PROVE RecoveryInv'
<1>1. restore.at = "opening" /\ UNCHANGED <<environment, validation, copies, service, backup, written>>
  BY DEF RestoreOpens
<1>2. CASE restore' = NoRestore /\ UNCHANGED <<live, restored, shared>>
  <2>1. validation' \in FilesTo(written)
    BY <1>1 DEF RecoveryInv, TypeInv
  <2> QED
    BY <1>1, <1>2, <2>1, ValidationSafe DEF NoRestore, RestoreInv
<1>3. CASE /\ live' = [main |-> Torn, wal |-> IF Users = {} THEN Absent ELSE live.wal,
                       fits |-> FALSE]
           /\ restore' = [restore EXCEPT !.at = "copying"]
           /\ restored' = None /\ shared' = (shared \/ Users # {})
  <2>1. written \in Nat /\ live \in FilesTo(written) /\ Torn # Absent
    BY WrittenType, ImageKinds DEF RecoveryInv, TypeInv
  <2>2. live' \in FilesTo(written)
    BY <1>3, <2>1, ConstantsType DEF FilesTo
  <2>3. /\ restore' \in [at : {"off", "validating", "opening", "copying"}, dir : Backups \cup {None},
                         whole : BOOLEAN, clean : BOOLEAN]
        /\ restore'.at = "copying" /\ restore'.dir = restore.dir
        /\ restore'.whole = restore.whole /\ restore'.clean = restore.clean
    BY <1>3 DEF RecoveryInv, TypeInv
  <2>4. ~shared' => ~shared /\ service = "off" /\ backup.at # "copying" /\ live'.wal = Absent
    BY <1>3 DEF Users
  <2>5. TypeInv'
    BY <1>1, <1>3, <2>2, <2>3 DEF RecoveryInv, TypeInv
  <2>6. live'.main # Absent
    BY <1>3, <2>1
  <2>7. WholeInv' /\ BackupInv'
    BY <1>1, <2>4, <2>6 DEF RecoveryInv, WholeInv, BackupInv
  <2>8. RestoreInv'
    BY <1>1, <1>3, <2>3, <2>4 DEF RecoveryInv, RestoreInv
  <2>9. RestoredInv' /\ ReadyIsVerified'
    BY <1>1, <1>3, <2>4 DEF RestoredInv, ReadyIsVerified
  <2> QED
    BY <2>5, <2>7, <2>8, <2>9 DEF RecoveryInv
<1> QED
  BY <1>2, <1>3 DEF RestoreOpens

\* A whole source is there to the end, and nothing else of the database is left.
LEMMA RestoreEndsSafe == ASSUME RecoveryInv, RestoreEnds PROVE RecoveryInv'
<1> DEFINE b == restore.dir
<1>1. /\ restore.at = "copying" /\ restore' = NoRestore
      /\ live' = (IF copies[b].file = Absent THEN live ELSE [live EXCEPT !.main = copies[b].file])
      /\ restored' = (IF restore.whole THEN b ELSE None)
      /\ UNCHANGED <<environment, validation, copies, service, backup, written, shared>>
  BY DEF RestoreEnds
<1>2. /\ b \in Backups /\ (restore.whole => copies[b].whole /\ copies[b].file # Absent)
      /\ ~shared => service = "off" /\ backup.at # "copying" /\ live.wal = Absent
  BY <1>1 DEF RecoveryInv, RestoreInv, WholeInv
<1>3. live \in FilesTo(written) /\ copies[b].file \in ImagesTo(written)
  BY <1>2 DEF RecoveryInv, TypeInv
<1>4. /\ live' \in FilesTo(written) /\ live'.wal = live.wal
      /\ copies[b].file # Absent => live'.main = copies[b].file
      /\ live.main # Absent => live'.main # Absent
  BY <1>1, <1>3 DEF FilesTo
<1> HIDE DEF b
<1>5. TypeInv'
  BY <1>1, <1>2, <1>4 DEF RecoveryInv, TypeInv, NoRestore
<1>6. WholeInv' /\ BackupInv'
  BY <1>1, <1>2, <1>4 DEF RecoveryInv, WholeInv, BackupInv
<1>7. RestoreInv' /\ RestoredInv' /\ ReadyIsVerified'
  BY <1>1, <1>2, <1>4 DEF RestoreInv, NoRestore, RestoredInv, ReadyIsVerified
<1> QED
  BY <1>5, <1>6, <1>7 DEF RecoveryInv

\* Where nothing changes the invariant stays.
LEMMA StutterSafe == ASSUME RecoveryInv, UNCHANGED vars PROVE RecoveryInv'
BY DEF vars, RecoveryInv, TypeInv, WholeInv, BackupInv, RestoreInv, RestoredInv, ReadyIsVerified

-----------------------------------------------------------------------------
(* The theorems *)

\* Every step keeps the invariant.
LEMMA StepSafe == ASSUME RecoveryInv, [Next]_vars PROVE RecoveryInv'
<1>1. ASSUME NEW b \in Backups, BackupBegins(b) \/ RestoreBegins(b) PROVE RecoveryInv'
  BY <1>1, BackupBeginsSafe, RestoreBeginsSafe
<1>2. CASE Start \/ StartFails \/ Check \/ Record \/ Stop \/ Crash
  BY <1>2, StartSafe, StartFailsSafe, CheckSafe, RecordSafe, StopSafe, CrashSafe
<1>3. CASE BackupCopied \/ BackupEnds \/ BackupDies
  BY <1>3, BackupCopiedSafe, BackupEndsSafe, BackupDiesSafe
<1>4. CASE RestoreValidates \/ ValidationDies \/ RestoreOpens \/ RestoreEnds \/ RestoreDies
  BY <1>4, RestoreValidatesSafe, ValidationDiesSafe, RestoreOpensSafe, RestoreEndsSafe,
     RestoreDiesSafe
<1> QED
  BY <1>1, <1>2, <1>3, <1>4, StutterSafe DEF Next

\* What backup and restore rest on: RecoveryInv holds in every reachable state.
THEOREM RecoveryInvariant == Spec => []RecoveryInv
BY InitSafe, StepSafe, PTL DEF Spec

\* Every variable keeps its type.
THEOREM Typing == Spec => []TypeOK
<1>1. RecoveryInv => TypeOK
  BY TypeInvImplies DEF RecoveryInv
<1> QED
  BY <1>1, RecoveryInvariant, PTL

\* What a restore reports as restored is what the next process reads, however many crashes
\* of service, backup and earlier restores came before; unless somebody had the database
\* open meanwhile.
THEOREM RestoreRestores == Spec => []RestoredIsBackup
<1>1. RecoveryInv => RestoredIsBackup
  BY RestoredViews DEF RestoredIsBackup
<1> QED
  BY <1>1, RecoveryInvariant, PTL

\* A production service is never ready on a database that does not verify, unless it was
\* replaced under it.
THEOREM ReadyMeansVerified == Spec => []ReadyIsVerified
<1>1. RecoveryInv => ReadyIsVerified
  BY DEF RecoveryInv
<1> QED
  BY <1>1, RecoveryInvariant, PTL

\* What a backup that was broken off has left never becomes the live database, if the
\* restore is clean.
THEOREM RestoreValidatesSource == Spec => []RestoreIsValidated
<1>1. RecoveryInv => RestoreIsValidated
  BY ImageKinds DEF RecoveryInv, RestoreInv, RestoreIsValidated, Intact
<1> QED
  BY <1>1, RecoveryInvariant, PTL

\* createBackup takes a new directory each time: no step of any process touches a backup
\* that has its metadata.
WholeIsFinal == [][\A b \in Backups : copies[b].whole => copies'[b] = copies[b]]_vars

\* A whole backup stays what it is, whatever is backed up, restored or broken off later.
THEOREM WholeBackupsStay == Spec => WholeIsFinal
<1>1. ASSUME RecoveryInv, [Next]_vars, NEW b \in Backups, copies[b].whole
      PROVE  copies'[b] = copies[b]
  <2>1. copies[b].file # Absent /\ (backup.at # "off" => backup.dir # b)
    BY <1>1 DEF RecoveryInv, WholeInv, BackupInv
  <2>2. CASE UNCHANGED copies
    BY <2>2
  <2>3. ASSUME NEW c \in Backups, BackupBegins(c) PROVE copies'[b] = copies[b]
    BY <2>1, <2>3, <1>1 DEF BackupBegins, RecoveryInv, TypeInv
  <2>4. CASE BackupCopied \/ BackupEnds \/ BackupDies
    BY <2>1, <2>4, <1>1 DEF BackupCopied, BackupEnds, BackupDies, SaveCopy, RecoveryInv, TypeInv
  <2>5. ASSUME NEW c \in Backups, RestoreBegins(c) PROVE UNCHANGED copies
    BY <2>5 DEF RestoreBegins
  <2>6. CASE Start \/ StartFails \/ Check \/ Record \/ Stop \/ Crash
    BY <2>6 DEF Start, StartFails, Check, Record, Stop, Crash
  <2>7. CASE RestoreValidates \/ ValidationDies \/ RestoreOpens \/ RestoreEnds \/ RestoreDies
    BY <2>7 DEF RestoreValidates, ValidationDies, RestoreOpens, RestoreEnds, RestoreDies
  <2> QED
    BY <1>1, <2>2, <2>3, <2>4, <2>5, <2>6, <2>7 DEF Next, vars
<1>2. RecoveryInv /\ [Next]_vars
        => [\A b \in Backups : copies[b].whole => copies'[b] = copies[b]]_vars
  BY <1>1
<1> QED
  BY <1>2, RecoveryInvariant, PTL DEF Spec, WholeIsFinal

\* BackupsVerify holds for every number of backups, complete, failed and broken off.
THEOREM BackupsAreGood == Spec => []BackupsVerify
<1>1. RecoveryInv => BackupsVerify
  BY DEF RecoveryInv, WholeInv, BackupsVerify
<1> QED
  BY <1>1, RecoveryInvariant, PTL

\* Copies are sound on the way into a backup and on the way back.
THEOREM CopiesAreGood == Spec => []CopiesVerify
<1>1. RestoreIsValidated /\ BackupsVerify => CopiesVerify
  BY DEF CopiesVerify
<1> QED
  BY <1>1, RestoreValidatesSource, BackupsAreGood, PTL

-----------------------------------------------------------------------------
(* Records *)

\* What is found next is what was found, or has one record more.
Follows(image) ==
  \E later \in Views(live') :
    /\ Views(live') = {later} /\ Verifies(later)
    /\ later.rows \in {image.rows, Append(image.rows, written')}

\* What a connection finds where all find the same log of records.
LEMMA FoundType ==
  ASSUME RecoveryInv, NEW image, Views(live) = {image}, Verifies(image)
  PROVE  /\ written \in Nat /\ live \in FilesTo(written) /\ image \in ImagesTo(written)
         /\ image.is = "log" /\ image # Absent
BY WrittenType, ViewsType, ImageKinds DEF RecoveryInv, TypeInv

\* A database that nobody writes to keeps its records.
LEMMA LeftAlone ==
  ASSUME NEW image, Views(live) = {image}, Verifies(image), live' = live
  PROVE  Follows(image)
BY DEF Follows

\* Opening a database makes no tables where there are some.
LEMMA OpeningKeeps ==
  ASSUME RecoveryInv, NEW image, Views(live) = {image}, Verifies(image),
         live' = Opened(live, image)
  PROVE  Follows(image)
<1>1. Views(live') = {image}
  BY FoundType, OpenedFacts
<1> QED
  BY <1>1 DEF Follows

\* Closing it leaves its records in the file, or in the log for those who have it open still.
LEMMA ClosingKeeps ==
  ASSUME RecoveryInv, NEW image, Views(live) = {image}, Verifies(image), NEW others,
         live' = Closed(live, image, others)
  PROVE  Follows(image)
<1>1. CASE others = {}
  <2>1. Views(live') = {image}
    BY <1>1, FoundType, FileFacts DEF Closed
  <2> QED
    BY <2>1 DEF Follows
<1>2. CASE others # {}
  BY <1>2, LeftAlone DEF Closed
<1> QED
  BY <1>1, <1>2

\* An append adds a record to those there are, whether or not the database is closed then.
LEMMA AppendKeeps ==
  ASSUME RecoveryInv, NEW image, Views(live) = {image}, Verifies(image),
         written < MaxRecords, written' = written + 1, NEW others,
         \/ live' = Write(live, Added(image))
         \/ live' = Closed(Write(live, Added(image)), Added(image), others)
  PROVE  Follows(image)
<1>1. /\ written + 1 \in Nat /\ live \in FilesTo(written + 1)
      /\ Added(image) \in ImagesTo(written + 1) /\ Added(image).is = "log"
  BY FoundType, AddedType, ImagesGrow
<1>2. Added(image) # Absent /\ Verifies(Added(image))
  BY <1>1, ImageKinds
<1>3. Views(live') = {Added(image)}
  BY <1>1, <1>2, WriteFacts, FileFacts DEF Closed
<1>4. Added(image).rows = Append(image.rows, written')
  BY FoundType DEF Added, ImagesTo
<1> QED
  BY <1>2, <1>3, <1>4 DEF Follows

\* No step of the service loses a record: an abrupt end, a shutdown and a start least of all.
LEMMA ServiceKeeps ==
  ASSUME RecoveryInv, NEW image, Views(live) = {image}, Verifies(image),
         Start \/ StartFails \/ Check \/ Record \/ Stop \/ Crash
  PROVE  Follows(image)
<1>1. CASE Start
  BY <1>1, OpeningKeeps DEF Start
<1>2. CASE StartFails
  BY <1>2, ClosingKeeps DEF StartFails
<1>3. CASE Check
  BY <1>3, AppendKeeps DEF Check, AppendRecord
<1>4. CASE Record
  BY <1>4, AppendKeeps DEF Record, AppendRecord
<1>5. CASE Stop
  <2>1. \/ /\ written < MaxRecords /\ written' = written + 1
           /\ live' = Closed(Write(live, Added(image)), Added(image), Users \ {"service"})
        \/ live' = Closed(live, image, Users \ {"service"})
    BY <1>5 DEF Stop
  <2> QED
    BY <2>1, AppendKeeps, ClosingKeeps
<1>6. CASE Crash
  BY <1>6, LeftAlone DEF Crash
<1> QED
  BY <1>1, <1>2, <1>3, <1>4, <1>5, <1>6

\* A backup only opens and closes the database, and a restore that does not copy leaves it.
LEMMA OthersKeep ==
  ASSUME RecoveryInv, NEW image, Views(live) = {image}, Verifies(image),
         restore.at # "copying", restore'.at # "copying",
         \/ \E b \in Backups : BackupBegins(b) \/ RestoreBegins(b)
         \/ BackupCopied \/ BackupEnds \/ BackupDies
         \/ RestoreValidates \/ ValidationDies \/ RestoreOpens \/ RestoreEnds \/ RestoreDies
  PROVE  Follows(image)
<1>1. ASSUME NEW b \in Backups, BackupBegins(b) PROVE Follows(image)
  <2>1. live' = Opened(live, image) \/ live' = Closed(live, image, Users)
    BY <1>1 DEF BackupBegins
  <2> QED
    BY <2>1, OpeningKeeps, ClosingKeeps
<1>2. CASE BackupCopied
  BY <1>2, ClosingKeeps DEF BackupCopied
<1>3. ASSUME NEW b \in Backups, RestoreBegins(b) PROVE live' = live
  BY <1>3 DEF RestoreBegins
<1>4. CASE BackupEnds \/ BackupDies \/ RestoreValidates \/ ValidationDies
  BY <1>4, LeftAlone DEF BackupEnds, BackupDies, RestoreValidates, ValidationDies
<1>5. ASSUME RestoreOpens PROVE live' = live
  <2>1. restore \in [at : {"off", "validating", "opening", "copying"}, dir : Backups \cup {None},
                     whole : BOOLEAN, clean : BOOLEAN]
    BY DEF RecoveryInv, TypeInv
  <2> QED
    BY <1>5, <2>1 DEF RestoreOpens
<1>6. ~RestoreEnds /\ (RestoreDies => live' = live)
  BY DEF RestoreEnds, RestoreDies
<1> QED
  BY <1>1, <1>2, <1>3, <1>4, <1>5, <1>6, LeftAlone

\* For any number of records and backups: what was committed to the audit trail is lost to no
\* crash, start, shutdown or backup, only to a restore that puts a file in its place.
THEOREM RecordsAreKept == Spec => RecordsStay
<1>1. ASSUME RecoveryInv, [Next]_vars, restore.at # "copying", restore'.at # "copying",
             NEW image, Views(live) = {image}, Verifies(image)
      PROVE  Follows(image)
  <2>1. CASE UNCHANGED vars
    BY <1>1, <2>1, LeftAlone DEF vars
  <2>2. CASE Start \/ StartFails \/ Check \/ Record \/ Stop \/ Crash
    BY <1>1, <2>2, ServiceKeeps
  <2> QED
    BY <1>1, <2>1, <2>2, OthersKeep DEF Next
<1>2. RecoveryInv /\ [Next]_vars =>
        [restore.at # "copying" /\ restore'.at # "copying" =>
           \A image \in Views(live) : Views(live) = {image} /\ Verifies(image) =>
             \E later \in Views(live') :
               /\ Views(live') = {later} /\ Verifies(later)
               /\ later.rows \in {image.rows, Append(image.rows, written')}]_vars
  BY <1>1 DEF Follows
<1> QED
  BY <1>2, RecoveryInvariant, PTL DEF Spec, RecordsStay

=============================================================================
