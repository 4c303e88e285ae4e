--------------------------- MODULE WarehouseProofs ---------------------------
(***************************************************************************)
(* Theorems of the warehouse's own components, each about its module alone *)
(* as they share no state: the raw archive (RawArchive), the migration     *)
(* runner (Migrations) and the change history (HistoryStore).              *)
(***************************************************************************)
EXTENDS HistoryStore, RawArchive, Migrations, SequenceTheorems, FiniteSetTheorems, TLAPS

-----------------------------------------------------------------------------
(* The raw archive. *)

\* A row that is neither archived nor being archived, nor left by its task once the import had
\* begun, is one that the import has yet to reach.
RawCovered ==
  \A d \in RawDay :
    \/ rawTable[d] \in {0, rawIngest} \cup rawArchive \cup rawStray
    \/ ~rawMarker /\ (rawImport = NoImport \/ (rawImport.day <= d /\ d <= rawImport.last))

\* An import goes on in a history that is on and not imported, the pruner was cleared by one
\* that is on and imported.
RawTasks ==
  /\ rawImport # NoImport => rawEnabled /\ ~rawMarker /\ rawImport.day \in RawDay
  /\ rawPruner = "cleared" => rawEnabled /\ rawMarker

RawInv == RawTypeOK /\ RawCovered /\ RawTasks

\* Every step keeps it.
LEMMA RawInductive ==
  ASSUME RawInv, [RawNext]_rawVars
  PROVE  RawInv'
<1> USE RawAssumption DEF RawInv, RawTypeOK, RawCovered, RawTasks, RawDay
<1>1. CASE UNCHANGED rawVars
  BY <1>1 DEF rawVars
<1>2. CASE RawDayEnds
  BY <1>2 DEF RawDayEnds
<1>3. CASE RawInsert
  <2>1. PICK d \in 1..rawToday : rawTable' = [rawTable EXCEPT ![d] = rawLatest']
    BY <1>3, Zenon DEF RawInsert
  <2>2. RawTypeOK'
    BY <1>3, <2>1 DEF RawInsert
  <2>3. RawCovered'
    BY <1>3, <2>1, Zenon DEF RawInsert
  <2>. QED BY <1>3, <2>2, <2>3, Zenon DEF RawInsert
<1>4. CASE RawArchiveRows
  <2>3. rawIngest \in 1..RawVersions /\ 0 \in 0..RawVersions
    BY <1>4 DEF RawArchiveRows
  <2>4. rawArchive' \subseteq 1..RawVersions /\ rawStray' \subseteq 1..RawVersions
    BY <1>4, <2>3 DEF RawArchiveRows, RawLeaves
  <2>1. RawTypeOK'
    BY <1>4, <2>3, <2>4, Zenon DEF RawArchiveRows
  <2>2. RawCovered'
    BY <1>4 DEF RawArchiveRows, RawLeaves
  <2>. QED BY <1>4, <2>1, <2>2, Zenon DEF RawArchiveRows
<1>11. CASE RawArchiveFails
  <2>1. /\ rawFaults' = [rawFaults EXCEPT !.crashes = rawFaults.crashes + 1]
        /\ rawFaults.crashes < MaxRawCrashes
    BY <1>11 DEF RawArchiveFails
  <2>2. rawFaults' \in [toggles: 0..MaxRawToggles, crashes: 0..MaxRawCrashes]
    BY <2>1
  <2>3. RawTypeOK'
    BY <1>11, <2>2 DEF RawArchiveFails, RawLeaves
  <2>4. RawCovered'
    BY <1>11 DEF RawArchiveFails, RawLeaves
  <2>. QED BY <1>11, <2>3, <2>4, Zenon DEF RawArchiveFails
<1>5. CASE RawToggle
  <2>1. /\ rawFaults' = [rawFaults EXCEPT !.toggles = rawFaults.toggles + 1]
        /\ rawFaults.toggles < MaxRawToggles
    BY <1>5 DEF RawToggle
  <2>2. rawFaults' \in [toggles: 0..MaxRawToggles, crashes: 0..MaxRawCrashes]
    BY <2>1
  <2>3. RawTypeOK'
    BY <1>5, <2>2 DEF RawToggle
  <2>4. RawCovered' /\ RawTasks'
    BY <1>5 DEF RawToggle
  <2>. QED BY <2>3, <2>4, Zenon
<1>6. CASE RawImportStarts
  <2>1. CASE RawHeld = {}
    BY <1>6, <2>1, Zenon DEF RawImportStarts, RawHeld, NoImport
  <2>2. CASE RawHeld # {}
    <3>1. PICK first \in RawHeld, last \in RawHeld :
            /\ \A d \in RawHeld : first <= d /\ d <= last
            /\ rawImport' = [day |-> first, last |-> last]
      BY <1>6, <2>2 DEF RawImportStarts
    <3>2. first \in RawDay /\ last \in RawDay
      BY DEF RawHeld
    <3>3. \A d \in RawDay : rawTable[d] # 0 => first <= d /\ d <= last
      BY <3>1 DEF RawHeld
    <3>4. RawTypeOK'
      BY <1>6, <2>2, <3>1, <3>2 DEF RawImportStarts
    <3>5. RawCovered'
      BY <1>6, <2>2, <3>1, <3>2, <3>3, Zenon DEF RawImportStarts
    <3>. QED BY <1>6, <2>2, <3>1, <3>2, <3>4, <3>5, Zenon DEF RawImportStarts
  <2>. QED BY <2>1, <2>2, Zenon
<1>7. CASE RawImportDay
  <2>1. rawEnabled /\ ~rawMarker /\ rawImport.day \in 1..RawDays /\ rawImport.last \in 0..RawDays
    BY <1>7 DEF RawImportDay
  <2>2. rawArchive' = rawArchive \cup ({rawTable[rawImport.day]} \ {0})
    BY <1>7 DEF RawImportDay
  <2>3. /\ UNCHANGED <<rawToday, rawTable, rawEnabled, rawIngest, rawStray, rawLatest, rawPruner,
                       rawFaults>>
        /\ rawArchive' \subseteq 1..RawVersions
    BY <1>7, <2>1, <2>2 DEF RawImportDay
  <2>4. CASE RawMoreDays
    <3>1. rawImport' = [rawImport EXCEPT !.day = rawImport.day + 1] /\ rawMarker' = rawMarker
      BY <1>7, <2>4 DEF RawImportDay
    <3>2. rawImport.day + 1 \in 1..RawDays
      BY <2>1, <2>4 DEF RawMoreDays
    <3>3. /\ rawImport' \in [day: 0..RawDays, last: 0..RawDays]
          /\ rawImport'.day = rawImport.day + 1 /\ rawImport'.last = rawImport.last
      BY <3>1, <3>2
    <3>4. ASSUME NEW d \in RawDay
          PROVE  \/ rawTable'[d] \in {0, rawIngest'} \cup rawArchive' \cup rawStray'
                 \/ rawImport'.day <= d /\ d <= rawImport'.last
      <4>1. rawImport # NoImport
        BY <1>7 DEF RawImportDay
      <4>2. CASE d = rawImport.day
        BY <2>2, <2>3, <4>2
      <4>3. CASE d # rawImport.day
        <5>1. \/ rawTable[d] \in {0, rawIngest} \cup rawArchive \cup rawStray
              \/ rawImport.day <= d /\ d <= rawImport.last
          BY <2>1, <4>1
        <5>2. rawTable' = rawTable /\ rawIngest' = rawIngest /\ rawStray' = rawStray
          BY <2>3
        <5>. QED BY <2>1, <2>2, <3>3, <4>3, <5>1, <5>2
      <4>. QED BY <4>2, <4>3
    <3>5. RawCovered'
      BY <2>1, <2>3, <3>1, <3>4
    <3>. QED BY <2>1, <2>3, <3>1, <3>2, <3>3, <3>5, Zenon
  <2>5. CASE ~RawMoreDays
    <3>1. rawImport' = NoImport /\ rawMarker'
      BY <1>7, <2>5 DEF RawImportDay
    <3>2. RawCovered'
      BY <2>1, <2>2, <2>3, <2>5, <3>1 DEF RawMoreDays, NoImport
    <3>3. rawMarker' \in BOOLEAN
      BY <1>7, <2>5 DEF RawImportDay
    <3>. QED BY <2>1, <2>3, <3>1, <3>2, <3>3 DEF NoImport
  <2>. QED BY <2>4, <2>5, Zenon
<1>8. CASE RawImportCrash
  <2>1. /\ rawImport' = NoImport
        /\ rawFaults' = [rawFaults EXCEPT !.crashes = rawFaults.crashes + 1]
        /\ UNCHANGED <<rawToday, rawTable, rawArchive, rawMarker, rawEnabled, rawIngest,
                       rawStray, rawLatest, rawPruner>>
    BY <1>8 DEF RawImportCrash
  <2>3. rawFaults.crashes < MaxRawCrashes
    BY <1>8 DEF RawImportCrash
  <2>2. rawFaults' \in [toggles: 0..MaxRawToggles, crashes: 0..MaxRawCrashes]
    BY <2>1, <2>3
  <2>4. RawCovered' /\ RawTasks'
    BY <2>1
  <2>. QED BY <2>1, <2>2, <2>4 DEF NoImport
<1>9. CASE RawPruneCheck
  BY <1>9, Zenon DEF RawPruneCheck
<1>10. CASE RawPrune
  BY <1>10 DEF RawPrune
<1>. QED BY <1>1, <1>2, <1>3, <1>4, <1>5, <1>6, <1>7, <1>8, <1>9, <1>10, <1>11, Zenon DEF RawNext

\* With the history on the pruner never deletes the only copy of a row (maintenance.prune_old_raw)
\* but of one that its task left unarchived once the import had begun, for any number of days,
\* versions, broken imports, failing tasks and changes of HISTORY_ENABLED.
THEOREM OnlyCopyStays == RawSpec => OnlyCopyKept
<1>1. ASSUME RawInit PROVE RawInv
  <2>1. ~rawMarker /\ rawMarker \in BOOLEAN
    BY <1>1, Zenon DEF RawInit
  <2>2. RawTypeOK
    BY <1>1, <2>1, RawAssumption DEF RawInit, RawTypeOK, RawDay, NoImport
  <2>. QED BY <1>1, <2>1, <2>2 DEF RawInit, RawInv, RawCovered, RawTasks, RawDay
<1>2. RawInv /\ [RawNext]_rawVars => RawInv'
  BY RawInductive
<1>3. RawInv /\ [RawNext]_rawVars =>
        [rawPruner = "cleared" =>
           \A d \in RawDay :
             (rawTable[d] # 0 /\ rawTable'[d] = 0) =>
                rawTable[d] \in rawArchive \cup {rawIngest} \cup rawStray]_rawVars
  <2>1. ASSUME RawInv, rawPruner = "cleared", NEW d \in RawDay, rawTable[d] # 0
        PROVE  rawTable[d] \in rawArchive \cup {rawIngest} \cup rawStray
    BY <2>1 DEF RawInv, RawCovered, RawTasks
  <2>. QED BY <2>1
<1>. QED BY <1>1, <1>2, <1>3, PTL DEF RawSpec, OnlyCopyKept

-----------------------------------------------------------------------------
(* The migration runner. *)

MgRunSet == [pc: MgPlace, command: {"apply", "rollback"}, target: 0..MgVersions, again: BOOLEAN,
             todo: SUBSET MgVersion, version: 0..MgVersions, next: 1..MgStatements + 1]

\* A run between two statements has checked the files, which nobody edits meanwhile.
MgFilesChecked ==
  (\E r \in MgRunners : mgRunner[r].pc \in {"next", "statement"}) => MgHistoryMatches

\* A run has its migration while it executes it.
MgHasVersion ==
  \A r \in MgRunners :
    mgRunner[r].pc = "statement" => mgRunner[r].version \in MgVersion

\* A run that works made the lock, unless a stale one was taken over.
MgHolds ==
  ~mgTakenOver =>
    \A r \in MgRunners : MgWorking(r) => mgLock # NoMgLock /\ mgLock.by = r

\* What a run has still to apply follows what is applied without a gap, the one it is at first.
MgApplies(run, applied) ==
  run.command = "apply" /\ run.pc \in {"next", "statement"} =>
    /\ run.todo \cap applied = {}
    /\ \A v \in run.todo : \A w \in 1..v : w \in applied \cup run.todo
    /\ run.pc = "statement" => MgIsNext(run, run.version)

\* What a run has still to roll back is all that is applied from some version on.
MgReverts(run, applied, half) ==
  run.command = "rollback" /\ run.pc \in {"next", "statement"} =>
    /\ run.todo \subseteq applied
    /\ \A v \in run.todo : \A w \in applied : w >= v => w \in run.todo
    /\ run.pc = "statement" => MgIsNext(run, run.version) /\ run.version \in half

MgPlans ==
  ~mgTakenOver =>
    \A r \in MgRunners : /\ MgApplies(mgRunner[r], MgApplied)
                         /\ MgReverts(mgRunner[r], MgApplied, mgHalf)

MgInv ==
  SchemaSound /\ MgFilesChecked /\ MgHasVersion /\ MgHolds /\ MgPlans


\* The typed parts of the state.
MgRunsTyped == mgRunner \in [MgRunners -> MgRunSet]
MgJournalTyped == mgJournal \in [MgVersion -> [status: MgStatus, checksum: 0..MaxMgEdits]]
MgRestTyped ==
  /\ mgLock \in [by: MgRunners, old: BOOLEAN] \cup {NoMgLock}
  /\ mgFile \in [MgVersion -> 0..MaxMgEdits]
  /\ mgLevel \in [MgVersion -> 0..MgStatements]
  /\ mgFaults \in 0..MaxMgFaults
  /\ mgTakenOver \in BOOLEAN
  /\ mgHalf \subseteq MgVersion

\* They are all of it.
LEMMA MgTypes == MgTypeOK <=> MgRunsTyped /\ MgJournalTyped /\ MgRestTyped
  BY DEF MgTypeOK, MgRunsTyped, MgJournalTyped, MgRestTyped, MgRunSet

\* A run is at one of these places.
LEMMA MgPlaces ==
  MgPlace = {"idle", "create", "age", "drop", "load", "next", "statement", "release"}
  BY DEF MgPlace

\* A run that only moves.
LEMMA MgMoves ==
  ASSUME MgRunsTyped, NEW r \in MgRunners, NEW pc \in MgPlace, MgGoes(r, pc)
  PROVE  /\ MgRunsTyped'
         /\ mgRunner'[r] = [mgRunner[r] EXCEPT !.pc = pc]
         /\ \A s \in MgRunners \ {r} : mgRunner'[s] = mgRunner[s]
  BY DEF MgRunsTyped, MgRunSet, MgGoes

\* A run that ends.
LEMMA MgStops ==
  ASSUME MgRunsTyped, NEW r \in MgRunners, MgEnds(r)
  PROVE  /\ MgRunsTyped'
         /\ mgRunner'[r].pc = "idle"
         /\ \A s \in MgRunners \ {r} : mgRunner'[s] = mgRunner[s]
<1>1. MgIdle \in MgRunSet
  BY MgAssumption, MgPlaces DEF MgIdle, MgRunSet
<1>. QED BY <1>1 DEF MgRunsTyped, MgEnds, MgIdle

\* A run that is replaced.
LEMMA MgBecomes ==
  ASSUME MgRunsTyped, NEW r \in MgRunners, NEW n \in MgRunSet,
         mgRunner' = [mgRunner EXCEPT ![r] = n]
  PROVE  /\ MgRunsTyped'
         /\ mgRunner'[r] = n
         /\ \A s \in MgRunners \ {r} : mgRunner'[s] = mgRunner[s]
  BY DEF MgRunsTyped

\* A row of the journal.
LEMMA MgRecords ==
  ASSUME MgJournalTyped, MgRestTyped, NEW v \in MgVersion, NEW st \in MgStatus, MgRecord(v, st)
  PROVE  /\ MgJournalTyped'
         /\ mgJournal'[v].status = st /\ mgJournal'[v].checksum = mgFile[v]
         /\ \A w \in MgVersion \ {v} : mgJournal'[w] = mgJournal[w]
  BY DEF MgJournalTyped, MgRestTyped, MgRecord

\* What a row makes of the applied versions.
LEMMA MgNowApplied ==
  ASSUME MgJournalTyped, MgRestTyped, NEW v \in MgVersion, NEW st \in MgStatus, MgRecord(v, st)
  PROVE  /\ MgApplied' = IF st = "applied" THEN MgApplied \cup {v} ELSE MgApplied \ {v}
         /\ mgFile' = mgFile /\ MgHistoryMatches => MgHistoryMatches'
<1>1. /\ mgJournal'[v].status = st /\ mgJournal'[v].checksum = mgFile[v]
      /\ \A w \in MgVersion \ {v} : mgJournal'[w] = mgJournal[w]
  BY MgRecords
<1>2. MgApplied' = IF st = "applied" THEN MgApplied \cup {v} ELSE MgApplied \ {v}
  BY <1>1 DEF MgApplied
<1>3. ASSUME mgFile' = mgFile, MgHistoryMatches PROVE MgHistoryMatches'
  BY <1>1, <1>3 DEF MgHistoryMatches, MgApplied
<1>. QED BY <1>2, <1>3

\* Unfolding the invariant for one run.
LEMMA MgOneRunnerFollows == MgHolds => OneRunnerAlone
  BY DEF MgHolds, OneRunnerAlone, OneRunner

\* The schema stays, and one run goes to where it executes nothing.
LEMMA MgQuiet ==
  ASSUME MgInv, NEW r \in MgRunners, UNCHANGED MgSchema, mgTakenOver => mgTakenOver',
         mgRunner'[r].pc \notin {"next", "statement"},
         \A s \in MgRunners \ {r} : mgRunner'[s] = mgRunner[s]
  PROVE  MgFilesChecked' /\ MgHasVersion' /\ MgPlans' /\ JournalTrue' /\ NoGap'
<1> USE DEF MgInv, SchemaSound
<1>1. MgApplied' = MgApplied /\ mgHalf' = mgHalf /\ mgLevel' = mgLevel
  BY DEF MgApplied, MgSchema
<1>2. MgHistoryMatches' = MgHistoryMatches
  BY <1>1 DEF MgHistoryMatches, MgSchema
<1>3. MgFilesChecked'
  BY <1>2 DEF MgFilesChecked
<1>4. MgHasVersion'
  BY DEF MgHasVersion
<1>5. MgPlans'
  <2>1. ASSUME NEW s \in MgRunners, ~mgTakenOver'
        PROVE  /\ MgApplies(mgRunner'[s], MgApplied')
               /\ MgReverts(mgRunner'[s], MgApplied', mgHalf')
    <3>1. CASE s = r
      BY <3>1 DEF MgApplies, MgReverts
    <3>2. CASE s # r
      BY <1>1, <2>1, <3>2 DEF MgPlans
    <3>. QED BY <3>1, <3>2
  <2>. QED BY <2>1 DEF MgPlans
<1>6. JournalTrue'
  BY <1>1 DEF JournalTrue
<1>7. NoGap'
  BY <1>1 DEF NoGap
<1>. QED BY <1>3, <1>4, <1>5, <1>6, <1>7

\* The rest of the invariant is a matter of types and of the lock.
LEMMA MgQuietSuffices ==
  ASSUME MgTypeOK', MgHolds', MgFilesChecked', MgHasVersion', MgPlans', JournalTrue', NoGap'
  PROVE  MgInv'
<1>1. OneRunnerAlone'
  BY DEF MgHolds, OneRunnerAlone, OneRunner, MgWorking
<1>. QED BY <1>1 DEF MgInv, SchemaSound


\* What a step that concerns the lock has to do: keep types and the holder, and move one run.
MgLockStep(r) ==
  /\ MgRunsTyped' /\ MgRestTyped' /\ MgHolds'
  /\ mgTakenOver => mgTakenOver'
  /\ mgRunner'[r].pc \notin {"next", "statement"}
  /\ \A s \in MgRunners \ {r} : mgRunner'[s] = mgRunner[s]

\* It is enough.
LEMMA MgLockStepKeeps ==
  ASSUME MgInv, NEW r \in MgRunners, UNCHANGED MgSchema, MgLockStep(r)
  PROVE  MgInv'
<1>1. MgRunsTyped /\ MgJournalTyped /\ MgRestTyped
  BY MgTypes DEF MgInv, SchemaSound
<1>2. MgJournalTyped'
  BY <1>1 DEF MgJournalTyped, MgSchema
<1>3. MgTypeOK'
  BY <1>2 DEF MgLockStep, MgTypeOK, MgRunsTyped, MgJournalTyped, MgRestTyped, MgRunSet
<1>4. MgFilesChecked' /\ MgHasVersion' /\ MgPlans' /\ JournalTrue' /\ NoGap'
  BY MgQuiet DEF MgLockStep
<1>. QED BY <1>3, <1>4, MgQuietSuffices DEF MgLockStep

\* Steps that take, look at or give back the lock, or end a run.
LEMMA MgLockSteps ==
  ASSUME MgInv, NEW r \in MgRunners,
         \/ \E c \in {"apply", "rollback"}, t \in 0..MgVersions : MgStart(r, c, t)
         \/ MgCreate(r) \/ MgAge(r) \/ MgDrop(r) \/ MgFinished(r) \/ MgRelease(r) \/ MgCrash(r)
  PROVE  MgInv'
<1>1. MgRunsTyped /\ MgJournalTyped /\ MgRestTyped
  BY MgTypes DEF MgInv, SchemaSound
<1>2. UNCHANGED MgSchema
  BY Zenon DEF MgStart, MgCreate, MgAge, MgDrop, MgFinished, MgRelease, MgCrash
<1>3. SUFFICES MgLockStep(r)
  BY <1>2, MgLockStepKeeps
<1>4. ASSUME ~mgTakenOver, NEW s \in MgRunners,
             mgRunner[s].pc \in {"load", "next", "statement", "release"}
      PROVE  mgLock # NoMgLock /\ mgLock.by = s
  BY <1>4 DEF MgInv, MgHolds, MgWorking
<1>5. mgRunner[r] \in MgRunSet
  BY <1>1 DEF MgRunsTyped
<1>6. MgRestTyped' <=> /\ mgLock' \in [by: MgRunners, old: BOOLEAN] \cup {NoMgLock}
                       /\ mgFaults' \in 0..MaxMgFaults /\ mgTakenOver' \in BOOLEAN
  BY <1>1, <1>2 DEF MgRestTyped, MgSchema
<1>7. ASSUME NEW c \in {"apply", "rollback"}, NEW t \in 0..MgVersions, MgStart(r, c, t)
      PROVE  MgLockStep(r)
  <2> DEFINE n == [mgRunner[r] EXCEPT !.pc = "create", !.command = c, !.target = t]
  <2>1. n \in MgRunSet /\ n.pc = "create"
    BY <1>5, MgPlaces, Zenon DEF MgRunSet
  <2>2. mgRunner' = [mgRunner EXCEPT ![r] = n]
    BY <1>7, Zenon DEF MgStart
  <2> HIDE DEF n
  <2>3. MgRunsTyped' /\ mgRunner'[r] = n /\ \A s \in MgRunners \ {r} : mgRunner'[s] = mgRunner[s]
    BY <1>1, <2>1, <2>2, MgBecomes, Zenon
  <2>4. UNCHANGED <<mgLock, mgFaults, mgTakenOver>>
    BY <1>7, Zenon DEF MgStart
  <2>5. MgRestTyped'
    BY <1>1, <1>6, <2>4 DEF MgRestTyped
  <2>6. MgHolds'
    BY <1>4, <2>1, <2>3, <2>4 DEF MgHolds, MgWorking
  <2>. QED BY <2>1, <2>3, <2>4, <2>5, <2>6 DEF MgLockStep
<1>8. CASE MgCreate(r)
  <2>1. mgFaults' = mgFaults /\ mgTakenOver' = mgTakenOver /\ mgRunner[r].pc = "create"
    BY <1>8 DEF MgCreate, MgAt
  <2>2. CASE mgLock = NoMgLock
    <3>1. mgLock' = [by |-> r, old |-> FALSE] /\ MgGoes(r, "load")
      BY <1>8, <2>2 DEF MgCreate, MgTableMade
    <3>2. /\ MgRunsTyped' /\ mgRunner'[r] = [mgRunner[r] EXCEPT !.pc = "load"]
          /\ \A s \in MgRunners \ {r} : mgRunner'[s] = mgRunner[s]
      BY <1>1, <3>1, MgPlaces, MgMoves, Zenon
    <3>3. mgRunner'[r].pc = "load"
      BY <1>5, <3>2 DEF MgRunSet
    <3>4. MgRestTyped'
      BY <1>1, <1>6, <2>1, <3>1 DEF MgRestTyped
    <3>5. mgLock' # NoMgLock /\ mgLock'.by = r
      <4>1. [by |-> r, old |-> FALSE] \in [by: MgRunners, old: BOOLEAN]
        OBVIOUS
      <4>2. mgLock' # NoMgLock
        BY <3>1, <4>1, MgAssumption, Zenon
      <4>. QED BY <3>1, <4>2
    <3>6. MgHolds'
      BY <1>4, <2>1, <2>2, <3>2, <3>5 DEF MgHolds, MgWorking
    <3>. QED BY <2>1, <3>2, <3>3, <3>4, <3>6 DEF MgLockStep
  <2>3. CASE mgLock # NoMgLock
    <3>1. mgLock' = mgLock /\ MgGoes(r, "age")
      BY <1>8, <2>3 DEF MgCreate, MgTableMade
    <3>2. /\ MgRunsTyped' /\ mgRunner'[r] = [mgRunner[r] EXCEPT !.pc = "age"]
          /\ \A s \in MgRunners \ {r} : mgRunner'[s] = mgRunner[s]
      BY <1>1, <3>1, MgPlaces, MgMoves, Zenon
    <3>3. mgRunner'[r].pc = "age"
      BY <1>5, <3>2 DEF MgRunSet
    <3>4. MgRestTyped'
      BY <1>1, <1>6, <2>1, <3>1 DEF MgRestTyped
    <3>5. MgHolds'
      BY <1>4, <2>1, <3>1, <3>2, <3>3, Zenon DEF MgHolds, MgWorking
    <3>. QED BY <2>1, <3>2, <3>3, <3>4, <3>5 DEF MgLockStep
  <2>. QED BY <2>2, <2>3
<1>9. CASE MgAge(r)
  <2>1. UNCHANGED <<mgLock, mgFaults, mgTakenOver>>
    BY <1>9 DEF MgAge
  <2>2. MgGoes(r, "drop") \/ MgEnds(r)
    BY <1>9 DEF MgAge
  <2>3. /\ MgRunsTyped' /\ mgRunner'[r].pc \in {"drop", "idle"}
        /\ \A s \in MgRunners \ {r} : mgRunner'[s] = mgRunner[s]
    <3>1. CASE MgGoes(r, "drop")
      <4>1. "drop" \in MgPlace
        BY MgPlaces
      <4>2. /\ MgRunsTyped' /\ mgRunner'[r] = [mgRunner[r] EXCEPT !.pc = "drop"]
            /\ \A s \in MgRunners \ {r} : mgRunner'[s] = mgRunner[s]
        BY <1>1, <3>1, <4>1, MgMoves
      <4>3. mgRunner'[r].pc = "drop"
        BY <1>5, <4>2 DEF MgRunSet
      <4>. QED BY <4>2, <4>3
    <3>2. CASE MgEnds(r)
      BY <1>1, <3>2, MgStops
    <3>. QED BY <2>2, <3>1, <3>2
  <2>4. MgRestTyped'
    BY <1>1, <1>6, <2>1 DEF MgRestTyped
  <2>5. MgHolds'
    BY <1>4, <2>1, <2>3 DEF MgHolds, MgWorking
  <2>. QED BY <2>1, <2>3, <2>4, <2>5 DEF MgLockStep
<1>10. CASE MgDrop(r)
  <2> DEFINE n == [mgRunner[r] EXCEPT !.pc = "create", !.again = TRUE]
  <2>1. n \in MgRunSet /\ n.pc = "create"
    BY <1>5, MgPlaces, Zenon DEF MgRunSet
  <2>2. mgRunner' = [mgRunner EXCEPT ![r] = n]
    BY <1>10 DEF MgDrop
  <2> HIDE DEF n
  <2>3. MgRunsTyped' /\ mgRunner'[r] = n /\ \A s \in MgRunners \ {r} : mgRunner'[s] = mgRunner[s]
    BY <1>1, <2>1, <2>2, MgBecomes, Zenon
  <2>4. mgLock' = NoMgLock /\ mgTakenOver' /\ mgTakenOver' \in BOOLEAN /\ mgFaults' = mgFaults
    BY <1>10 DEF MgDrop
  <2>5. MgRestTyped'
    BY <1>1, <1>6, <2>4 DEF MgRestTyped
  <2>. QED BY <2>1, <2>3, <2>4, <2>5 DEF MgLockStep, MgHolds
<1>11. CASE MgFinished(r)
  <2>1. /\ UNCHANGED <<mgLock, mgFaults, mgTakenOver>>
        /\ MgGoes(r, "release") /\ mgRunner[r].pc = "next"
    BY <1>11 DEF MgFinished, MgAt
  <2>2. /\ MgRunsTyped' /\ mgRunner'[r] = [mgRunner[r] EXCEPT !.pc = "release"]
        /\ \A s \in MgRunners \ {r} : mgRunner'[s] = mgRunner[s]
    BY <1>1, <2>1, MgPlaces, MgMoves, Zenon
  <2>3. mgRunner'[r].pc = "release"
    BY <1>5, <2>2 DEF MgRunSet
  <2>4. MgRestTyped'
    BY <1>1, <1>6, <2>1 DEF MgRestTyped
  <2>5. MgHolds'
    BY <1>4, <2>1, <2>2 DEF MgHolds, MgWorking
  <2>. QED BY <2>1, <2>2, <2>3, <2>4, <2>5 DEF MgLockStep
<1>12. CASE MgRelease(r) \/ MgCrash(r)
  <2>1. /\ MgEnds(r) /\ mgTakenOver' = mgTakenOver
        /\ mgRunner[r].pc \in {"load", "next", "statement", "release"}
        /\ mgLock' \in {mgLock, NoMgLock}
    BY <1>12 DEF MgRelease, MgCrash, MgAt, MgWorking
  <2>2. mgFaults' \in 0..MaxMgFaults
    BY <1>1, <1>12, MgAssumption DEF MgRelease, MgCrash, MgRestTyped
  <2>3. /\ MgRunsTyped' /\ mgRunner'[r].pc = "idle"
        /\ \A s \in MgRunners \ {r} : mgRunner'[s] = mgRunner[s]
    BY <1>1, <2>1, MgStops
  <2>4. MgRestTyped'
    BY <1>1, <1>6, <2>1, <2>2 DEF MgRestTyped
  <2>5. ASSUME ~mgTakenOver, NEW s \in MgRunners \ {r}
        PROVE  mgRunner[s].pc \notin {"load", "next", "statement", "release"}
    BY <1>4, <2>1, <2>5
  <2>6. MgHolds'
    BY <2>1, <2>3, <2>5 DEF MgHolds, MgWorking
  <2>. QED BY <2>1, <2>3, <2>4, <2>6 DEF MgLockStep
<1>. QED BY <1>7, <1>8, <1>9, <1>10, <1>11, <1>12

\* A run that executes migrations goes on, or releases the lock it has.
MgWorkStep(r) ==
  /\ mgRunner[r].pc \in {"load", "next", "statement"}
  /\ UNCHANGED <<mgLock, mgTakenOver, mgFile>>
  /\ \A s \in MgRunners \ {r} : mgRunner'[s] = mgRunner[s]

\* It keeps what it must if its own plan and the schema fit together after it.
LEMMA MgWorkStepKeeps ==
  ASSUME MgInv, NEW r \in MgRunners, MgWorkStep(r), MgTypeOK',
         MgHistoryMatches => MgHistoryMatches',
         mgRunner'[r].pc \in {"next", "statement"} => MgHistoryMatches,
         mgRunner'[r].pc = "statement" => mgRunner'[r].version \in MgVersion,
         ~mgTakenOver => /\ MgApplies(mgRunner'[r], MgApplied')
                         /\ MgReverts(mgRunner'[r], MgApplied', mgHalf')
                         /\ JournalTrue' /\ NoGap'
  PROVE  MgInv'
<1> USE DEF MgInv
<1>1. MgHolds'
  BY DEF MgHolds, MgWorking, MgWorkStep
<1>2. MgFilesChecked'
  BY DEF MgFilesChecked, MgWorkStep
<1>3. MgHasVersion'
  BY DEF MgHasVersion, MgWorkStep
<1>4. mgTakenOver' = mgTakenOver
  BY DEF MgWorkStep
<1>5. MgPlans'
  <2>1. ASSUME ~mgTakenOver, NEW s \in MgRunners
        PROVE  /\ MgApplies(mgRunner'[s], MgApplied')
               /\ MgReverts(mgRunner'[s], MgApplied', mgHalf')
    <3>1. CASE s = r
      BY <2>1, <3>1
    <3>2. CASE s # r
      <4>1. mgRunner[s].pc \notin {"next", "statement"}
        BY <2>1, <3>2 DEF MgHolds, MgWorking, MgWorkStep
      <4>. QED BY <3>2, <4>1 DEF MgWorkStep, MgApplies, MgReverts
    <3>. QED BY <3>1, <3>2
  <2>. QED BY <1>4, <2>1 DEF MgPlans
<1>6. JournalTrue' /\ NoGap'
  BY <1>4 DEF JournalTrue, NoGap
<1>. QED BY <1>1, <1>2, <1>3, <1>5, <1>6, MgQuietSuffices

\* Reading the journal.
LEMMA MgLoads ==
  ASSUME MgInv, NEW r \in MgRunners, MgLoad(r)
  PROVE  MgInv'
<1>1. MgRunsTyped /\ MgJournalTyped /\ MgRestTyped
  BY MgTypes DEF MgInv, SchemaSound
<1>2. UNCHANGED <<mgLock, MgSchema, mgFaults, mgTakenOver>> /\ mgRunner[r].pc = "load"
  BY DEF MgLoad, MgAt
<1>3. mgRunner[r] \in MgRunSet
  BY <1>1 DEF MgRunsTyped
<1>4. MgApplied' = MgApplied /\ mgHalf' = mgHalf
  BY <1>2 DEF MgApplied, MgSchema
<1>5. MgJournalTyped' /\ MgRestTyped'
  BY <1>1, <1>2 DEF MgJournalTyped, MgRestTyped, MgSchema
<1>6. CASE ~MgHistoryMatches
  <2>1. MgGoes(r, "release")
    BY <1>6 DEF MgLoad
  <2>2. /\ MgRunsTyped' /\ mgRunner'[r] = [mgRunner[r] EXCEPT !.pc = "release"]
        /\ \A s \in MgRunners \ {r} : mgRunner'[s] = mgRunner[s]
    BY <1>1, <2>1, MgPlaces, MgMoves, Zenon
  <2>3. mgRunner'[r].pc = "release"
    BY <1>3, <2>2 DEF MgRunSet
  <2>4. MgHolds'
    BY <1>2, <2>2 DEF MgInv, MgHolds, MgWorking
  <2>5. MgLockStep(r)
    BY <1>2, <1>5, <2>2, <2>3, <2>4 DEF MgLockStep
  <2>. QED BY <1>2, <2>5, MgLockStepKeeps
<1>7. CASE MgHistoryMatches
  <2> DEFINE n == [mgRunner[r] EXCEPT
            !.pc = "next",
            !.todo = IF mgRunner[r].command = "apply" THEN MgPending(mgRunner[r].target)
                     ELSE MgReverted(mgRunner[r].target)]
  <2>1. mgRunner' = [mgRunner EXCEPT ![r] = n]
    BY <1>7 DEF MgLoad
  <2>2. n \in MgRunSet
    BY <1>3, MgPlaces, Zenon DEF MgRunSet, MgPending, MgReverted, MgApplied
  <2>3. n.pc = "next" /\ n.command = mgRunner[r].command
    BY <1>3 DEF MgRunSet
  <2>4. n.todo = IF n.command = "apply" THEN MgPending(mgRunner[r].target)
                 ELSE MgReverted(mgRunner[r].target)
    BY <1>3 DEF MgRunSet
  <2> HIDE DEF n
  <2>5. MgRunsTyped' /\ mgRunner'[r] = n /\ \A s \in MgRunners \ {r} : mgRunner'[s] = mgRunner[s]
    BY <1>1, <2>1, <2>2, MgBecomes, Zenon
  <2>6. mgRunner[r].target \in 0..MgVersions
    BY <1>3 DEF MgRunSet
  <2>7. MgApplies(n, MgApplied)
    <3>1. SUFFICES ASSUME n.command = "apply"
                   PROVE  /\ n.todo \cap MgApplied = {}
                          /\ \A v \in n.todo : \A w \in 1..v : w \in MgApplied \cup n.todo
      BY <2>3 DEF MgApplies
    <3>2. n.todo = MgPending(mgRunner[r].target)
      BY <2>4, <3>1
    <3>. QED BY <2>6, <3>2, MgAssumption DEF MgPending, MgVersion
  <2>8. MgReverts(n, MgApplied, mgHalf)
    <3>1. SUFFICES ASSUME n.command = "rollback"
                   PROVE  /\ n.todo \subseteq MgApplied
                          /\ \A v \in n.todo : \A w \in MgApplied : w >= v => w \in n.todo
      BY <2>3 DEF MgReverts
    <3>2. n.todo = MgReverted(mgRunner[r].target)
      BY <2>4, <3>1
    <3>. QED BY <2>6, <3>2, MgAssumption DEF MgReverted, MgApplied, MgVersion
  <2>9. MgWorkStep(r)
    BY <1>2, <2>5 DEF MgWorkStep, MgSchema
  <2>10. MgTypeOK'
    BY <1>5, <2>5 DEF MgTypeOK, MgRunsTyped, MgJournalTyped, MgRestTyped, MgRunSet
  <2>11. JournalTrue' /\ NoGap' /\ (MgHistoryMatches => MgHistoryMatches')
    BY <1>2, <1>4 DEF MgInv, SchemaSound, JournalTrue, NoGap, MgSchema, MgHistoryMatches
  <2>. QED BY <1>4, <1>7, <2>3, <2>5, <2>7, <2>8, <2>9, <2>10, <2>11, MgWorkStepKeeps
<1>. QED BY <1>6, <1>7

\* Starting a migration or a rollback.
LEMMA MgBegins ==
  ASSUME MgInv, NEW r \in MgRunners, MgBegin(r)
  PROVE  MgInv'
<1>1. MgRunsTyped /\ MgJournalTyped /\ MgRestTyped
  BY MgTypes DEF MgInv, SchemaSound
<1>2. UNCHANGED <<mgLock, mgFile, mgLevel, mgFaults, mgTakenOver>> /\ mgRunner[r].pc = "next"
  BY DEF MgBegin, MgAt
<1>3. mgRunner[r] \in MgRunSet
  BY <1>1 DEF MgRunsTyped
<1>4. PICK v \in MgVersion :
        /\ MgIsNext(mgRunner[r], v)
        /\ IF mgRunner[r].command = "apply"
           THEN MgRecord(v, "started") /\ UNCHANGED mgHalf
           ELSE mgHalf' = mgHalf \cup {v} /\ UNCHANGED mgJournal
        /\ mgRunner' = [mgRunner EXCEPT ![r] =
             [mgRunner[r] EXCEPT !.pc = "statement", !.version = v, !.next = 1]]
  BY Zenon DEF MgBegin
<1> DEFINE n == [mgRunner[r] EXCEPT !.pc = "statement", !.version = v, !.next = 1]
<1>5. v \in 0..MgVersions /\ 1 \in 1..MgStatements + 1
  BY MgAssumption DEF MgVersion
<1>6. n \in MgRunSet
  BY <1>3, <1>5, MgPlaces, Zenon DEF MgRunSet
<1>7. /\ n.pc = "statement" /\ n.version = v
      /\ n.command = mgRunner[r].command /\ n.todo = mgRunner[r].todo
  BY <1>3 DEF MgRunSet
<1>8. mgRunner' = [mgRunner EXCEPT ![r] = n]
  BY <1>4
<1> HIDE DEF n
<1>9. MgRunsTyped' /\ mgRunner'[r] = n /\ \A s \in MgRunners \ {r} : mgRunner'[s] = mgRunner[s]
  BY <1>1, <1>6, <1>8, MgBecomes, Zenon
<1>10. MgIsNext(n, v)
  BY <1>4, <1>7 DEF MgIsNext
<1>11. MgHistoryMatches
  BY <1>2 DEF MgInv, MgFilesChecked
<1>12. MgWorkStep(r)
  BY <1>2, <1>9 DEF MgWorkStep
<1>13. CASE mgRunner[r].command = "apply"
  <2>1. MgRecord(v, "started") /\ mgHalf' = mgHalf
    BY <1>4, <1>13
  <2>2. "started" \in MgStatus
    BY DEF MgStatus
  <2>3. MgJournalTyped' /\ MgApplied' = MgApplied \ {v} /\ MgHistoryMatches'
    BY <1>1, <1>2, <1>11, <2>1, <2>2, MgRecords, MgNowApplied
  <2>4. MgTypeOK'
    BY <1>1, <1>2, <1>9, <2>1, <2>3
    DEF MgTypeOK, MgRunsTyped, MgJournalTyped, MgRestTyped, MgRunSet
  <2>5. ASSUME ~mgTakenOver
        PROVE  /\ MgApplies(n, MgApplied') /\ MgReverts(n, MgApplied', mgHalf')
               /\ JournalTrue' /\ NoGap'
    <3>1. MgApplies(mgRunner[r], MgApplied)
      BY <2>5 DEF MgInv, MgPlans
    <3>2. v \in mgRunner[r].todo
      BY <1>4 DEF MgIsNext
    <3>3. MgApplied' = MgApplied
      BY <1>2, <1>13, <2>3, <3>1, <3>2 DEF MgApplies
    <3>4. MgApplies(n, MgApplied)
      BY <1>2, <1>7, <1>10, <1>13, <3>1 DEF MgApplies
    <3>5. MgReverts(n, MgApplied, mgHalf)
      BY <1>7, <1>13 DEF MgReverts
    <3>6. JournalTrue' /\ NoGap'
      BY <1>2, <2>1, <3>3 DEF MgInv, SchemaSound, JournalTrue, NoGap
    <3>. QED BY <2>1, <3>3, <3>4, <3>5, <3>6
  <2>. QED BY <1>7, <1>9, <1>11, <1>12, <2>3, <2>4, <2>5, MgWorkStepKeeps
<1>14. CASE mgRunner[r].command # "apply"
  <2>1. mgHalf' = mgHalf \cup {v} /\ mgJournal' = mgJournal
    BY <1>4, <1>14
  <2>2. MgApplied' = MgApplied
    BY <2>1 DEF MgApplied
  <2>3. MgHistoryMatches'
    BY <1>2, <1>11, <2>1, <2>2 DEF MgHistoryMatches
  <2>4. MgTypeOK'
    BY <1>1, <1>2, <1>9, <2>1
    DEF MgTypeOK, MgRunsTyped, MgJournalTyped, MgRestTyped, MgRunSet
  <2>5. ASSUME ~mgTakenOver
        PROVE  /\ MgApplies(n, MgApplied') /\ MgReverts(n, MgApplied', mgHalf')
               /\ JournalTrue' /\ NoGap'
    <3>1. MgReverts(mgRunner[r], MgApplied, mgHalf)
      BY <2>5 DEF MgInv, MgPlans
    <3>2. MgApplies(n, MgApplied)
      BY <1>7, <1>14 DEF MgApplies
    <3>3. MgReverts(n, MgApplied, mgHalf')
      BY <1>2, <1>7, <1>10, <2>1, <3>1 DEF MgReverts
    <3>4. JournalTrue' /\ NoGap'
      BY <1>2, <2>1, <2>2 DEF MgInv, SchemaSound, JournalTrue, NoGap
    <3>. QED BY <2>2, <3>2, <3>3, <3>4
  <2>. QED BY <1>7, <1>9, <1>11, <1>12, <2>3, <2>4, <2>5, MgWorkStepKeeps
<1>. QED BY <1>13, <1>14

\* One statement.
LEMMA MgExecutes ==
  ASSUME MgInv, NEW r \in MgRunners, MgStatement(r)
  PROVE  MgInv'
<1>1. MgRunsTyped /\ MgJournalTyped /\ MgRestTyped
  BY MgTypes DEF MgInv, SchemaSound
<1> DEFINE v == mgRunner[r].version
           i == mgRunner[r].next
           n == [mgRunner[r] EXCEPT !.next = i + 1]
<1>2. /\ UNCHANGED <<mgLock, mgJournal, mgFile, mgFaults, mgTakenOver, mgHalf>>
      /\ mgRunner[r].pc = "statement" /\ i <= MgStatements
  BY DEF MgStatement, MgAt
<1>3. mgRunner[r] \in MgRunSet
  BY <1>1 DEF MgRunsTyped
<1>4. i \in 1..MgStatements + 1 /\ v \in MgVersion
  BY <1>2, <1>3 DEF MgRunSet, MgInv, MgHasVersion
<1>5. i + 1 \in 1..MgStatements + 1
  BY <1>2, <1>4, MgAssumption
<1>6. n \in MgRunSet
  BY <1>3, <1>5 DEF MgRunSet
<1>7. /\ n.pc = "statement" /\ n.version = v
      /\ n.command = mgRunner[r].command /\ n.todo = mgRunner[r].todo
  BY <1>2, <1>3 DEF MgRunSet
<1>8. mgRunner' = [mgRunner EXCEPT ![r] = n]
  BY <1>1 DEF MgStatement, MgRunsTyped
<1>9. /\ mgLevel' \in [MgVersion -> 0..MgStatements]
      /\ \A w \in MgVersion \ {v} : mgLevel'[w] = mgLevel[w]
  <2>1. mgLevel \in [MgVersion -> 0..MgStatements]
    BY <1>1 DEF MgRestTyped
  <2>2. PICK l \in 0..MgStatements : mgLevel' = [mgLevel EXCEPT ![v] = l]
    <3>1. mgLevel[v] \in 0..MgStatements
      BY <1>4, <2>1
    <3>2. i \in 0..MgStatements /\ MgStatements - i \in 0..MgStatements
      BY <1>2, <1>4, MgAssumption
    <3>. QED BY <3>1, <3>2, Zenon DEF MgStatement
  <2>. QED BY <1>4, <2>1, <2>2
<1> HIDE DEF n
<1>10. MgRunsTyped' /\ mgRunner'[r] = n /\ \A s \in MgRunners \ {r} : mgRunner'[s] = mgRunner[s]
  BY <1>1, <1>6, <1>8, MgBecomes, Zenon
<1>11. MgApplied' = MgApplied
  BY <1>2 DEF MgApplied
<1>12. MgHistoryMatches /\ MgHistoryMatches'
  BY <1>2, <1>11 DEF MgInv, MgFilesChecked, MgHistoryMatches
<1>13. MgWorkStep(r)
  BY <1>2, <1>10 DEF MgWorkStep
<1>14. MgTypeOK'
  BY <1>1, <1>2, <1>9, <1>10 DEF MgTypeOK, MgRunsTyped, MgJournalTyped, MgRestTyped, MgRunSet
<1>15. ASSUME ~mgTakenOver
       PROVE  /\ MgApplies(n, MgApplied') /\ MgReverts(n, MgApplied', mgHalf')
              /\ JournalTrue' /\ NoGap'
  <2>1. MgApplies(mgRunner[r], MgApplied) /\ MgReverts(mgRunner[r], MgApplied, mgHalf)
    BY <1>15 DEF MgInv, MgPlans
  <2>2. MgApplies(n, MgApplied)
    BY <1>2, <1>7, <2>1 DEF MgApplies, MgIsNext
  <2>3. MgReverts(n, MgApplied, mgHalf)
    BY <1>2, <1>7, <2>1 DEF MgReverts, MgIsNext
  <2>4. v \notin MgApplied \ mgHalf
    <3>1. CASE mgRunner[r].command = "apply"
      BY <1>2, <2>1, <3>1 DEF MgApplies, MgIsNext
    <3>2. CASE mgRunner[r].command = "rollback"
      BY <1>2, <2>1, <3>2 DEF MgReverts
    <3>. QED BY <1>3, <3>1, <3>2 DEF MgRunSet
  <2>5. JournalTrue'
    BY <1>2, <1>9, <1>11, <1>15, <2>4 DEF MgInv, SchemaSound, JournalTrue, MgApplied
  <2>6. NoGap'
    BY <1>2, <1>11 DEF MgInv, SchemaSound, NoGap
  <2>. QED BY <1>2, <1>11, <2>2, <2>3, <2>5, <2>6
<1>. QED BY <1>4, <1>7, <1>10, <1>12, <1>13, <1>14, <1>15, MgWorkStepKeeps

\* A run that releases the lock after a row that says failed, or after none.
LEMMA MgGivesUp ==
  ASSUME MgInv, NEW r \in MgRunners, mgRunner[r].pc = "statement",
         UNCHANGED <<mgLock, mgFile, mgLevel, mgTakenOver>>, mgFaults' \in 0..MaxMgFaults,
         \/ mgRunner[r].command = "apply" /\ MgRecord(mgRunner[r].version, "failed")
         \/ mgRunner[r].command # "apply" /\ UNCHANGED mgJournal,
         \/ mgHalf' = mgHalf
         \/ mgRunner[r].command = "apply" /\ mgHalf' = mgHalf \ {mgRunner[r].version},
         MgGoes(r, "release")
  PROVE  MgInv'
<1>1. MgRunsTyped /\ MgJournalTyped /\ MgRestTyped
  BY MgTypes DEF MgInv, SchemaSound
<1> DEFINE v == mgRunner[r].version
<1>2. v \in MgVersion
  BY DEF MgInv, MgHasVersion
<1>3. mgRunner[r] \in MgRunSet
  BY <1>1 DEF MgRunsTyped
<1>4. /\ MgRunsTyped' /\ mgRunner'[r] = [mgRunner[r] EXCEPT !.pc = "release"]
      /\ \A s \in MgRunners \ {r} : mgRunner'[s] = mgRunner[s]
  BY <1>1, MgPlaces, MgMoves, Zenon
<1>5. mgRunner'[r].pc = "release"
  BY <1>3, <1>4 DEF MgRunSet
<1>6. MgWorkStep(r)
  BY <1>4 DEF MgWorkStep
<1>7. MgHistoryMatches
  BY DEF MgInv, MgFilesChecked
<1>8. /\ MgJournalTyped' /\ MgHistoryMatches'
      /\ \/ MgApplied' = MgApplied
         \/ mgRunner[r].command = "apply" /\ MgApplied' = MgApplied \ {v}
  <2>1. CASE mgRunner[r].command = "apply"
    <3>1. MgRecord(v, "failed") /\ "failed" \in MgStatus
      BY <2>1 DEF MgStatus
    <3>. QED BY <1>1, <1>2, <1>7, <2>1, <3>1, MgRecords, MgNowApplied
  <2>2. CASE mgRunner[r].command # "apply"
    <3>1. mgJournal' = mgJournal
      BY <2>2
    <3>. QED BY <1>1, <1>7, <3>1 DEF MgJournalTyped, MgApplied, MgHistoryMatches
  <2>. QED BY <2>1, <2>2
<1>9. mgHalf' \subseteq MgVersion
  BY <1>1 DEF MgRestTyped
<1>10. MgTypeOK'
  BY <1>1, <1>4, <1>8, <1>9 DEF MgTypeOK, MgRunsTyped, MgJournalTyped, MgRestTyped, MgRunSet
<1>11. ASSUME ~mgTakenOver PROVE JournalTrue' /\ NoGap'
  <2>1. mgRunner[r].command = "apply" => v \notin MgApplied
    BY <1>11 DEF MgInv, MgPlans, MgApplies, MgIsNext
  <2>2. MgApplied' = MgApplied
    BY <1>8, <2>1
  <2>3. MgApplied' \ mgHalf' \subseteq MgApplied \ mgHalf
    BY <2>1, <2>2
  <2>. QED BY <2>2, <2>3 DEF MgInv, SchemaSound, JournalTrue, NoGap
<1>12. MgApplies(mgRunner'[r], MgApplied') /\ MgReverts(mgRunner'[r], MgApplied', mgHalf')
  BY <1>5 DEF MgApplies, MgReverts
<1>. QED BY <1>5, <1>6, <1>8, <1>10, <1>11, <1>12, MgWorkStepKeeps

\* The record of a migration or of a rollback that is complete.
LEMMA MgCompletes ==
  ASSUME MgInv, NEW r \in MgRunners, MgRecorded(r)
  PROVE  MgInv'
<1>1. MgRunsTyped /\ MgJournalTyped /\ MgRestTyped
  BY MgTypes DEF MgInv, SchemaSound
<1> DEFINE v == mgRunner[r].version
           apply == mgRunner[r].command = "apply"
           left == mgRunner[r].todo \ {v}
           n == [mgRunner[r] EXCEPT !.pc = "next", !.todo = left, !.version = 0]
<1>2. /\ UNCHANGED <<mgLock, mgFile, mgLevel, mgFaults, mgTakenOver>>
      /\ mgRunner[r].pc = "statement" /\ mgHalf' = mgHalf \ {v}
  BY DEF MgRecorded, MgAt
<1>3. mgRunner[r] \in MgRunSet
  BY <1>1 DEF MgRunsTyped
<1>4. v \in MgVersion
  BY <1>2 DEF MgInv, MgHasVersion
<1>5. CASE apply /\ mgLevel[v] < MgStatements
  <2>1. MgRecord(v, "failed") /\ MgGoes(r, "release") /\ mgFaults' \in 0..MaxMgFaults
    BY <1>1, <1>2, <1>5 DEF MgRecorded, MgRestTyped
  <2>. QED BY <1>2, <1>5, <2>1, MgGivesUp
<1>6. CASE ~(apply /\ mgLevel[v] < MgStatements)
  <2>1. /\ MgRecord(v, IF apply THEN "applied" ELSE "rolled_back")
        /\ mgRunner' = [mgRunner EXCEPT ![r] = n]
    BY <1>3, <1>6 DEF MgRecorded, MgRunSet
  <2>2. n \in MgRunSet
    <3>1. left \in SUBSET MgVersion /\ 0 \in 0..MgVersions
      BY <1>3, MgAssumption DEF MgRunSet
    <3> HIDE DEF left
    <3>. QED BY <1>3, <3>1, MgPlaces, Zenon DEF MgRunSet
  <2>3. n.pc = "next" /\ n.command = mgRunner[r].command /\ n.todo = mgRunner[r].todo \ {v}
    BY <1>3 DEF MgRunSet
  <2> HIDE DEF n
  <2>4. MgRunsTyped' /\ mgRunner'[r] = n /\ \A s \in MgRunners \ {r} : mgRunner'[s] = mgRunner[s]
    BY <1>1, <2>1, <2>2, MgBecomes, Zenon
  <2>5. MgWorkStep(r)
    BY <1>2, <2>4 DEF MgWorkStep
  <2>6. MgHistoryMatches
    BY <1>2 DEF MgInv, MgFilesChecked
  <2>7. "applied" \in MgStatus /\ "rolled_back" \in MgStatus
    BY DEF MgStatus
  <2>8. /\ MgJournalTyped' /\ MgHistoryMatches'
        /\ MgApplied' = IF apply THEN MgApplied \cup {v} ELSE MgApplied \ {v}
    BY <1>1, <1>2, <1>4, <2>1, <2>6, <2>7, MgRecords, MgNowApplied
  <2>9. MgTypeOK'
    BY <1>1, <1>2, <2>4, <2>8 DEF MgTypeOK, MgRunsTyped, MgJournalTyped, MgRestTyped, MgRunSet
  <2>10. mgLevel[v] \in 0..MgStatements
    BY <1>1, <1>4 DEF MgRestTyped
  <2>11. ASSUME ~mgTakenOver
         PROVE  /\ MgApplies(n, MgApplied') /\ MgReverts(n, MgApplied', mgHalf')
                /\ JournalTrue' /\ NoGap'
    <3>1. MgApplies(mgRunner[r], MgApplied) /\ MgReverts(mgRunner[r], MgApplied, mgHalf)
      BY <2>11 DEF MgInv, MgPlans
    <3>2. \A w \in MgApplied \ mgHalf : mgLevel[w] = MgStatements
      BY <2>11 DEF MgInv, SchemaSound, JournalTrue
    <3>3. \A x \in MgApplied : \A w \in 1..x : w \in MgApplied
      BY <2>11 DEF MgInv, SchemaSound, NoGap
    <3>4. /\ MgApplied \subseteq MgVersion /\ mgRunner[r].todo \subseteq MgVersion
          /\ MgVersion \subseteq Nat
      BY <1>3, MgAssumption DEF MgApplied, MgVersion, MgRunSet
    <3>5. CASE apply
      <4>1. MgApplied' = MgApplied \cup {v}
        BY <2>8, <3>5
      <4>2. /\ mgRunner[r].todo \cap MgApplied = {} /\ v \in mgRunner[r].todo
            /\ \A x \in mgRunner[r].todo : \A w \in 1..x : w \in MgApplied \cup mgRunner[r].todo
            /\ \A w \in mgRunner[r].todo : v <= w
        BY <1>2, <3>1, <3>5 DEF MgApplies, MgIsNext
      <4>3. JournalTrue'
        <5>1. mgLevel[v] = MgStatements
          BY <1>6, <2>10, <3>5, MgAssumption
        <5>. QED BY <1>2, <3>2, <4>1, <5>1 DEF JournalTrue
      <4>4. NoGap'
        <5>1. ASSUME NEW w \in 1..v PROVE w \in MgApplied \cup {v}
          <6>1. w \in MgApplied \/ v <= w
            BY <4>2
          <6>2. v \in Nat
            BY <3>4, <1>4, Zenon
          <6> HIDE DEF v
          <6>3. w \in Nat /\ w <= v
            BY <5>1, <6>2
          <6>. QED BY <6>1, <6>2, <6>3
        <5>. QED BY <3>3, <4>1, <5>1 DEF NoGap
      <4>5. MgApplies(n, MgApplied')
        BY <2>3, <4>1, <4>2 DEF MgApplies
      <4>6. MgReverts(n, MgApplied', mgHalf')
        BY <2>3, <3>5 DEF MgReverts
      <4>. QED BY <4>3, <4>4, <4>5, <4>6
    <3>6. CASE mgRunner[r].command = "rollback"
      <4>1. MgApplied' = MgApplied \ {v}
        BY <2>8, <3>6
      <4>2. /\ mgRunner[r].todo \subseteq MgApplied /\ v \in mgRunner[r].todo
            /\ \A x \in mgRunner[r].todo : \A w \in MgApplied : w >= x => w \in mgRunner[r].todo
            /\ \A w \in mgRunner[r].todo : v >= w
        BY <1>2, <3>1, <3>6 DEF MgReverts, MgIsNext
      <4>3. JournalTrue'
        BY <1>2, <3>2, <4>1 DEF JournalTrue
      <4>4. NoGap'
        <5>1. ASSUME NEW x \in MgApplied \ {v}, v \in 1..x PROVE FALSE
          <6>1. v \in Nat /\ x \in Nat /\ x >= v
            BY <3>4, <4>2, <5>1
          <6>2. x \in mgRunner[r].todo
            BY <4>2, <6>1
          <6>3. v >= x
            BY <4>2, <6>2
          <6>. QED BY <5>1, <6>1, <6>3
        <5>. QED BY <3>3, <4>1, <5>1 DEF NoGap
      <4>5. MgReverts(n, MgApplied', mgHalf')
        BY <2>3, <4>1, <4>2 DEF MgReverts
      <4>6. MgApplies(n, MgApplied')
        BY <2>3, <3>6 DEF MgApplies
      <4>. QED BY <4>3, <4>4, <4>5, <4>6
    <3>. QED BY <1>3, <3>5, <3>6 DEF MgRunSet
  <2>. QED BY <2>3, <2>4, <2>5, <2>6, <2>8, <2>9, <2>11, MgWorkStepKeeps, Zenon
<1>. QED BY <1>5, <1>6

\* A statement that raises.
LEMMA MgBreaks ==
  ASSUME MgInv, NEW r \in MgRunners, MgFails(r)
  PROVE  MgInv'
<1>1. mgFaults' \in 0..MaxMgFaults
  BY MgAssumption DEF MgFails, MgInv, SchemaSound, MgTypeOK
<1>. QED BY <1>1, MgGivesUp DEF MgFails, MgAt

\* An edit, which waits for the runs to be over.
LEMMA MgEdits ==
  ASSUME MgInv, NEW v \in MgVersion, MgEdit(v)
  PROVE  MgInv'
<1>1. /\ UNCHANGED <<mgLock, mgJournal, mgLevel, mgRunner, mgFaults, mgTakenOver, mgHalf>>
      /\ \A r \in MgRunners : mgRunner[r].pc = "idle"
  BY DEF MgEdit, MgAt
<1>2. mgFile' \in [MgVersion -> 0..MaxMgEdits]
  <2>1. mgFile \in [MgVersion -> 0..MaxMgEdits] /\ mgFile[v] + 1 \in 0..MaxMgEdits
    BY MgAssumption DEF MgEdit, MgInv, SchemaSound, MgTypeOK
  <2>. QED BY <2>1 DEF MgEdit
<1>3. MgTypeOK'
  BY <1>1, <1>2 DEF MgInv, SchemaSound, MgTypeOK
<1>4. MgApplied' = MgApplied
  BY <1>1 DEF MgApplied
<1>5. MgHolds' /\ MgFilesChecked' /\ MgHasVersion'
  BY <1>1 DEF MgHolds, MgWorking, MgFilesChecked, MgHasVersion
<1>6. MgPlans'
  BY <1>1 DEF MgPlans, MgApplies, MgReverts
<1>7. JournalTrue' /\ NoGap'
  BY <1>1, <1>4 DEF MgInv, SchemaSound, JournalTrue, NoGap
<1>. QED BY <1>3, <1>5, <1>6, <1>7, MgQuietSuffices

\* A lock that grows old.
LEMMA MgGrowsOld ==
  ASSUME MgInv, MgLockAges
  PROVE  MgInv'
<1>1. UNCHANGED <<MgSchema, mgRunner, mgFaults, mgTakenOver>>
  BY DEF MgLockAges
<1>2. /\ mgLock \in [by: MgRunners, old: BOOLEAN]
      /\ mgLock' \in [by: MgRunners, old: BOOLEAN] /\ mgLock'.by = mgLock.by
  BY Zenon DEF MgLockAges, MgInv, SchemaSound, MgTypeOK
<1>3. mgLock' # NoMgLock
  BY <1>2, MgAssumption
<1>4. MgTypeOK'
  BY <1>1, <1>2 DEF MgInv, SchemaSound, MgTypeOK, MgSchema
<1>5. MgApplied' = MgApplied /\ MgHistoryMatches' = MgHistoryMatches
  BY <1>1 DEF MgApplied, MgHistoryMatches, MgSchema
<1>6. MgHolds'
  BY <1>1, <1>2, <1>3 DEF MgInv, MgHolds, MgWorking
<1>7. MgFilesChecked' /\ MgHasVersion'
  BY <1>1, <1>5 DEF MgInv, MgFilesChecked, MgHasVersion
<1>8. MgPlans'
  BY <1>1, <1>5 DEF MgInv, MgPlans, MgSchema
<1>9. JournalTrue' /\ NoGap'
  BY <1>1, <1>5 DEF MgInv, SchemaSound, JournalTrue, NoGap, MgSchema
<1>. QED BY <1>4, <1>6, <1>7, <1>8, <1>9, MgQuietSuffices

\* Every step of the runs keeps the invariant.
LEMMA MgInvStays == ASSUME MgInv, [MgNext]_mgVars PROVE MgInv'
<1>1. CASE UNCHANGED mgVars
  <2>1. UNCHANGED <<mgLock, mgJournal, mgFile, mgLevel, mgRunner, mgFaults, mgTakenOver, mgHalf>>
    BY <1>1 DEF mgVars
  <2>. QED BY <2>1 DEF MgInv, SchemaSound, MgTypeOK, OneRunnerAlone, OneRunner, MgWorking,
           JournalTrue, NoGap, MgApplied, MgFilesChecked, MgHistoryMatches, MgHasVersion,
           MgHolds, MgPlans, MgApplies, MgReverts
<1>2. ASSUME NEW r \in MgRunners, NEW t \in 1..MgVersions, MgStart(r, "apply", t)
      PROVE  MgInv'
  <2>1. t \in 0..MgVersions
    BY MgAssumption
  <2>. QED BY <1>2, <2>1, MgLockSteps
<1>3. ASSUME NEW r \in MgRunners, NEW t \in 0..MgVersions - 1, MgStart(r, "rollback", t)
      PROVE  MgInv'
  <2>1. t \in 0..MgVersions
    BY MgAssumption
  <2>. QED BY <1>3, <2>1, MgLockSteps
<1>4. ASSUME NEW r \in MgRunners, MgStep(r) \/ MgFails(r) \/ MgCrash(r)
      PROVE  MgInv'
  <2>1. CASE MgCreate(r) \/ MgAge(r) \/ MgDrop(r) \/ MgFinished(r) \/ MgRelease(r) \/ MgCrash(r)
    BY <2>1, MgLockSteps
  <2>2. CASE MgLoad(r)
    BY <2>2, MgLoads
  <2>3. CASE MgBegin(r)
    BY <2>3, MgBegins
  <2>4. CASE MgStatement(r)
    BY <2>4, MgExecutes
  <2>5. CASE MgRecorded(r)
    BY <2>5, MgCompletes
  <2>6. CASE MgFails(r)
    BY <2>6, MgBreaks
  <2>. QED BY <1>4, <2>1, <2>2, <2>3, <2>4, <2>5, <2>6 DEF MgStep
<1>. QED BY <1>1, <1>2, <1>3, <1>4, MgEdits, MgGrowsOld DEF MgNext

\* The invariant holds at first.
LEMMA MgInvStarts == ASSUME MgInit PROVE MgInv
<1>1. mgRunner = [r \in MgRunners |-> MgIdle] /\ MgIdle \in MgRunSet /\ MgIdle.pc = "idle"
  BY MgAssumption, MgPlaces DEF MgInit, MgIdle, MgRunSet
<1>2. \A r \in MgRunners : mgRunner[r].pc = "idle"
  BY <1>1
<1>3. mgJournal \in [MgVersion -> [status: MgStatus, checksum: 0..MaxMgEdits]]
  <2>1. [status |-> "none", checksum |-> 0] \in [status: MgStatus, checksum: 0..MaxMgEdits]
    BY MgAssumption DEF MgStatus
  <2>. QED BY <2>1 DEF MgInit
<1>4. MgApplied = {}
  BY DEF MgInit, MgApplied
<1>5. MgTypeOK
  <2>1. MgRunsTyped
    BY <1>1 DEF MgRunsTyped
  <2>2. MgJournalTyped
    BY <1>3 DEF MgJournalTyped
  <2>3. MgRestTyped
    <3>1. 0 \in 0..MaxMgEdits /\ 0 \in 0..MgStatements /\ 0 \in 0..MaxMgFaults
      BY MgAssumption
    <3>. QED BY <3>1, Zenon DEF MgInit, MgRestTyped
  <2>. QED BY <2>1, <2>2, <2>3, MgTypes
<1>6. OneRunnerAlone /\ MgHolds /\ MgFilesChecked /\ MgHasVersion
  BY <1>2 DEF OneRunnerAlone, OneRunner, MgHolds, MgWorking, MgFilesChecked, MgHasVersion
<1>7. JournalTrue /\ NoGap
  BY <1>4 DEF JournalTrue, NoGap
<1>8. MgPlans
  BY <1>2 DEF MgPlans, MgApplies, MgReverts
<1>. QED BY <1>5, <1>6, <1>7, <1>8 DEF MgInv, SchemaSound

\* No statement is executed while an applied file differs from what was applied.
LEMMA MgStatementsWait ==
  ASSUME MgInv, [MgNext]_mgVars, \E v \in MgApplied : mgJournal[v].checksum # mgFile[v]
  PROVE  UNCHANGED mgLevel
<1>1. ~MgHistoryMatches
  BY DEF MgHistoryMatches
<1>2. \A r \in MgRunners : mgRunner[r].pc \notin {"next", "statement"}
  BY <1>1 DEF MgInv, MgFilesChecked
<1>3. \A r \in MgRunners : ~MgStatement(r)
  BY <1>2 DEF MgStatement, MgAt
<1>. QED BY <1>3 DEF MgNext, mgVars, MgStep, MgStart, MgCreate, MgAge, MgDrop, MgLoad, MgBegin,
         MgRecorded, MgFinished, MgRelease, MgFails, MgCrash, MgEdit, MgLockAges, MgSchema

\* However runs overlap, fail, die and resume: without a stale lock taken over one of them works
\* at a time, the journal calls applied only what is in the schema, and what is applied has no
\* gap; and a changed file of an applied version stops every statement.
THEOREM SchemaStays == MgSpec => SchemaKept
<1>1. MgInit => MgInv
  BY MgInvStarts
<1>2. MgInv /\ [MgNext]_mgVars => MgInv'
  BY MgInvStays
<1>3. MgInv => SchemaSound
  BY DEF MgInv
<1>4. MgInv /\ [MgNext]_mgVars =>
        /\ SchemaSound'
        /\ (\E v \in MgApplied : mgJournal[v].checksum # mgFile[v]) => UNCHANGED mgLevel
  BY <1>2, MgStatementsWait DEF MgInv
<1>. QED BY <1>1, <1>2, <1>3, <1>4, PTL DEF MgSpec, SchemaKept

-----------------------------------------------------------------------------
(* The change history. *)

\* Where a run has read the heads, and where it is none.
HiPlanned == {"planning", "objects", "changes", "commits", "refs"}
HiIdle == {"new", "done", "dead"}

\* Some commit of C is that one.
HiHas(C, k, id) == \E c \in C : c.key = k /\ c.id = id

\* One line of commits goes on as the other.
HiPre(s, t) == Len(s) <= Len(t) /\ \A i \in 1..Len(s) : s[i] = t[i]

\* What a run plans hangs together with what is stored.
HiMade(run, C) ==
  /\ run.pc \notin HiPlanned => run.commits = {}
  /\ \A c \in run.commits :
       /\ c.at = run.now
       /\ c.parent # <<>> => HiHas(C \cup run.commits, c.key, c.parent)
  /\ \A k \in HistKeys : run.heads[k] # <<>> => HiHas(C \cup run.commits, k, run.heads[k])

\* What it has inserted is there.
HiStored(run, O, Ch, C) ==
  /\ run.pc \in {"changes", "commits", "refs"} => \A c \in run.commits : c.doc \in O
  /\ run.pc \in {"commits", "refs"} =>
       \A c \in run.commits : Live(c.parent) /\ Live(c.id) => <<c.key, c.id>> \in Ch
  /\ run.pc = "refs" => run.commits \subseteq C

\* Observation i is the last so far of its entity.
HiLastSoFar(run, i) ==
  /\ i < run.i
  /\ \A j \in DOMAIN run.obs : j < run.i /\ run.obs[j].key = run.obs[i].key => j <= i

\* The heads that a run carries on say what it has seen.
HiSaid(run) ==
  /\ run.i >= 1
  /\ run.pc \in {"new", "read"} => run.i = 1
  /\ run.pc \in HiPlanned =>
       \A i \in DOMAIN run.obs :
         HiLastSoFar(run, i) => Says(run.heads[run.obs[i].key], run.obs[i].doc)
  /\ run.pc \in HiPlanned \ {"planning"} => run.i > Len(run.obs)

\* A run that carries a section has documents only until it has read the heads.
HiRows(run) ==
  run.pc = "read" /\ run.carry => \A i \in DOMAIN run.obs : run.obs[i].doc \in HistDocument

HiRunSound(run, O, Ch, C, now) ==
  HiMade(run, C) /\ HiStored(run, O, Ch, C) /\ HiSaid(run) /\ HiRows(run) /\ run.now <= now

\* A run on its own: its heads are those of the references, or go on from them.
HiKnows(run, refs) ==
  run.pc \in HiPlanned =>
    \A k \in HistKeys :
      /\ HiPre(refs[k].id, run.heads[k]) /\ run.now >= refs[k].at
      /\ k \notin Moved(run) => run.heads[k] = refs[k].id
      /\ k \in Moved(run) => \E c \in run.commits : c.key = k /\ c.id = run.heads[k]
      /\ \A c \in run.commits : c.key = k => HiPre(c.id, run.heads[k])

\* A document with the section that has a source of its own.
HiPriced(id) == Live(id) /\ Last(id).price # NoSection

\* A run on its own that carries the section does not take it from a head.
HiKeeps(run, refs) ==
  run.pc \in HiPlanned /\ run.carry =>
    \A k \in HistKeys : HiPriced(refs[k].id) =>
      /\ Live(run.heads[k]) => HiPriced(run.heads[k])
      /\ \A i \in DOMAIN run.obs : run.obs[i].key = k =>
           run.obs[i].doc = Deleted \/ run.obs[i].doc.price # NoSection

\* While no two calls have overlapped, one run at most is at work, and it knows HEAD.
HiCalm ==
  histCalm =>
    /\ \A r, s \in HistRuns : histRuns[r].pc \notin HiIdle /\ histRuns[s].pc \notin HiIdle => r = s
    /\ \A r \in HistRuns : HiKnows(histRuns[r], histRefs) /\ HiKeeps(histRuns[r], histRefs)

\* Without a crash too, every commit leads to HEAD, or is that of a run which is to move HEAD.
HiLined ==
  histCalm /\ histCrashes = 0 =>
    /\ \A c \in histCommits :
         \/ HiPre(c.id, histRefs[c.key].id) /\ c.at <= histRefs[c.key].at
         \/ \E r \in HistRuns : histRuns[r].pc = "refs" /\ c \in histRuns[r].commits
    /\ \A k \in HistKeys : histRefs[k].id # <<>> =>
         \E c \in histCommits : c.key = k /\ c.id = histRefs[k].id /\ c.at = histRefs[k].at

HiRuns ==
  \A r \in HistRuns : HiRunSound(histRuns[r], histObjects, histChanges, histCommits, histNow)

\* No reference is of the future.
HiPast == \A k \in HistKeys : histRefs[k].at <= histNow

HiInv == HistTypeOK /\ HistIntegrity /\ HiRuns /\ HiPast /\ HiCalm /\ HiLined

\* A function on 1..n is a sequence.
LEMMA HiIsSeq ==
  ASSUME NEW S, NEW n \in Nat, NEW f \in [1..n -> S]
  PROVE  f \in Seq(S) /\ Len(f) = n /\ DOMAIN f = 1..n
<1>1. f \in Seq(S)
  BY SeqDef
<1>. QED BY <1>1

\* Every element of t is one of a or one of b.
HiBoth(t, a, b) ==
  \A i \in DOMAIN t : \/ \E j \in 1..Len(a) : t[i] = a[j]
                     \/ \E j \in 1..Len(b) : t[i] = b[j]

\* The elements of two sequences put together.
LEMMA HiConcat ==
  ASSUME NEW S, NEW a \in Seq(S), NEW b \in Seq(S)
  PROVE  a \o b \in Seq(S) /\ HiBoth(a \o b, a, b)
<1> DEFINE t == a \o b
<1>1. Len(a) \in Nat /\ Len(b) \in Nat
  BY LenProperties
<1>2. /\ t \in Seq(S) /\ Len(t) = Len(a) + Len(b)
      /\ \A i \in 1..Len(a) + Len(b) : t[i] = IF i <= Len(a) THEN a[i] ELSE b[i - Len(a)]
  BY ConcatProperties
<1>3. DOMAIN t = 1..Len(a) + Len(b)
  BY <1>2, LenProperties
<1>4. ASSUME NEW i \in 1..Len(a) + Len(b)
      PROVE  \/ \E j \in 1..Len(a) : t[i] = a[j]
             \/ \E j \in 1..Len(b) : t[i] = b[j]
  <2>1. CASE i <= Len(a)
    BY <1>1, <1>2, <2>1
  <2>2. CASE ~(i <= Len(a))
    <3>1. i - Len(a) \in 1..Len(b)
      BY <1>1, <2>2
    <3>. QED BY <1>2, <2>2, <3>1
  <2>. QED BY <2>1, <2>2
<1>. QED BY <1>2, <1>3, <1>4, Zenon DEF HiBoth

\* What SetToSeq promises.
LEMMA HiSetToSeq ==
  ASSUME NEW S, IsFiniteSet(S)
  PROVE  /\ Cardinality(S) \in Nat
         /\ SetToSeq(S) \in [1..Cardinality(S) -> S]
<1>1. Cardinality(S) \in Nat /\ Bijection(1..Cardinality(S), S) # {}
  BY FS_CardinalityType DEF ExistsBijection
<1>2. PICK g \in [1..Cardinality(S) -> S] : IsInjective(g)
  BY <1>1 DEF Bijection, Injection
<1>. QED BY <1>1, <1>2 DEF SetToSeq

\* The bodies.
LEMMA HiBodies ==
  /\ Deleted \in Body /\ HistDocument \subseteq Body /\ Deleted.price = NoSection
  /\ \A d \in Body : d # Deleted => d \in HistDocument
  BY DEF Body, Deleted

\* The last element of a line.
LEMMA HiLastOf ==
  /\ \A t \in Seq(Body) : t # <<>> => Last(t) \in Body
  /\ \A t \in Seq(Body), d \in Body :
       /\ Append(t, d) \in Seq(Body) /\ Append(t, d) # <<>> /\ Last(Append(t, d)) = d
       /\ Live(Append(t, d)) <=> d # Deleted
<1>1. ASSUME NEW t \in Seq(Body), t # <<>> PROVE Last(t) \in Body
  BY <1>1, ElementOfSeq, EmptySeq, LenProperties DEF Last
<1>2. ASSUME NEW t \in Seq(Body), NEW d \in Body
      PROVE  Append(t, d) \in Seq(Body) /\ Append(t, d) # <<>> /\ Last(Append(t, d)) = d
  <2>1. /\ Append(t, d) \in Seq(Body) /\ Len(Append(t, d)) = Len(t) + 1
        /\ Append(t, d)[Len(t) + 1] = d /\ Len(t) \in Nat
    OBVIOUS
  <2>2. Append(t, d) # <<>>
    BY <2>1, EmptySeq
  <2>. QED BY <2>1, <2>2 DEF Last
<1>. QED BY <1>1, <1>2 DEF Live

\* Going on from a line.
LEMMA HiPreFacts ==
  /\ \A t \in Seq(Body) : HiPre(t, t) /\ HiPre(<<>>, t)
  /\ \A t, u, w \in Seq(Body) : HiPre(t, u) /\ HiPre(u, w) => HiPre(t, w)
  /\ \A t, u \in Seq(Body), d \in Body : HiPre(t, u) => HiPre(t, Append(u, d))
  /\ \A t, u \in Seq(Body) : HiPre(t, u) => Len(t) <= Len(u) /\ t = SubSeq(u, 1, Len(t))
<1>1. \A t \in Seq(Body) : HiPre(t, t) /\ HiPre(<<>>, t)
  BY EmptySeq, LenProperties DEF HiPre
<1>2. ASSUME NEW t \in Seq(Body), NEW u \in Seq(Body), NEW w \in Seq(Body),
             HiPre(t, u), HiPre(u, w)
      PROVE  HiPre(t, w)
  <2>1. Len(t) \in Nat /\ Len(u) \in Nat /\ Len(w) \in Nat
    BY LenProperties
  <2>. QED BY <1>2, <2>1 DEF HiPre
<1>3. ASSUME NEW t \in Seq(Body), NEW u \in Seq(Body), NEW d \in Body, HiPre(t, u)
      PROVE  HiPre(t, Append(u, d))
  <2>1. Len(t) \in Nat /\ Len(u) \in Nat
    BY LenProperties
  <2>2. Len(Append(u, d)) = Len(u) + 1 /\ \A i \in 1..Len(u) : Append(u, d)[i] = u[i]
    BY <2>1
  <2>. QED BY <1>3, <2>1, <2>2 DEF HiPre
<1>4. ASSUME NEW t \in Seq(Body), NEW u \in Seq(Body), HiPre(t, u)
      PROVE  Len(t) <= Len(u) /\ t = SubSeq(u, 1, Len(t))
  <2>1. Len(t) \in Nat /\ Len(u) \in Nat /\ Len(t) <= Len(u)
    BY <1>4, LenProperties DEF HiPre
  <2>2. \A i \in 1..Len(t) : u[i] \in Body
    BY <2>1, ElementOfSeq
  <2>3. /\ SubSeq(u, 1, Len(t)) \in Seq(Body)
        /\ Len(SubSeq(u, 1, Len(t))) = IF 1 <= Len(t) THEN Len(t) - 1 + 1 ELSE 0
        /\ \A i \in 1..Len(t) - 1 + 1 : SubSeq(u, 1, Len(t))[i] = u[1 + i - 1]
    BY <2>1, <2>2, SubSeqProperties
  <2>4. Len(SubSeq(u, 1, Len(t))) = Len(t) /\ \A i \in 1..Len(t) : t[i] = SubSeq(u, 1, Len(t))[i]
    BY <1>4, <2>1, <2>3 DEF HiPre
  <2>. QED BY <2>1, <2>3, <2>4, SeqEqual
<1>. QED BY <1>1, <1>2, <1>3, <1>4

\* The places of a run.
LEMMA HiPlaces ==
  HistPlace = {"new", "read", "planning", "objects", "changes", "commits", "refs", "done", "dead"}
  BY DEF HistPlace

\* What is stored only grows, and a run that stands still stays sound.
LEMMA HiGrows ==
  ASSUME NEW run, NEW O, NEW Ch, NEW C, NEW now, NEW O2, NEW Ch2, NEW C2, NEW now2,
         O \subseteq O2, Ch \subseteq Ch2, C \subseteq C2, HiRunSound(run, O, Ch, C, now),
         run.now \in Nat, now \in Nat, now2 \in Nat, now <= now2
  PROVE  HiRunSound(run, O2, Ch2, C2, now2)
<1>1. HiMade(run, C2)
  BY DEF HiRunSound, HiMade, HiHas
<1>2. HiStored(run, O2, Ch2, C2)
  BY DEF HiRunSound, HiStored
<1>. QED BY <1>1, <1>2 DEF HiRunSound

\* While calls do not overlap, a run at work is alone.
LEMMA HiAlone ==
  ASSUME HiInv, histCalm, NEW r \in HistRuns, histRuns[r].pc \notin HiIdle
  PROVE  \A s \in HistRuns \ {r} : histRuns[s].pc \in HiIdle
  BY DEF HiInv, HiCalm

\* The integrity of what is stored survives new objects and changes.
LEMMA HiMoreStored ==
  ASSUME HistIntegrity, UNCHANGED <<histCommits, histRefs>>,
         histObjects \subseteq histObjects', histChanges \subseteq histChanges'
  PROVE  HistIntegrity'
  BY DEF HistIntegrity, HasId

\* A step of one run that leaves commits and references alone.
HiQuietStep(r) ==
  /\ UNCHANGED <<histCommits, histRefs, histNow>>
  /\ histObjects \subseteq histObjects' /\ histObjects' \subseteq Body
  /\ histChanges \subseteq histChanges' /\ histChanges' \subseteq HistKeys \X Seq(Body)
  /\ histRuns' \in [HistRuns -> HistRun]
  /\ \A s \in HistRuns \ {r} : histRuns'[s] = histRuns[s]
  /\ histCrashes' \in Nat /\ (histCrashes' = 0 => histCrashes = 0 /\ histRuns[r].pc # "refs")
  /\ histCalm' \in BOOLEAN
  /\ histCalm' => /\ histCalm
                  /\ histRuns[r].pc \notin HiIdle \/ HistIdle

\* It keeps the invariant if its run is sound after it.
LEMMA HiQuiet ==
  ASSUME HiInv, NEW r \in HistRuns, HiQuietStep(r),
         HiRunSound(histRuns'[r], histObjects', histChanges', histCommits, histNow),
         histCalm => HiKnows(histRuns'[r], histRefs) /\ HiKeeps(histRuns'[r], histRefs)
  PROVE  HiInv'
<1> USE DEF HiInv, HiQuietStep
<1>1. HistTypeOK'
  BY DEF HistTypeOK
<1>2. HistIntegrity'
  BY HiMoreStored
<1>3. HiRuns'
  <2>1. ASSUME NEW s \in HistRuns
        PROVE  HiRunSound(histRuns'[s], histObjects', histChanges', histCommits', histNow')
    <3>1. CASE s = r
      BY <3>1
    <3>2. CASE s # r
      <4>1. histRuns'[s] = histRuns[s] /\ histRuns[s].now \in Nat /\ histNow \in Nat
        BY <3>2 DEF HistTypeOK, HistRun
      <4>. QED BY <4>1, HiGrows DEF HiRuns
    <3>. QED BY <3>1, <3>2
  <2>. QED BY <2>1 DEF HiRuns
<1>4. HiPast'
  BY DEF HiPast
<1>5. HiCalm'
  <2>1. SUFFICES ASSUME histCalm'
                 PROVE  /\ \A s, t \in HistRuns :
                             (histRuns'[s].pc \notin HiIdle /\ histRuns'[t].pc \notin HiIdle)
                               => s = t
                        /\ \A s \in HistRuns : /\ HiKnows(histRuns'[s], histRefs)
                                               /\ HiKeeps(histRuns'[s], histRefs)
    BY DEF HiCalm
  <2>2. \A s \in HistRuns \ {r} : histRuns[s].pc \in HiIdle
    BY <2>1, HiAlone DEF HistIdle, HiIdle
  <2>3. \A s \in HistRuns \ {r} : histRuns'[s].pc \in HiIdle
    BY <2>2
  <2>4. ASSUME NEW s \in HistRuns
        PROVE  HiKnows(histRuns'[s], histRefs) /\ HiKeeps(histRuns'[s], histRefs)
    BY <2>1, <2>3 DEF HiKnows, HiKeeps, HiIdle, HiPlanned
  <2>. QED BY <2>3, <2>4
<1>6. HiLined'
  <2>1. SUFFICES ASSUME histCalm', histCrashes' = 0
                 PROVE  HiLined'
    BY DEF HiLined
  <2>2. histCalm /\ histCrashes = 0 /\ histRuns[r].pc # "refs"
    BY <2>1
  <2>3. \A s \in HistRuns : histRuns[s].pc = "refs" => histRuns'[s] = histRuns[s]
    BY <2>2
  <2>. QED BY <2>2, <2>3 DEF HiLined
<1>. QED BY <1>1, <1>2, <1>3, <1>4, <1>5, <1>6

\* A step in which a run is replaced.
LEMMA HiBecomes ==
  ASSUME HistTypeOK, NEW r \in HistRuns, NEW n \in HistRun, histRuns' = [histRuns EXCEPT ![r] = n]
  PROVE  /\ histRuns' \in [HistRuns -> HistRun] /\ histRuns'[r] = n
         /\ \A s \in HistRuns \ {r} : histRuns'[s] = histRuns[s]
  BY DEF HistTypeOK

\* A run that is over is sound.
LEMMA HiOver ==
  ASSUME NEW pc \in {"done", "dead"}
  PROVE  /\ [HistNewRun EXCEPT !.pc = pc] \in HistRun /\ [HistNewRun EXCEPT !.pc = pc].pc = pc
         /\ \A O, Ch, C : \A now \in Nat : HiRunSound([HistNewRun EXCEPT !.pc = pc], O, Ch, C, now)
<1> DEFINE n == [HistNewRun EXCEPT !.pc = pc]
<1>1. HistNewRun \in HistRun
  <2>1. <<>> \in Seq(Body) /\ <<>> \in Seq(HistObservation)
    OBVIOUS
  <2>2. [k \in HistKeys |-> <<>>] \in [HistKeys -> Seq(Body)]
    BY <2>1
  <2>3. "rows" \in HistKind
    BY DEF HistKind
  <2>. QED BY <2>1, <2>2, <2>3, HiPlaces DEF HistNewRun, HistRun
<1>2. n \in HistRun /\ n.pc = pc
  BY <1>1, HiPlaces, Zenon DEF HistRun
<1>3. n.commits = {} /\ n.now = 0 /\ n.i = 1 /\ \A k \in HistKeys : n.heads[k] = <<>>
  BY DEF HistNewRun
<1> HIDE DEF n
<1>4. ASSUME NEW O, NEW Ch, NEW C, NEW now \in Nat PROVE HiRunSound(n, O, Ch, C, now)
  <2>1. HiMade(n, C)
    BY <1>3 DEF HiMade
  <2>2. HiStored(n, O, Ch, C)
    BY <1>3 DEF HiStored
  <2>3. HiSaid(n) /\ HiRows(n)
    BY <1>2, <1>3 DEF HiSaid, HiRows, HiPlanned
  <2>. QED BY <1>3, <2>1, <2>2, <2>3 DEF HiRunSound
<1>. QED BY <1>2, <1>4 DEF n

\* A call of record begins.
LEMMA HiStarts ==
  ASSUME HiInv, NEW r \in HistRuns, NEW kind \in HistKind, NEW carry \in BOOLEAN,
         NEW obs \in Seq(HistObservation),
         carry => \A i \in DOMAIN obs : obs[i].doc \in HistDocument,
         HistStart(r, kind, carry, obs)
  PROVE  HiInv'
<1> DEFINE n == [histRuns[r] EXCEPT !.pc = "read", !.kind = kind, !.carry = carry, !.obs = obs]
<1>1. HistTypeOK /\ histRuns[r] \in HistRun /\ histRuns[r].pc = "new"
  BY DEF HiInv, HistTypeOK, HistStart, HistAt
<1>2. n \in HistRun
  BY <1>1, HiPlaces, Zenon DEF HistRun
<1>3. /\ n.pc = "read" /\ n.carry = carry /\ n.obs = obs /\ n.i = histRuns[r].i
      /\ n.heads = histRuns[r].heads /\ n.commits = histRuns[r].commits /\ n.now = histRuns[r].now
  BY <1>1 DEF HistRun
<1>4. /\ histRuns' = [histRuns EXCEPT ![r] = n]
      /\ histCalm' = (histCalm /\ HistIdle) /\ UNCHANGED <<HistStored, histNow, histCrashes>>
  BY DEF HistStart
<1> HIDE DEF n
<1>5. /\ histRuns' \in [HistRuns -> HistRun] /\ histRuns'[r] = n
      /\ \A s \in HistRuns \ {r} : histRuns'[s] = histRuns[s]
  BY <1>1, <1>2, <1>4, HiBecomes, Zenon
<1>6. HiQuietStep(r)
  BY <1>1, <1>4, <1>5, Zenon DEF HiQuietStep, HistStored, HistTypeOK
<1>7. HiRunSound(histRuns[r], histObjects, histChanges, histCommits, histNow)
  BY DEF HiInv, HiRuns
<1>8. n.commits = {}
  BY <1>1, <1>3, <1>7 DEF HiRunSound, HiMade, HiPlanned
<1>9. HiMade(n, histCommits)
  BY <1>3, <1>7, <1>8 DEF HiRunSound, HiMade
<1>10. HiStored(n, histObjects, histChanges, histCommits)
  BY <1>8 DEF HiStored
<1>11. HiSaid(n) /\ HiRows(n) /\ n.now <= histNow
  BY <1>1, <1>3, <1>7 DEF HiRunSound, HiSaid, HiRows, HiPlanned
<1>12. HiRunSound(n, histObjects', histChanges', histCommits, histNow)
  BY <1>4, <1>9, <1>10, <1>11 DEF HiRunSound, HistStored
<1>13. HiKnows(n, histRefs) /\ HiKeeps(n, histRefs)
  BY <1>3 DEF HiKnows, HiKeeps, HiPlanned
<1>. QED BY <1>5, <1>6, <1>12, <1>13, HiQuiet

\* The three callers.
LEMMA HiCallers ==
  ASSUME HiInv, NEW r \in HistRuns, ArchiveRows(r) \/ CommitCatalogue(r) \/ RetireEntities(r)
  PROVE  HiInv'
<1>1. HistKind = {"rows", "listing", "retire"}
  BY DEF HistKind
<1>2. CASE ArchiveRows(r)
  <2>1. PICK k \in HistKeys, d \in {f \in HistDocument : f.price = NoSection},
             e \in {f \in HistDocument : f.price = NoSection} :
               \E obs \in {<<[key |-> k, doc |-> d]>>,
                           <<[key |-> k, doc |-> d], [key |-> k, doc |-> e]>>} :
                 HistStart(r, "rows", FALSE, obs)
    BY <1>2, Zenon DEF ArchiveRows
  <2>2. [key |-> k, doc |-> d] \in HistObservation /\ [key |-> k, doc |-> e] \in HistObservation
    BY HiBodies DEF HistObservation
  <2>3. /\ <<[key |-> k, doc |-> d]>> \in Seq(HistObservation)
        /\ <<[key |-> k, doc |-> d], [key |-> k, doc |-> e]>> \in Seq(HistObservation)
    <3> DEFINE o == [key |-> k, doc |-> d]
               p == [key |-> k, doc |-> e]
    <3>1. o \in HistObservation /\ p \in HistObservation
      BY <2>2
    <3> HIDE DEF o, p
    <3>2. <<o>> \in Seq(HistObservation) /\ <<o, p>> \in Seq(HistObservation)
      BY <3>1
    <3>. QED BY <3>2 DEF o, p
  <2>4. PICK obs \in {<<[key |-> k, doc |-> d]>>,
                      <<[key |-> k, doc |-> d], [key |-> k, doc |-> e]>>} :
               HistStart(r, "rows", FALSE, obs)
    BY <2>1, Zenon
  <2>5. obs \in Seq(HistObservation)
    BY <2>3, <2>4, Zenon
  <2>. QED BY <1>1, <2>4, <2>5, HiStarts, Zenon
<1>3. CASE CommitCatalogue(r)
  <2>1. PICK carry \in BOOLEAN, K \in SUBSET HistKeys :
               \E listing \in [K -> HistDocument] :
                 HistStart(r, IF DOMAIN listing = {} THEN "rows" ELSE "listing", carry,
                   [i \in 1..Cardinality(DOMAIN listing) |->
                      LET k == SetToSeq(DOMAIN listing)[i] IN [key |-> k, doc |-> listing[k]]])
    BY <1>3, Zenon DEF CommitCatalogue
  <2>11. PICK listing \in [K -> HistDocument] :
               HistStart(r, IF DOMAIN listing = {} THEN "rows" ELSE "listing", carry,
                 [i \in 1..Cardinality(DOMAIN listing) |->
                    LET k == SetToSeq(DOMAIN listing)[i] IN [key |-> k, doc |-> listing[k]]])
    BY <2>1, Zenon
  <2> DEFINE q == SetToSeq(K)
             obs == [i \in 1..Cardinality(K) |-> [key |-> q[i], doc |-> listing[q[i]]]]
             kind == IF DOMAIN listing = {} THEN "rows" ELSE "listing"
  <2>2. DOMAIN listing = K
    OBVIOUS
  <2>3. IsFiniteSet(K)
    BY HistAssumption, FS_Subset
  <2>4. Cardinality(K) \in Nat /\ q \in [1..Cardinality(K) -> K]
    BY <2>3, HiSetToSeq
  <2>5. HistStart(r, kind, carry, obs)
    BY <2>2, <2>11
  <2> HIDE DEF q
  <2>6. ASSUME NEW i \in 1..Cardinality(K)
        PROVE  obs[i] \in HistObservation /\ obs[i].doc \in HistDocument
    <3>1. q[i] \in K
      BY <2>4
    <3>2. q[i] \in HistKeys /\ listing[q[i]] \in HistDocument
      BY <3>1
    <3>3. obs[i] = [key |-> q[i], doc |-> listing[q[i]]]
      OBVIOUS
    <3>. QED BY <3>2, <3>3, HiBodies DEF HistObservation
  <2>7. obs \in [1..Cardinality(K) -> HistObservation]
    BY <2>6
  <2>8. obs \in Seq(HistObservation) /\ DOMAIN obs = 1..Cardinality(K)
    BY <2>4, <2>7, HiIsSeq
  <2>9. \A i \in DOMAIN obs : obs[i].doc \in HistDocument
    BY <2>6, <2>8
  <2>10. kind \in HistKind
    BY <1>1
  <2> HIDE DEF obs, kind
  <2>. QED BY <2>5, <2>8, <2>9, <2>10, HiStarts, Zenon
<1>4. CASE RetireEntities(r)
  <2>1. PICK k \in HistKeys : HistStart(r, "retire", FALSE, <<[key |-> k, doc |-> Deleted]>>)
    BY <1>4, Zenon DEF RetireEntities
  <2>2. [key |-> k, doc |-> Deleted] \in HistObservation
    BY HiBodies DEF HistObservation
  <2> DEFINE obs == <<[key |-> k, doc |-> Deleted]>>
  <2>3. obs \in Seq(HistObservation)
    BY <2>2
  <2>4. HistStart(r, "retire", FALSE, obs)
    BY <2>1, Zenon
  <2> HIDE DEF obs
  <2>. QED BY <1>1, <2>3, <2>4, HiStarts, Zenon
<1>. QED BY <1>2, <1>3, <1>4

\* An observation after the section has been carried.
LEMMA HiCarries ==
  ASSUME HistTypeOK, NEW r \in HistRuns, NEW o \in HistObservation,
         histRuns[r].carry => o.doc \in HistDocument
  PROVE  /\ HistCarried(r, o) \in HistObservation
         /\ HistCarried(r, o).key = o.key
         /\ histRuns[r].carry /\ HiPriced(histRefs[o.key].id)
              => HistCarried(r, o).doc.price # NoSection
<1> DEFINE head == histRefs[o.key].id
<1>1. o.key \in HistKeys /\ o.doc \in Body
  BY DEF HistObservation
<1>2. head \in Seq(Body)
  BY <1>1 DEF HistTypeOK
<1>3. CASE histRuns[r].carry /\ Live(head) /\ o.doc.price = NoSection
  <2>1. Last(head) \in HistDocument
    BY <1>2, <1>3, HiLastOf, HiBodies DEF Live
  <2>2. HistCarried(r, o) = [o EXCEPT !.doc.price = Last(head).price]
    BY <1>3 DEF HistCarried
  <2> DEFINE d == [o.doc EXCEPT !.price = Last(head).price]
  <2>3. d \in HistDocument /\ d.price = Last(head).price
    BY <1>3, <2>1 DEF HistDocument
  <2>4. HistCarried(r, o) = [o EXCEPT !.doc = d]
    BY <2>2 DEF HistObservation
  <2> HIDE DEF d, head
  <2>5. HistCarried(r, o).key = o.key /\ HistCarried(r, o).doc = d
    BY <2>4 DEF HistObservation
  <2>6. HistCarried(r, o) \in HistObservation
    BY <2>3, <2>4, HiBodies DEF HistObservation
  <2>. QED BY <2>3, <2>5, <2>6 DEF HiPriced, head
<1>4. CASE ~(histRuns[r].carry /\ Live(head) /\ o.doc.price = NoSection)
  BY <1>4 DEF HistCarried, HiPriced
<1>. QED BY <1>3, <1>4

\* What a run has to record once it has read the heads.
LEMMA HiReadsRows ==
  ASSUME HistTypeOK, NEW r \in HistRuns, NEW T \in SUBSET HistKeys,
         histRuns[r].carry =>
           \A i \in DOMAIN histRuns[r].obs : histRuns[r].obs[i].doc \in HistDocument,
         NEW gone, gone = SetToSeq(T), NEW obs,
         obs = [i \in DOMAIN histRuns[r].obs |-> HistCarried(r, histRuns[r].obs[i])]
                 \o [i \in DOMAIN gone |-> [key |-> gone[i], doc |-> Deleted]]
  PROVE  /\ obs \in Seq(HistObservation)
         /\ \A i \in DOMAIN obs :
              histRuns[r].carry /\ HiPriced(histRefs[obs[i].key].id)
                => obs[i].doc = Deleted \/ obs[i].doc.price # NoSection
<1> DEFINE old == histRuns[r].obs
           a == [i \in DOMAIN old |-> HistCarried(r, old[i])]
           b == [i \in DOMAIN gone |-> [key |-> gone[i], doc |-> Deleted]]
<1>1. old \in Seq(HistObservation)
  BY DEF HistTypeOK, HistRun
<1>2. Len(old) \in Nat /\ DOMAIN old = 1..Len(old)
  BY <1>1, LenProperties
<1>3. ASSUME NEW i \in 1..Len(old)
      PROVE  /\ a[i] \in HistObservation
             /\ histRuns[r].carry /\ HiPriced(histRefs[a[i].key].id) => a[i].doc.price # NoSection
  <2>1. old[i] \in HistObservation /\ i \in DOMAIN old
    BY <1>1, <1>2, ElementOfSeq
  <2>2. a[i] = HistCarried(r, old[i])
    BY <2>1
  <2>3. histRuns[r].carry => old[i].doc \in HistDocument
    BY <2>1
  <2>. QED BY <2>1, <2>2, <2>3, HiCarries, Zenon
<1>4. a \in [1..Len(old) -> HistObservation]
  BY <1>2, <1>3, Zenon
<1>5. a \in Seq(HistObservation) /\ Len(a) = Len(old)
  BY <1>2, <1>4, HiIsSeq
<1>6. IsFiniteSet(T)
  BY HistAssumption, FS_Subset
<1>7. Cardinality(T) \in Nat /\ gone \in [1..Cardinality(T) -> T]
  BY <1>6, HiSetToSeq
<1>8. ASSUME NEW i \in 1..Cardinality(T)
      PROVE  b[i] \in HistObservation /\ b[i].doc = Deleted
  BY <1>7, HiBodies DEF HistObservation
<1>9. b \in [1..Cardinality(T) -> HistObservation]
  BY <1>7, <1>8
<1>10. b \in Seq(HistObservation) /\ Len(b) = Cardinality(T)
  BY <1>7, <1>9, HiIsSeq, Zenon
<1> HIDE DEF a, b, old
<1>11. obs = a \o b
  BY DEF a, b, old
<1>12. /\ obs \in Seq(HistObservation)
       /\ \A i \in DOMAIN obs : \/ \E j \in 1..Len(a) : obs[i] = a[j]
                                \/ \E j \in 1..Len(b) : obs[i] = b[j]
  <2>1. obs \in Seq(HistObservation) /\ HiBoth(obs, a, b)
    BY <1>5, <1>10, <1>11, HiConcat, Zenon
  <2>. QED BY <2>1, Zenon DEF HiBoth
<1>13. ASSUME NEW i \in DOMAIN obs, histRuns[r].carry, HiPriced(histRefs[obs[i].key].id)
       PROVE  obs[i].doc = Deleted \/ obs[i].doc.price # NoSection
  <2>1. CASE \E j \in 1..Len(a) : obs[i] = a[j]
    BY <1>3, <1>5, <1>13, <2>1, Zenon
  <2>2. CASE \E j \in 1..Len(b) : obs[i] = b[j]
    BY <1>8, <1>10, <2>2
  <2>. QED BY <1>12, <2>1, <2>2, Zenon
<1>. QED BY <1>12, <1>13, Zenon

\* _heads.
LEMMA HiReads ==
  ASSUME HiInv, NEW r \in HistRuns, ReadHeads(r)
  PROVE  HiInv'
<1> DEFINE gone == SetToSeq(Tombstones(r))
           old == histRuns[r].obs
           obs == [i \in DOMAIN old |-> HistCarried(r, old[i])]
                    \o [i \in DOMAIN gone |-> [key |-> gone[i], doc |-> Deleted]]
           heads == [k \in HistKeys |-> histRefs[k].id]
           n == [histRuns[r] EXCEPT !.pc = "planning", !.obs = obs, !.heads = heads,
                                    !.now = histNow]
<1>1. /\ HistTypeOK /\ histRuns[r] \in HistRun /\ histRuns[r].pc = "read"
      /\ UNCHANGED <<HistStored, histNow, histCrashes, histCalm>>
      /\ histRuns' = [histRuns EXCEPT ![r] = n]
  BY DEF HiInv, HistTypeOK, ReadHeads, HistAt
<1>2. HiRunSound(histRuns[r], histObjects, histChanges, histCommits, histNow)
  BY DEF HiInv, HiRuns
<1>3. histRuns[r].carry => \A i \in DOMAIN old : old[i].doc \in HistDocument
  BY <1>1, <1>2 DEF HiRunSound, HiRows
<1>4. Tombstones(r) \in SUBSET HistKeys
  BY DEF Tombstones, MissingKeys
<1>5. /\ obs \in Seq(HistObservation)
      /\ \A i \in DOMAIN obs : histRuns[r].carry /\ HiPriced(histRefs[obs[i].key].id)
           => obs[i].doc = Deleted \/ obs[i].doc.price # NoSection
  BY <1>1, <1>3, <1>4, HiReadsRows, Zenon
<1>6. heads \in [HistKeys -> Seq(Body)] /\ histNow \in Nat
  BY <1>1 DEF HistTypeOK
<1> HIDE DEF obs, heads, old, gone
<1>7. n \in HistRun
  BY <1>1, <1>5, <1>6, HiPlaces, Zenon DEF HistRun
<1>8. /\ n.pc = "planning" /\ n.obs = obs /\ n.heads = heads /\ n.now = histNow
      /\ n.carry = histRuns[r].carry /\ n.i = histRuns[r].i /\ n.commits = histRuns[r].commits
  BY <1>1 DEF HistRun
<1> HIDE DEF n
<1>9. /\ histRuns' \in [HistRuns -> HistRun] /\ histRuns'[r] = n
      /\ \A s \in HistRuns \ {r} : histRuns'[s] = histRuns[s]
  BY <1>1, <1>7, HiBecomes, Zenon
<1>10. n.commits = {} /\ n.i = 1
  BY <1>1, <1>2, <1>8 DEF HiRunSound, HiMade, HiSaid, HiPlanned
<1>11. HiMade(n, histCommits)
  BY <1>8, <1>10 DEF HiMade, HiInv, HistIntegrity, HasId, HiHas, heads
<1>12. HiStored(n, histObjects, histChanges, histCommits)
  BY <1>10 DEF HiStored
<1>13. HiSaid(n)
  <2>1. DOMAIN n.obs = 1..Len(n.obs) /\ Len(n.obs) \in Nat
    BY <1>5, <1>8, LenProperties
  <2>. QED BY <1>8, <1>10, <2>1 DEF HiSaid, HiLastSoFar, HiPlanned
<1>14. HiRows(n) /\ n.now <= histNow
  BY <1>6, <1>8 DEF HiRows
<1>15. HiRunSound(n, histObjects', histChanges', histCommits, histNow)
  BY <1>1, <1>11, <1>12, <1>13, <1>14 DEF HiRunSound, HistStored
<1>16. HiKnows(n, histRefs)
  <2>1. Moved(n) = {}
    BY <1>10 DEF Moved
  <2>2. ASSUME NEW k \in HistKeys
        PROVE  /\ HiPre(histRefs[k].id, n.heads[k]) /\ n.now >= histRefs[k].at
               /\ n.heads[k] = histRefs[k].id
    BY <1>1, <1>8, HiPreFacts DEF HiInv, HiPast, HistTypeOK, heads
  <2>. QED BY <1>10, <2>1, <2>2 DEF HiKnows
<1>17. HiKeeps(n, histRefs)
  BY <1>5, <1>8 DEF HiKeeps, heads
<1>18. HiQuietStep(r)
  BY <1>1, <1>9 DEF HiQuietStep, HistStored, HistTypeOK, HiIdle
<1>. QED BY <1>9, <1>15, <1>16, <1>17, <1>18, HiQuiet

\* A new head says what the observation did.
LEMMA HiSays ==
  ASSUME NEW head \in Seq(Body), NEW d \in Body
  PROVE  /\ Unchanged(head, d) => Says(head, d)
         /\ Says(Append(head, d), d)
  BY HiLastOf DEF Unchanged, Says, Live, SameMeaning

\* The next observation.
LEMMA HiPlans ==
  ASSUME HiInv, NEW r \in HistRuns, PlanCommit(r)
  PROVE  HiInv'
<1> DEFINE run == histRuns[r]
           o == run.obs[run.i]
           head == run.heads[o.key]
           id == Append(head, o.doc)
           c == [key |-> o.key, id |-> id, parent |-> head, doc |-> o.doc, at |-> run.now]
           n == IF Unchanged(head, o.doc) THEN [run EXCEPT !.i = run.i + 1]
                ELSE [run EXCEPT !.i = run.i + 1, !.heads = [run.heads EXCEPT ![o.key] = id],
                                 !.commits = run.commits \cup {c}]
<1>1. /\ HistTypeOK /\ run \in HistRun /\ run.pc = "planning" /\ run.i <= Len(run.obs)
      /\ UNCHANGED <<HistStored, histNow, histCrashes, histCalm>>
  BY DEF HiInv, HistTypeOK, PlanCommit, HistAt
<1>2. histRuns' = [histRuns EXCEPT ![r] = n]
  BY <1>1 DEF PlanCommit, Chain, HistRun
<1>3. HiRunSound(run, histObjects, histChanges, histCommits, histNow)
  BY DEF HiInv, HiRuns
<1>4. run.obs \in Seq(HistObservation) /\ run.i \in Nat
  BY <1>1 DEF HistRun
<1>5. /\ DOMAIN run.obs = 1..Len(run.obs) /\ Len(run.obs) \in Nat
  BY <1>4, LenProperties
<1>6. run.i >= 1 /\ run.i \in 1..Len(run.obs)
  BY <1>1, <1>3, <1>4, <1>5 DEF HiRunSound, HiSaid
<1>7. o \in HistObservation /\ o.key \in HistKeys /\ o.doc \in Body
  <2>1. o \in HistObservation
    BY <1>4, <1>6, ElementOfSeq
  <2>. QED BY <2>1 DEF HistObservation
<1>8. /\ run.heads \in [HistKeys -> Seq(Body)] /\ head \in Seq(Body)
      /\ id \in Seq(Body) /\ run.now \in Nat
  BY <1>1, <1>7, HiLastOf DEF HistRun
<1> HIDE DEF id, head, o, run
<1>9. c \in HistCommit
  BY <1>7, <1>8 DEF HistCommit
<1>10. c.key = o.key /\ c.id = id /\ c.parent = head /\ c.doc = o.doc /\ c.at = run.now
  OBVIOUS
<1> USE DEF id, head, o, run
<1> DEFINE h == [run.heads EXCEPT ![o.key] = id]
<1>11. /\ h \in [HistKeys -> Seq(Body)] /\ h[o.key] = id
       /\ \A k \in HistKeys \ {o.key} : h[k] = run.heads[k]
  BY <1>7, <1>8, Zenon
<1> HIDE DEF c, h
<1>12. /\ n \in HistRun /\ n.pc = "planning" /\ n.obs = run.obs /\ n.i = run.i + 1
       /\ n.now = run.now /\ n.carry = run.carry
       /\ IF Unchanged(head, o.doc) THEN n.heads = run.heads /\ n.commits = run.commits
          ELSE n.heads = h /\ n.commits = run.commits \cup {c}
  <2> DEFINE left == [run EXCEPT !.i = run.i + 1]
             made == [run EXCEPT !.i = run.i + 1, !.heads = h, !.commits = run.commits \cup {c}]
  <2>1. /\ left \in HistRun /\ left.pc = "planning" /\ left.obs = run.obs /\ left.i = run.i + 1
        /\ left.now = run.now /\ left.carry = run.carry
        /\ left.heads = run.heads /\ left.commits = run.commits
    BY <1>1, <1>4 DEF HistRun
  <2>2. /\ made \in HistRun /\ made.pc = "planning" /\ made.obs = run.obs /\ made.i = run.i + 1
        /\ made.now = run.now /\ made.carry = run.carry
        /\ made.heads = h /\ made.commits = run.commits \cup {c}
    <3> DEFINE C == run.commits \cup {c}
               j == run.i + 1
    <3>1. C \in SUBSET HistCommit /\ j \in Nat
      BY <1>1, <1>4, <1>9 DEF HistRun
    <3> HIDE DEF C, j
    <3>2. run \in [pc: HistPlace, kind: HistKind, carry: BOOLEAN, obs: Seq(HistObservation),
                   i: Nat, heads: [HistKeys -> Seq(Body)], commits: SUBSET HistCommit, now: Nat]
      BY <1>1 DEF HistRun
    <3> HIDE DEF run
    <3>3. [run EXCEPT !.i = j, !.heads = h, !.commits = C] \in HistRun
      BY <1>11, <3>1, <3>2, Zenon DEF HistRun
    <3>4. /\ [run EXCEPT !.i = j, !.heads = h, !.commits = C].heads = h
          /\ [run EXCEPT !.i = j, !.heads = h, !.commits = C].commits = C
          /\ [run EXCEPT !.i = j, !.heads = h, !.commits = C].i = j
      BY <3>2
    <3>5. /\ [run EXCEPT !.i = j, !.heads = h, !.commits = C].pc = "planning"
          /\ [run EXCEPT !.i = j, !.heads = h, !.commits = C].obs = run.obs
          /\ [run EXCEPT !.i = j, !.heads = h, !.commits = C].now = run.now
          /\ [run EXCEPT !.i = j, !.heads = h, !.commits = C].carry = run.carry
      BY <1>1, <3>2
    <3>. QED BY <3>3, <3>4, <3>5 DEF C, j
  <2>3. n = IF Unchanged(head, o.doc) THEN left ELSE made
    BY DEF h, c
  <2> HIDE DEF n, left, made
  <2>. QED BY <2>1, <2>2, <2>3
<1> HIDE DEF n
<1>13. /\ histRuns' \in [HistRuns -> HistRun] /\ histRuns'[r] = n
       /\ \A s \in HistRuns \ {r} : histRuns'[s] = histRuns[s]
  BY <1>1, <1>2, <1>12, HiBecomes, Zenon
<1> HIDE DEF o, run, head, id
<1>14. run.commits \subseteq HistCommit
  BY <1>1 DEF HistRun
<1>15. HiMade(n, histCommits)
  <2>1. HiMade(run, histCommits)
    BY <1>3 DEF HiRunSound
  <2>2. CASE Unchanged(head, o.doc)
    BY <1>12, <2>1, <2>2, Zenon DEF HiMade, HiPlanned
  <2>3. CASE ~Unchanged(head, o.doc)
    <3>1. n.heads = h /\ n.commits = run.commits \cup {c}
      BY <1>12, <2>3
    <3>2. ASSUME NEW k \in HistKeys, NEW i, HiHas(histCommits \cup run.commits, k, i)
          PROVE  HiHas(histCommits \cup n.commits, k, i)
      BY <3>1, <3>2 DEF HiHas
    <3>3. HiHas(histCommits \cup n.commits, o.key, id)
      BY <1>10, <3>1 DEF HiHas
    <3>4. head # <<>> => HiHas(histCommits \cup n.commits, o.key, head)
      BY <1>7, <2>1, <3>2, Zenon DEF HiMade, head
    <3>5. ASSUME NEW k \in HistKeys, n.heads[k] # <<>>
          PROVE  HiHas(histCommits \cup n.commits, k, n.heads[k])
      BY <1>11, <2>1, <3>1, <3>2, <3>3, <3>5, Zenon DEF HiMade
    <3>6. ASSUME NEW d \in n.commits
          PROVE  /\ d.at = n.now
                 /\ d.parent # <<>> => HiHas(histCommits \cup n.commits, d.key, d.parent)
      <4>1. CASE d = c
        BY <1>10, <1>12, <3>4, <4>1
      <4>2. CASE d # c
        <5>1. d \in run.commits /\ d.key \in HistKeys
          BY <1>14, <3>1, <4>2 DEF HistCommit
        <5>. QED BY <1>12, <2>1, <3>2, <5>1, Zenon DEF HiMade
      <4>. QED BY <4>1, <4>2
    <3>. QED BY <1>12, <3>5, <3>6, Zenon DEF HiMade, HiPlanned
  <2>. QED BY <2>2, <2>3
<1>16. HiStored(n, histObjects, histChanges, histCommits) /\ HiRows(n) /\ n.now <= histNow
  BY <1>3, <1>12 DEF HiStored, HiRows, HiRunSound
<1>17. HiSaid(n)
  <2>1. ASSUME NEW i \in DOMAIN run.obs, HiLastSoFar(n, i)
        PROVE  Says(n.heads[run.obs[i].key], run.obs[i].doc)
    <3>1. CASE i = run.i
      <4>1. run.obs[i] = o
        BY <3>1 DEF o
      <4>. QED BY <1>7, <1>8, <1>11, <1>12, <4>1, HiSays, Zenon DEF id, head
    <3>2. CASE i # run.i
      <4>1. i < run.i
        BY <1>4, <1>5, <1>12, <2>1, <3>2 DEF HiLastSoFar
      <4>2. run.obs[i].key # o.key
        BY <1>4, <1>5, <1>6, <1>12, <2>1, <4>1 DEF HiLastSoFar, o
      <4>3. HiLastSoFar(run, i)
        BY <1>4, <1>5, <1>12, <2>1, <4>1 DEF HiLastSoFar
      <4>4. Says(run.heads[run.obs[i].key], run.obs[i].doc)
        BY <1>1, <1>3, <4>3 DEF HiRunSound, HiSaid, HiPlanned
      <4>5. run.obs[i].key \in HistKeys
        <5>1. run.obs[i] \in HistObservation
          BY <1>4, <1>5, ElementOfSeq
        <5>. QED BY <5>1 DEF HistObservation
      <4>. QED BY <1>11, <1>12, <4>2, <4>4, <4>5
    <3>. QED BY <3>1, <3>2
  <2>. QED BY <1>4, <1>6, <1>12, <2>1 DEF HiSaid, HiPlanned
<1>18. HiRunSound(n, histObjects', histChanges', histCommits, histNow)
  BY <1>1, <1>15, <1>16, <1>17 DEF HiRunSound, HistStored
<1>19. ASSUME histCalm PROVE HiKnows(n, histRefs)
  <2>1. HiKnows(run, histRefs)
    BY <1>19 DEF HiInv, HiCalm, run
  <2>2. CASE Unchanged(head, o.doc)
    BY <1>1, <1>12, <2>1, <2>2 DEF HiKnows, Moved, HiPlanned
  <2>3. CASE ~Unchanged(head, o.doc)
    <3>1. n.heads = h /\ n.commits = run.commits \cup {c}
      BY <1>12, <2>3
    <3>2. Moved(n) = Moved(run) \cup {o.key}
      BY <1>10, <3>1 DEF Moved
    <3>3. ASSUME NEW k \in HistKeys
          PROVE  /\ HiPre(histRefs[k].id, run.heads[k]) /\ run.now >= histRefs[k].at
                 /\ k \notin Moved(run) => run.heads[k] = histRefs[k].id
                 /\ k \in Moved(run) => \E d \in run.commits : d.key = k /\ d.id = run.heads[k]
                 /\ \A d \in run.commits : d.key = k => HiPre(d.id, run.heads[k])
      BY <1>1, <2>1 DEF HiKnows, HiPlanned
    <3>4. ASSUME NEW k \in HistKeys
          PROVE  /\ HiPre(histRefs[k].id, n.heads[k]) /\ n.now >= histRefs[k].at
                 /\ k \notin Moved(n) => n.heads[k] = histRefs[k].id
                 /\ k \in Moved(n) => \E d \in n.commits : d.key = k /\ d.id = n.heads[k]
                 /\ \A d \in n.commits : d.key = k => HiPre(d.id, n.heads[k])
      <4>1. CASE k = o.key
        <5>1. n.heads[k] = id /\ run.heads[k] = head
          BY <1>11, <3>1, <4>1 DEF head
        <5>2. histRefs[k].id \in Seq(Body)
          BY <1>1 DEF HistTypeOK
        <5>3. HiPre(histRefs[k].id, id)
          BY <1>7, <1>8, <3>3, <5>1, <5>2, HiPreFacts DEF id
        <5>4. ASSUME NEW d \in run.commits, d.key = k PROVE HiPre(d.id, id)
          <6>1. d.id \in Seq(Body)
            BY <1>14 DEF HistCommit
          <6>. QED BY <1>7, <1>8, <3>3, <5>1, <5>4, <6>1, HiPreFacts DEF id
        <5>5. HiPre(id, id)
          BY <1>8, HiPreFacts
        <5>6. \A d \in n.commits : d.key = k => HiPre(d.id, n.heads[k])
          BY <1>10, <3>1, <5>1, <5>4, <5>5
        <5>. QED BY <1>10, <1>12, <3>1, <3>2, <3>3, <4>1, <5>1, <5>3, <5>6
      <4>2. CASE k # o.key
        <5>1. n.heads[k] = run.heads[k]
          BY <1>11, <3>1, <4>2
        <5>. QED BY <1>10, <1>12, <3>1, <3>2, <3>3, <4>2, <5>1
      <4>. QED BY <4>1, <4>2
    <3>. QED BY <3>4 DEF HiKnows
  <2>. QED BY <2>2, <2>3
<1>20. ASSUME histCalm PROVE HiKeeps(n, histRefs)
  <2>1. SUFFICES ASSUME run.carry, NEW k \in HistKeys, HiPriced(histRefs[k].id)
                 PROVE  /\ Live(n.heads[k]) => HiPriced(n.heads[k])
                        /\ \A i \in DOMAIN run.obs : run.obs[i].key = k =>
                             run.obs[i].doc = Deleted \/ run.obs[i].doc.price # NoSection
    BY <1>12 DEF HiKeeps
  <2>2. /\ Live(run.heads[k]) => HiPriced(run.heads[k])
        /\ \A i \in DOMAIN run.obs : run.obs[i].key = k =>
             run.obs[i].doc = Deleted \/ run.obs[i].doc.price # NoSection
    BY <1>1, <1>20, <2>1 DEF HiInv, HiCalm, HiKeeps, HiPlanned, run
  <2>3. ASSUME n.heads[k] # run.heads[k], Live(n.heads[k]) PROVE HiPriced(n.heads[k])
    <3>1. k = o.key /\ n.heads[k] = id
      BY <1>11, <1>12, <2>3
    <3>2. o.doc # Deleted /\ Last(id) = o.doc
      BY <1>7, <1>8, <2>3, <3>1, HiLastOf DEF id
    <3>3. o.doc.price # NoSection
      BY <1>5, <1>6, <2>2, <3>1, <3>2 DEF o
    <3>. QED BY <2>3, <3>1, <3>2, <3>3 DEF HiPriced
  <2>. QED BY <2>2, <2>3
<1>21. HiQuietStep(r)
  BY <1>1, <1>13 DEF HiQuietStep, HistStored, HistTypeOK, HiIdle, run
<1>. QED BY <1>13, <1>18, <1>19, <1>20, <1>21, HiQuiet

\* A run at work that goes from one place to the next.
LEMMA HiMovesOn ==
  ASSUME HistTypeOK, NEW r \in HistRuns, NEW from, NEW to \in HistPlace, HistGoes(r, from, to)
  PROVE  /\ histRuns[r].pc = from
         /\ histRuns' \in [HistRuns -> HistRun]
         /\ \A s \in HistRuns \ {r} : histRuns'[s] = histRuns[s]
         /\ histRuns'[r].pc = to
         /\ histRuns'[r].commits = histRuns[r].commits /\ histRuns'[r].heads = histRuns[r].heads
         /\ histRuns'[r].obs = histRuns[r].obs /\ histRuns'[r].i = histRuns[r].i
         /\ histRuns'[r].carry = histRuns[r].carry /\ histRuns'[r].now = histRuns[r].now
<1> DEFINE n == [histRuns[r] EXCEPT !.pc = to]
<1>1. histRuns[r] \in HistRun /\ histRuns[r].pc = from
  BY DEF HistTypeOK, HistGoes, HistAt
<1>2. /\ n \in HistRun /\ n.pc = to
      /\ n.commits = histRuns[r].commits /\ n.heads = histRuns[r].heads
      /\ n.obs = histRuns[r].obs /\ n.i = histRuns[r].i
      /\ n.carry = histRuns[r].carry /\ n.now = histRuns[r].now
  BY <1>1, Zenon DEF HistRun
<1>3. histRuns' = [histRuns EXCEPT ![r] = n]
  BY DEF HistGoes, HistTypeOK
<1> HIDE DEF n
<1>4. /\ histRuns' \in [HistRuns -> HistRun] /\ histRuns'[r] = n
      /\ \A s \in HistRuns \ {r} : histRuns'[s] = histRuns[s]
  BY <1>2, <1>3, HiBecomes, Zenon
<1>. QED BY <1>1, <1>2, <1>4

\* Nothing it knows is lost.
LEMMA HiStillKnows ==
  ASSUME HiInv, NEW r \in HistRuns, histRuns[r].pc \in HiPlanned, histRuns'[r].pc \in HiPlanned,
         histRuns'[r].commits = histRuns[r].commits, histRuns'[r].heads = histRuns[r].heads,
         histRuns'[r].obs = histRuns[r].obs, histRuns'[r].i = histRuns[r].i,
         histRuns'[r].carry = histRuns[r].carry, histRuns'[r].now = histRuns[r].now,
         histRuns[r].i > Len(histRuns[r].obs)
  PROVE  /\ HiMade(histRuns'[r], histCommits)
         /\ HiSaid(histRuns'[r]) /\ HiRows(histRuns'[r]) /\ histRuns'[r].now <= histNow
         /\ histCalm => HiKnows(histRuns'[r], histRefs) /\ HiKeeps(histRuns'[r], histRefs)
<1>1. HiRunSound(histRuns[r], histObjects, histChanges, histCommits, histNow)
  BY DEF HiInv, HiRuns
<1>2. HiMade(histRuns'[r], histCommits)
  BY <1>1, Zenon DEF HiRunSound, HiMade
<1>3. HiSaid(histRuns'[r])
  BY <1>1 DEF HiRunSound, HiSaid, HiLastSoFar, HiPlanned
<1>4. HiRows(histRuns'[r]) /\ histRuns'[r].now <= histNow
  BY <1>1 DEF HiRunSound, HiRows, HiPlanned
<1>5. ASSUME histCalm PROVE HiKnows(histRuns'[r], histRefs) /\ HiKeeps(histRuns'[r], histRefs)
  <2>1. HiKnows(histRuns[r], histRefs) /\ HiKeeps(histRuns[r], histRefs)
    BY <1>5 DEF HiInv, HiCalm
  <2>2. HiKnows(histRuns'[r], histRefs)
    BY <2>1 DEF HiKnows, Moved
  <2>3. HiKeeps(histRuns'[r], histRefs)
    BY <2>1 DEF HiKeeps
  <2>. QED BY <2>2, <2>3
<1>. QED BY <1>2, <1>3, <1>4, <1>5

\* A run that is past its plan has seen every observation.
LEMMA HiSeen ==
  ASSUME HiInv, NEW r \in HistRuns, histRuns[r].pc \in HiPlanned \ {"planning"}
  PROVE  histRuns[r].i > Len(histRuns[r].obs)
  BY DEF HiInv, HiRuns, HiRunSound, HiSaid

\* A run that ends without having moved a head.
LEMMA HiEnds ==
  ASSUME HiInv, NEW r \in HistRuns, NEW pc \in {"done", "dead"}, HistEnds(r, pc),
         histRuns[r].pc \notin HiIdle, UNCHANGED <<HistStored, histNow, histCalm>>,
         histCrashes' \in Nat, histCrashes' = 0 => histCrashes = 0 /\ histRuns[r].pc # "refs"
  PROVE  HiInv'
<1> DEFINE n == [HistNewRun EXCEPT !.pc = pc]
<1>1. /\ n \in HistRun /\ n.pc = pc
      /\ \A O, Ch, C : \A now \in Nat : HiRunSound(n, O, Ch, C, now)
  BY HiOver
<1>2. histRuns' = [histRuns EXCEPT ![r] = n] /\ HistTypeOK /\ histNow \in Nat
  BY DEF HistEnds, HiInv, HistTypeOK
<1> HIDE DEF n
<1>3. /\ histRuns' \in [HistRuns -> HistRun] /\ histRuns'[r] = n
      /\ \A s \in HistRuns \ {r} : histRuns'[s] = histRuns[s]
  BY <1>1, <1>2, HiBecomes, Zenon
<1>4. HiQuietStep(r)
  BY <1>2, <1>3 DEF HiQuietStep, HistStored, HistTypeOK
<1>5. HiKnows(n, histRefs) /\ HiKeeps(n, histRefs)
  BY <1>1 DEF HiKnows, HiKeeps, HiPlanned
<1>. QED BY <1>1, <1>2, <1>3, <1>4, <1>5, HiQuiet

\* Steps between the plan and the commits.
LEMMA HiEarlySteps ==
  ASSUME HiInv, NEW r \in HistRuns,
         PlanEnds(r) \/ InsertObjects(r) \/ InsertChanges(r) \/ HistCrash(r)
  PROVE  HiInv'
<1>1. HistTypeOK /\ histRuns[r] \in HistRun /\ histRuns[r].commits \subseteq HistCommit
  BY Zenon DEF HiInv, HistTypeOK, HistRun
<1>2. HiRunSound(histRuns[r], histObjects, histChanges, histCommits, histNow)
  BY DEF HiInv, HiRuns
<1>3. /\ "objects" \in HistPlace /\ "changes" \in HistPlace /\ "commits" \in HistPlace
      /\ {"planning", "objects", "changes", "commits"} \subseteq HiPlanned
      /\ {"planning", "objects", "changes", "commits"} \cap HiIdle = {}
  BY HiPlaces DEF HiPlanned, HiIdle
<1>4. CASE PlanEnds(r)
  <2>1. /\ histRuns[r].i > Len(histRuns[r].obs) /\ histRuns[r].pc = "planning"
        /\ UNCHANGED <<HistStored, histNow, histCrashes, histCalm>>
    BY <1>4 DEF PlanEnds, HistAt
  <2>2. CASE HistEnds(r, "done")
    BY <1>1, <2>1, <2>2, HiEnds DEF HiIdle, HistTypeOK
  <2>3. CASE HistGoes(r, "planning", "objects")
    <3>1. HiQuietStep(r)
      BY <1>1, <1>3, <2>1, <2>3, HiMovesOn, Zenon DEF HiQuietStep, HistStored, HistTypeOK, HiIdle
    <3>2. histRuns'[r].pc = "objects"
      BY <1>1, <1>3, <2>3, HiMovesOn
    <3>3. HiStored(histRuns'[r], histObjects', histChanges', histCommits)
      BY <3>2 DEF HiStored
    <3>4. /\ HiMade(histRuns'[r], histCommits)
          /\ HiSaid(histRuns'[r]) /\ HiRows(histRuns'[r]) /\ histRuns'[r].now <= histNow
          /\ histCalm => HiKnows(histRuns'[r], histRefs) /\ HiKeeps(histRuns'[r], histRefs)
      BY <1>1, <1>3, <2>1, <2>3, HiMovesOn, HiStillKnows
    <3>. QED BY <3>1, <3>3, <3>4, HiQuiet DEF HiRunSound
  <2>. QED BY <1>4, <2>2, <2>3 DEF PlanEnds
<1>5. CASE InsertObjects(r)
  <2>1. /\ HistGoes(r, "objects", "changes") /\ histObjects' = histObjects \cup ObjectsOf(r)
        /\ UNCHANGED <<histChanges, histCommits, histRefs, histNow, histCrashes, histCalm>>
    BY <1>5 DEF InsertObjects
  <2>2. /\ histRuns[r].pc = "objects" /\ histRuns'[r].pc = "changes"
        /\ histRuns'[r].commits = histRuns[r].commits
    BY <1>1, <1>3, <2>1, HiMovesOn
  <2>3. ObjectsOf(r) \subseteq Body
    BY <1>1 DEF ObjectsOf, HistCommit
  <2>4. HiQuietStep(r)
    BY <1>1, <1>3, <2>1, <2>2, <2>3, HiMovesOn, Zenon DEF HiQuietStep, HistTypeOK, HiIdle
  <2>5. HiStored(histRuns'[r], histObjects', histChanges', histCommits)
    BY <2>1, <2>2 DEF HiStored, ObjectsOf
  <2>6. histRuns[r].i > Len(histRuns[r].obs)
    BY <2>2, HiSeen DEF HiPlanned
  <2>7. /\ HiMade(histRuns'[r], histCommits)
        /\ HiSaid(histRuns'[r]) /\ HiRows(histRuns'[r]) /\ histRuns'[r].now <= histNow
        /\ histCalm => HiKnows(histRuns'[r], histRefs) /\ HiKeeps(histRuns'[r], histRefs)
    BY <1>1, <1>3, <2>1, <2>6, HiMovesOn, HiStillKnows
  <2>. QED BY <2>4, <2>5, <2>7, HiQuiet DEF HiRunSound
<1>6. CASE InsertChanges(r)
  <2>1. /\ HistGoes(r, "changes", "commits")
        /\ histChanges' = histChanges \cup
             {<<c.key, c.id>> : c \in {d \in histRuns[r].commits : Live(d.parent) /\ Live(d.id)}}
        /\ UNCHANGED <<histObjects, histCommits, histRefs, histNow, histCrashes, histCalm>>
    BY <1>6 DEF InsertChanges
  <2>2. /\ histRuns[r].pc = "changes" /\ histRuns'[r].pc = "commits"
        /\ histRuns'[r].commits = histRuns[r].commits
    BY <1>1, <1>3, <2>1, HiMovesOn
  <2>3. histChanges' \subseteq HistKeys \X Seq(Body)
    BY <1>1, <2>1 DEF HistTypeOK, HistCommit
  <2>4. HiQuietStep(r)
    BY <1>1, <1>3, <2>1, <2>2, <2>3, HiMovesOn DEF HiQuietStep, HistTypeOK, HiIdle
  <2>5. HiStored(histRuns'[r], histObjects', histChanges', histCommits)
    BY <1>2, <2>1, <2>2 DEF HiStored, HiRunSound
  <2>6. histRuns[r].i > Len(histRuns[r].obs)
    BY <2>2, HiSeen DEF HiPlanned
  <2>7. /\ HiMade(histRuns'[r], histCommits)
        /\ HiSaid(histRuns'[r]) /\ HiRows(histRuns'[r]) /\ histRuns'[r].now <= histNow
        /\ histCalm => HiKnows(histRuns'[r], histRefs) /\ HiKeeps(histRuns'[r], histRefs)
    BY <1>1, <1>3, <2>1, <2>6, HiMovesOn, HiStillKnows
  <2>. QED BY <2>4, <2>5, <2>7, HiQuiet DEF HiRunSound
<1>7. CASE HistCrash(r)
  <2>1. /\ histRuns[r].pc \in {"changes", "commits", "refs"} /\ HistEnds(r, "dead")
        /\ histCrashes' = histCrashes + 1 /\ UNCHANGED <<HistStored, histNow, histCalm>>
    BY <1>7 DEF HistCrash
  <2>2. histCrashes' \in Nat /\ histCrashes' # 0
    BY <1>1, <2>1 DEF HistTypeOK
  <2>. QED BY <2>1, <2>2, HiEnds DEF HiIdle
<1>. QED BY <1>4, <1>5, <1>6, <1>7

\* The insert of the commits.
LEMMA HiCommits ==
  ASSUME HiInv, NEW r \in HistRuns, InsertCommits(r)
  PROVE  HiInv'
<1>1. /\ HistGoes(r, "commits", "refs") /\ histCommits' = histCommits \cup histRuns[r].commits
      /\ UNCHANGED <<histObjects, histChanges, histRefs, histNow, histCrashes, histCalm>>
  BY DEF InsertCommits
<1>2. HistTypeOK /\ histRuns[r] \in HistRun /\ histRuns[r].commits \subseteq HistCommit
  BY Zenon DEF HiInv, HistTypeOK, HistRun
<1>3. "refs" \in HistPlace /\ {"commits", "refs"} \subseteq HiPlanned /\ "commits" \notin HiIdle
  BY HiPlaces DEF HiPlanned, HiIdle
<1>4. /\ histRuns[r].pc = "commits" /\ histRuns'[r].pc = "refs"
      /\ histRuns'[r].commits = histRuns[r].commits
      /\ histRuns' \in [HistRuns -> HistRun]
      /\ \A s \in HistRuns \ {r} : histRuns'[s] = histRuns[s]
  BY <1>1, <1>2, <1>3, HiMovesOn
<1>5. HiRunSound(histRuns[r], histObjects, histChanges, histCommits, histNow)
  BY DEF HiInv, HiRuns
<1>6. histRuns[r].i > Len(histRuns[r].obs)
  BY <1>4, HiSeen DEF HiPlanned
<1>7. /\ HiMade(histRuns'[r], histCommits)
      /\ HiSaid(histRuns'[r]) /\ HiRows(histRuns'[r]) /\ histRuns'[r].now <= histNow
      /\ histCalm => HiKnows(histRuns'[r], histRefs) /\ HiKeeps(histRuns'[r], histRefs)
  BY <1>1, <1>2, <1>3, <1>4, <1>6, HiMovesOn, HiStillKnows
<1>8. HistTypeOK'
  BY <1>1, <1>2, <1>4 DEF HistTypeOK
<1>9. HistIntegrity'
  <2>1. ASSUME NEW k \in HistKeys, histRefs[k].id # <<>> PROVE HasId(k, histRefs[k].id)'
    BY <1>1, <2>1 DEF HiInv, HistIntegrity, HasId
  <2>2. ASSUME NEW c \in histCommits
        PROVE  /\ c.parent # <<>> => HasId(c.key, c.parent)'
               /\ c.doc \in histObjects
               /\ Live(c.parent) /\ Live(c.id) => <<c.key, c.id>> \in histChanges
    BY <1>1 DEF HiInv, HistIntegrity, HasId
  <2>3. ASSUME NEW c \in histRuns[r].commits
        PROVE  /\ c.parent # <<>> => HasId(c.key, c.parent)'
               /\ c.doc \in histObjects
               /\ Live(c.parent) /\ Live(c.id) => <<c.key, c.id>> \in histChanges
    <3>1. c.parent # <<>> => HiHas(histCommits', c.key, c.parent)
      BY <1>1, <1>5, Zenon DEF HiRunSound, HiMade
    <3>. QED BY <1>4, <1>5, <3>1 DEF HiRunSound, HiStored, HiHas, HasId
  <2>. QED BY <1>1, <2>1, <2>2, <2>3 DEF HistIntegrity
<1>10. HiRuns'
  <2>1. ASSUME NEW s \in HistRuns
        PROVE  HiRunSound(histRuns'[s], histObjects, histChanges, histCommits', histNow)
    <3>1. CASE s = r
      <4>1. HiMade(histRuns'[r], histCommits')
        BY <1>1, <1>7 DEF HiMade, HiHas
      <4>2. HiStored(histRuns'[r], histObjects, histChanges, histCommits')
        BY <1>1, <1>4, <1>5 DEF HiStored, HiRunSound
      <4>. QED BY <1>7, <3>1, <4>1, <4>2 DEF HiRunSound
    <3>2. CASE s # r
      <4>1. histRuns'[s] = histRuns[s] /\ histRuns[s].now \in Nat /\ histNow \in Nat
        BY <1>2, <1>4, <3>2 DEF HistTypeOK, HistRun
      <4>2. HiRunSound(histRuns[s], histObjects, histChanges, histCommits, histNow)
        BY DEF HiInv, HiRuns
      <4>. QED BY <1>1, <4>1, <4>2, HiGrows
    <3>. QED BY <3>1, <3>2
  <2>. QED BY <1>1, <2>1 DEF HiRuns
<1>11. HiPast'
  BY <1>1 DEF HiInv, HiPast
<1>12. HiCalm'
  <2>1. SUFFICES ASSUME histCalm
                 PROVE  /\ \A s, t \in HistRuns :
                             (histRuns'[s].pc \notin HiIdle /\ histRuns'[t].pc \notin HiIdle)
                               => s = t
                        /\ \A s \in HistRuns : /\ HiKnows(histRuns'[s], histRefs)
                                               /\ HiKeeps(histRuns'[s], histRefs)
    BY <1>1 DEF HiCalm
  <2>2. \A s \in HistRuns \ {r} : histRuns'[s].pc \in HiIdle
    BY <1>3, <1>4, <2>1, HiAlone
  <2>3. ASSUME NEW s \in HistRuns
        PROVE  HiKnows(histRuns'[s], histRefs) /\ HiKeeps(histRuns'[s], histRefs)
    BY <1>7, <2>1, <2>2 DEF HiKnows, HiKeeps, HiIdle, HiPlanned
  <2>. QED BY <2>2, <2>3
<1>13. HiLined'
  <2>1. SUFFICES ASSUME histCalm, histCrashes = 0 PROVE HiLined'
    BY <1>1 DEF HiLined
  <2>2. ASSUME NEW c \in histCommits'
        PROVE  \/ HiPre(c.id, histRefs[c.key].id) /\ c.at <= histRefs[c.key].at
               \/ \E s \in HistRuns : histRuns'[s].pc = "refs" /\ c \in histRuns'[s].commits
    <3>1. CASE c \in histRuns[r].commits
      BY <1>4, <3>1
    <3>2. CASE c \in histCommits
      <4>1. \A s \in HistRuns : histRuns[s].pc # "refs"
        BY <1>3, <1>4, <2>1, HiAlone DEF HiIdle
      <4>. QED BY <2>1, <3>2, <4>1 DEF HiInv, HiLined
    <3>. QED BY <1>1, <3>1, <3>2
  <2>3. \A k \in HistKeys : histRefs[k].id # <<>> =>
          \E c \in histCommits' : c.key = k /\ c.id = histRefs[k].id /\ c.at = histRefs[k].at
    BY <1>1, <2>1 DEF HiInv, HiLined
  <2>. QED BY <1>1, <2>2, <2>3 DEF HiLined
<1>. QED BY <1>8, <1>9, <1>10, <1>11, <1>12, <1>13 DEF HiInv

\* What the insert of the references does, and what it means for a run that was alone.
LEMMA HiMovesHead ==
  ASSUME HiInv, NEW r \in HistRuns, InsertRefs(r)
  PROVE  /\ histRuns[r].pc = "refs" /\ HistEnds(r, "done")
         /\ UNCHANGED <<histObjects, histChanges, histCommits, histNow, histCrashes, histCalm>>
         /\ histRefs' \in [HistKeys -> [id: Seq(Body), at: Nat]]
         /\ \A k \in HistKeys : \/ histRefs'[k] = histRefs[k]
                                \/ /\ k \in Moved(histRuns[r])
                                   /\ histRefs'[k].id = histRuns[r].heads[k]
                                   /\ histRefs'[k].at = histRuns[r].now
         /\ histCalm => \A k \in HistKeys : histRefs'[k].id = histRuns[r].heads[k]
         /\ histCalm => \A k \in Moved(histRuns[r]) : histRefs'[k].at = histRuns[r].now
<1> DEFINE run == histRuns[r]
<1>1. /\ run.pc = "refs" /\ HistEnds(r, "done")
      /\ UNCHANGED <<histObjects, histChanges, histCommits, histNow, histCrashes, histCalm>>
      /\ histRefs' = [k \in HistKeys |->
           IF k \in Moved(run) /\ run.now >= histRefs[k].at
           THEN [id |-> run.heads[k], at |-> run.now] ELSE histRefs[k]]
  BY DEF InsertRefs, HistAt
<1>2. /\ run.heads \in [HistKeys -> Seq(Body)] /\ run.now \in Nat
      /\ histRefs \in [HistKeys -> [id: Seq(Body), at: Nat]]
      /\ run.commits \subseteq HistCommit
  BY DEF HiInv, HistTypeOK, HistRun
<1>3. Moved(run) \subseteq HistKeys
  BY <1>2 DEF Moved, HistCommit
<1> HIDE DEF run
<1>4. ASSUME NEW k \in HistKeys
      PROVE  /\ histRefs'[k] \in [id: Seq(Body), at: Nat]
             /\ \/ histRefs'[k] = histRefs[k]
                \/ /\ k \in Moved(run)
                   /\ histRefs'[k].id = run.heads[k] /\ histRefs'[k].at = run.now
  BY <1>1, <1>2
<1>5. histRefs' \in [HistKeys -> [id: Seq(Body), at: Nat]]
  BY <1>1, <1>4, Zenon
<1>6. ASSUME histCalm, NEW k \in HistKeys
      PROVE  /\ histRefs'[k].id = run.heads[k]
             /\ k \in Moved(run) => histRefs'[k].at = run.now
  <2>1. run.now >= histRefs[k].at /\ (k \notin Moved(run) => run.heads[k] = histRefs[k].id)
    BY <1>1, <1>6 DEF HiInv, HiCalm, HiKnows, HiPlanned, run
  <2>. QED BY <1>1, <2>1
<1>. QED BY <1>1, <1>3, <1>4, <1>5, <1>6 DEF run

\* The insert of the references.
LEMMA HiRefs ==
  ASSUME HiInv, NEW r \in HistRuns, InsertRefs(r)
  PROVE  HiInv'
<1> DEFINE run == histRuns[r]
           n == [HistNewRun EXCEPT !.pc = "done"]
<1>1. /\ run.pc = "refs" /\ HistEnds(r, "done")
      /\ UNCHANGED <<histObjects, histChanges, histCommits, histNow, histCrashes, histCalm>>
      /\ histRefs' \in [HistKeys -> [id: Seq(Body), at: Nat]]
      /\ \A k \in HistKeys : \/ histRefs'[k] = histRefs[k]
                             \/ /\ k \in Moved(run)
                                /\ histRefs'[k].id = run.heads[k] /\ histRefs'[k].at = run.now
      /\ histCalm => \A k \in HistKeys : histRefs'[k].id = run.heads[k]
      /\ histCalm => \A k \in Moved(run) : histRefs'[k].at = run.now
  BY HiMovesHead
<1>2. /\ n \in HistRun /\ n.pc = "done"
      /\ \A O, Ch, C : \A now \in Nat : HiRunSound(n, O, Ch, C, now)
  BY HiOver
<1>3. histRuns' = [histRuns EXCEPT ![r] = n] /\ HistTypeOK /\ histNow \in Nat
  BY <1>1, Zenon DEF HistEnds, HiInv, HistTypeOK
<1> HIDE DEF n
<1>4. /\ histRuns' \in [HistRuns -> HistRun] /\ histRuns'[r] = n
      /\ \A s \in HistRuns \ {r} : histRuns'[s] = histRuns[s]
  BY <1>2, <1>3, HiBecomes, Zenon
<1>5. /\ HiRunSound(run, histObjects, histChanges, histCommits, histNow)
      /\ run.commits \subseteq histCommits
  BY <1>1 DEF HiInv, HiRuns, HiRunSound, HiStored
<1>6. HistTypeOK'
  BY <1>1, <1>3, <1>4 DEF HistTypeOK
<1>7. HistIntegrity'
  <2>1. ASSUME NEW k \in HistKeys, histRefs'[k].id # <<>> PROVE HasId(k, histRefs'[k].id)
    <3>1. CASE histRefs'[k] = histRefs[k]
      BY <2>1, <3>1 DEF HiInv, HistIntegrity
    <3>2. CASE histRefs'[k].id = run.heads[k]
      <4>1. HiHas(histCommits \cup run.commits, k, run.heads[k])
        BY <1>5, <2>1, <3>2, Zenon DEF HiRunSound, HiMade
      <4>. QED BY <1>5, <3>2, <4>1 DEF HiHas, HasId
    <3>. QED BY <1>1, <3>1, <3>2
  <2>. QED BY <1>1, <2>1 DEF HiInv, HistIntegrity, HasId
<1>8. HiRuns'
  <2>1. ASSUME NEW s \in HistRuns
        PROVE  HiRunSound(histRuns'[s], histObjects, histChanges, histCommits, histNow)
    BY <1>2, <1>3, <1>4 DEF HiInv, HiRuns
  <2>. QED BY <1>1, <2>1 DEF HiRuns
<1>9. HiPast'
  BY <1>1, <1>5 DEF HiInv, HiPast, HiRunSound
<1>10. HiCalm'
  <2>1. SUFFICES ASSUME histCalm
                 PROVE  \A s \in HistRuns : histRuns'[s].pc \in HiIdle
    BY <1>1, Zenon DEF HiCalm, HiKnows, HiKeeps, HiIdle, HiPlanned
  <2>2. \A s \in HistRuns \ {r} : histRuns[s].pc \in HiIdle
    BY <1>1, <2>1, HiAlone DEF HiIdle
  <2>. QED BY <1>2, <1>4, <2>2 DEF HiIdle
<1>11. HiLined'
  <2>1. SUFFICES ASSUME histCalm, histCrashes = 0 PROVE HiLined'
    BY <1>1 DEF HiLined
  <2>2. ASSUME NEW k \in HistKeys
        PROVE  /\ histRefs'[k].id = run.heads[k]
               /\ HiPre(histRefs[k].id, run.heads[k]) /\ histRefs[k].at <= histRefs'[k].at
               /\ k \in Moved(run) => histRefs'[k].at = run.now
               /\ k \notin Moved(run) => histRefs'[k] = histRefs[k]
               /\ k \in Moved(run) => \E c \in run.commits : c.key = k /\ c.id = run.heads[k]
               /\ \A c \in run.commits : c.key = k => HiPre(c.id, run.heads[k])
    <3>1. HiKnows(run, histRefs)
      BY <2>1 DEF HiInv, HiCalm
    <3>2. histRefs[k].at \in Nat /\ run.now \in Nat
      BY <1>3 DEF HistTypeOK, HistRun
    <3>. QED BY <1>1, <2>1, <3>1, <3>2 DEF HiKnows, HiPlanned
  <2>3. \A s \in HistRuns : histRuns[s].pc = "refs" => s = r
    BY <1>1, <2>1, HiAlone DEF HiIdle
  <2>4. ASSUME NEW c \in histCommits
        PROVE  HiPre(c.id, histRefs'[c.key].id) /\ c.at <= histRefs'[c.key].at
    <3>1. c.key \in HistKeys /\ c.id \in Seq(Body) /\ c.at \in Nat
      BY <1>3 DEF HistTypeOK, HistCommit
    <3>2. CASE c \in run.commits
      <4>1. c.key \in Moved(run) /\ c.at = run.now
        BY <1>5, <3>2 DEF Moved, HiRunSound, HiMade
      <4>. QED BY <2>2, <3>1, <3>2, <4>1
    <3>3. CASE c \notin run.commits
      <4>1. HiPre(c.id, histRefs[c.key].id) /\ c.at <= histRefs[c.key].at
        BY <2>1, <2>3, <3>3 DEF HiInv, HiLined
      <4>2. /\ histRefs[c.key].id \in Seq(Body) /\ histRefs'[c.key].id \in Seq(Body)
            /\ histRefs[c.key].at \in Nat /\ histRefs'[c.key].at \in Nat
        BY <1>1, <1>3, <3>1 DEF HistTypeOK
      <4>3. HiPre(c.id, histRefs'[c.key].id)
        BY <2>2, <3>1, <4>1, <4>2, HiPreFacts
      <4>. QED BY <2>2, <3>1, <4>1, <4>2, <4>3
    <3>. QED BY <3>2, <3>3
  <2>5. ASSUME NEW k \in HistKeys, histRefs'[k].id # <<>>
        PROVE  \E c \in histCommits : c.key = k /\ c.id = histRefs'[k].id /\ c.at = histRefs'[k].at
    <3>1. CASE k \in Moved(run)
      <4>1. PICK c \in run.commits : c.key = k /\ c.id = run.heads[k]
        BY <2>2, <3>1
      <4>2. c.at = run.now /\ c \in histCommits
        BY <1>5 DEF HiRunSound, HiMade
      <4>. QED BY <2>2, <3>1, <4>1, <4>2
    <3>2. CASE k \notin Moved(run)
      BY <2>1, <2>2, <2>5, <3>2 DEF HiInv, HiLined
    <3>. QED BY <3>1, <3>2
  <2>. QED BY <1>1, <2>4, <2>5 DEF HiLined
<1>. QED BY <1>6, <1>7, <1>8, <1>9, <1>10, <1>11 DEF HiInv

\* A second passes, or nothing happens.
LEMMA HiWaits == ASSUME HiInv, HistTick \/ UNCHANGED histVars PROVE HiInv'
<1>1. /\ UNCHANGED <<HistStored, histRuns, histCrashes, histCalm>>
      /\ histNow \in Nat /\ histNow' \in Nat /\ histNow <= histNow'
  BY DEF HistTick, histVars, HistStored, HiInv, HistTypeOK
<1>2. HistTypeOK'
  BY <1>1 DEF HiInv, HistTypeOK, HistStored
<1>3. HistIntegrity'
  BY <1>1 DEF HiInv, HistIntegrity, HasId, HistStored
<1>4. HiRuns'
  <2>1. ASSUME NEW r \in HistRuns
        PROVE  HiRunSound(histRuns[r], histObjects, histChanges, histCommits, histNow')
    <3>1. histRuns[r].now \in Nat
      BY DEF HiInv, HistTypeOK, HistRun
    <3>2. HiRunSound(histRuns[r], histObjects, histChanges, histCommits, histNow)
      BY DEF HiInv, HiRuns
    <3>. QED BY <1>1, <3>1, <3>2, HiGrows
  <2>. QED BY <1>1, <2>1 DEF HiRuns, HistStored
<1>5. HiPast'
  BY <1>1 DEF HiInv, HiPast, HistTypeOK, HistStored
<1>6. HiCalm' /\ HiLined'
  BY <1>1 DEF HiInv, HiCalm, HiLined, HistStored
<1>. QED BY <1>2, <1>3, <1>4, <1>5, <1>6 DEF HiInv

\* Every step keeps the invariant.
LEMMA HiInvStays == ASSUME HiInv, [HistNext]_histVars PROVE HiInv'
<1>1. ASSUME NEW r \in HistRuns,
             \/ ArchiveRows(r) \/ CommitCatalogue(r) \/ RetireEntities(r)
             \/ ReadHeads(r) \/ PlanCommit(r) \/ PlanEnds(r)
             \/ InsertObjects(r) \/ InsertChanges(r) \/ InsertCommits(r) \/ InsertRefs(r)
             \/ HistCrash(r)
      PROVE  HiInv'
  BY <1>1, HiCallers, HiReads, HiPlans, HiEarlySteps, HiCommits, HiRefs
<1>. QED BY <1>1, HiWaits DEF HistNext

\* It holds before the first call.
LEMMA HiInvStarts == ASSUME HistInit PROVE HiInv
<1>1. HistNewRun \in HistRun
  <2>1. /\ <<>> \in Seq(HistObservation)
        /\ [k \in HistKeys |-> <<>>] \in [HistKeys -> Seq(Body)]
    OBVIOUS
  <2>2. "rows" \in HistKind
    BY DEF HistKind
  <2>. QED BY <2>1, <2>2, HiPlaces DEF HistNewRun, HistRun
<1>2. /\ HistNewRun.pc = "new" /\ HistNewRun.commits = {} /\ HistNewRun.i = 1
      /\ HistNewRun.now = 0 /\ \A k \in HistKeys : HistNewRun.heads[k] = <<>>
  BY DEF HistNewRun
<1>3. /\ histObjects = {} /\ histChanges = {} /\ histCommits = {}
      /\ histRefs = [k \in HistKeys |-> NoHead]
      /\ histRuns = [r \in HistRuns |-> HistNewRun]
      /\ histNow = 1 /\ histCrashes = 0 /\ histCalm
  BY DEF HistInit
<1>4. NoHead \in [id: Seq(Body), at: Nat] /\ NoHead.id = <<>> /\ NoHead.at = 0
  <2>1. <<>> \in Seq(Body)
    OBVIOUS
  <2>. QED BY <2>1 DEF NoHead
<1>5. HistTypeOK
  BY <1>1, <1>3, <1>4 DEF HistTypeOK, HistInit
<1>6. HistIntegrity
  BY <1>3, <1>4 DEF HistIntegrity
<1>7. ASSUME NEW r \in HistRuns
      PROVE  HiRunSound(histRuns[r], histObjects, histChanges, histCommits, histNow)
  <2>1. histRuns[r] = HistNewRun
    BY <1>3
  <2>2. /\ HiMade(HistNewRun, histCommits)
        /\ HiStored(HistNewRun, histObjects, histChanges, histCommits)
    BY <1>2 DEF HiMade, HiStored
  <2>3. HiSaid(HistNewRun) /\ HiRows(HistNewRun) /\ HistNewRun.now <= histNow
    BY <1>2, <1>3 DEF HiSaid, HiRows, HiPlanned
  <2>. QED BY <2>1, <2>2, <2>3 DEF HiRunSound
<1>8. HiPast
  BY <1>3, <1>4 DEF HiPast
<1>9. HiCalm
  BY <1>2, <1>3 DEF HiCalm, HiKnows, HiKeeps, HiIdle, HiPlanned
<1>10. HiLined
  BY <1>3, <1>4 DEF HiLined
<1>. QED BY <1>5, <1>6, <1>7, <1>8, <1>9, <1>10 DEF HiInv, HiRuns

\* The invariant says that the commits are one line up to HEAD, the newest of them.
LEMMA HiInvIsSound == ASSUME HiInv PROVE HistorySound
<1>1. ASSUME HistSettled
      PROVE  \A c \in histCommits : /\ HiPre(c.id, histRefs[c.key].id)
                                    /\ c.at <= histRefs[c.key].at
  BY <1>1 DEF HiInv, HiLined, HistSettled, HistAt
<1>2. HistLinear
  <2>1. SUFFICES ASSUME HistSettled, NEW c \in histCommits
                 PROVE  /\ Len(c.id) <= Len(histRefs[c.key].id)
                        /\ c.id = SubSeq(histRefs[c.key].id, 1, Len(c.id))
    BY DEF HistLinear
  <2>2. c.id \in Seq(Body) /\ histRefs[c.key].id \in Seq(Body)
    BY DEF HiInv, HistTypeOK, HistCommit
  <2>. QED BY <1>1, <2>1, <2>2, HiPreFacts
<1>3. HeadIsNewest
  <2>1. SUFFICES ASSUME HistSettled, NEW k \in HistKeys, histRefs[k].id # <<>>
                 PROVE  \E c \in Newest(k, histNow) : c.id = histRefs[k].id
    BY DEF HeadIsNewest
  <2>2. PICK c \in histCommits : c.key = k /\ c.id = histRefs[k].id /\ c.at = histRefs[k].at
    BY <2>1 DEF HiInv, HiLined, HistSettled
  <2>3. c.at <= histNow
    BY <2>2 DEF HiInv, HiPast
  <2>4. \A d \in histCommits : d.key = k => d.at <= c.at
    BY <1>1, <2>1, <2>2
  <2>. QED BY <2>2, <2>3, <2>4 DEF Newest
<1>. QED BY <1>2, <1>3 DEF HiInv, HistorySound

\* A call returns when its references are in, or when it had nothing to record.
LEMMA HiReturns ==
  ASSUME HiInv, HistNext, NEW r \in HistRuns, histRuns'[r].pc = "done", histRuns[r].pc # "done"
  PROVE  InsertRefs(r) \/ (PlanEnds(r) /\ histRuns[r].commits = {})
<1>1. HistTypeOK /\ histRuns[r] \in HistRun
  BY DEF HiInv, HistTypeOK
<1>2. \A s \in HistRuns \ {r} : \A n : histRuns' # [histRuns EXCEPT ![s] = n]
  BY <1>1 DEF HistTypeOK
<1>3. ASSUME NEW n, n.pc # "done" PROVE histRuns' # [histRuns EXCEPT ![r] = n]
  BY <1>1, <1>3 DEF HistTypeOK
<1>4. ASSUME NEW s \in HistRuns, NEW kind, NEW carry, NEW obs PROVE ~HistStart(s, kind, carry, obs)
  <2> DEFINE n == [histRuns[s] EXCEPT !.pc = "read", !.kind = kind, !.carry = carry, !.obs = obs]
  <2>1. HistStart(s, kind, carry, obs) => histRuns' = [histRuns EXCEPT ![s] = n]
    BY DEF HistStart
  <2>2. s = r => n.pc = "read"
    BY <1>1 DEF HistRun
  <2> HIDE DEF n
  <2>. QED BY <1>2, <1>3, <2>1, <2>2
<1>5. ASSUME NEW s \in HistRuns PROVE ~ReadHeads(s) /\ ~PlanCommit(s)
  <2>1. ~ReadHeads(s)
    <3>1. ASSUME ReadHeads(s)
          PROVE  \E o, h, t : histRuns' = [histRuns EXCEPT ![s] =
                   [histRuns[s] EXCEPT !.pc = "planning", !.obs = o, !.heads = h, !.now = t]]
      BY <3>1, Zenon DEF ReadHeads
    <3>2. ASSUME NEW o, NEW h, NEW t
          PROVE  histRuns' # [histRuns EXCEPT ![s] =
                   [histRuns[s] EXCEPT !.pc = "planning", !.obs = o, !.heads = h, !.now = t]]
      <4> DEFINE n == [histRuns[s] EXCEPT !.pc = "planning", !.obs = o, !.heads = h, !.now = t]
      <4>1. s = r => n.pc = "planning"
        BY <1>1 DEF HistRun
      <4> HIDE DEF n
      <4>2. histRuns' # [histRuns EXCEPT ![s] = n]
        BY <1>2, <1>3, <4>1
      <4>. QED BY <4>2 DEF n
    <3>. QED BY <3>1, <3>2, Zenon
  <2>2. ~PlanCommit(s)
    <3>1. ASSUME PlanCommit(s)
          PROVE  \E n : histRuns' = [histRuns EXCEPT ![s] = n] /\ (s = r => n.pc = "planning")
      <4>1. histRuns[s].pc = "planning" /\ histRuns[s] \in HistRun
        BY <3>1, <1>1 DEF PlanCommit, HistAt, HistTypeOK
      <4>. QED BY <3>1, <4>1, Zenon DEF PlanCommit, HistRun
    <3>. QED BY <1>2, <1>3, <3>1
  <2>. QED BY <2>1, <2>2
<1>6. ASSUME NEW s \in HistRuns, NEW from, NEW to \in HistPlace \ {"done"}
      PROVE  ~HistGoes(s, from, to)
  BY <1>1, HiMovesOn DEF HiInv
<1>7. ASSUME NEW s \in HistRuns, NEW pc, HistEnds(s, pc) PROVE s = r /\ pc = "done"
  <2> DEFINE n == [HistNewRun EXCEPT !.pc = pc]
  <2>1. n.pc = pc
    BY DEF HistNewRun
  <2>2. histRuns' = [histRuns EXCEPT ![s] = n]
    BY <1>7 DEF HistEnds
  <2> HIDE DEF n
  <2>. QED BY <1>2, <1>3, <2>1, <2>2
<1>8. {"objects", "changes", "commits", "refs"} \subseteq HistPlace
  BY HiPlaces
<1>9. ~HistTick
  BY DEF HistTick
<1>10. ASSUME NEW s \in HistRuns
       PROVE  /\ ~ArchiveRows(s) /\ ~CommitCatalogue(s) /\ ~RetireEntities(s)
              /\ ~InsertObjects(s) /\ ~InsertChanges(s) /\ ~InsertCommits(s) /\ ~HistCrash(s)
              /\ InsertRefs(s) => s = r
              /\ PlanEnds(s) => s = r /\ histRuns[s].commits = {}
  <2>1. ~ArchiveRows(s) /\ ~CommitCatalogue(s) /\ ~RetireEntities(s)
    BY <1>4, Zenon DEF ArchiveRows, CommitCatalogue, RetireEntities
  <2>2. ~InsertObjects(s) /\ ~InsertChanges(s) /\ ~InsertCommits(s)
    BY <1>6, <1>8 DEF InsertObjects, InsertChanges, InsertCommits
  <2>3. ~HistCrash(s) /\ (InsertRefs(s) => s = r)
    BY <1>7 DEF HistCrash, InsertRefs
  <2>4. PlanEnds(s) => s = r /\ histRuns[s].commits = {}
    BY <1>6, <1>7, <1>8 DEF PlanEnds
  <2>. QED BY <2>1, <2>2, <2>3, <2>4
<1>. QED BY <1>5, <1>9, <1>10 DEF HistNext

\* What a call that nothing came between leaves in HEAD.
LEMMA HiRecords ==
  ASSUME HiInv, HistNext, NEW r \in HistRuns, histRuns'[r].pc = "done", histRuns[r].pc # "done",
         histCalm, NEW i \in DOMAIN histRuns[r].obs,
         \A j \in DOMAIN histRuns[r].obs :
           histRuns[r].obs[j].key = histRuns[r].obs[i].key => j <= i
  PROVE  Says(histRefs'[histRuns[r].obs[i].key].id, histRuns[r].obs[i].doc)
<1> DEFINE run == histRuns[r]
           k == run.obs[i].key
<1>1. run.obs \in Seq(HistObservation) /\ run.i \in Nat
  BY DEF HiInv, HistTypeOK, HistRun
<1>2. i \in 1..Len(run.obs) /\ Len(run.obs) \in Nat
  BY <1>1, LenProperties
<1>3. k \in HistKeys
  <2>1. run.obs[i] \in HistObservation
    BY <1>1, <1>2, ElementOfSeq
  <2>. QED BY <2>1 DEF HistObservation
<1>4. run.pc \in HiPlanned /\ run.i > Len(run.obs)
  <2>1. CASE InsertRefs(r)
    BY <2>1, HiSeen DEF InsertRefs, HistAt, HiPlanned
  <2>2. CASE PlanEnds(r)
    BY <2>2 DEF PlanEnds, HistAt, HiPlanned
  <2>. QED BY <2>1, <2>2, HiReturns
<1>5. HiLastSoFar(run, i)
  BY <1>1, <1>2, <1>4 DEF HiLastSoFar
<1>6. Says(run.heads[k], run.obs[i].doc)
  BY <1>4, <1>5 DEF HiInv, HiRuns, HiRunSound, HiSaid
<1>7. histRefs'[k].id = run.heads[k]
  <2>1. CASE InsertRefs(r)
    BY <1>3, <2>1, HiMovesHead, Zenon
  <2>2. CASE PlanEnds(r) /\ run.commits = {}
    <3>1. Moved(run) = {} /\ histRefs' = histRefs
      BY <2>2 DEF Moved, PlanEnds, HistStored
    <3>2. HiKnows(run, histRefs)
      BY DEF HiInv, HiCalm
    <3>. QED BY <1>3, <1>4, <3>1, <3>2 DEF HiKnows
  <2>. QED BY <2>1, <2>2, HiReturns
<1>. QED BY <1>6, <1>7

\* The step in which a run that carries the section ends.
LEMMA HiCarriesSection ==
  ASSUME HiInv, HistNext, NEW r \in HistRuns, NEW k \in HistKeys,
         HistAt(r, "refs"), histRuns'[r].pc = "done", histRuns[r].carry, histCalm,
         Live(histRefs[k].id), Live(histRefs'[k].id), Last(histRefs[k].id).price # NoSection
  PROVE  Last(histRefs'[k].id).price # NoSection
<1>1. histRuns[r].pc = "refs"
  BY DEF HistAt
<1>2. InsertRefs(r)
  BY <1>1, HiReturns, Zenon DEF PlanEnds, HistAt
<1>3. histRefs'[k].id = histRuns[r].heads[k]
  BY <1>2, HiMovesHead, Zenon
<1>4. HiKeeps(histRuns[r], histRefs)
  BY DEF HiInv, HiCalm
<1>. QED BY <1>1, <1>3, <1>4 DEF HiKeeps, HiPriced, HiPlanned

\* However calls of record overlap and die, HEAD, commits, parents, objects and changes fit
\* together; without overlap and crash an entity's commits are one line that ends in HEAD, and
\* HEAD is among the newest.
THEOREM HistoryStays == HistSpec => []HistorySound
<1>1. HistInit => HiInv
  BY HiInvStarts
<1>2. HiInv /\ [HistNext]_histVars => HiInv'
  BY HiInvStays
<1>3. HiInv => HistorySound
  BY HiInvIsSound
<1>. QED BY <1>1, <1>2, <1>3, PTL DEF HistSpec

\* When a call returns that nothing came between, HEAD says what it observed last, and a section
\* whose source refused is still there.
THEOREM HistoryIsFaithful == HistSpec => HistoryFaithful
<1> DEFINE Records == \A r \in HistRuns :
             LET run == histRuns[r] IN
             (histRuns'[r].pc = "done" /\ run.pc # "done" /\ histCalm /\ histCrashes = 0) =>
               \A i \in DOMAIN run.obs :
                 (\A j \in DOMAIN run.obs : run.obs[j].key = run.obs[i].key => j <= i) =>
                   Says(histRefs'[run.obs[i].key].id, run.obs[i].doc)
           Carries == \A r \in HistRuns, k \in HistKeys :
             (HistAt(r, "refs") /\ histRuns'[r].pc = "done" /\ histRuns[r].carry /\ histCalm
                /\ Live(histRefs[k].id) /\ Live(histRefs'[k].id)
                /\ Last(histRefs[k].id).price # NoSection)
               => Last(histRefs'[k].id).price # NoSection
<1>1. HistInit => HiInv
  BY HiInvStarts
<1>2. HiInv /\ [HistNext]_histVars => HiInv'
  BY HiInvStays
<1>3. ASSUME HiInv, [HistNext]_histVars PROVE [Records]_histVars
  BY <1>3, HiRecords
<1>4. ASSUME HiInv, [HistNext]_histVars PROVE [Carries]_histVars
  BY <1>4, HiCarriesSection
<1>. QED BY <1>1, <1>2, <1>3, <1>4, PTL DEF HistSpec, HistoryFaithful, Recorded, SectionCarried
=============================================================================
