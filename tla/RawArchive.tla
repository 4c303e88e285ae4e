----------------------------- MODULE RawArchive -----------------------------
(***************************************************************************)
(* What keeps the pruning of a raw table from deleting the only copy of a  *)
(* row: each insert is archived (collection.insert_rows), what was there   *)
(* before is imported once (history_archive.backfill_table), and the       *)
(* pruner (maintenance.prune_old_raw) looks for the marker of the import.  *)
(*                                                                         *)
(* One table with one key per day; the raw row of a day is its last        *)
(* version, the archive holds versions.                                    *)
(***************************************************************************)
EXTENDS Naturals, FiniteSets

CONSTANTS
  RawDays,          \* the days are 1..RawDays
  RawVersions,      \* bound: versions of rows
  MaxRawToggles,    \* bound: restarts with the other value of HISTORY_ENABLED
  MaxRawCrashes     \* bound: crashes of the import and tasks that end before they archive

ASSUME RawAssumption ==
  /\ RawDays \in Nat \ {0} /\ RawVersions \in Nat
  /\ MaxRawToggles \in Nat /\ MaxRawCrashes \in Nat

RawDay == 1..RawDays

VARIABLES
  rawToday,         \* rows of the days before it are old enough to be pruned
  rawTable,         \* version of the row of each day, 0 without one
  rawArchive,       \* versions in the history
  rawMarker,        \* raw_archive_backfill:<table> in sys_watermarks
  rawEnabled,       \* HISTORY_ENABLED
  rawIngest,        \* version that is inserted and not yet archived, 0 if none
  rawStray,         \* versions that neither their task nor the import archives, kept for checking
  rawLatest,        \* the last version
  rawImport,        \* the day the import is at and its last day; day 0 if none is under way
  rawPruner,        \* what the pruner has read: "idle", "cleared", "unguarded"
  rawFaults         \* toggles and crashes so far

rawVars == <<rawToday, rawTable, rawArchive, rawMarker, rawEnabled, rawIngest, rawStray,
             rawLatest, rawImport, rawPruner, rawFaults>>

NoImport == [day |-> 0, last |-> 0]

RawTypeOK ==
  /\ rawToday \in RawDay
  /\ rawTable \in [RawDay -> 0..RawVersions]
  /\ rawArchive \subseteq 1..RawVersions
  /\ rawMarker \in BOOLEAN /\ rawEnabled \in BOOLEAN
  /\ rawIngest \in 0..RawVersions /\ rawLatest \in 0..RawVersions
  /\ rawStray \subseteq 1..RawVersions
  /\ rawImport \in [day: 0..RawDays, last: 0..RawDays]
  /\ rawPruner \in {"idle", "cleared", "unguarded"}
  /\ rawFaults \in [toggles: 0..MaxRawToggles, crashes: 0..MaxRawCrashes]

RawInit ==
  /\ rawToday = 1
  /\ rawTable = [d \in RawDay |-> 0]
  /\ rawArchive = {} /\ rawMarker = FALSE
  /\ rawEnabled \in BOOLEAN
  /\ rawIngest = 0 /\ rawStray = {} /\ rawLatest = 0
  /\ rawImport = NoImport
  /\ rawPruner = "idle"
  /\ rawFaults = [toggles |-> 0, crashes |-> 0]

RawDayEnds ==
  /\ rawToday < RawDays
  /\ rawToday' = rawToday + 1
  /\ UNCHANGED <<rawTable, rawArchive, rawMarker, rawEnabled, rawIngest, rawStray, rawLatest,
                 rawImport, rawPruner, rawFaults>>

\* insert_rows: the raw table, then the archive.
RawInsert ==
  /\ rawIngest = 0
  /\ rawLatest < RawVersions
  /\ rawLatest' = rawLatest + 1
  /\ \E d \in 1..rawToday : rawTable' = [rawTable EXCEPT ![d] = rawLatest']
  /\ rawIngest' = rawLatest'
  /\ UNCHANGED <<rawToday, rawArchive, rawMarker, rawEnabled, rawStray, rawImport, rawPruner,
                 rawFaults>>

\* The task is done with its rows and has not archived them: no one does any more, unless the
\* import is still to come.
RawLeaves ==
  rawStray' = IF rawMarker \/ rawImport # NoImport THEN rawStray \cup {rawIngest} ELSE rawStray

RawArchiveRows ==
  /\ rawIngest # 0
  /\ IF rawEnabled
     THEN rawArchive' = rawArchive \cup {rawIngest} /\ UNCHANGED rawStray
     ELSE RawLeaves /\ UNCHANGED rawArchive
  /\ rawIngest' = 0
  /\ UNCHANGED <<rawToday, rawTable, rawMarker, rawEnabled, rawLatest, rawImport, rawPruner,
                 rawFaults>>

\* The task fails or dies in between.  An exception is acknowledged; a task delivered again is
\* skipped as long as the lock is there, and else it reads and inserts anew, which is another
\* version.
RawArchiveFails ==
  /\ rawIngest # 0
  /\ rawFaults.crashes < MaxRawCrashes
  /\ rawFaults' = [rawFaults EXCEPT !.crashes = @ + 1]
  /\ RawLeaves
  /\ rawIngest' = 0
  /\ UNCHANGED <<rawToday, rawTable, rawArchive, rawMarker, rawEnabled, rawLatest, rawImport,
                 rawPruner>>

\* The workers are restarted, each task at its end, with the other value.
RawToggle ==
  /\ rawIngest = 0 /\ rawImport = NoImport /\ rawPruner = "idle"
  /\ rawFaults.toggles < MaxRawToggles
  /\ rawFaults' = [rawFaults EXCEPT !.toggles = @ + 1]
  /\ rawEnabled' = ~rawEnabled
  /\ UNCHANGED <<rawToday, rawTable, rawArchive, rawMarker, rawIngest, rawStray, rawLatest,
                 rawImport, rawPruner>>

-----------------------------------------------------------------------------
(* backfill_raw_archive: once per table, day by day between the bounds read at the start. *)

RawHeld == {d \in RawDay : rawTable[d] # 0}

RawImportStarts ==
  /\ rawEnabled /\ ~rawMarker
  /\ rawImport = NoImport
  /\ IF RawHeld = {}
     THEN rawMarker' = TRUE /\ UNCHANGED rawImport
     ELSE /\ \E first, last \in RawHeld :
               /\ \A d \in RawHeld : first <= d /\ d <= last
               /\ rawImport' = [day |-> first, last |-> last]
          /\ UNCHANGED rawMarker
  /\ UNCHANGED <<rawToday, rawTable, rawArchive, rawEnabled, rawIngest, rawStray, rawLatest,
                 rawPruner, rawFaults>>

\* Mutant: range(first, last).
RawMoreDaysHalfOpen == rawImport.day + 1 < rawImport.last

\* _days yields the last day too.
RawMoreDays == rawImport.day < rawImport.last

RawImportDay ==
  /\ rawImport # NoImport
  /\ rawArchive' = rawArchive \cup ({rawTable[rawImport.day]} \ {0})
  /\ IF RawMoreDays
     THEN rawImport' = [rawImport EXCEPT !.day = @ + 1] /\ UNCHANGED rawMarker
     ELSE rawImport' = NoImport /\ rawMarker' = TRUE
  /\ UNCHANGED <<rawToday, rawTable, rawEnabled, rawIngest, rawStray, rawLatest, rawPruner,
                 rawFaults>>

RawImportCrash ==
  /\ rawImport # NoImport
  /\ rawFaults.crashes < MaxRawCrashes
  /\ rawFaults' = [rawFaults EXCEPT !.crashes = @ + 1]
  /\ rawImport' = NoImport
  /\ UNCHANGED <<rawToday, rawTable, rawArchive, rawMarker, rawEnabled, rawIngest, rawStray,
                 rawLatest, rawPruner>>

-----------------------------------------------------------------------------
(* prune_old_raw: look for the marker, then delete. *)

RawPruneCheck ==
  /\ rawPruner = "idle"
  /\ rawEnabled => rawMarker
  /\ rawPruner' = IF rawEnabled THEN "cleared" ELSE "unguarded"
  /\ UNCHANGED <<rawToday, rawTable, rawArchive, rawMarker, rawEnabled, rawIngest, rawStray,
                 rawLatest,
                 rawImport, rawFaults>>

RawPrune ==
  /\ rawPruner # "idle"
  /\ rawPruner' = "idle"
  /\ rawTable' = [d \in RawDay |-> IF d < rawToday THEN 0 ELSE rawTable[d]]
  /\ UNCHANGED <<rawToday, rawArchive, rawMarker, rawEnabled, rawIngest, rawStray, rawLatest,
                 rawImport, rawFaults>>

RawNext ==
  \/ RawDayEnds \/ RawInsert \/ RawArchiveRows \/ RawArchiveFails \/ RawToggle
  \/ RawImportStarts \/ RawImportDay \/ RawImportCrash
  \/ RawPruneCheck \/ RawPrune

RawSpec == RawInit /\ [][RawNext]_rawVars

-----------------------------------------------------------------------------
(* Properties. *)

\* With the history on, the pruner never deletes the only copy of a row whose task has archived
\* its rows or has yet to, or which was there before the import: it is in the history, or about
\* to be.  The import may run at any moment against inserts, also of old days, and be broken off;
\* the tasks may fail, and the history be off for a while.  What it does delete for good are rows
\* left by a task that failed, or ran with the history off, once the import had begun.
OnlyCopyKept ==
  [][rawPruner = "cleared" =>
       \A d \in RawDay :
         (rawTable[d] # 0 /\ rawTable'[d] = 0) =>
            rawTable[d] \in rawArchive \cup {rawIngest} \cup rawStray]_rawVars
=============================================================================
