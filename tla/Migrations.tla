----------------------------- MODULE Migrations -----------------------------
(***************************************************************************)
(* The migration runner (warehouse/apply_migrations.py): a lock that is a  *)
(* table, a journal, migrations of several statements, rollbacks.  Runs    *)
(* are started by deploys and operators, may overlap, fail and die.        *)
(*                                                                         *)
(* A version is a number; its statements take the schema from one level    *)
(* to the next and do nothing where the level is reached already.          *)
(***************************************************************************)
EXTENDS Naturals

CONSTANTS
  MgRunners,
  MgVersions,       \* the migrations are 1..MgVersions
  MgStatements,     \* statements of each migration, and of each rollback
  NoMgLock,
  MaxMgEdits,       \* bound: edits of a migration's file
  MaxMgFaults       \* bound: crashes and failing statements

ASSUME MgAssumption ==
  /\ NoMgLock \notin [by: MgRunners, old: BOOLEAN]
  /\ MgVersions \in Nat /\ MgStatements \in Nat \ {0}
  /\ MaxMgEdits \in Nat /\ MaxMgFaults \in Nat

MgVersion == 1..MgVersions

VARIABLES
  mgLock,           \* sys_schema_migrations_lock: who made it, and is it older than the TTL
  mgJournal,        \* the last status of each version, and the checksum with it
  mgFile,           \* the checksum of each file
  mgLevel,          \* statements of each version that are in the schema
  mgRunner,         \* runs
  mgFaults,
  mgTakenOver,      \* a stale lock has been taken over
  mgHalf            \* versions of which a rollback was begun and not ended

mgVars == <<mgLock, mgJournal, mgFile, mgLevel, mgRunner, mgFaults, mgTakenOver, mgHalf>>

MgStatus == {"none", "started", "applied", "failed", "rolled_back"}
MgPlace == {"idle", "create", "age", "drop", "load", "next", "statement", "release"}
MgIdle == [pc |-> "idle", command |-> "apply", target |-> 0, again |-> FALSE,
           todo |-> {}, version |-> 0, next |-> 1]

MgTypeOK ==
  /\ mgLock \in [by: MgRunners, old: BOOLEAN] \cup {NoMgLock}
  /\ mgJournal \in [MgVersion -> [status: MgStatus, checksum: 0..MaxMgEdits]]
  /\ mgFile \in [MgVersion -> 0..MaxMgEdits]
  /\ mgLevel \in [MgVersion -> 0..MgStatements]
  /\ mgRunner \in [MgRunners -> [pc: MgPlace, command: {"apply", "rollback"},
                                 target: 0..MgVersions, again: BOOLEAN,
                                 todo: SUBSET MgVersion, version: 0..MgVersions,
                                 next: 1..MgStatements + 1]]
  /\ mgFaults \in 0..MaxMgFaults
  /\ mgTakenOver \in BOOLEAN
  /\ mgHalf \subseteq MgVersion

MgInit ==
  /\ mgLock = NoMgLock
  /\ mgJournal = [v \in MgVersion |-> [status |-> "none", checksum |-> 0]]
  /\ mgFile = [v \in MgVersion |-> 0]
  /\ mgLevel = [v \in MgVersion |-> 0]
  /\ mgRunner = [r \in MgRunners |-> MgIdle]
  /\ mgFaults = 0 /\ mgTakenOver = FALSE /\ mgHalf = {}

MgAt(r, pc) == mgRunner[r].pc = pc
MgGoes(r, pc) == mgRunner' = [mgRunner EXCEPT ![r].pc = pc]
MgEnds(r) == mgRunner' = [mgRunner EXCEPT ![r] = MgIdle]
MgRecord(v, status) == mgJournal' = [mgJournal EXCEPT ![v] = [status |-> status, checksum |-> mgFile[v]]]

MgApplied == {v \in MgVersion : mgJournal[v].status = "applied"}
MgSchema == <<mgJournal, mgFile, mgLevel, mgHalf>>

\* Someone edits the file of an applied migration between two runs (of another one: no matter).
MgEdit(v) ==
  /\ \A r \in MgRunners : MgAt(r, "idle")
  /\ mgFile[v] < MaxMgEdits /\ v \in MgApplied
  /\ mgFile' = [mgFile EXCEPT ![v] = @ + 1]
  /\ UNCHANGED <<mgLock, mgJournal, mgLevel, mgRunner, mgFaults, mgTakenOver, mgHalf>>

-----------------------------------------------------------------------------
(* acquire_lock and release_lock *)

MgStart(r, command, target) ==
  /\ MgAt(r, "idle")
  /\ mgRunner' = [mgRunner EXCEPT ![r] =
       [mgRunner[r] EXCEPT !.pc = "create", !.command = command, !.target = target]]
  /\ UNCHANGED <<mgLock, MgSchema, mgFaults, mgTakenOver>>

\* Mutant: CREATE TABLE IF NOT EXISTS.
MgAlwaysMade == TRUE

\* CREATE TABLE makes the table.
MgTableMade == mgLock = NoMgLock

MgCreate(r) ==
  /\ MgAt(r, "create")
  /\ IF MgTableMade
     THEN mgLock' = [by |-> r, old |-> FALSE] /\ MgGoes(r, "load")
     ELSE UNCHANGED mgLock /\ MgGoes(r, "age")
  /\ UNCHANGED <<MgSchema, mgFaults, mgTakenOver>>

\* Mutant: a lock is never taken over.
MgNeverTakesOver(r) == FALSE

\* Only the first attempt may take a lock over, only an old one, and not one that has gone.
MgTakesOver(r) == ~mgRunner[r].again /\ mgLock # NoMgLock /\ mgLock.old

MgAge(r) ==
  /\ MgAt(r, "age")
  /\ IF MgTakesOver(r) THEN MgGoes(r, "drop") ELSE MgEnds(r)
  /\ UNCHANGED <<mgLock, MgSchema, mgFaults, mgTakenOver>>

MgDrop(r) ==
  /\ MgAt(r, "drop")
  /\ mgLock' = NoMgLock
  /\ mgRunner' = [mgRunner EXCEPT ![r] = [mgRunner[r] EXCEPT !.pc = "create", !.again = TRUE]]
  /\ mgTakenOver' = TRUE
  /\ UNCHANGED <<MgSchema, mgFaults>>

\* DROP TABLE IF EXISTS, whoever made the table.
MgRelease(r) ==
  /\ MgAt(r, "release")
  /\ mgLock' = NoMgLock
  /\ MgEnds(r)
  /\ UNCHANGED <<MgSchema, mgFaults, mgTakenOver>>

\* No run takes longer than the TTL: only the lock of a dead one grows old.
MgWorking(r) == mgRunner[r].pc \in {"load", "next", "statement", "release"}
MgLockAges ==
  /\ mgLock # NoMgLock /\ ~mgLock.old
  /\ ~MgWorking(mgLock.by)
  /\ mgLock' = [mgLock EXCEPT !.old = TRUE]
  /\ UNCHANGED <<MgSchema, mgRunner, mgFaults, mgTakenOver>>

-----------------------------------------------------------------------------
(* apply_migrations and rollback_migrations *)

\* Migrations are applied in the order of the manifest and rolled back in reverse.
MgIsNext(run, v) ==
  /\ v \in run.todo
  /\ \A w \in run.todo : IF run.command = "apply" THEN v <= w ELSE v >= w

\* _check_history
MgHistoryMatches == \A v \in MgApplied : mgJournal[v].checksum = mgFile[v]

MgPending(target) == {v \in MgVersion \ MgApplied : v <= target}

\* to_revert
MgReverted(target) == {v \in MgApplied : v > target}

\* An applied file that was changed ends the run before its first statement.
MgLoad(r) ==
  /\ MgAt(r, "load")
  /\ IF ~MgHistoryMatches THEN MgGoes(r, "release")
     ELSE mgRunner' = [mgRunner EXCEPT ![r] = [mgRunner[r] EXCEPT
            !.pc = "next",
            !.todo = IF mgRunner[r].command = "apply" THEN MgPending(mgRunner[r].target)
                     ELSE MgReverted(mgRunner[r].target)]]
  /\ UNCHANGED <<mgLock, MgSchema, mgFaults, mgTakenOver>>

\* The attempt of a migration is journaled, that of a rollback is not.
MgBegin(r) ==
  /\ MgAt(r, "next")
  /\ \E v \in MgVersion :
       /\ MgIsNext(mgRunner[r], v)
       /\ IF mgRunner[r].command = "apply"
          THEN MgRecord(v, "started") /\ UNCHANGED mgHalf
          ELSE mgHalf' = mgHalf \cup {v} /\ UNCHANGED mgJournal
       /\ mgRunner' = [mgRunner EXCEPT ![r] =
            [mgRunner[r] EXCEPT !.pc = "statement", !.version = v, !.next = 1]]
  /\ UNCHANGED <<mgLock, mgFile, mgLevel, mgFaults, mgTakenOver>>

MgStatement(r) ==
  LET v == mgRunner[r].version
      i == mgRunner[r].next
      left == MgStatements - i IN
  /\ MgAt(r, "statement")
  /\ i <= MgStatements
  /\ mgLevel' = [mgLevel EXCEPT ![v] =
       IF mgRunner[r].command = "apply" THEN (IF mgLevel[v] < i THEN i ELSE mgLevel[v])
       ELSE (IF mgLevel[v] > left THEN left ELSE mgLevel[v])]
  /\ mgRunner' = [mgRunner EXCEPT ![r].next = i + 1]
  /\ UNCHANGED <<mgLock, mgJournal, mgFile, mgFaults, mgTakenOver, mgHalf>>

\* verify_postconditions, and the record; without it the attempt has failed.
MgRecorded(r) ==
  LET v == mgRunner[r].version
      apply == mgRunner[r].command = "apply" IN
  /\ MgAt(r, "statement")
  /\ mgRunner[r].next > MgStatements
  /\ IF apply /\ mgLevel[v] < MgStatements
     THEN MgRecord(v, "failed") /\ MgGoes(r, "release")
     ELSE /\ MgRecord(v, IF apply THEN "applied" ELSE "rolled_back")
          /\ mgRunner' = [mgRunner EXCEPT ![r] =
               [mgRunner[r] EXCEPT !.pc = "next", !.todo = @ \ {v}, !.version = 0]]
  /\ mgHalf' = mgHalf \ {v}
  /\ UNCHANGED <<mgLock, mgFile, mgLevel, mgFaults, mgTakenOver>>

MgFinished(r) ==
  /\ MgAt(r, "next")
  /\ mgRunner[r].todo = {}
  /\ MgGoes(r, "release")
  /\ UNCHANGED <<mgLock, MgSchema, mgFaults, mgTakenOver>>

\* A statement raises: a migration is journaled as failed, a rollback is not.
MgFails(r) ==
  /\ MgAt(r, "statement")
  /\ mgFaults < MaxMgFaults
  /\ mgFaults' = mgFaults + 1
  /\ IF mgRunner[r].command = "apply"
     THEN MgRecord(mgRunner[r].version, "failed") ELSE UNCHANGED mgJournal
  /\ MgGoes(r, "release")
  /\ UNCHANGED <<mgLock, mgFile, mgLevel, mgTakenOver, mgHalf>>

\* The process dies, or the insert of the holder fails: the lock stays.
MgCrash(r) ==
  /\ MgWorking(r)
  /\ mgFaults < MaxMgFaults
  /\ mgFaults' = mgFaults + 1
  /\ MgEnds(r)
  /\ UNCHANGED <<mgLock, MgSchema, mgTakenOver>>

MgStep(r) ==
  \/ MgCreate(r) \/ MgAge(r) \/ MgDrop(r) \/ MgLoad(r) \/ MgBegin(r)
  \/ MgStatement(r) \/ MgRecorded(r) \/ MgFinished(r) \/ MgRelease(r)

MgNext ==
  \/ \E r \in MgRunners : \/ \E t \in 1..MgVersions : MgStart(r, "apply", t)
                          \/ \E t \in 0..MgVersions - 1 : MgStart(r, "rollback", t)
                          \/ MgStep(r) \/ MgFails(r) \/ MgCrash(r)
  \/ \E v \in MgVersion : MgEdit(v)
  \/ MgLockAges

MgSpec == MgInit /\ [][MgNext]_mgVars

-----------------------------------------------------------------------------
(* Properties. *)

\* The lock keeps two runs from migrating at the same time.
OneRunner == \A r, s \in MgRunners : MgWorking(r) /\ MgWorking(s) => r = s

\* It does so as long as no stale lock has been taken over.
OneRunnerAlone == ~mgTakenOver => OneRunner

\* The journal says applied only of what is in the schema, whatever was broken off and
\* resumed; a rollback that broke off is the exception.
JournalTrue ==
  ~mgTakenOver => \A v \in MgApplied \ mgHalf : mgLevel[v] = MgStatements

\* Versions are applied in order and rolled back in the opposite order: after any runs, failed
\* and dead ones included, what is applied has no gap.
NoGap == ~mgTakenOver => \A v \in MgApplied : \A w \in 1..v : w \in MgApplied

\* A lock does not outlast its run for good: the next runs take it over.
LockEnds == mgLock # NoMgLock ~> mgLock = NoMgLock

\* One runner, a true journal, no gap: the schema under overlapping, failing and dying runs.
SchemaSound == MgTypeOK /\ OneRunnerAlone /\ JournalTrue /\ NoGap

\* From a sound schema every step leads to a sound one, and no statement runs while the file
\* of an applied version differs from what was applied.
SchemaKept ==
  /\ SchemaSound
  /\ [][/\ SchemaSound'
        /\ (\E v \in MgApplied : mgJournal[v].checksum # mgFile[v]) => UNCHANGED mgLevel]_mgVars
=============================================================================
