----------------------------- MODULE QueryCache -----------------------------
(***************************************************************************)
(* The read-through cache of analytics results (backend/app/services/      *)
(* query_cache.py) against the rebuilds that invalidate it (common/        *)
(* query_cache.py, called by workers/app/tasks/marts.py).  One query; the  *)
(* marts are a number that grows with each statement of a rebuild.         *)
(***************************************************************************)
EXTENDS Naturals

CONSTANTS
  QcReaders,        \* requests that may be under way at once
  QcTtl,            \* BACKEND_CACHE_TTL in ticks
  QcBackoff,        \* _ERROR_BACKOFF_SECONDS in ticks
  NoEntry,
  QcHorizon,        \* bound: the last tick
  MaxQcStatements,  \* bound: statements of rebuilds
  MaxQcErrors       \* bound: Redis errors

ASSUME QcAssumption ==
  /\ QcTtl \in Nat \ {0} /\ QcBackoff \in Nat
  /\ QcHorizon \in Nat /\ MaxQcStatements \in Nat /\ MaxQcErrors \in Nat

VARIABLES
  qcMarts,          \* the marts after so many statements
  qcPending,        \* rebuilds that are done and have yet to bump the generation
  qcGeneration,     \* GENERATION_KEY
  qcEntry,          \* the entry of the query, NoEntry without one
  qcReader,         \* requests
  qcDisabled,       \* _disabled_until: the cache is off before this tick
  qcNow,
  qcErrors,         \* Redis errors so far
  qcBumped          \* the marts at the last bump that succeeded

qcVars == <<qcMarts, qcPending, qcGeneration, qcEntry, qcReader, qcDisabled, qcNow, qcErrors, qcBumped>>

QcEntries == [generation: Nat, rows: Nat, until: Nat]
QcIdle == [pc |-> "idle", generation |-> 0, rows |-> 0]

QcTypeOK ==
  /\ qcMarts \in 0..MaxQcStatements
  /\ qcPending \in 0..qcMarts
  /\ qcGeneration \in Nat
  /\ qcEntry \in QcEntries \cup {NoEntry}
  /\ qcReader \in [QcReaders -> [pc: {"idle", "lookup", "compute", "store", "bypass"},
                                 generation: Nat, rows: Nat]]
  /\ qcDisabled \in Nat /\ qcNow \in 0..QcHorizon
  /\ qcErrors \in 0..MaxQcErrors
  /\ qcBumped \in 0..qcMarts

QcInit ==
  /\ qcMarts = 0 /\ qcPending = 0
  /\ qcGeneration = 0 /\ qcEntry = NoEntry
  /\ qcReader = [r \in QcReaders |-> QcIdle]
  /\ qcDisabled = 0 /\ qcNow = 0
  /\ qcErrors = 0 /\ qcBumped = 0

\* An entry is dropped when its TTL is over.
QcTick ==
  /\ qcNow < QcHorizon
  /\ qcNow' = qcNow + 1
  /\ qcEntry' = IF qcEntry # NoEntry /\ qcEntry.until <= qcNow' THEN NoEntry ELSE qcEntry
  /\ UNCHANGED <<qcMarts, qcPending, qcGeneration, qcReader, qcDisabled, qcErrors, qcBumped>>

-----------------------------------------------------------------------------
(* A rebuild of the marts, and the bump after it, which never raises.  The lock of  *)
(* the rebuilds is free again before the bump: the next one may have begun.          *)

\* A statement, the last one of its rebuild or not: a rebuild that fails or dies in the
\* middle bumps nothing.
MartStatement ==
  /\ qcMarts < MaxQcStatements
  /\ qcMarts' = qcMarts + 1
  /\ qcPending' \in {qcPending, qcPending + 1}
  /\ UNCHANGED <<qcGeneration, qcEntry, qcReader, qcDisabled, qcNow, qcErrors, qcBumped>>

BumpGeneration ==
  /\ qcPending > 0
  /\ qcPending' = qcPending - 1
  /\ qcGeneration' = qcGeneration + 1
  /\ qcBumped' = qcMarts
  /\ UNCHANGED <<qcMarts, qcEntry, qcReader, qcDisabled, qcNow, qcErrors>>

\* INCR fails, or the task dies before it.
BumpMissed ==
  /\ qcPending > 0
  /\ qcErrors < MaxQcErrors
  /\ qcErrors' = qcErrors + 1
  /\ qcPending' = qcPending - 1
  /\ UNCHANGED <<qcMarts, qcGeneration, qcEntry, qcReader, qcDisabled, qcNow, qcBumped>>

-----------------------------------------------------------------------------
(* get_or_compute *)

QcAt(r, pc) == qcReader[r].pc = pc
QcGoes(r, from, to) == /\ QcAt(r, from)
                       /\ qcReader' = [qcReader EXCEPT ![r].pc = to]
QcReturns(r) == qcReader' = [qcReader EXCEPT ![r] = QcIdle]
QcServer == <<qcMarts, qcPending, qcGeneration, qcNow, qcBumped>>

\* An entry of an older generation is a miss.
QcCurrent == qcEntry # NoEntry /\ qcEntry.generation = qcGeneration

QcRequest(r) ==
  /\ QcGoes(r, "idle", IF qcNow >= qcDisabled THEN "lookup" ELSE "bypass")
  /\ UNCHANGED <<QcServer, qcEntry, qcDisabled, qcErrors>>

\* One MGET reads the generation and the entry.
QcHit(r) ==
  /\ QcAt(r, "lookup")
  /\ QcCurrent
  /\ QcReturns(r)
  /\ UNCHANGED <<QcServer, qcEntry, qcDisabled, qcErrors>>

QcMiss(r) ==
  /\ QcAt(r, "lookup")
  /\ ~QcCurrent
  /\ qcReader' = [qcReader EXCEPT ![r].pc = "compute", ![r].generation = qcGeneration]
  /\ UNCHANGED <<QcServer, qcEntry, qcDisabled, qcErrors>>

QcCompute(r) ==
  /\ QcAt(r, "compute")
  /\ qcReader' = [qcReader EXCEPT ![r].pc = "store", ![r].rows = qcMarts]
  /\ UNCHANGED <<QcServer, qcEntry, qcDisabled, qcErrors>>

\* Mutant: an entry gets the generation of when it is stored.
QcEntryGenerationNow(r) == qcGeneration

\* The generation read before the query ran.
QcEntryGeneration(r) == qcReader[r].generation

QcStore(r) ==
  /\ QcAt(r, "store")
  /\ qcEntry' = [generation |-> QcEntryGeneration(r), rows |-> qcReader[r].rows,
                 until |-> qcNow + QcTtl]
  /\ QcReturns(r)
  /\ UNCHANGED <<QcServer, qcDisabled, qcErrors>>

\* Larger than max_entry_bytes: returned and not stored.
QcOversize(r) ==
  /\ QcAt(r, "store")
  /\ QcReturns(r)
  /\ UNCHANGED <<QcServer, qcEntry, qcDisabled, qcErrors>>

QcBypass(r) ==
  /\ QcAt(r, "bypass")
  /\ QcReturns(r)
  /\ UNCHANGED <<QcServer, qcEntry, qcDisabled, qcErrors>>

\* _fail: the cache stays off for a while, the query is answered without it.
QcError(r) ==
  /\ qcReader[r].pc \in {"lookup", "store"}
  /\ qcErrors < MaxQcErrors
  /\ qcErrors' = qcErrors + 1
  /\ qcDisabled' = qcNow + QcBackoff
  /\ QcGoes(r, qcReader[r].pc, "bypass")
  /\ UNCHANGED <<QcServer, qcEntry>>

QcStep(r) == QcHit(r) \/ QcMiss(r) \/ QcCompute(r) \/ QcStore(r) \/ QcBypass(r)

QcNext ==
  \/ \E r \in QcReaders : QcRequest(r) \/ QcStep(r) \/ QcOversize(r) \/ QcError(r)
  \/ MartStatement \/ BumpGeneration \/ BumpMissed \/ QcTick

QcSpec == QcInit /\ [][QcNext]_qcVars

-----------------------------------------------------------------------------
(* Properties. *)

\* After a bump no hit returns rows of before it, whenever they were computed or stored: an
\* entry of the current generation holds the marts of the last bump or later ones.
NoStaleHit ==
  QcCurrent => qcEntry.rows >= qcBumped

\* A query whose generation is the current one has not looked at the marts of before the bump.
QcInFlight ==
  \A r \in QcReaders :
    (QcAt(r, "store") /\ qcReader[r].generation = qcGeneration) => qcReader[r].rows >= qcBumped

\* The cache fails open: a request ends whether Redis answers or not.
QcAnswers == \A r \in QcReaders : qcReader[r].pc # "idle" ~> qcReader[r].pc = "idle"
=============================================================================
