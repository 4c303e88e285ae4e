------------------------------ MODULE Collector ------------------------------
(***************************************************************************)
(* Collecting one dataset of one account from a marketplace into the raw   *)
(* table and the history archive (workers/app/utils/collection.py and the  *)
(* collectors of workers/app/tasks), under the Redis lock of the source    *)
(* (workers/app/utils/locking.py, renewed by a thread), from the watermark *)
(* of the source (workers/app/utils/watermarks.py) to now.                 *)
(*                                                                         *)
(* Style says whose tasks they are:                                        *)
(*   wb    collect_incremental and collect_backfill: the watermark is the  *)
(*         last change among the rows, a backfill goes day by day and does *)
(*         not touch it;                                                   *)
(*   ozon  _collect_postings: the watermark is the time of the run, for a  *)
(*         backfill too;                                                   *)
(*   ym    _collect and _orders: the watermark is the time of the run, a   *)
(*         backfill leaves it, and the lock is looked at again; how far    *)
(*         back a run starts differs (_order_stats two days, _orders none).*)
(*                                                                         *)
(* An object of the marketplace has one version at a time, known by the    *)
(* second of its last change; the API shows a change up to Delay seconds   *)
(* late.  A second is the unit of time.  The raw table shows the row that  *)
(* was written last (ReplacingMergeTree by ingested_at), the history keeps *)
(* every version it was given.                                             *)
(***************************************************************************)
EXTENDS Integers, FiniteSets

CONSTANTS
  Runs,           \* worker slots: a slot runs one delivery of a task after another
  NoRun,          \* nobody holds the lock
  Objects,        \* the objects of the dataset: sales, orders, postings
  Styles,         \* the styles modelled, of {"wb", "ozon", "ym"}
  Horizon,        \* bound: the last second; shorter than the 48 hours of a first sync
  Lookback,       \* per style: how far before the watermark a collection starts
  Delay,          \* per style: how late the API may show a change
  MaxFaults,      \* bound: exceptions, crashes and lapses
  LeaseMayLapse   \* whether a run may lose its lock in spite of the renewal

ASSUME NoRunIsNoRun == NoRun \notin Runs
ASSUME StylesKnown == Styles \subseteq {"wb", "ozon", "ym"}
ASSUME TimesAreNumbers == {Horizon, MaxFaults} \subseteq Nat
ASSUME DelaysAreNumbers == Lookback \in [Styles -> Nat] /\ Delay \in [Styles -> Nat]
ASSUME LapseIsFlag == LeaseMayLapse \in BOOLEAN

VARIABLES
  style,     \* whose tasks they are
  now,       \* the time
  changed,   \* per object: the time of its last change, or None
  shown,     \* per object: the version the API shows, or None
  raw,       \* per object: the version in the raw table, or None
  archive,   \* the versions committed to the history
  marks,     \* the newest rows of sys_watermarks: [ts, at], one second's
  lock,      \* the slot whose token is in Redis, or NoRun
  pc,        \* per slot: where its run is
  kind,      \* per slot: "incremental" or "backfill"
  from,      \* per slot: the start of its fetch, or its day
  upto,      \* per slot: the time of its run, later the watermark it asks for
  batch,     \* per slot: the rows it has fetched
  faults     \* exceptions, crashes and lapses so far

market == <<now, changed, shown>>
store == <<raw, archive, marks>>
slots == <<pc, kind, from, upto, batch>>
vars == <<style, market, store, lock, slots, faults>>

None == -1
Times == 0..Horizon
Versions == Objects \X Times
Places == {"idle", "read", "day", "fetch", "fetched", "insert", "archive", "stored",
           "compare", "save", "finish"}

Init ==
  /\ style \in Styles
  /\ now = 0
  /\ changed = [o \in Objects |-> None]
  /\ shown = [o \in Objects |-> None]
  /\ raw = shown
  /\ archive = {}
  /\ marks = {}
  /\ lock = NoRun
  /\ pc = [r \in Runs |-> "idle"]
  /\ kind = [r \in Runs |-> "incremental"]
  /\ from = [r \in Runs |-> 0]
  /\ upto = [r \in Runs |-> 0]
  /\ batch = [r \in Runs |-> {}]
  /\ faults = 0

-----------------------------------------------------------------------------
(* The marketplace and its API *)

Tick ==
  /\ now < Horizon
  /\ \A o \in Objects : changed[o] # shown[o] => now < changed[o] + Delay[style]
  /\ now' = now + 1
  /\ UNCHANGED <<style, changed, shown, store, lock, slots, faults>>

Change(o) ==
  /\ changed[o] # now
  /\ changed' = [changed EXCEPT ![o] = now]
  /\ UNCHANGED <<style, now, shown, store, lock, slots, faults>>

Show(o) ==
  /\ shown[o] # changed[o]
  /\ shown' = [shown EXCEPT ![o] = changed[o]]
  /\ UNCHANGED <<style, now, changed, store, lock, slots, faults>>

-----------------------------------------------------------------------------
(* Watermarks *)

\* get_watermark: the newest row, any of them when a second has several; with none
\* a boundary 48 hours ago, which is before everything here.
Watermarks == IF marks = {} THEN {-1} ELSE {m.ts : m \in marks}

\* set_watermark's INSERT; updated_at has the precision of a second.
Write(t) == {m \in marks : m.at = now} \cup {[ts |-> t, at |-> now]}

-----------------------------------------------------------------------------
(* The lock *)

Go(r, place) == pc' = [pc EXCEPT ![r] = place]

\* lock_scope, entered; a run that finds the lock taken returns "skipped" and is
\* as if it had not been delivered.
Acquire(r, k) ==
  /\ pc[r] = "idle"
  /\ lock = NoRun
  /\ lock' = r
  /\ kind' = [kind EXCEPT ![r] = k]
  /\ Go(r, "read")
  /\ UNCHANGED <<style, market, store, from, upto, batch, faults>>

Released(r) == IF lock = r THEN NoRun ELSE lock

\* What a run leaves behind in its process.
Forget(r) ==
  /\ Go(r, "idle")
  /\ kind' = [kind EXCEPT ![r] = "incremental"]
  /\ from' = [from EXCEPT ![r] = 0]
  /\ upto' = [upto EXCEPT ![r] = 0]
  /\ batch' = [batch EXCEPT ![r] = {}]

\* The end of lock_scope: the token is compared before the key is deleted.
Finish(r) ==
  /\ pc[r] = "finish"
  /\ lock' = Released(r)
  /\ Forget(r)
  /\ UNCHANGED <<style, market, store, faults>>

\* ensure_held: the token in Redis is still this run's, or the run fails.
EnsureHeld(r, at, place) ==
  /\ pc[r] = at
  /\ lock = r
  /\ Go(r, place)
  /\ UNCHANGED <<style, market, store, lock, kind, from, upto, batch, faults>>

LockLost(r) ==
  /\ pc[r] \in {"day", "fetched", "stored"}
  /\ lock # r
  /\ Forget(r)
  /\ UNCHANGED <<style, market, store, lock, faults>>

\* The key outlives a dead holder until its TTL is over.
LockExpires ==
  /\ lock # NoRun
  /\ pc[lock] = "idle"
  /\ lock' = NoRun
  /\ UNCHANGED <<style, market, store, slots, faults>>

\* The renewing thread keeps the key of a run that goes on, unless it dies, Redis loses
\* the key, or the worker stands still for longer than the TTL.
LeaseLapses ==
  /\ LeaseMayLapse
  /\ lock # NoRun
  /\ pc[lock] # "idle"
  /\ faults < MaxFaults
  /\ faults' = faults + 1
  /\ lock' = NoRun
  /\ UNCHANGED <<style, market, store, slots>>

-----------------------------------------------------------------------------
(* A run *)

\* Where it starts: the watermark less the overlap, or the day a backfill is asked for.
Read(r) ==
  /\ pc[r] = "read"
  /\ \E start \in IF kind[r] = "backfill" THEN 0..now ELSE {w - Lookback[style] : w \in Watermarks} :
       from' = [from EXCEPT ![r] = start]
  /\ upto' = [upto EXCEPT ![r] = now]
  /\ Go(r, IF style = "wb" /\ kind[r] = "backfill" THEN "day" ELSE "fetch")
  /\ UNCHANGED <<style, market, store, lock, kind, batch, faults>>

\* Mutant: what changed in the very second of the watermark is not asked for.
RowsAfter(r) ==
  {v \in Versions :
     /\ shown[v[1]] = v[2] /\ v[2] > from[r]
     /\ IF style = "wb" THEN kind[r] = "backfill" => v[2] = from[r]
                       ELSE v[2] <= upto[r]}

\* What the API returns: a day of a backfill, or everything since the start.
RowsSince(r) ==
  {v \in Versions :
     /\ shown[v[1]] = v[2] /\ v[2] >= from[r]
     /\ IF style = "wb" THEN kind[r] = "backfill" => v[2] = from[r]
                       ELSE v[2] <= upto[r]}

Fetch(r) ==
  /\ pc[r] = "fetch"
  /\ batch' = [batch EXCEPT ![r] = RowsSince(r)]
  /\ Go(r, IF style = "ym" THEN "fetched" ELSE "insert")
  /\ UNCHANGED <<style, market, store, lock, kind, from, upto, faults>>

\* The table after the rows are written to it.
Overwrite(table, rows) ==
  [o \in Objects |-> IF \E t \in Times : <<o, t>> \in rows
                     THEN CHOOSE t \in Times : <<o, t>> \in rows ELSE table[o]]

\* insert_rows, first half: the raw table.
Insert(r) ==
  /\ pc[r] = "insert"
  /\ raw' = Overwrite(raw, batch[r])
  /\ Go(r, "archive")
  /\ UNCHANGED <<style, market, archive, marks, lock, kind, from, upto, batch, faults>>

\* After insert_rows: the watermark, the next day, or the end.
AfterRows(r) ==
  CASE style = "ym"                           -> "stored"
    [] style = "ozon"                         -> "compare"
    [] style = "wb" /\ kind[r] = "backfill"   -> IF from[r] < upto[r] THEN "day" ELSE "finish"
    [] style = "wb" /\ kind[r] # "backfill"   -> IF batch[r] = {} THEN "finish" ELSE "compare"

\* Mutant: the time at which the rows are in, not that of the run.
CandidatesLate(r) == {now}

\* The watermark a run asks for: the last change of its rows, or the time of the run.
Candidates(r) ==
  IF style = "wb" /\ batch[r] # {}
  THEN {v[2] : v \in {w \in batch[r] : \A x \in batch[r] : x[2] <= w[2]}}
  ELSE {upto[r]}

\* insert_rows, second half: archive_rows, into the history.
Archive(r) ==
  /\ pc[r] = "archive"
  /\ archive' = archive \cup batch[r]
  /\ Go(r, AfterRows(r))
  /\ IF AfterRows(r) = "day"
     THEN from' = [from EXCEPT ![r] = @ + 1] /\ UNCHANGED upto
     ELSE /\ from' = [from EXCEPT ![r] = 0]
          /\ \E t \in Candidates(r) : upto' = [upto EXCEPT ![r] = t]
  /\ batch' = [batch EXCEPT ![r] = {}]
  /\ UNCHANGED <<style, market, raw, marks, lock, kind, faults>>

\* Mutant: the lock is let go before the watermark is written.
CompareUnlocked(r) ==
  /\ pc[r] = "compare"
  /\ \E w \in Watermarks : Go(r, IF upto[r] > w THEN "save" ELSE "finish")
  /\ lock' = Released(r)
  /\ UNCHANGED <<style, market, store, kind, from, upto, batch, faults>>

\* set_watermark: a candidate that is not after the current watermark is dropped.
Compare(r) ==
  /\ pc[r] = "compare"
  /\ \E w \in Watermarks : Go(r, IF upto[r] > w THEN "save" ELSE "finish")
  /\ UNCHANGED <<style, market, store, lock, kind, from, upto, batch, faults>>

Save(r) ==
  /\ pc[r] = "save"
  /\ marks' = Write(upto[r])
  /\ Go(r, "finish")
  /\ UNCHANGED <<style, market, raw, archive, lock, kind, from, upto, batch, faults>>

\* An exception anywhere: the task is logged as failed and the lock is released.
Fail(r) ==
  /\ pc[r] # "idle"
  /\ faults < MaxFaults
  /\ faults' = faults + 1
  /\ lock' = Released(r)
  /\ Forget(r)
  /\ UNCHANGED <<style, market, store>>

\* The worker dies: the lock stays until its TTL is over.
Crash(r) ==
  /\ pc[r] # "idle"
  /\ faults < MaxFaults
  /\ faults' = faults + 1
  /\ Forget(r)
  /\ UNCHANGED <<style, market, store, lock>>

Collect(r) ==
  \/ Read(r)
  \/ EnsureHeld(r, "day", "fetch")
  \/ Fetch(r)
  \/ EnsureHeld(r, "fetched", "insert")
  \/ Insert(r) \/ Archive(r)
  \/ EnsureHeld(r, "stored", IF kind[r] = "backfill" THEN "finish" ELSE "compare")
  \/ Compare(r) \/ Save(r) \/ Finish(r) \/ LockLost(r)

Next ==
  \/ Tick \/ LockExpires \/ LeaseLapses
  \/ \E o \in Objects : Change(o) \/ Show(o)
  \/ \E r \in Runs, k \in {"incremental", "backfill"} : Acquire(r, k)
  \/ \E r \in Runs : Collect(r) \/ Fail(r) \/ Crash(r)

Spec == Init /\ [][Next]_vars

\* A run that is going ends, a key whose TTL is over goes, and of the deliveries the
\* beat makes again and again some find the lock free.
Fairness ==
  /\ WF_vars(LockExpires)
  /\ \A r \in Runs : WF_vars(Collect(r))
  /\ SF_vars(\E r \in Runs : Acquire(r, "incremental"))
FairSpec == Spec /\ Fairness

-----------------------------------------------------------------------------
TypeOK ==
  /\ style \in Styles
  /\ now \in Times
  /\ changed \in [Objects -> Times \cup {None}]
  /\ shown \in [Objects -> Times \cup {None}]
  /\ raw \in [Objects -> Times \cup {None}]
  /\ archive \subseteq Versions
  /\ marks \subseteq [ts : Times, at : Times]
  /\ lock \in Runs \cup {NoRun}
  /\ pc \in [Runs -> Places]
  /\ kind \in [Runs -> {"incremental", "backfill"}]
  /\ from \in [Runs -> Int]
  /\ upto \in [Runs -> Times]
  /\ batch \in [Runs -> SUBSET Versions]
  /\ faults \in 0..MaxFaults

\* No later run asks for the version of o the API shows: it is before any start a run may
\* read from sys_watermarks.
Passed(o) == shown[o] # None /\ \E m \in marks : shown[o] < m.ts - Lookback[style]

\* What the watermark has passed is in the raw table, and is what the table shows.
NothingSkipped == \A o \in Objects : Passed(o) => raw[o] = shown[o]

\* What the watermark has passed is in the history, even when two runs overlap and one
\* writes old rows over new ones: insert_rows archives before the watermark moves.
HistoryComplete == \A o \in Objects : Passed(o) => <<o, shown[o]>> \in archive

\* set_watermark "only if it is greater than the current value", across two statements
\* and a column of whole seconds: no watermark is ever behind another.
MarksForward ==
  [][\A m \in marks, n \in marks' \ marks : n.ts >= m.ts]_vars

\* Once the faults are over, what the API shows comes to be in the history.
AllCollected ==
  <>[](\A o \in Objects : shown[o] # None => <<o, shown[o]>> \in archive)

\* What the watermark has passed is in the raw table, and states are of their type.
CollectedSound == TypeOK /\ NothingSkipped
=============================================================================
