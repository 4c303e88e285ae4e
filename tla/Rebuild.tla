------------------------------ MODULE Rebuild -------------------------------
(***************************************************************************)
(* The destructive rebuilds of the staging tables (workers/app/tasks/      *)
(* transforms.py) and of the marts (marts.py): under one lock, delete the  *)
(* days of a window and insert them again from the layer below.  Each      *)
(* statement asks the server for today's date itself.  Between the two, a  *)
(* worker may die, a statement may fail, the day may end.                  *)
(*                                                                         *)
(* Days are numbers; a table is the set of the days it has rows of.        *)
(***************************************************************************)
EXTENDS Naturals

CONSTANTS
  RbLastDay,        \* bound: the last day
  RbRecent,         \* days of the regular rebuild (14)
  RbBackfill,       \* days of a backfill (up to 730)
  RbKeep,           \* days prune_old_raw keeps (120)
  MaxRbFaults       \* bound: crashes and failing statements

ASSUME RbAssumption ==
  /\ RbLastDay \in Nat /\ RbRecent \in Nat /\ RbBackfill \in Nat /\ RbKeep \in Nat
  /\ RbRecent <= RbKeep
  /\ MaxRbFaults \in Nat

RbDay == 0..RbLastDay
RbTask == {"transform", "marts"}
NoTask == "none"

VARIABLES
  rbToday,          \* toDate(now(), 'Europe/Moscow')
  rbRaw,            \* days with raw rows
  rbTable,          \* days in the staging tables ("transform") and the marts ("marts")
  rbClasses,        \* days with a snapshot of the ABC/XYZ classes
  rbShown,          \* days that ever had one
  rbLock,           \* lock:rebuild_pipeline:global: its holder, "dead" until its TTL is over
  rbRun,            \* the rebuild under way
  rbFaults          \* faults so far

rbVars == <<rbToday, rbRaw, rbTable, rbClasses, rbShown, rbLock, rbRun, rbFaults>>

RbIdle == [pc |-> "idle", days |-> RbRecent, began |-> 0]
RbPlace == {"idle", "delete", "insert", "drop_classes", "classes", "end"}

RbTypeOK ==
  /\ rbToday \in RbDay
  /\ rbRaw \subseteq RbDay
  /\ rbTable \in [RbTask -> SUBSET RbDay]
  /\ rbClasses \subseteq rbShown /\ rbShown \subseteq RbDay
  /\ rbLock \in RbTask \cup {NoTask, "dead"}
  /\ rbRun \in [RbTask -> [pc: RbPlace, days: {RbRecent, RbBackfill}, began: RbDay]]
  /\ rbFaults \in 0..MaxRbFaults

RbInit ==
  /\ rbToday = 0
  /\ rbRaw = {0}
  /\ rbTable = [t \in RbTask |-> {}]
  /\ rbClasses = {} /\ rbShown = {}
  /\ rbLock = NoTask
  /\ rbRun = [t \in RbTask |-> RbIdle]
  /\ rbFaults = 0

\* What a table is built from, and the window of a statement that runs now.
RbSource(t) == IF t = "transform" THEN rbRaw ELSE rbTable["transform"]
RbWindow(days) == {d \in RbDay : d + days >= rbToday}

\* Mutant: the INSERT leaves out the first day the DELETE takes.
RbInsertedOpen(days) == {d \in RbDay : d + days > rbToday}

\* The days an INSERT ... SELECT takes from its source.
RbInserted(days) == RbWindow(days)

\* rebuild_task_scope: one lock for both.
RbFree(t) == rbLock = NoTask

RbMidnight ==
  /\ rbToday < RbLastDay
  /\ rbToday' = rbToday + 1
  /\ rbRaw' = rbRaw \cup {rbToday'}
  /\ UNCHANGED <<rbTable, rbClasses, rbShown, rbLock, rbRun, rbFaults>>

PruneRaw ==
  /\ rbRaw' = {d \in rbRaw : d + RbKeep >= rbToday}
  /\ rbRaw' # rbRaw
  /\ UNCHANGED <<rbToday, rbTable, rbClasses, rbShown, rbLock, rbRun, rbFaults>>

-----------------------------------------------------------------------------
(* A rebuild.  One that finds the lock taken is skipped and changes nothing. *)

RbGoes(t, from, to) ==
  /\ rbRun[t].pc = from
  /\ rbRun' = [rbRun EXCEPT ![t].pc = to]

RbStart(t, days) ==
  /\ rbRun[t].pc = "idle"
  /\ RbFree(t)
  /\ rbLock' = t
  /\ rbRun' = [rbRun EXCEPT ![t] = [pc |-> "delete", days |-> days, began |-> rbToday]]
  /\ UNCHANGED <<rbToday, rbRaw, rbTable, rbClasses, rbShown, rbFaults>>

RbDelete(t) ==
  /\ RbGoes(t, "delete", "insert")
  /\ rbTable' = [rbTable EXCEPT ![t] = @ \ RbWindow(rbRun[t].days)]
  /\ UNCHANGED <<rbToday, rbRaw, rbClasses, rbShown, rbLock, rbFaults>>

RbInsert(t) ==
  /\ RbGoes(t, "insert", IF t = "marts" THEN "drop_classes" ELSE "end")
  /\ rbTable' = [rbTable EXCEPT ![t] = @ \cup (RbSource(t) \cap RbInserted(rbRun[t].days))]
  /\ UNCHANGED <<rbToday, rbRaw, rbClasses, rbShown, rbLock, rbFaults>>

\* Only today's classes are replaced.
DropClasses ==
  /\ RbGoes("marts", "drop_classes", "classes")
  /\ rbClasses' = rbClasses \ {rbToday}
  /\ UNCHANGED <<rbToday, rbRaw, rbTable, rbShown, rbLock, rbFaults>>

MakeClasses ==
  /\ RbGoes("marts", "classes", "end")
  /\ rbClasses' = rbClasses \cup {rbToday}
  /\ rbShown' = rbShown \cup {rbToday}
  /\ UNCHANGED <<rbToday, rbRaw, rbTable, rbLock, rbFaults>>

RbReturns(t) == rbRun' = [rbRun EXCEPT ![t] = RbIdle]

RbEnd(t) ==
  /\ rbRun[t].pc = "end"
  /\ RbReturns(t)
  /\ rbLock' = NoTask
  /\ UNCHANGED <<rbToday, rbRaw, rbTable, rbClasses, rbShown, rbFaults>>

\* A statement raises: both locks are released.  The worker dies: they stay until their TTL
\* is over, and the message that is delivered again meanwhile is skipped.
RbBreaksOff(t) ==
  /\ rbRun[t].pc # "idle"
  /\ rbFaults < MaxRbFaults
  /\ rbFaults' = rbFaults + 1
  /\ RbReturns(t)
  /\ rbLock' \in {NoTask, "dead"}
  /\ UNCHANGED <<rbToday, rbRaw, rbTable, rbClasses, rbShown>>

RbLockExpires ==
  /\ rbLock = "dead"
  /\ rbLock' = NoTask
  /\ UNCHANGED <<rbToday, rbRaw, rbTable, rbClasses, rbShown, rbRun, rbFaults>>

RbStep(t) == RbDelete(t) \/ RbInsert(t) \/ (t = "marts" /\ (DropClasses \/ MakeClasses)) \/ RbEnd(t)

RbNext ==
  \/ \E t \in RbTask : \/ RbStart(t, RbRecent) \/ RbStart(t, RbBackfill)
                       \/ RbStep(t) \/ RbBreaksOff(t)
  \/ RbMidnight \/ PruneRaw \/ RbLockExpires

RbSpec == RbInit /\ [][RbNext]_rbVars

-----------------------------------------------------------------------------
(* Properties. *)

RbQuiet == \A t \in RbTask : rbRun[t].pc = "idle"

\* A rebuild that ends on the day it began has lost no day: the days of its window that the
\* layer below has are all there.
WindowRestored ==
  \A t \in RbTask :
    (rbRun[t].pc = "end" /\ rbRun[t].began = rbToday) =>
      RbSource(t) \cap RbWindow(rbRun[t].days) \subseteq rbTable[t]

\* The class history cannot be rebuilt, so only today's is replaced: a past day that had
\* classes has them whenever no rebuild is under way.
ClassHistoryKept ==
  RbQuiet => \A d \in rbShown : d < rbToday => d \in rbClasses

\* Whatever broke off, and whenever days ended, the days of the regular window come back:
\* between two rebuilds they are in the staging tables and in the marts, and today has classes.
RecentComesBack ==
  <>[](RbQuiet => /\ \A t \in RbTask : rbRaw \cap RbWindow(RbRecent) \subseteq rbTable[t]
                  /\ rbToday \in rbClasses)
=============================================================================
