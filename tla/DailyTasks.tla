----------------------------- MODULE DailyTasks -----------------------------
(***************************************************************************)
(* The collectors of what a marketplace reports by the day: accruals,      *)
(* balances, realization lines, funnels, advertising.  The marketplace     *)
(* corrects a day for a while, so a run reads the last days again.  Two    *)
(* ways to choose where it starts are in the code: from the watermark of   *)
(* the last run (ozon_finance, the reports of Yandex Market), which reads  *)
(* further back after a stall, and from today (WB sales report and funnel, *)
(* Ozon balance and advertising), which does not.  A backfill starts where *)
(* the operator says, and that of Ozon writes the watermark too.  A run    *)
(* holds a lock that it renews (module Collector has runs that lose        *)
(* theirs).                                                                *)
(***************************************************************************)
EXTENDS Integers

CONSTANTS
  WtMarked,    \* sources that start from their watermark
  WtFixed,     \* sources that start a fixed number of days back
  WtLookback,  \* days a run reads again
  WtCorrected, \* days for which the marketplace still corrects a day
  WtMarkedBy,  \* sources whose backfills write their watermark
  WtBackfills, \* the windows, in days, of the backfills an operator starts
  WtLastDay,   \* bound: days of the model
  WtVersions,  \* bound: versions of a day
  MaxWtFaults  \* bound: runs that fail

WtSources == WtMarked \cup WtFixed
WtDays == 1..WtLastDay

ASSUME WtAssumption ==
  /\ WtMarked \cap WtFixed = {} /\ WtMarkedBy \subseteq WtSources
  /\ WtLookback \in Nat /\ WtCorrected \in Nat /\ WtCorrected <= WtLookback
  /\ WtLastDay \in Nat \ {0} /\ WtVersions \in Nat \ {0} /\ MaxWtFaults \in Nat
  /\ WtBackfills \subseteq Nat \ {0}

VARIABLES
  wtToday,   \* the day
  wtVersion, \* the version of each day's figures at the marketplace
  wtKept,    \* the version of each day in the raw table of a source; 0, none
  wtMark,    \* the day of the start of a source's last run, its watermark if it goes by one
  wtRun,     \* the run of a source: its first day, the one to read next and the last one, if it
             \* starts from the watermark, and if it writes it; or idle
  wtPassed,  \* the days a source has left out, kept for checking
  wtFaults
wtVars == <<wtToday, wtVersion, wtKept, wtMark, wtRun, wtPassed, wtFaults>>

WtIdle == [from |-> 1, next |-> 1, to |-> 0, since |-> FALSE, marks |-> FALSE]
WtRunning(s) == wtRun[s].to # 0
WtFrom(day) == IF day < 1 THEN 1 ELSE day

WtInit ==
  /\ wtToday = 1
  /\ wtVersion = [d \in WtDays |-> 1]
  /\ wtKept = [s \in WtSources |-> [d \in WtDays |-> 0]]
  /\ wtMark = [s \in WtSources |-> 1]
  /\ wtRun = [s \in WtSources |-> WtIdle]
  /\ wtPassed = [s \in WtSources |-> {}]
  /\ wtFaults = 0

\* A day passes, with a run of each source or without.
WtTick ==
  /\ wtToday < WtLastDay
  /\ wtToday' = wtToday + 1
  /\ UNCHANGED <<wtVersion, wtKept, wtMark, wtRun, wtPassed, wtFaults>>

\* The marketplace corrects the figures of a recent day.
WtCorrect(d) ==
  /\ d <= wtToday /\ wtToday - d <= WtCorrected /\ wtVersion[d] < WtVersions
  /\ wtVersion' = [wtVersion EXCEPT ![d] = @ + 1]
  /\ UNCHANGED <<wtToday, wtKept, wtMark, wtRun, wtPassed, wtFaults>>

-----------------------------------------------------------------------------
WtBegin(s, from, since, marks) ==
  /\ ~WtRunning(s)
  /\ wtRun' = [wtRun EXCEPT ![s] = [from |-> WtFrom(from), next |-> WtFrom(from), to |-> wtToday,
                                    since |-> since, marks |-> marks]]
  /\ UNCHANGED <<wtToday, wtVersion, wtKept, wtMark, wtPassed, wtFaults>>

\* Mutant: the window ends today, however long the source stood still.
WtSinceToday(s) == wtToday - WtLookback
WtSince(s) == wtMark[s] - WtLookback
MarkedStart(s) == s \in WtMarked /\ WtBegin(s, WtSince(s), TRUE, TRUE)
FixedStart(s) == s \in WtFixed /\ WtBegin(s, wtToday - WtLookback, FALSE, TRUE)
BackfillStart(s, days) == WtBegin(s, wtToday - days, FALSE, s \in WtMarkedBy)

\* One request, one insert; the next day follows.
WtReadDay(s) ==
  /\ WtRunning(s) /\ wtRun[s].next <= wtRun[s].to
  /\ wtKept' = [wtKept EXCEPT ![s][wtRun[s].next] = wtVersion[wtRun[s].next]]
  /\ wtRun' = [wtRun EXCEPT ![s].next = @ + 1]
  /\ UNCHANGED <<wtToday, wtVersion, wtMark, wtPassed, wtFaults>>

\* The days that were not final at the mark of a source and that come before a run which writes
\* the mark anew without starting from it.
WtLeftOut(s) ==
  {d \in WtDays : wtRun[s].marks /\ ~wtRun[s].since /\ d + WtCorrected >= wtMark[s]}

\* The watermark is written once, after the last day, as the day of the start.
WtFinish(s) ==
  /\ WtRunning(s) /\ wtRun[s].next > wtRun[s].to
  /\ wtMark' = IF wtRun[s].marks THEN [wtMark EXCEPT ![s] = wtRun[s].to] ELSE wtMark
  /\ wtPassed' = [wtPassed EXCEPT ![s] =
       {d \in wtPassed[s] \cup WtLeftOut(s) : d < wtRun[s].from}]
  /\ wtRun' = [wtRun EXCEPT ![s] = WtIdle]
  /\ UNCHANGED <<wtToday, wtVersion, wtKept, wtFaults>>

\* An exception, a section the token may not read, or a crash of the worker.
WtFail(s) ==
  /\ WtRunning(s) /\ wtFaults < MaxWtFaults
  /\ wtFaults' = wtFaults + 1
  /\ wtRun' = [wtRun EXCEPT ![s] = WtIdle]
  /\ UNCHANGED <<wtToday, wtVersion, wtKept, wtMark, wtPassed>>

WtScheduled(s) == MarkedStart(s) \/ FixedStart(s)
WtStep(s) == WtReadDay(s) \/ WtFinish(s)
WtNext ==
  \/ WtTick
  \/ \E d \in WtDays : WtCorrect(d)
  \/ \E s \in WtSources : WtScheduled(s) \/ WtStep(s) \/ WtFail(s)
  \/ \E s \in WtSources, n \in WtBackfills : BackfillStart(s, n)

WtSpec == WtInit /\ [][WtNext]_wtVars

-----------------------------------------------------------------------------
\* Type correctness.
WtTypeOK ==
  /\ wtToday \in WtDays
  /\ wtVersion \in [WtDays -> 1..WtVersions]
  /\ wtKept \in [WtSources -> [WtDays -> 0..WtVersions]]
  /\ wtMark \in [WtSources -> WtDays]
  /\ wtRun \in [WtSources -> [from : WtDays, next : 1..(WtLastDay + 1), to : 0..WtLastDay,
                             since : BOOLEAN, marks : BOOLEAN]]
  /\ wtPassed \in [WtSources -> SUBSET WtDays]
  /\ wtFaults \in 0..MaxWtFaults

\* What the marketplace no longer corrected when the last run began is in the raw table as it is
\* at the marketplace, whatever runs failed or came late, but for what a source has left out and
\* not read since.  A source that goes by its watermark leaves out days to a backfill that writes
\* the watermark only, however long it stood still; one that goes by today also leaves out those
\* between its last run and its window, once it stood still for longer than that covers.
FinalDaysKept ==
  \A s \in WtSources, d \in WtDays :
    d + WtCorrected < wtMark[s] /\ d \notin wtPassed[s] => wtKept[s][d] = wtVersion[d]

\* What the days of the finance reports, their marks and runs must be together.
DaysSound == WtTypeOK /\ FinalDaysKept
=============================================================================
